----------------------------- MODULE SsmChannel -----------------------------
(***************************************************************************)
(* The AWS SSM data channel of the SSH core:                               *)
(* services/ssh-core/internal/ssmdatachannel/data_channel.go and           *)
(* message_buffer.go.                                                      *)
(*                                                                         *)
(* Outbound, several goroutines call WriteMsg: a number is taken and the   *)
(* message tracked under mu, then it is written under writeMu.  A resend   *)
(* loop repeats the oldest tracked message until it is acknowledged or has *)
(* been tried too often.  Inbound, one goroutine reads frames, reorders    *)
(* output by number and acknowledges it.                                   *)
(*                                                                         *)
(* The path to the agent loses, repeats and reorders messages; the agent   *)
(* (external) does what the code expects of it.  A message is its number.  *)
(***************************************************************************)
EXTENDS Integers, Sequences, FiniteSets

CONSTANTS
  Writers,      \* goroutines that write input
  OutSize,      \* size of the outbound buffer (dataChannelBufferSize)
  InSize,       \* size of the inbound buffer
  MaxAttempts,  \* dataChannelResendMaxAttempts
  MaxOut, MaxIn \* bounds of the model: messages sent by us and by the agent

ASSUME SsmAssumption ==
  /\ OutSize \in Nat \ {0} /\ InSize \in Nat \ {0}
  /\ MaxAttempts \in Nat /\ MaxOut \in Nat /\ MaxIn \in Nat

VARIABLES
  seqNum, outBuf, attempts,  \* numbering, outMsgBuf in list order, outAttempts
  writer,       \* per writer: pc, the number it took, whether it was woken
  resend,       \* the resend loop: idle, about to write a number, or gone
  inSeqNum, inBuf,           \* next number expected, inMsgBuf
  hand, failed, \* the frame the reading goroutine holds; it returned an error
  delivered, late,           \* numbers handed to the user while buffered, and after
  closing,      \* how far Close has come: marked, detached, socket closed
  ws,           \* the socket is up
  toAgent, toUs,             \* frames under way
  agent         \* the other end: [expected, early, sent, unacked]

outVars == <<seqNum, outBuf, attempts, writer, resend>>
inVars == <<inSeqNum, inBuf, hand, failed, delivered, late>>
vars == <<outVars, inVars, closing, ws, toAgent, toUs, agent>>

OutIds == 0 .. MaxOut - 1
InIds == 0 .. MaxIn - 1
Nothing == -1
Data(n) == [kind |-> "data", num |-> n]
AckOf(n) == [kind |-> "ack", num |-> n]
Elements(s) == {s[i] : i \in DOMAIN s}
Detached == closing \in {"detached", "closed"}

Init ==
  /\ seqNum = 0 /\ outBuf = <<>> /\ attempts = [n \in OutIds |-> 0]
  /\ writer = [w \in Writers |-> [pc |-> "idle", num |-> Nothing, woken |-> FALSE]]
  /\ resend = [pc |-> "idle", num |-> Nothing]
  /\ inSeqNum = 0 /\ inBuf = {} /\ hand = Nothing /\ failed = FALSE
  /\ delivered = <<>> /\ late = {}
  /\ closing = "no" /\ ws = TRUE /\ toAgent = {} /\ toUs = {}
  /\ agent = [expected |-> 0, early |-> {}, sent |-> 0, unacked |-> {}]

-----------------------------------------------------------------------------
(* WriteMsg.                                                                 *)

\* messageBuffer.insertOrderedLocked: behind the last number that is not larger.
Place(buf, n) ==
  CHOOSE p \in 0 .. Len(buf) : /\ p > 0 => buf[p] <= n
                               /\ \A i \in p + 1 .. Len(buf) : buf[i] > n
Inserted(buf, n) ==
  SubSeq(buf, 1, Place(buf, n)) \o <<n>> \o SubSeq(buf, Place(buf, n) + 1, Len(buf))

\* messageBuffer.Remove.
Without(buf, n) ==
  LET at == CHOOSE i \in DOMAIN buf : buf[i] = n
  IN  IF n \in Elements(buf)
      THEN SubSeq(buf, 1, at - 1) \o SubSeq(buf, at + 1, Len(buf)) ELSE buf
Woken_one(ws_) ==
  IF \E w \in Writers : ws_[w].pc = "full"
  THEN [ws_ EXCEPT ![CHOOSE w \in Writers : ws_[w].pc = "full"].woken = TRUE] ELSE ws_
Woken(ws_) == [w \in Writers |-> IF ws_[w].pc = "full" THEN [ws_[w] EXCEPT !.woken = TRUE] ELSE ws_[w]]

\* Track the message if there is room, write it untracked if the buffers are
\* gone, wait for room otherwise.
Track(w, n) ==
  LET fits == ~Detached /\ Len(outBuf) < OutSize
      waits == ~Detached /\ ~fits
  IN  /\ outBuf' = IF fits THEN Inserted(outBuf, n) ELSE outBuf
      /\ attempts' = IF fits THEN [attempts EXCEPT ![n] = 0] ELSE attempts
      /\ writer' = [writer EXCEPT ![w] =
           [pc |-> IF waits THEN "full" ELSE "send", num |-> n, woken |-> FALSE]]

WriteMsg(w) ==
  /\ writer[w].pc = "idle" /\ seqNum < MaxOut
  /\ Track(w, seqNum)
  /\ seqNum' = seqNum + 1
  /\ UNCHANGED <<resend, inVars, closing, ws, toAgent, toUs, agent>>

\* bufferCond.Wait returns: an error if Close has begun, another try if not.
WriteRetry(w) ==
  /\ writer[w].pc = "full" /\ writer[w].woken
  /\ IF closing # "no"
     THEN /\ writer' = [writer EXCEPT ![w] = [pc |-> "idle", num |-> Nothing, woken |-> FALSE]]
          /\ UNCHANGED <<outBuf, attempts>>
     ELSE Track(w, writer[w].num)
  /\ UNCHANGED <<seqNum, resend, inVars, closing, ws, toAgent, toUs, agent>>

\* removeOutboundTrackingLocked.
Forgotten_upto(n) == SelectSeq(outBuf, LAMBDA k : k > n)
Forgotten(n) == Without(outBuf, n)

\* The write itself; when it fails the message is no longer tracked.
WriteSocket(w) ==
  LET n == writer[w].num
      done == [writer EXCEPT ![w] = [pc |-> "idle", num |-> Nothing, woken |-> FALSE]]
  IN  /\ writer[w].pc = "send"
      /\ IF ws
         THEN /\ toAgent' = toAgent \cup {Data(n)}
              /\ writer' = done
              /\ UNCHANGED <<outBuf, attempts>>
         ELSE /\ outBuf' = Forgotten(n) /\ attempts' = [attempts EXCEPT ![n] = 0]
              /\ writer' = Woken(done)
              /\ UNCHANGED toAgent
      /\ UNCHANGED <<seqNum, resend, inVars, closing, ws, toUs, agent>>

-----------------------------------------------------------------------------
(* processOutboundQueue: one tick that finds the oldest message expired.     *)

GivesUp(n) == attempts[n] >= MaxAttempts

ResendTick ==
  /\ resend.pc = "idle"
  /\ \/ /\ Detached
        /\ resend' = [pc |-> "gone", num |-> Nothing]
        /\ UNCHANGED <<attempts, ws>>
     \/ /\ ~Detached /\ outBuf # <<>>
        /\ LET n == Head(outBuf)
           IN  IF GivesUp(n)
               THEN /\ ws' = FALSE /\ resend' = [pc |-> "gone", num |-> Nothing]
                    /\ UNCHANGED attempts
               ELSE /\ attempts' = [attempts EXCEPT ![n] = @ + 1]
                    /\ resend' = [pc |-> "write", num |-> n]
                    /\ UNCHANGED ws
  /\ UNCHANGED <<seqNum, outBuf, writer, inVars, closing, toAgent, toUs, agent>>

ResendWrite ==
  /\ resend.pc = "write"
  /\ toAgent' = IF ws THEN toAgent \cup {Data(resend.num)} ELSE toAgent
  /\ resend' = [pc |-> IF ws THEN "idle" ELSE "gone", num |-> Nothing]
  /\ UNCHANGED <<seqNum, outBuf, attempts, writer, inVars,
                 closing, ws, toUs, agent>>

-----------------------------------------------------------------------------
(* The reading goroutine.                                                    *)

HandleAck(n) ==
  /\ ws /\ ~failed /\ hand = Nothing /\ AckOf(n) \in toUs
  /\ toUs' = toUs \ {AckOf(n)}
  /\ outBuf' = Forgotten(n) /\ attempts' = [attempts EXCEPT ![n] = 0]
  /\ writer' = Woken(writer)
  /\ UNCHANGED <<seqNum, resend, inVars, closing, ws, toAgent, agent>>

ReadFrame(n) ==
  /\ ws /\ ~failed /\ hand = Nothing /\ Data(n) \in toUs
  /\ toUs' = toUs \ {Data(n)} /\ hand' = n
  /\ UNCHANGED <<outVars, inSeqNum, inBuf, failed, delivered, late, closing, ws, toAgent, agent>>

\* processInboundQueue: up to the first number that is missing.
UpTo(n) == CHOOSE k \in n .. n + Cardinality(inBuf) : k \notin inBuf /\ n .. k - 1 \subseteq inBuf

\* sendAcknowledgeMessage.
Acknowledge(n) == toAgent' = IF ws THEN toAgent \cup {AckOf(n)} ELSE toAgent

\* HandleMsg of OutputStreamData: how a number compares with the next expected.
Old_off(n) == n + 1 < inSeqNum
Old(n) == n < inSeqNum
Early(n) == n > inSeqNum

\* inMsgBuf.Add.
Room == Cardinality(inBuf) < InSize
Buffers_unchecked(n) == inBuf
Buffers(n) == inBuf \cup {n}

\* An old one is only acknowledged again, whether or not that succeeds.
HandleOld ==
  /\ hand # Nothing /\ ~Detached /\ Old(hand)
  /\ Acknowledge(hand)
  /\ UNCHANGED <<inSeqNum, inBuf, failed, delivered, late>>

\* An early one waits in the buffer; without room the session fails.
HandleEarly ==
  /\ hand # Nothing /\ ~Detached /\ Early(hand)
  /\ IF hand \in inBuf \/ Room
     THEN inBuf' = Buffers(hand) /\ Acknowledge(hand) /\ failed' = ~ws
     ELSE failed' = TRUE /\ UNCHANGED <<inBuf, toAgent>>
  /\ UNCHANGED <<inSeqNum, delivered, late>>

\* The expected one, and those behind it that are there already.
HandleExpected ==
  LET next == UpTo(hand + 1)
  IN  /\ hand # Nothing /\ ~Detached /\ ~Old(hand) /\ ~Early(hand)
      /\ Acknowledge(hand) /\ failed' = ~ws
      /\ IF ws
         THEN /\ inSeqNum' = next
              /\ inBuf' = inBuf \ (hand .. next - 1)
              /\ delivered' = delivered \o [i \in 1 .. next - hand |-> hand + i - 1]
         ELSE UNCHANGED <<inSeqNum, inBuf, delivered>>
      /\ UNCHANGED late

\* Without buffers a frame is handed on as it comes.  inSeqNum, which nothing
\* reads any more, is left as it is.
HandleUnbuffered ==
  /\ hand # Nothing /\ Detached
  /\ Acknowledge(hand) /\ failed' = ~ws
  /\ late' = IF ws THEN late \cup {hand} ELSE late
  /\ UNCHANGED <<inSeqNum, inBuf, delivered>>

HandleOutput ==
  /\ HandleOld \/ HandleEarly \/ HandleExpected \/ HandleUnbuffered
  /\ hand' = Nothing
  /\ UNCHANGED <<outVars, closing, ws, toUs, agent>>

\* The session ends: the reader saw an error, or the user closed it.  Close
\* marks and wakes, takes the buffers away and wakes again, closes the socket.
CloseMark ==
  /\ closing = "no" /\ closing' = "marked"
  /\ writer' = Woken(writer)
  /\ UNCHANGED <<seqNum, outBuf, attempts, resend, inVars, ws, toAgent, toUs, agent>>
CloseDetach ==
  /\ closing = "marked" /\ closing' = "detached"
  /\ outBuf' = <<>> /\ inBuf' = {} /\ writer' = Woken(writer)
  /\ UNCHANGED <<seqNum, attempts, resend, inSeqNum, hand, failed, delivered, late,
                 ws, toAgent, toUs, agent>>
CloseSocket ==
  /\ closing = "detached" /\ closing' = "closed" /\ ws' = FALSE
  /\ UNCHANGED <<outVars, inVars, toAgent, toUs, agent>>

\* keepAlive misses its pong, or the network drops the connection.
SocketBreaks ==
  /\ ws /\ ws' = FALSE
  /\ UNCHANGED <<outVars, inVars, closing, toAgent, toUs, agent>>

-----------------------------------------------------------------------------
(* The path and the agent.                                                   *)

Lose ==
  /\ \/ \E m \in toAgent : toAgent' = toAgent \ {m} /\ UNCHANGED toUs
     \/ \E m \in toUs : toUs' = toUs \ {m} /\ UNCHANGED toAgent
  /\ UNCHANGED <<outVars, inVars, closing, ws, agent>>

AgentReceives(m) ==
  /\ m \in toAgent
  /\ toAgent' = toAgent \ {m}
  /\ IF m.kind = "ack"
     THEN agent' = [agent EXCEPT !.unacked = @ \ {m.num}] /\ UNCHANGED toUs
     ELSE LET early == agent.early \cup ({m.num} \ 0 .. agent.expected - 1)
              next == CHOOSE k \in agent.expected .. MaxOut :
                        k \notin early /\ agent.expected .. k - 1 \subseteq early
          IN  /\ agent' = [agent EXCEPT !.expected = next, !.early = early \ 0 .. next - 1]
              /\ toUs' = toUs \cup {AckOf(m.num)}
  /\ UNCHANGED <<outVars, inVars, closing, ws>>

AgentSends ==
  /\ ws
  /\ \/ /\ agent.sent < MaxIn
        /\ toUs' = toUs \cup {Data(agent.sent)}
        /\ agent' = [agent EXCEPT !.sent = @ + 1, !.unacked = @ \cup {agent.sent}]
     \/ \E n \in agent.unacked : toUs' = toUs \cup {Data(n)} /\ UNCHANGED agent
  /\ UNCHANGED <<outVars, inVars, closing, ws, toAgent>>

-----------------------------------------------------------------------------
Write(w) == WriteMsg(w) \/ WriteRetry(w) \/ WriteSocket(w)
Resend == ResendTick \/ ResendWrite
Reading == HandleOutput \/ (\E n \in InIds : ReadFrame(n)) \/ (\E n \in OutIds : HandleAck(n))
Closing == CloseMark \/ CloseDetach \/ CloseSocket
Agent == (\E m \in toAgent : AgentReceives(m)) \/ AgentSends

Next == (\E w \in Writers : Write(w)) \/ Resend \/ Reading \/ Closing \/ SocketBreaks \/ Lose \/ Agent
Spec == Init /\ [][Next]_vars

\* A writer that was woken takes the lock and goes on, and a Close that has begun
\* goes on to take the buffers away.  Nothing is assumed of the network, of the
\* agent, of whoever would call Close, or of the reading goroutine, which may
\* itself be blocked in a write.
Fairness == (\A w \in Writers : WF_vars(WriteRetry(w))) /\ WF_vars(CloseDetach)
FairSpec == Spec /\ Fairness

-----------------------------------------------------------------------------
TypeOK ==
  /\ seqNum \in 0 .. MaxOut /\ outBuf \in Seq(OutIds) /\ attempts \in [OutIds -> 0 .. MaxAttempts]
  /\ writer \in [Writers -> [pc : {"idle", "full", "send"}, num : OutIds \cup {Nothing}, woken : BOOLEAN]]
  /\ resend \in [pc : {"idle", "write", "gone"}, num : OutIds \cup {Nothing}]
  /\ inSeqNum \in 0 .. MaxIn /\ inBuf \subseteq InIds /\ hand \in InIds \cup {Nothing} /\ failed \in BOOLEAN
  /\ delivered \in Seq(InIds) /\ late \subseteq InIds
  /\ closing \in {"no", "marked", "detached", "closed"} /\ ws \in BOOLEAN
  /\ toAgent \subseteq [kind : {"data", "ack"}, num : OutIds \cup InIds]
  /\ toUs \subseteq [kind : {"data", "ack"}, num : OutIds \cup InIds]
  /\ agent \in [expected : 0 .. MaxOut, early : SUBSET OutIds, sent : 0 .. MaxIn, unacked : SUBSET InIds]

AgentHas(n) == n < agent.expected \/ n \in agent.early

(* No input is lost while the channel is up: every number that was given out  *)
(* has reached the agent, or is tracked and will be resent, or is held by the *)
(* writer that took it.  A hole would stall the agent for ever.               *)
NoInputLost ==
  ws /\ closing = "no" =>
    \A n \in 0 .. seqNum - 1 :
      AgentHas(n) \/ n \in Elements(outBuf) \/ \E w \in Writers : writer[w].num = n

(* What the agent was told we have is never lost on our side: it has been     *)
(* handed on or is buffered, since the agent will not send it again.          *)
AckedIsKept ==
  closing = "no" =>
    \A n \in 0 .. agent.sent - 1 :
      n \notin agent.unacked \/ AckOf(n) \in toAgent => n < inSeqNum \/ n \in inBuf

(* Output reaches the user once and in order, whatever the path does: the     *)
(* channel implements SsmStream as long as its buffers are there.             *)
Stream == INSTANCE SsmStream WITH sent <- agent.sent, delivered <- delivered, open <- ~Detached
ImplementsStream == Stream!Spec

(* No wake-up is missed.  A writer that waits although there is room again,   *)
(* or although Close has begun, does not stay: it returns, or another writer  *)
(* took the room.  While the buffer stays full and nobody closes the channel  *)
(* it does wait, for as long as that lasts.                                   *)
HasToWait == closing = "no" /\ Len(outBuf) >= OutSize
WriterReturns ==
  \A w \in Writers : writer[w].pc = "full" /\ ~HasToWait ~> writer[w].pc # "full" \/ HasToWait
=============================================================================
