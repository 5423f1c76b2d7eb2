----------------------------- MODULE OutputRing -----------------------------
(***************************************************************************)
(* The byte-budgeted history ring of a mobile shell session, and the live  *)
(* feeds handed out by it: services/ssh-core/mobile/ringbuf, ring.go and   *)
(* subscription.go.                                                        *)
(*                                                                         *)
(* Several goroutines append (the stdout pump, the stderr pump, the shell  *)
(* integration writers).  A chunk is numbered and stored under the ring    *)
(* lock, but it is handed to the feeds after the lock is released, so the  *)
(* deliveries of two appenders interleave.  Bytes are abstracted to their  *)
(* number, times to the position they resolve to.                          *)
(***************************************************************************)
EXTENDS Naturals, Integers, Sequences, FiniteSets, Functions

CONSTANTS
  Appenders,      \* goroutines that call Ring.Append, each for one stream
  StderrAppenders,\* those that pump stderr
  Subscribers,    \* subscriptions that may be taken out
  CapacityBytes,  \* byte budget of the ring
  MaxChunkBytes,  \* upper bound of one stored chunk
  ReadMaxBytes,   \* bytes one read hands out (DefaultReadMaxBytes)
  QueueLen,       \* chunks a feed buffers (DefaultSubscriberQueue)
  Payloads,       \* sizes of the buffers handed to Append
  CursorModes,    \* kinds of cursor listeners are added with
  MaxSeq          \* bound of the model: no Append starts at this number

ASSUME RingAssumption ==
  /\ StderrAppenders \subseteq Appenders
  /\ CapacityBytes \in Nat \ {0}
  /\ MaxChunkBytes \in 1 .. CapacityBytes
  /\ ReadMaxBytes \in Nat /\ ReadMaxBytes >= MaxChunkBytes
  /\ QueueLen \in Nat \ {0}
  /\ Payloads \subseteq Nat
  /\ MaxSeq \in Nat
  /\ CursorModes \subseteq {"Head", "Seq", "TailBytes", "TimeMs", "Live"}

Streams == {"stdout", "stderr"}
StreamOf(a) == IF a \in StderrAppenders THEN "stderr" ELSE "stdout"

VARIABLES
  chunks,             \* retained chunks, oldest first
  usedBytes, droppedBytesTotal,
  headSeq, tailSeq, nextSeq,
  subs,               \* registered subscriptions
  closed,             \* Ring.closed
  app,                \* per appender: bytes left of the call, chunk in hand
                      \* and the subscriptions it still has to reach
  closing,            \* subscriptions Ring.Close still has to close
  feed,               \* per subscription: the buffered channel
  feedClosed,         \* per subscription: Subscription.closed
  since,              \* history: nextSeq when the feed was registered, -1 before
  taken,              \* history: numbers received from the feed, in order
  discarded           \* numbers a full feed turned away (Subscription.lagged)

ringVars == <<chunks, usedBytes, droppedBytesTotal, headSeq, tailSeq, nextSeq>>
subVars  == <<feed, feedClosed, since, taken, discarded>>
vars == <<ringVars, subVars, subs, closed, app, closing>>

Chunk == [seq : Nat, size : Nat, stream : Streams]
AppendState == [left : Nat, chunk : Chunk, targets : SUBSET Subscribers]
NoChunk == [seq |-> 0, size |-> 0, stream |-> "stdout"]

\* The bytes of a sequence of chunks.
Bytes(s) ==
  LET sum[n \in 0 .. Len(s)] == IF n = 0 THEN 0 ELSE sum[n - 1] + s[n].size
  IN  sum[Len(s)]

SeqsOf(s) == {s[i].seq : i \in DOMAIN s}

-----------------------------------------------------------------------------
(* Append splits its buffer: one AppendChunk per piece. *)

Left(a, n) == [left |-> n, chunk |-> app[a].chunk, targets |-> app[a].targets]

Append_(a) ==
  /\ app[a].left = 0 /\ app[a].targets = {}
  /\ nextSeq < MaxSeq
  /\ \E n \in Payloads : app' = [app EXCEPT ![a] = Left(a, n)]
  /\ UNCHANGED <<ringVars, subVars, subs, closed, closing>>

Piece(a) == IF app[a].left > MaxChunkBytes THEN MaxChunkBytes ELSE app[a].left

\* evictLocked leaves the loop after k fronts when the budget is met or
\* nothing is left, and not earlier.
EvictsExactly(grown, used, k) ==
  LET usedAfter(j) == used - Bytes(SubSeq(grown, 1, j))
  IN  /\ usedAfter(k) <= CapacityBytes \/ k = Len(grown)
      /\ \A j \in 0 .. k - 1 : usedAfter(j) > CapacityBytes

\* headSeq after the chunk c was appended and k fronts were evicted.
HeadAfter_front(grown, k) ==
  IF k > 0 THEN grown[k].seq ELSE IF chunks = <<>> THEN nextSeq ELSE headSeq
HeadAfter(grown, k) ==
  IF k > 0 THEN grown[k].seq + 1 ELSE IF chunks = <<>> THEN nextSeq ELSE headSeq

\* The chunk an appender holds until the last of its targets is reached.
InHand(c, targets) == IF targets = {} THEN NoChunk ELSE c

\* The locked part of appendChunk.
AppendChunk(a) ==
  /\ app[a].left > 0 /\ app[a].targets = {}
  /\ ~closed
  /\ LET c     == [seq |-> nextSeq, size |-> Piece(a), stream |-> StreamOf(a)]
         grown == Append(chunks, c)
         used  == usedBytes + c.size
     IN  /\ \E k \in 0 .. Len(grown) :
              LET evicted == Bytes(SubSeq(grown, 1, k))
              IN  /\ EvictsExactly(grown, used, k)
                  /\ chunks' = SubSeq(grown, k + 1, Len(grown))
                  /\ usedBytes' = used - evicted
                  /\ droppedBytesTotal' = droppedBytesTotal + evicted
                  /\ headSeq' = HeadAfter(grown, k)
         /\ nextSeq' = nextSeq + 1
         /\ tailSeq' = c.seq
         /\ app' = [app EXCEPT ![a] = [left    |-> app[a].left - c.size,
                                       chunk   |-> InHand(c, subs),
                                       targets |-> subs]]
  /\ UNCHANGED <<subVars, subs, closed, closing>>

\* A closed ring ignores the piece; the loop of Append goes on.
AppendIgnored(a) ==
  /\ app[a].left > 0 /\ app[a].targets = {}
  /\ closed
  /\ app' = [app EXCEPT ![a] = Left(a, app[a].left - Piece(a))]
  /\ UNCHANGED <<ringVars, subVars, subs, closed, closing>>

\* deliver: never blocks, a full feed turns the chunk away.  The lagged flag
\* it sets is discarded # {}: nothing in the application calls TakeLagged.
Open_unchecked(f) == TRUE
Open(f) == ~feedClosed[f]

Offer_unflagged(f, c) ==
  /\ feed' = IF Open(f) /\ Len(feed[f]) < QueueLen
             THEN [feed EXCEPT ![f] = Append(@, c)] ELSE feed
  /\ UNCHANGED discarded
Offer(f, c) ==
  \/ /\ ~Open(f)
     /\ UNCHANGED <<feed, discarded>>
  \/ /\ Open(f) /\ Len(feed[f]) < QueueLen
     /\ feed' = [feed EXCEPT ![f] = Append(@, c)]
     /\ UNCHANGED discarded
  \/ /\ Open(f) /\ Len(feed[f]) >= QueueLen
     /\ discarded' = [discarded EXCEPT ![f] = @ \cup {c.seq}]
     /\ UNCHANGED feed

Deliver(a, f) ==
  /\ f \in app[a].targets
  /\ Offer(f, app[a].chunk)
  /\ LET rest == app[a].targets \ {f}
     IN  app' = [app EXCEPT ![a] = [left    |-> app[a].left,
                                    chunk   |-> InHand(app[a].chunk, rest),
                                    targets |-> rest]]
  /\ UNCHANGED <<ringVars, feedClosed, since, taken, subs, closed, closing>>

-----------------------------------------------------------------------------
(* Cursors.  TimeMs resolves to the first chunk that is not older, whatever *)
(* the clock said: the cursor carries how many retained chunks are older.   *)

HeadCursor == [mode |-> "Head"]
SeqCursor(s) == [mode |-> "Seq", seq |-> s]
LiveCursor == [mode |-> "Live"]
Cursors ==
  {c \in {HeadCursor, LiveCursor}
           \cup [mode : {"Seq"}, seq : 0 .. MaxSeq]
           \cup [mode : {"TailBytes"}, bytes : 0 .. CapacityBytes]
           \cup [mode : {"TimeMs"}, older : 0 .. MaxSeq] : c.mode \in CursorModes}

\* The first chunk of a tail of at least b bytes, or of everything.
TailStart(b) ==
  CHOOSE i \in 0 .. Len(chunks) :
    /\ Bytes(SubSeq(chunks, i + 1, Len(chunks))) >= b \/ i = 0
    /\ \A j \in i + 1 .. Len(chunks) :
         Bytes(SubSeq(chunks, j + 1, Len(chunks))) < b

AtMost(i) == IF i > Len(chunks) THEN Len(chunks) ELSE i

\* resolveCursorLocked: the number of retained chunks the cursor skips ...
ResolveCursor(cursor) ==
  CASE cursor.mode = "Head" -> 0
    [] cursor.mode = "Seq" ->
         IF cursor.seq < headSeq THEN 0 ELSE AtMost(cursor.seq - headSeq)
    [] cursor.mode = "TimeMs" -> AtMost(cursor.older)
    [] cursor.mode = "TailBytes" -> TailStart(cursor.bytes)
    [] OTHER -> Len(chunks)

\* ... and the numbers it asked for that were evicted.
ResolveDropped(cursor) ==
  IF cursor.mode = "Seq" /\ chunks # <<>> /\ cursor.seq < headSeq
  THEN cursor.seq .. headSeq - 1 ELSE {}

HandsOut_one(i, n, max) == n = (IF i < Len(chunks) THEN 1 ELSE 0)

\* readLocked hands out n chunks from position i: as many as fit in max bytes.
HandsOut(i, n, max) ==
  /\ Bytes(SubSeq(chunks, i + 1, i + n)) <= max
  /\ i + n < Len(chunks) => Bytes(SubSeq(chunks, i + 1, i + n + 1)) > max

\* One read from position i goes to the end of the ring.
Fits(i) == Bytes(SubSeq(chunks, i + 1, Len(chunks))) <= ReadMaxBytes

\* ReadResult.NextSeq.
ResumeAt(i, n) == IF n > 0 THEN chunks[i + n].seq + 1 ELSE nextSeq

-----------------------------------------------------------------------------
(* Subscribe registers the feed in the step that takes the replay.  A feed  *)
(* of a closed ring is closed from the start.                               *)

Subscribe(f) ==
  /\ since[f] = -1
  /\ since' = [since EXCEPT ![f] = nextSeq]
  /\ IF closed
     THEN feedClosed' = [feedClosed EXCEPT ![f] = TRUE] /\ UNCHANGED subs
     ELSE subs' = subs \cup {f} /\ UNCHANGED feedClosed
  /\ UNCHANGED <<ringVars, feed, taken, discarded, closed, app, closing>>

\* The consumer's side of the channel.
Receive(f) ==
  /\ feed[f] # <<>>
  /\ taken' = [taken EXCEPT ![f] = Append(@, Head(feed[f]).seq)]
  /\ feed' = [feed EXCEPT ![f] = Tail(@)]
  /\ UNCHANGED <<ringVars, feedClosed, since, discarded,
                 subs, closed, app, closing>>

\* Subscription.Close: two locks, hence two steps.
Unregister(f) ==
  /\ since[f] # -1
  /\ subs' = subs \ {f}
  /\ UNCHANGED <<ringVars, subVars, closed, app, closing>>

CloseFeed(f) ==
  /\ since[f] # -1 /\ f \notin subs
  /\ feedClosed' = [feedClosed EXCEPT ![f] = TRUE]
  /\ UNCHANGED <<ringVars, feed, since, taken, discarded,
                 subs, closed, app, closing>>

\* Ring.Close: everything is unregistered at once, then closed one by one.
Close ==
  /\ ~closed
  /\ closed' = TRUE
  /\ closing' = subs
  /\ subs' = {}
  /\ UNCHANGED <<ringVars, subVars, app>>

CloseSub(f) ==
  /\ f \in closing
  /\ closing' = closing \ {f}
  /\ feedClosed' = [feedClosed EXCEPT ![f] = TRUE]
  /\ UNCHANGED <<ringVars, feed, since, taken, discarded,
                 subs, closed, app>>

-----------------------------------------------------------------------------
Init ==
  /\ chunks = <<>> /\ usedBytes = 0 /\ droppedBytesTotal = 0
  /\ headSeq = 0 /\ tailSeq = 0 /\ nextSeq = 0
  /\ subs = {} /\ closed = FALSE /\ closing = {}
  /\ app = [a \in Appenders |->
              [left |-> 0, chunk |-> NoChunk, targets |-> {}]]
  /\ feed = [f \in Subscribers |-> <<>>]
  /\ feedClosed = [f \in Subscribers |-> FALSE]
  /\ since = [f \in Subscribers |-> -1]
  /\ taken = [f \in Subscribers |-> <<>>]
  /\ discarded = [f \in Subscribers |-> {}]

AppenderStep(a) ==
  \/ Append_(a) \/ AppendChunk(a) \/ AppendIgnored(a)
  \/ \E f \in Subscribers : Deliver(a, f)

Next ==
  \/ \E a \in Appenders : AppenderStep(a)
  \/ \E f \in Subscribers :
       Subscribe(f) \/ Receive(f) \/ Unregister(f) \/ CloseFeed(f) \/ CloseSub(f)
  \/ Close

Spec == Init /\ [][Next]_vars

-----------------------------------------------------------------------------
TypeOK ==
  /\ chunks \in Seq(Chunk)
  /\ headSeq \in Nat /\ tailSeq \in Nat /\ nextSeq \in Nat
  /\ subs \subseteq Subscribers /\ closing \subseteq Subscribers
  /\ closed \in BOOLEAN
  /\ app \in [Appenders -> AppendState]
  /\ feed \in [Subscribers -> Seq(Chunk)]
  /\ feedClosed \in [Subscribers -> BOOLEAN]
  /\ since \in [Subscribers -> Nat \cup {-1}]
  /\ taken \in [Subscribers -> Seq(Nat)]
  /\ discarded \in [Subscribers -> SUBSET Nat]

(* "the sequence numbers of retained chunks are always contiguous, which is  *)
(* what lets a cursor be resolved to a slice index by subtraction" (ring.go  *)
(* package comment): the chunk at every position carries headSeq plus that   *)
(* position and the last one precedes nextSeq, whatever was evicted.         *)
Contiguous ==
  /\ headSeq + Len(chunks) = nextSeq
  /\ \A i \in 1 .. Len(chunks) : chunks[i].seq = headSeq + i - 1
  /\ nextSeq > 0 => tailSeq = nextSeq - 1

InFlight(f) == {a \in Appenders : f \in app[a].targets}

(* "a chunk appended concurrently either lands in the returned snapshot or   *)
(* is delivered on the returned channel, never both and never neither"       *)
(* (Subscribe): while a feed is registered, every chunk numbered since its   *)
(* registration is in exactly one place - received, buffered, turned away    *)
(* by a full buffer, or in an appender's hands - and none numbered before.   *)
HandoverExact ==
  \A f \in Subscribers :
    LET got   == Range(taken[f])
        held  == SeqsOf(feed[f])
        hands == {app[a].chunk.seq : a \in InFlight(f)}
        all   == got \cup held \cup discarded[f] \cup hands
    IN  /\ f \in subs => all = since[f] .. nextSeq - 1
        /\ \A s \in all : since[f] <= s /\ s < nextSeq
        /\ got \cap held = {} /\ (got \cup held) \cap discarded[f] = {}
        /\ (got \cup held \cup discarded[f]) \cap hands = {}
        /\ \A i, j \in DOMAIN taken[f] : taken[f][i] = taken[f][j] => i = j
        /\ \A i, j \in DOMAIN feed[f] : feed[f][i].seq = feed[f][j].seq => i = j
        /\ \A a, b \in InFlight(f) : app[a].chunk.seq = app[b].chunk.seq => a = b

(* deliver checks closed under the feed's lock: a late delivery to a feed    *)
(* that Stop or Ring.Close has closed meanwhile is dropped.  A send on the   *)
(* closed channel would crash the process.                                   *)
NoSendAfterClose ==
  [][\A f \in Subscribers : feedClosed[f] => Len(feed'[f]) <= Len(feed[f])]_vars
=============================================================================
