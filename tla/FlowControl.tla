---------------------------- MODULE FlowControl ----------------------------
(***************************************************************************)
(* Output flow control of one session of the SSH core:                     *)
(* services/ssh-core/internal/flowcontrol/flowcontrol.go.                  *)
(*                                                                         *)
(* The gate of a session counts bytes sent to the renderer and not yet     *)
(* acknowledged.  Above High the readers (stdout, stderr) wait before they *)
(* read again, or, for an observed session (a tmux pane), the peer is told *)
(* to pause; at Low they go on.  A visible renderer that says nothing for  *)
(* Stall releases the gate.                                                *)
(*                                                                         *)
(* Every method holds Registry.mu for its whole body, so it is one step,   *)
(* except that pause and resume callbacks run after the unlock: `owes' is  *)
(* the callback a goroutine has yet to make.  Start, Stop, Ack and         *)
(* SetHidden all run on the goroutine that reads frames ("ipc").  Times    *)
(* are ages and countdowns in ticks.                                       *)
(*                                                                         *)
(* Everything emitted is counted (runtime.go), not only what a read loop   *)
(* forwards: the handshake filter holds output back and other goroutines   *)
(* flush it, and the core inserts sequences of its own.  Neither waits at  *)
(* the gate.                                                               *)
(***************************************************************************)
EXTENDS Integers, FiniteSets

CONSTANTS
  Readers,     \* read loops of the session that call Wait (blocking mode)
  Modes,       \* kinds of session: "blocking" (readers), "observed" (tmux pane)
  High, Low,   \* watermarks, in bytes
  Stall,       \* stall timeout, in ticks
  MaxRead,     \* bytes of one read
  MaxAck,      \* bytes of one ack; may exceed what was sent
  MaxHeld,     \* bytes the handshake filter holds back (maxHandshakeBytes and a read)
  MaxInserted, \* bound of the model: bytes inserted since a reader last passed the gate
  MaxUnacked   \* bound of the model: nothing is sent above this count

ASSUME FlowAssumption ==
  /\ High \in Nat /\ Low \in Nat /\ Low < High
  /\ Stall \in Nat \ {0}
  /\ MaxRead \in Nat \ {0} /\ MaxAck \in Nat /\ MaxUnacked \in Nat
  /\ MaxHeld \in Nat /\ MaxInserted \in Nat
  /\ Modes \subseteq {"blocking", "observed"}
  /\ IsFiniteSet(Readers)

VARIABLES
  kind,      \* which of them this session is
  gate,      \* the session's gate, NoGate when nobody subscribes
  timers,    \* armed stall timers: time left, gate, whether stallTimer points to it
  fired,     \* stall checks that have fired and wait for the lock, by gate
  wait,      \* per reader: where it is in its loop, see below
  owes,      \* per goroutine: the callback it makes next
  peerPaused,\* the observed peer holds its output back
  closed,    \* the session's closed channel
  held,      \* bytes read that the handshake filter holds back
  stalled,   \* history: the safety net opened this gate
  inserted   \* history: bytes inserted since a reader last passed the gate

output == <<held, inserted>>
flow == <<gate, timers, fired, wait, owes, peerPaused, closed, stalled, output>>
vars == <<kind, flow>>

NoGate == [mode |-> "none", unacked |-> 0, paused |-> FALSE,
           hidden |-> FALSE, disabled |-> FALSE, age |-> 0]
NewGate(m) == [NoGate EXCEPT !.mode = m]
Live == gate.mode # "none"

\* A reader is about to call Wait, blocked in it (waiting for the resume
\* channel, a timeout or closed), reading, or gone.  `woken' says that the
\* channel it holds was closed; Never that the select has no timeout.
Never == Stall + 1
Idle(p) == [pc |-> p, woken |-> FALSE, left |-> Never]

Init ==
  /\ kind \in Modes
  /\ gate = NoGate /\ timers = {} /\ fired = {}
  /\ wait = [r \in Readers |-> Idle(IF kind = "blocking" THEN "enter" ELSE "gone")]
  /\ owes = [g \in {"ipc", "sender", "timer"} |-> "none"]
  /\ peerPaused = FALSE /\ closed = FALSE /\ stalled = FALSE
  /\ held = 0 /\ inserted = 0

-----------------------------------------------------------------------------
\* release: every reader blocked on the gate's channel is woken.
Released(ws) ==
  [r \in Readers |-> IF ws[r].pc = "blocked" THEN [ws[r] EXCEPT !.woken = TRUE] ELSE ws[r]]

\* stopStallTimer; a check that has already fired is not stopped by it.
Unheld(ts) == {t \in ts : ~t.held}
Arm(ts, left) == Unheld(ts) \cup {[left |-> left, whose |-> "current", held |-> TRUE]}

\* The gate was replaced: what still refers to it is stale.
Outdated(ts) == {[t EXCEPT !.whose = "stale"] : t \in Unheld(ts)}

Callback(g, c) == owes' = [owes EXCEPT ![g] = c]
ResumeIf(cond) == IF cond THEN "resume" ELSE "none"

\* dropLocked, followed by what the caller puts in the gate's place.
Drop(new) ==
  /\ gate' = new
  /\ wait' = Released(wait)
  /\ timers' = Outdated(timers)
  /\ fired' = IF fired = {} THEN {} ELSE {"stale"}
  /\ stalled' = FALSE /\ inserted' = 0
  /\ Callback("ipc", ResumeIf(gate.paused /\ gate.mode = "observed"))
  /\ UNCHANGED <<peerPaused, closed, held>>

Start == owes["ipc"] = "none" /\ Drop(NewGate(kind))
Stop == owes["ipc"] = "none" /\ Live /\ Drop(NoGate)

\* Sent: n bytes went to the renderer.  Only an observed gate is paused here.
PausesAt(n) ==
  /\ gate.mode = "observed" /\ ~gate.paused /\ ~gate.disabled
  /\ gate.unacked + n > High
Sent(n) ==
  IF PausesAt(n)
  THEN /\ gate' = [gate EXCEPT !.unacked = @ + n, !.paused = TRUE, !.age = 0]
       /\ timers' = Arm(timers, Stall)
       /\ Callback("sender", "pause")
  ELSE /\ gate' = IF Live THEN [gate EXCEPT !.unacked = @ + n] ELSE gate
       /\ UNCHANGED <<timers, owes>>

\* Output of an observed session: all panes share one reader goroutine.
PaneOutput ==
  /\ kind = "observed"
  /\ owes["sender"] = "none" /\ gate.unacked < MaxUnacked
  /\ \E n \in 1 .. MaxRead : Sent(n)
  /\ UNCHANGED <<fired, wait, peerPaused, closed, stalled, output>>

AckedCount(n) == IF n > gate.unacked THEN 0 ELSE gate.unacked - n
ResumesAt(left) == gate.paused /\ left <= Low
Ack(n) ==
  /\ owes["ipc"] = "none" /\ Live
  /\ LET left == AckedCount(n)
         acked == [gate EXCEPT !.unacked = left, !.disabled = FALSE, !.age = 0]
     IN  IF ResumesAt(left)
         THEN /\ gate' = [acked EXCEPT !.paused = FALSE]
              /\ wait' = Released(wait)
              /\ timers' = Unheld(timers)
              /\ Callback("ipc", ResumeIf(gate.mode = "observed"))
         ELSE /\ gate' = acked
              /\ UNCHANGED <<wait, timers, owes>>
  /\ UNCHANGED <<fired, peerPaused, closed, stalled, output>>

\* SetHidden: a window that shows again restarts the stall clock.
SetHidden_quiet(h) ==
  /\ owes["ipc"] = "none" /\ Live /\ gate.hidden # h
  /\ gate' = [gate EXCEPT !.hidden = h,
                          !.age = IF ~h /\ gate.paused THEN 0 ELSE @]
  /\ UNCHANGED <<fired, owes, peerPaused, closed, stalled, timers, wait, output>>
SetHidden(h) ==
  /\ owes["ipc"] = "none" /\ Live /\ gate.hidden # h
  /\ IF h \/ ~gate.paused
     THEN gate' = [gate EXCEPT !.hidden = h] /\ UNCHANGED <<timers, wait>>
     ELSE /\ gate' = [gate EXCEPT !.hidden = h, !.age = 0]
          /\ IF gate.mode = "observed"
             THEN timers' = Arm(timers, Stall) /\ UNCHANGED wait
             ELSE wait' = Released(wait) /\ UNCHANGED timers
  /\ UNCHANGED <<fired, owes, peerPaused, closed, stalled, output>>

-----------------------------------------------------------------------------
(* The stall timer of an observed gate. *)

TimerFires(t) ==
  /\ t \in timers /\ t.left = 0
  /\ timers' = timers \ {t}
  /\ fired' = fired \cup {t.whose}
  /\ UNCHANGED <<gate, wait, owes, peerPaused, closed, stalled, output>>

\* checkObservedStall of the gate w; r.sessions[id] # watched when w is stale.
StallLeft == Stall - gate.age
IgnoresCheck(w) == w = "stale" \/ ~Live \/ ~gate.paused
CheckStall(w) ==
  /\ w \in fired /\ owes["timer"] = "none"
  /\ fired' = fired \ {w}
  /\ LET remaining == StallLeft
     IN  \/ /\ IgnoresCheck(w)
            /\ UNCHANGED <<gate, timers, owes, stalled>>
         \/ /\ ~IgnoresCheck(w) /\ gate.hidden
            /\ timers' = {[t EXCEPT !.held = FALSE] : t \in timers}
            /\ UNCHANGED <<gate, owes, stalled>>
         \/ /\ ~IgnoresCheck(w) /\ ~gate.hidden /\ remaining > 0
            /\ timers' = {[t EXCEPT !.held = FALSE] : t \in timers}
                           \cup {[left |-> remaining, whose |-> w, held |-> TRUE]}
            /\ UNCHANGED <<gate, owes, stalled>>
         \/ /\ ~IgnoresCheck(w) /\ ~gate.hidden /\ remaining <= 0
            /\ timers' = {[t EXCEPT !.held = FALSE] : t \in timers}
            /\ gate' = [gate EXCEPT !.paused = FALSE, !.disabled = TRUE]
            /\ stalled' = TRUE
            /\ Callback("timer", "resume")
  /\ UNCHANGED <<wait, peerPaused, closed, output>>

\* The callbacks, outside the lock: `refresh-client -A' to the tmux pane.
MakeCallback(g) ==
  /\ owes[g] # "none"
  /\ peerPaused' = (owes[g] = "pause")
  /\ Callback(g, "none")
  /\ UNCHANGED <<gate, timers, fired, wait, closed, stalled, output>>

-----------------------------------------------------------------------------
(* Wait, one iteration of its loop per step, and the reader around it.       *)

Passes_uncounted == ~Live \/ gate.disabled \/ ~gate.paused
Passes == ~Live \/ gate.disabled \/ (~gate.paused /\ gate.unacked <= High)
\* The clock starts at the pause: lastSign is set when paused becomes true.
Since_restart == 0
Since == IF gate.paused THEN gate.age ELSE 0
StallsOut == ~gate.hidden /\ Since >= Stall

WaitCheck(r) ==
  /\ wait[r].pc = "enter"
  /\ \/ /\ Passes
        /\ wait' = [wait EXCEPT ![r] = Idle("read")]
        /\ inserted' = 0
        /\ UNCHANGED <<gate, stalled>>
     \/ /\ ~Passes /\ StallsOut
        /\ gate' = [gate EXCEPT !.paused = FALSE, !.disabled = TRUE]
        /\ wait' = [Released(wait) EXCEPT ![r] = Idle("read")]
        /\ stalled' = TRUE /\ UNCHANGED inserted
     \/ /\ ~Passes /\ ~StallsOut
        /\ gate' = [gate EXCEPT !.paused = TRUE, !.age = Since]
        /\ wait' = [wait EXCEPT ![r] =
             [pc |-> "blocked", woken |-> FALSE,
              left |-> IF gate.hidden THEN Never ELSE Stall - Since]]
        /\ UNCHANGED <<stalled, inserted>>
  /\ UNCHANGED <<timers, fired, owes, peerPaused, closed, held>>

\* The select: resume channel or timeout send it round again, closed ends Wait.
WaitWakes(r) ==
  /\ wait[r].pc = "blocked"
  /\ wait[r].woken \/ wait[r].left = 0
  /\ wait' = [wait EXCEPT ![r] = Idle("enter")]
  /\ UNCHANGED <<gate, timers, fired, owes, peerPaused, closed, stalled, output>>

WaitClosed(r) ==
  /\ wait[r].pc = "blocked" /\ closed
  /\ wait' = [wait EXCEPT ![r] = Idle("read")]
  /\ UNCHANGED <<gate, timers, fired, owes, peerPaused, closed, stalled, output>>

\* Handshake.Filter and Flush: of the bytes held back and m more, n go to the
\* renderer and k stay; the echo of an injected command is dropped.
Filter(m, n, k) == n + k <= held + m /\ held' = k

\* Read returns something, of which what the filter forwards is counted and
\* sent, or the stream has ended.
Read(r) ==
  /\ wait[r].pc = "read"
  /\ \/ /\ gate.unacked < MaxUnacked
        /\ \E m \in 1 .. MaxRead, k \in 0 .. MaxHeld :
             \E n \in 0 .. MaxRead + MaxHeld : Filter(m, n, k) /\ Sent(n)
        /\ wait' = [wait EXCEPT ![r] = Idle("enter")]
     \/ /\ closed
        /\ wait' = [wait EXCEPT ![r] = Idle("gone")]
        /\ UNCHANGED <<gate, timers, owes, held>>
  /\ UNCHANGED <<fired, peerPaused, closed, stalled, inserted>>

\* Outside the read loops, past the gate: a timer or a failed injection flushes
\* what is held back, another injection replaces the filter that holds it.
FlushHeld ==
  /\ kind = "blocking" /\ held > 0 /\ gate.unacked < MaxUnacked
  /\ \E n, k \in 0 .. held : Filter(0, n, k) /\ k < held /\ Sent(n)
  /\ UNCHANGED <<fired, wait, peerPaused, closed, stalled, inserted>>

\* ... and the core writes sequences of its own (clear the line, command end).
Insert ==
  /\ kind = "blocking" /\ Live /\ gate.unacked < MaxUnacked
  /\ \E n \in 1 .. MaxInserted - inserted :
       Sent(n) /\ inserted' = inserted + n
  /\ UNCHANGED <<fired, wait, peerPaused, closed, stalled, held>>

CloseSession ==
  /\ ~closed /\ closed' = TRUE
  /\ UNCHANGED <<gate, timers, fired, wait, owes, peerPaused, stalled, output>>

\* Time passes; a due timer may still take its time to run.
Tick ==
  LET down(n) == IF n = 0 THEN 0 ELSE n - 1
  IN  /\ gate' = [gate EXCEPT !.age = IF Live /\ @ < Stall THEN @ + 1 ELSE @]
      /\ timers' = {[t EXCEPT !.left = down(@)] : t \in timers}
      /\ wait' = [r \in Readers |->
           IF wait[r].pc = "blocked" /\ wait[r].left # Never
           THEN [wait[r] EXCEPT !.left = down(@)] ELSE wait[r]]
      /\ UNCHANGED <<fired, owes, peerPaused, closed, stalled, output>>

-----------------------------------------------------------------------------
Ipc ==
  \/ Start
  \/ Stop
  \/ \E n \in 0 .. MaxAck : Ack(n)
  \/ \E h \in BOOLEAN : SetHidden(h)

Reader(r) == WaitCheck(r) \/ WaitWakes(r) \/ WaitClosed(r) \/ Read(r)

StallStep ==
  \/ \E t \in timers : TimerFires(t)
  \/ \E w \in fired : CheckStall(w)

Next ==
  /\ \/ Ipc \/ PaneOutput \/ FlushHeld \/ Insert \/ StallStep \/ CloseSession \/ Tick
     \/ \E r \in Readers : Reader(r)
     \/ \E g \in DOMAIN owes : MakeCallback(g)
  /\ UNCHANGED kind

Spec == Init /\ [][Next]_vars

\* Time passes, timers run and goroutines go on; a renderer owes nothing.
Fairness ==
  /\ WF_flow(Tick)
  /\ WF_flow(StallStep)
  /\ \A r \in Readers : WF_flow(WaitCheck(r)) /\ WF_flow(WaitWakes(r))
  /\ \A g \in {"ipc", "sender", "timer"} : WF_flow(MakeCallback(g))

FairSpec == Spec /\ Fairness

-----------------------------------------------------------------------------
TypeOK ==
  /\ kind \in Modes
  /\ gate \in [mode : {"none", "blocking", "observed"}, unacked : Nat, paused : BOOLEAN,
               hidden : BOOLEAN, disabled : BOOLEAN, age : 0 .. Stall]
  /\ timers \subseteq [left : 0 .. Stall, whose : {"current", "stale"}, held : BOOLEAN]
  /\ fired \subseteq {"current", "stale"}
  /\ wait \in [Readers -> [pc : {"enter", "blocked", "read", "gone"},
                           woken : BOOLEAN, left : 0 .. Never]]
  /\ owes \in [{"ipc", "sender", "timer"} -> {"none", "pause", "resume"}]
  /\ peerPaused \in BOOLEAN /\ closed \in BOOLEAN /\ stalled \in BOOLEAN
  /\ held \in 0 .. MaxHeld /\ inserted \in 0 .. MaxInserted

(* No reader sleeps through its wake-up: one that is blocked and not woken   *)
(* holds the channel of a gate that exists, is paused and was not opened by  *)
(* the safety net, and unless the window is hidden its own timeout is no     *)
(* later than the stall of the gate - across Start, Stop, Ack, SetHidden and *)
(* the other reader, which may all replace the channel it waits on.          *)
NoLostWakeup ==
  \A r \in Readers : wait[r].pc = "blocked" /\ ~wait[r].woken =>
    /\ gate.mode = "blocking" /\ gate.paused /\ ~gate.disabled
    /\ ~gate.hidden => wait[r].left # Never /\ wait[r].left <= Stall

(* While nobody had to be released by the safety net, the output the         *)
(* renderer has not processed is at most the high watermark, one read per    *)
(* reader that was let through before it was exceeded, what the handshake    *)
(* filter held back, and what the core inserted since a reader last passed - *)
(* whatever the readers, the flushes outside the loops, late acks and        *)
(* restarts of the count do.  A session that is closed is read to its end    *)
(* without waiting (the closed case of Wait).                                *)
BacklogBounded ==
  gate.mode = "blocking" /\ ~stalled /\ ~closed =>
    gate.unacked <= High + MaxRead * Cardinality(Readers) + MaxHeld + inserted

\* From some time on the renderer says nothing more.
RendererSilent == <>[][~Ipc]_vars

(* A renderer that vanished does not keep the gate shut: each blocked reader *)
(* gets to read again and the gate of an observed session is opened, unless  *)
(* the window is hidden, in which case the main process sends Stop.  (The    *)
(* callbacks overtake each other, so the pane need not follow the gate.)     *)
PausesEnd ==
  RendererSilent =>
    /\ \A r \in Readers :
         wait[r].pc = "blocked" ~> (wait[r].pc \in {"read", "gone"} \/ gate.hidden)
    /\ gate.mode = "observed" /\ gate.paused ~> ~gate.paused \/ gate.hidden
=============================================================================
