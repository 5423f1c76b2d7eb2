-------------------------- MODULE FlowControlProofs --------------------------
(***************************************************************************)
(* Proofs about FlowControl, for every set of readers and every choice of  *)
(* watermarks, stall timeout and read size.                                *)
(*                                                                         *)
(* NoLostWakeup says of a blocked reader that the gate it waits on is      *)
(* paused and still able to wake it.  It is inductive only together with   *)
(* what keeps the stall check of an observed gate (which releases nobody)  *)
(* away from a session with readers, and with the fact that a gate opened  *)
(* by the safety net is not paused.  BacklogBounded needs a count: what    *)
(* the readers inside their read may still add, and what the handshake     *)
(* filter holds back, is part of the bound.                                *)
(***************************************************************************)
EXTENDS FlowControl, FiniteSetTheorems, TLAPS

GateSet ==
  [mode : {"none", "blocking", "observed"}, unacked : Nat, paused : BOOLEAN,
   hidden : BOOLEAN, disabled : BOOLEAN, age : 0 .. Stall]
TimerSet == [left : 0 .. Stall, whose : {"current", "stale"}, held : BOOLEAN]
WaitSet == [pc : {"enter", "blocked", "read", "gone"}, woken : BOOLEAN, left : 0 .. Never]

\* Readers belong to a blocking session, stall timers to an observed one.
Kinds ==
  /\ gate.mode \in {"none", kind}
  /\ kind = "blocking" => timers = {} /\ fired = {}
  /\ kind = "observed" => \A r \in Readers : wait[r].pc = "gone"

\* A gate that the safety net opened is open, until an ack closes it again.
Opened == gate.disabled => stalled /\ ~gate.paused

Reading == {r \in Readers : wait[r].pc = "read"}

\* What is not acknowledged, what is held back, and one read for every reader
\* that was let through.
Budget ==
  gate.mode = "blocking" /\ ~stalled /\ ~closed =>
    gate.unacked + held + MaxRead * Cardinality(Reading)
      <= High + MaxRead * Cardinality(Readers) + MaxHeld + inserted

FlowInv == TypeOK /\ Kinds /\ Opened /\ NoLostWakeup /\ Budget

-----------------------------------------------------------------------------
(* Facts about the operators.                                                *)

\* Waking the blocked readers moves none of them and leaves none unwoken.
LEMMA ReleasedFacts ==
  ASSUME NEW ws \in [Readers -> WaitSet]
  PROVE  /\ Released(ws) \in [Readers -> WaitSet]
         /\ \A r \in Readers : Released(ws)[r].pc = ws[r].pc
         /\ \A r \in Readers : ~(Released(ws)[r].pc = "blocked" /\ ~Released(ws)[r].woken)
<1>1. \A r \in Readers : ws[r] \in WaitSet
  OBVIOUS
<1>2. \A w \in WaitSet : [w EXCEPT !.woken = TRUE] \in WaitSet
  BY DEF WaitSet
<1> QED
  BY <1>1, <1>2 DEF Released, WaitSet

\* A reader at rest is a value of the right type.
LEMMA IdleFacts ==
  ASSUME NEW p \in {"enter", "blocked", "read", "gone"}
  PROVE  Idle(p) \in WaitSet /\ Idle(p).pc = p
<1>1. Never \in 0 .. Never
  BY FlowAssumption DEF Never
<1> QED
  BY <1>1 DEF Idle, WaitSet

\* A set of readers has a size, no larger than all of them.
LEMMA ReadersCount ==
  ASSUME NEW S \in SUBSET Readers
  PROVE  /\ Cardinality(S) \in Nat /\ Cardinality(Readers) \in Nat
         /\ Cardinality(S) <= Cardinality(Readers)
         /\ IsFiniteSet(S)
<1>1. IsFiniteSet(S)
  BY FS_Subset, FlowAssumption
<1>2. Cardinality(S) \in Nat /\ Cardinality(Readers) \in Nat
  BY <1>1, FS_CardinalityType, FlowAssumption
<1>3. Cardinality(S) <= Cardinality(Readers)
  BY FS_Subset, FlowAssumption
<1> QED
  BY <1>1, <1>2, <1>3

\* Reads of fewer readers add no more.
LEMMA TimesMonotone ==
  ASSUME NEW m \in Nat, NEW a \in Nat, NEW b \in Nat, a <= b
  PROVE  m * a \in Nat /\ m * b \in Nat /\ m * a <= m * b
<1>1. PICK d \in Nat : b = a + d
  BY SMT
<1>2. m * b = m * a + m * d
  BY <1>1, SMT
<1>3. m * d \in Nat /\ m * a \in Nat /\ m * b \in Nat
  BY SMT
<1> QED
  BY <1>2, <1>3

\* At or below the high watermark every reader may have one read in hand.
LEMMA BelowHigh ==
  ASSUME NEW u \in Nat, u <= High, NEW h \in 0 .. MaxHeld, NEW i \in Nat, NEW S \in SUBSET Readers
  PROVE  u + h + MaxRead * Cardinality(S) <= High + MaxRead * Cardinality(Readers) + MaxHeld + i
<1>1. Cardinality(S) \in Nat /\ Cardinality(Readers) \in Nat /\ Cardinality(S) <= Cardinality(Readers)
  BY ReadersCount
<1>2. MaxRead \in Nat /\ High \in Nat /\ MaxHeld \in Nat
  BY FlowAssumption
<1> DEFINE x == MaxRead * Cardinality(S)
           y == MaxRead * Cardinality(Readers)
<1>3. x \in Nat /\ y \in Nat /\ x <= y
  BY <1>1, <1>2, TimesMonotone
<1> HIDE DEF x, y
<1>4. u + h + x <= High + y + MaxHeld + i
  BY <1>2, <1>3
<1> QED
  BY <1>4 DEF x, y

\* A step that adds nothing but what was inserted or held back, and lets nobody
\* through, keeps the budget.
LEMMA BudgetKept ==
  ASSUME TypeOK, TypeOK', Budget,
         gate'.mode = gate.mode, stalled' = stalled, closed' = closed,
         gate'.unacked + held' + inserted <= gate.unacked + held + inserted',
         \A r \in Readers : wait'[r].pc = "read" => wait[r].pc = "read"
  PROVE  Budget'
<1>1. Reading' \in SUBSET Reading /\ Reading \in SUBSET Readers
  BY DEF Reading
<1>2. IsFiniteSet(Reading) /\ Cardinality(Reading) \in Nat
  BY <1>1, ReadersCount
<1>3. Cardinality(Reading') \in Nat /\ Cardinality(Reading') <= Cardinality(Reading)
  BY <1>1, <1>2, FS_Subset, FS_CardinalityType
<1> DEFINE x == MaxRead * Cardinality(Reading)
           y == MaxRead * Cardinality(Readers)
           z == MaxRead * Cardinality(Reading')
<1>4. z \in Nat /\ x \in Nat /\ z <= x
  BY <1>2, <1>3, TimesMonotone, FlowAssumption
<1>5. Cardinality(Readers) \in Nat
  BY <1>1, ReadersCount
<1>6. y \in Nat
  BY <1>5, TimesMonotone, FlowAssumption
<1>7. /\ gate.unacked \in Nat /\ gate'.unacked \in Nat /\ High \in Nat /\ MaxHeld \in Nat
      /\ held \in Nat /\ held' \in Nat /\ inserted \in Nat /\ inserted' \in Nat
  BY FlowAssumption DEF TypeOK
<1>8. ASSUME gate.mode = "blocking" /\ ~stalled /\ ~closed
      PROVE  gate.unacked + held + x <= High + y + MaxHeld + inserted
  BY <1>8 DEF Budget
<1> HIDE DEF x, y, z
<1>9. ASSUME gate'.mode = "blocking" /\ ~stalled' /\ ~closed'
      PROVE  gate'.unacked + held' + z <= High + y + MaxHeld + inserted'
  BY <1>4, <1>6, <1>7, <1>8, <1>9
<1> QED
  BY <1>9 DEF Budget, x, y, z

-----------------------------------------------------------------------------
(* Every step keeps the invariant.                                           *)

\* The goroutines that make callbacks.
Makers == {"ipc", "sender", "timer"}

\* A session begins with no gate and nobody waiting.
LEMMA InitFlow == Init => FlowInv
<1> SUFFICES ASSUME Init PROVE FlowInv
  OBVIOUS
<1>1. Idle("enter") \in WaitSet /\ Idle("gone") \in WaitSet /\ Idle("enter").pc = "enter" /\ Idle("gone").pc = "gone"
  BY IdleFacts
<1>2. TypeOK
  <2>1. gate \in GateSet
    BY FlowAssumption DEF Init, NoGate, GateSet
  <2>2. wait \in [Readers -> WaitSet]
    BY <1>1 DEF Init
  <2>3. held \in 0 .. MaxHeld /\ inserted \in 0 .. MaxInserted
    BY FlowAssumption DEF Init
  <2> QED
    BY <2>1, <2>2, <2>3 DEF Init, TypeOK, GateSet, WaitSet
<1>3. Kinds /\ Opened
  BY <1>1 DEF Init, Kinds, Opened, NoGate
<1>4. \A r \in Readers : wait[r].pc # "blocked"
  BY <1>1 DEF Init
<1>5. NoLostWakeup
  BY <1>4 DEF NoLostWakeup
<1>6. Budget
  BY DEF Init, Budget, NoGate
<1> QED
  BY <1>2, <1>3, <1>5, <1>6 DEF FlowInv

\* Replacing the gate wakes whoever held the old one and starts a new count.
LEMMA DropOk ==
  ASSUME FlowInv, UNCHANGED kind, NEW m \in {"none", kind}, Drop(NewGate(m)), owes["ipc"] = "none"
  PROVE  FlowInv'
<1> USE DEF FlowInv
<1>1. kind \in {"blocking", "observed"} /\ wait \in [Readers -> WaitSet]
  BY FlowAssumption DEF TypeOK, WaitSet
<1>2. /\ wait' \in [Readers -> WaitSet]
      /\ \A r \in Readers : wait'[r].pc = wait[r].pc
      /\ \A r \in Readers : ~(wait'[r].pc = "blocked" /\ ~wait'[r].woken)
  BY <1>1, ReleasedFacts DEF Drop
<1>3. /\ gate' \in GateSet /\ gate'.mode = m /\ gate'.unacked = 0
      /\ ~gate'.paused /\ ~gate'.disabled
  <2>1. gate' = NewGate(m)
    BY Zenon DEF Drop
  <2>2. m \in {"none", "blocking", "observed"} /\ 0 \in 0 .. Stall
    BY <1>1, FlowAssumption
  <2>3. NoGate \in GateSet /\ NoGate.unacked = 0 /\ ~NoGate.paused /\ ~NoGate.disabled
    BY <2>2 DEF NoGate, GateSet
  <2>4. \A x \in GateSet : /\ [x EXCEPT !.mode = m] \in GateSet /\ [x EXCEPT !.mode = m].mode = m
                           /\ [x EXCEPT !.mode = m].unacked = x.unacked
                           /\ [x EXCEPT !.mode = m].paused = x.paused
                           /\ [x EXCEPT !.mode = m].disabled = x.disabled
    BY <2>2 DEF GateSet
  <2> QED
    BY <2>1, <2>3, <2>4 DEF NewGate
<1>4. TypeOK'
  <2>1. timers' \subseteq TimerSet
    <3>1. \A t \in TimerSet : [t EXCEPT !.whose = "stale"] \in TimerSet
      BY DEF TimerSet
    <3>2. timers \subseteq TimerSet
      BY DEF TypeOK, TimerSet
    <3> QED
      BY <3>1, <3>2 DEF Drop, Outdated, Unheld
  <2>2. owes' \in [Makers -> {"none", "pause", "resume"}]
    BY DEF Drop, Callback, ResumeIf, TypeOK, Makers
  <2>3. fired' \subseteq {"current", "stale"}
    BY DEF Drop
  <2>4. held' \in 0 .. MaxHeld /\ inserted' \in 0 .. MaxInserted
    BY FlowAssumption DEF TypeOK, Drop
  <2> QED
    BY <1>2, <1>3, <2>1, <2>2, <2>3, <2>4 DEF TypeOK, Drop, GateSet, TimerSet, WaitSet, Makers
<1>5. Kinds'
  BY <1>2, <1>3 DEF Kinds, Drop, Outdated, Unheld
<1>6. Opened' /\ NoLostWakeup'
  BY <1>2, <1>3 DEF Opened, NoLostWakeup
<1>7. Budget'
  <2>1. Reading' \in SUBSET Readers
    BY DEF Reading
  <2>2. 0 <= High /\ held' \in 0 .. MaxHeld /\ inserted' \in Nat
    BY <1>4, FlowAssumption DEF TypeOK
  <2> QED
    BY <1>3, <2>1, <2>2, BelowHigh DEF Budget
<1> QED
  BY <1>4, <1>5, <1>6, <1>7

\* Start and Stop put a fresh gate, or none, in the place of the old one.
LEMMA StartStopOk ==
  ASSUME FlowInv, UNCHANGED kind, Start \/ Stop
  PROVE  FlowInv'
<1>1. CASE Start
  BY <1>1, DropOk DEF Start
<1>2. CASE Stop
  <2>1. NoGate = NewGate("none")
    BY DEF NewGate, NoGate
  <2>2. Drop(NewGate("none"))
    BY <1>2, <2>1, Zenon DEF Stop
  <2> QED
    BY <1>2, <2>2, DropOk DEF Stop
<1> QED
  BY <1>1, <1>2

\* An ack lowers the count; when it lifts the pause, it wakes everybody.
LEMMA AckOk ==
  ASSUME FlowInv, UNCHANGED kind, NEW n \in 0 .. MaxAck, Ack(n)
  PROVE  FlowInv'
<1> USE DEF FlowInv
<1>1. /\ gate \in GateSet /\ wait \in [Readers -> WaitSet]
      /\ kind \in {"blocking", "observed"} /\ n \in Nat
  BY FlowAssumption DEF TypeOK, WaitSet, GateSet
<1>2. AckedCount(n) \in Nat /\ AckedCount(n) <= gate.unacked
  BY <1>1 DEF AckedCount, GateSet
<1>3. /\ gate' \in GateSet /\ gate'.mode = gate.mode /\ gate'.unacked = AckedCount(n)
      /\ ~gate'.disabled /\ gate'.hidden = gate.hidden
      /\ gate'.paused = IF ResumesAt(AckedCount(n)) THEN FALSE ELSE gate.paused
  <2> DEFINE left == AckedCount(n)
  <2> HIDE DEF left
  <2>1. left \in Nat /\ 0 \in 0 .. Stall
    BY <1>2, FlowAssumption DEF left
  <2>2. gate' = IF ResumesAt(left) THEN [[gate EXCEPT !.unacked = left, !.disabled = FALSE, !.age = 0] EXCEPT !.paused = FALSE]
                ELSE [gate EXCEPT !.unacked = left, !.disabled = FALSE, !.age = 0]
    BY DEF Ack, left
  <2>3. [gate EXCEPT !.unacked = left, !.disabled = FALSE, !.age = 0] \in GateSet
    BY <1>1, <2>1 DEF GateSet
  <2> QED
    BY <1>1, <2>1, <2>2, <2>3 DEF GateSet, left
<1>4. \/ UNCHANGED wait
      \/ /\ wait' \in [Readers -> WaitSet]
         /\ \A r \in Readers : wait'[r].pc = wait[r].pc
         /\ \A r \in Readers : ~(wait'[r].pc = "blocked" /\ ~wait'[r].woken)
  <2>1. wait' = wait \/ wait' = Released(wait)
    BY DEF Ack
  <2> QED
    BY <1>1, <2>1, ReleasedFacts
<1>5. TypeOK'
  <2>1. timers' \subseteq timers
    BY DEF Ack, Unheld
  <2>2. owes' \in [Makers -> {"none", "pause", "resume"}]
    BY DEF Ack, Callback, ResumeIf, TypeOK, Makers
  <2> QED
    BY <1>1, <1>3, <1>4, <2>1, <2>2 DEF TypeOK, Ack, output, GateSet, WaitSet, Makers
<1>6. Kinds'
  <2>1. timers' \subseteq timers /\ fired' = fired
    BY DEF Ack, Unheld
  <2> QED
    BY <1>3, <1>4, <2>1 DEF Kinds
<1>7. Opened'
  BY <1>3 DEF Opened
<1>8. NoLostWakeup'
  <2>1. CASE ResumesAt(AckedCount(n))
    <3>1. wait' = Released(wait)
      BY <2>1 DEF Ack
    <3> QED
      BY <1>1, <3>1, ReleasedFacts DEF NoLostWakeup
  <2>2. CASE ~ResumesAt(AckedCount(n))
    <3>1. wait' = wait
      BY <2>2 DEF Ack
    <3> QED
      BY <1>3, <2>2, <3>1 DEF NoLostWakeup
  <2> QED
    BY <2>1, <2>2
<1>9. Budget'
  <2>1. stalled' = stalled /\ closed' = closed /\ held' = held /\ inserted' = inserted
    BY DEF Ack, output
  <2>2. gate'.unacked + held' + inserted <= gate.unacked + held + inserted'
    BY <1>1, <1>2, <1>3, <2>1 DEF TypeOK, GateSet
  <2> QED
    BY <1>3, <1>4, <1>5, <2>1, <2>2, BudgetKept
<1> QED
  BY <1>5, <1>6, <1>7, <1>8, <1>9

\* A window that shows again sends the readers round to measure their timeout.
LEMMA SetHiddenOk ==
  ASSUME FlowInv, UNCHANGED kind, NEW h \in BOOLEAN, SetHidden(h)
  PROVE  FlowInv'
<1> USE DEF FlowInv
<1>1. /\ gate \in GateSet /\ wait \in [Readers -> WaitSet]
      /\ kind \in {"blocking", "observed"}
  BY FlowAssumption DEF TypeOK, WaitSet, GateSet
<1>2. /\ gate' \in GateSet /\ gate'.mode = gate.mode /\ gate'.unacked = gate.unacked
      /\ gate'.disabled = gate.disabled /\ gate'.hidden = h /\ gate'.paused = gate.paused
  <2>1. 0 \in 0 .. Stall
    BY FlowAssumption
  <2> QED
    BY <1>1, <2>1 DEF SetHidden, GateSet
<1>3. wait' = wait \/ wait' = Released(wait)
  BY DEF SetHidden
<1>4. wait' \in [Readers -> WaitSet] /\ \A r \in Readers : wait'[r].pc = wait[r].pc
  BY <1>1, <1>3, ReleasedFacts
<1>5. TypeOK'
  <2>1. timers' \subseteq TimerSet
    <3>1. [left |-> Stall, whose |-> "current", held |-> TRUE] \in TimerSet
      BY FlowAssumption DEF TimerSet
    <3>2. timers \subseteq TimerSet
      BY DEF TypeOK, TimerSet
    <3> QED
      BY <3>1, <3>2 DEF SetHidden, Arm, Unheld
  <2> QED
    BY <1>2, <1>4, <2>1 DEF TypeOK, SetHidden, output, GateSet, WaitSet, TimerSet
<1>6. Kinds'
  BY <1>2, <1>4 DEF Kinds, SetHidden, Live
<1>7. Opened'
  BY <1>2 DEF Opened, SetHidden
<1>8. NoLostWakeup'
  <2>1. CASE wait' = Released(wait)
    BY <1>1, <2>1, ReleasedFacts DEF NoLostWakeup
  <2>2. CASE wait' = wait /\ h
    BY <1>2, <2>2 DEF NoLostWakeup
  <2>3. CASE wait' = wait /\ ~gate.paused
    BY <1>2, <2>3 DEF NoLostWakeup
  <2>4. CASE wait' = wait /\ ~h /\ gate.paused
    <3>1. gate.mode = "observed" \/ wait' = Released(wait)
      BY <2>4 DEF SetHidden
    <3>2. gate.mode # "observed" \/ \A r \in Readers : ~(wait[r].pc = "blocked")
      BY <1>1 DEF Kinds
    <3>3. CASE wait' = Released(wait)
      BY <2>1, <3>3
    <3>4. CASE \A r \in Readers : ~(wait[r].pc = "blocked")
      BY <2>4, <3>4 DEF NoLostWakeup
    <3> QED
      BY <3>1, <3>2, <3>3, <3>4
  <2> QED
    BY <1>3, <2>1, <2>2, <2>3, <2>4
<1>9. Budget'
  <2>1. stalled' = stalled /\ closed' = closed /\ held' = held /\ inserted' = inserted
    BY DEF SetHidden, output
  <2>2. gate'.unacked + held' + inserted <= gate.unacked + held + inserted'
    BY <1>1, <1>2, <2>1 DEF TypeOK, GateSet
  <2> QED
    BY <1>2, <1>4, <1>5, <2>1, <2>2, BudgetKept
<1> QED
  BY <1>5, <1>6, <1>7, <1>8, <1>9

\* Counting n bytes adds at most n; only an observed gate is paused by it.
LEMMA SentFacts ==
  ASSUME FlowInv, NEW n \in Nat, Sent(n)
  PROVE  /\ gate' \in GateSet /\ gate'.mode = gate.mode
         /\ gate'.unacked <= gate.unacked + n
         /\ gate'.disabled = gate.disabled /\ gate'.hidden = gate.hidden
         /\ gate.disabled => gate'.paused = gate.paused
         /\ gate.paused => gate'.paused
         /\ kind = "blocking" => timers' = timers
         /\ timers' \subseteq TimerSet
         /\ owes' \in [Makers -> {"none", "pause", "resume"}]
<1> USE DEF FlowInv
<1>1. /\ gate \in GateSet /\ timers \subseteq TimerSet /\ gate.unacked \in Nat
      /\ owes \in [Makers -> {"none", "pause", "resume"}]
  BY DEF TypeOK, TimerSet, GateSet, Makers
<1>2. n \in Nat /\ 0 \in 0 .. Stall
  BY FlowAssumption
<1>3. \A u \in Nat, a \in 0 .. Stall :
        /\ [gate EXCEPT !.unacked = u, !.paused = TRUE, !.age = a] \in GateSet
        /\ [gate EXCEPT !.unacked = u] \in GateSet
  BY <1>1 DEF GateSet
<1>4. gate.unacked + n \in Nat /\ gate.unacked <= gate.unacked + n
  BY <1>1, <1>2
<1>5. CASE PausesAt(n)
  <2>1. gate' = [gate EXCEPT !.unacked = gate.unacked + n, !.paused = TRUE, !.age = 0]
    BY <1>5 DEF Sent
  <2>2. gate' \in GateSet
    BY <1>2, <1>3, <1>4, <2>1, Zenon
  <2>3. timers' = Arm(timers, Stall) /\ Callback("sender", "pause")
    BY <1>5 DEF Sent
  <2>4. [left |-> Stall, whose |-> "current", held |-> TRUE] \in TimerSet
    BY FlowAssumption DEF TimerSet
  <2>5. timers' \subseteq TimerSet
    BY <1>1, <2>3, <2>4 DEF Arm, Unheld
  <2>6. owes' \in [Makers -> {"none", "pause", "resume"}]
    BY <1>1, <2>3 DEF Callback, Makers
  <2>7. ~gate.disabled /\ gate.mode = "observed" /\ kind # "blocking"
    BY <1>5 DEF PausesAt, Kinds
  <2>8. /\ gate'.mode = gate.mode /\ gate'.unacked = gate.unacked + n /\ gate'.paused
        /\ gate'.disabled = gate.disabled /\ gate'.hidden = gate.hidden
    BY <1>1, <2>1 DEF GateSet
  <2>9. gate'.unacked <= gate.unacked + n
    BY <1>4, <2>8
  <2> QED
    BY <2>2, <2>5, <2>6, <2>7, <2>8, <2>9
<1>6. CASE ~PausesAt(n)
  <2>1. gate' = [gate EXCEPT !.unacked = gate.unacked + n] \/ gate' = gate
    BY <1>6 DEF Sent
  <2>2. gate' \in GateSet
    BY <1>1, <1>2, <1>3, <1>4, <2>1, Zenon
  <2>3. timers' = timers /\ owes' = owes
    BY <1>6 DEF Sent
  <2>4. /\ gate'.mode = gate.mode /\ gate'.unacked \in {gate.unacked, gate.unacked + n} /\ gate'.paused = gate.paused
        /\ gate'.disabled = gate.disabled /\ gate'.hidden = gate.hidden
    BY <1>1, <2>1 DEF GateSet
  <2>5. gate'.unacked <= gate.unacked + n
    BY <1>1, <1>2, <1>4, <2>4
  <2> QED
    BY <1>1, <2>2, <2>3, <2>4, <2>5
<1> QED
  BY <1>5, <1>6

\* Output of a pane is counted; a session of panes has no readers.
LEMMA PaneOutputOk ==
  ASSUME FlowInv, UNCHANGED kind, PaneOutput
  PROVE  FlowInv'
<1> USE DEF FlowInv
<1>1. PICK n \in 1 .. MaxRead : Sent(n)
  BY DEF PaneOutput
<1>2. /\ gate' \in GateSet /\ gate'.mode = gate.mode
      /\ gate'.disabled = gate.disabled
      /\ gate.disabled => gate'.paused = gate.paused
      /\ timers' \subseteq TimerSet
      /\ owes' \in [Makers -> {"none", "pause", "resume"}]
  BY <1>1, SentFacts, FlowAssumption
<1>3. /\ kind = "observed" /\ wait' = wait /\ stalled' = stalled /\ closed' = closed
      /\ fired' = fired /\ peerPaused' = peerPaused /\ held' = held /\ inserted' = inserted
  BY DEF PaneOutput, output
<1>4. TypeOK'
  BY <1>2, <1>3 DEF TypeOK, GateSet, TimerSet, Makers
<1>5. Kinds' /\ Opened' /\ NoLostWakeup' /\ Budget'
  BY <1>2, <1>3 DEF Kinds, Opened, NoLostWakeup, Budget
<1> QED
  BY <1>4, <1>5

\* A reader that has read gives back the read it was allowed.
LEMMA ReadOk ==
  ASSUME FlowInv, UNCHANGED kind, NEW r \in Readers, Read(r)
  PROVE  FlowInv'
<1> USE DEF FlowInv
<1>1. wait \in [Readers -> WaitSet] /\ gate.unacked \in Nat /\ gate \in GateSet
  BY DEF TypeOK, WaitSet, GateSet
<1>2. wait[r].pc = "read" /\ stalled' = stalled /\ closed' = closed /\ fired' = fired /\ peerPaused' = peerPaused
  BY DEF Read
<1>3. Idle("enter") \in WaitSet /\ Idle("gone") \in WaitSet /\ Idle("enter").pc = "enter" /\ Idle("gone").pc = "gone"
  BY IdleFacts
<1>4. PICK p \in {"enter", "gone"} : wait' = [wait EXCEPT ![r] = Idle(p)]
  BY DEF Read
<1>5. /\ wait' \in [Readers -> WaitSet] /\ wait'[r].pc \in {"enter", "gone"}
      /\ \A q \in Readers : q # r => wait'[q] = wait[q]
  BY <1>1, <1>3, <1>4
<1>6. \A q \in Readers : wait'[q].pc = "blocked" => wait'[q] = wait[q]
  BY <1>5
<1>7. CASE \E m \in 1 .. MaxRead, k \in 0 .. MaxHeld :
             \E n \in 0 .. MaxRead + MaxHeld : Filter(m, n, k) /\ Sent(n)
  <2>1. PICK m \in 1 .. MaxRead, k \in 0 .. MaxHeld : \E n \in 0 .. MaxRead + MaxHeld : Filter(m, n, k) /\ Sent(n)
    BY <1>7
  <2>9. PICK n \in 0 .. MaxRead + MaxHeld : Filter(m, n, k) /\ Sent(n)
    BY <2>1
  <2>10. n \in Nat /\ m \in Nat /\ m <= MaxRead /\ held \in Nat /\ MaxHeld \in Nat
    BY FlowAssumption DEF TypeOK
  <2>11. held' = k /\ n + held' <= held + m /\ held' \in 0 .. MaxHeld /\ inserted' = inserted
    BY <2>9 DEF Filter, Read
  <2>2. /\ gate' \in GateSet /\ gate'.mode = gate.mode
        /\ gate'.unacked <= gate.unacked + n
        /\ gate'.disabled = gate.disabled /\ gate'.hidden = gate.hidden
        /\ gate.disabled => gate'.paused = gate.paused
        /\ gate.paused => gate'.paused
        /\ kind = "blocking" => timers' = timers
        /\ timers' \subseteq TimerSet
        /\ owes' \in [Makers -> {"none", "pause", "resume"}]
    BY <2>9, <2>10, SentFacts
  <2>3. TypeOK'
    BY <1>2, <1>5, <2>2, <2>11 DEF TypeOK, GateSet, TimerSet, Makers, WaitSet
  <2>4. Kinds'
    BY <1>2, <2>2 DEF Kinds
  <2>5. Opened'
    BY <1>2, <2>2 DEF Opened
  <2>6. NoLostWakeup'
    BY <1>6, <2>2 DEF NoLostWakeup
  <2>7. Budget'
    <3>1. Reading \in SUBSET Readers /\ r \in Reading /\ Reading' = Reading \ {r}
      BY <1>2, <1>5 DEF Reading
    <3>2. IsFiniteSet(Reading) /\ Cardinality(Reading) \in Nat /\ Cardinality(Readers) \in Nat
      BY <3>1, ReadersCount
    <3>3. Cardinality(Reading') = Cardinality(Reading) - 1 /\ Cardinality(Reading') \in Nat
      BY <3>1, <3>2, FS_RemoveElement, FS_CardinalityType
    <3> DEFINE c == Cardinality(Reading')
               x == MaxRead * c
               y == MaxRead * Cardinality(Readers)
               z == MaxRead * Cardinality(Reading)
    <3>4. MaxRead \in Nat /\ High \in Nat
      BY FlowAssumption
    <3>5. x \in Nat /\ y \in Nat
      BY <3>2, <3>3, <3>4, TimesMonotone
    <3>6. z = x + MaxRead
      <4> HIDE DEF c
      <4>1. c \in Nat /\ Cardinality(Reading) = c + 1
        BY <3>2, <3>3 DEF c
      <4>2. MaxRead * (c + 1) = MaxRead * c + MaxRead
        BY <4>1, <3>4, SMT
      <4> QED
        BY <4>1, <4>2
    <3>7. ASSUME gate.mode = "blocking" /\ ~stalled /\ ~closed
          PROVE  gate.unacked + held + z <= High + y + MaxHeld + inserted
      BY <3>7 DEF Budget
    <3>8. gate'.unacked \in Nat /\ held' \in Nat /\ inserted \in Nat
      BY <2>2, <2>3 DEF GateSet, TypeOK
    <3>10. gate'.unacked + held' <= gate.unacked + held + MaxRead
      BY <1>1, <2>2, <2>10, <2>11, <3>4, <3>8
    <3> HIDE DEF x, y, z
    <3>9. ASSUME gate'.mode = "blocking" /\ ~stalled' /\ ~closed'
          PROVE  gate'.unacked + held' + x <= High + y + MaxHeld + inserted'
      <4>1. gate.unacked + held + z <= High + y + MaxHeld + inserted
        BY <3>7, <3>9, <2>2, <1>2
      <4> QED
        BY <4>1, <3>4, <3>5, <3>6, <3>8, <3>10, <2>10, <2>11, <1>1
    <3> QED
      BY <3>9 DEF Budget, x, y
  <2> QED
    BY <2>3, <2>4, <2>5, <2>6, <2>7
<1>8. CASE UNCHANGED <<gate, timers, owes, held>>
  <2>9. inserted' = inserted
    BY DEF Read
  <2>1. TypeOK'
    BY <1>2, <1>5, <1>8, <2>9 DEF TypeOK, WaitSet
  <2>2. Kinds'
    BY <1>2, <1>8 DEF Kinds
  <2>3. Opened'
    BY <1>2, <1>8 DEF Opened
  <2>4. NoLostWakeup'
    BY <1>6, <1>8 DEF NoLostWakeup
  <2>5. \A q \in Readers : wait'[q].pc = "read" => wait[q].pc = "read"
    BY <1>2, <1>5
  <2>7. gate'.unacked + held' + inserted <= gate.unacked + held + inserted'
    BY <1>1, <1>8, <2>9 DEF TypeOK
  <2>6. Budget'
    BY <1>1, <1>2, <1>8, <2>1, <2>5, <2>7, BudgetKept
  <2> QED
    BY <2>1, <2>2, <2>3, <2>4, <2>6
<1> QED
  BY <1>7, <1>8 DEF Read

\* Output from outside the read loops was held back before or is an insertion.
LEMMA OutsideOk ==
  ASSUME FlowInv, UNCHANGED kind, FlushHeld \/ Insert
  PROVE  FlowInv'
<1> USE DEF FlowInv
<1>1. /\ gate \in GateSet /\ gate.unacked \in Nat /\ held \in 0 .. MaxHeld
      /\ inserted \in 0 .. MaxInserted /\ MaxHeld \in Nat /\ MaxInserted \in Nat
  BY FlowAssumption DEF TypeOK, GateSet
<1>2. /\ kind = "blocking" /\ wait' = wait /\ stalled' = stalled /\ closed' = closed
      /\ fired' = fired /\ peerPaused' = peerPaused
  BY DEF FlushHeld, Insert
<1>3. \E n \in Nat : /\ Sent(n) /\ n + held' + inserted <= held + inserted'
                     /\ held' \in 0 .. MaxHeld /\ inserted' \in 0 .. MaxInserted
  <2>1. CASE FlushHeld
    <3>1. PICK n, k \in 0 .. held : Filter(0, n, k) /\ Sent(n)
      BY <2>1 DEF FlushHeld
    <3>2. inserted' = inserted
      BY <2>1 DEF FlushHeld
    <3> QED
      BY <1>1, <3>1, <3>2 DEF Filter
  <2>2. CASE Insert
    <3>1. PICK n \in 1 .. MaxInserted - inserted : Sent(n) /\ inserted' = inserted + n
      BY <2>2 DEF Insert
    <3>2. held' = held
      BY <2>2 DEF Insert
    <3> QED
      BY <1>1, <3>1, <3>2
  <2> QED
    BY <2>1, <2>2
<1>4. PICK n \in Nat : /\ Sent(n) /\ n + held' + inserted <= held + inserted'
                      /\ held' \in 0 .. MaxHeld /\ inserted' \in 0 .. MaxInserted
  BY <1>3
<1>5. /\ gate' \in GateSet /\ gate'.mode = gate.mode
      /\ gate'.unacked <= gate.unacked + n
      /\ gate'.disabled = gate.disabled /\ gate'.hidden = gate.hidden
      /\ gate.disabled => gate'.paused = gate.paused
      /\ gate.paused => gate'.paused
      /\ timers' = timers
      /\ timers' \subseteq TimerSet
      /\ owes' \in [Makers -> {"none", "pause", "resume"}]
  BY <1>2, <1>4, SentFacts
<1>6. TypeOK'
  BY <1>2, <1>4, <1>5 DEF TypeOK, GateSet, TimerSet, Makers
<1>7. Kinds' /\ Opened' /\ NoLostWakeup'
  BY <1>2, <1>5 DEF Kinds, Opened, NoLostWakeup
<1>8. gate'.unacked \in Nat
  BY <1>5 DEF GateSet
<1>9. gate'.unacked + held' + inserted <= gate.unacked + held + inserted'
  <2>1. gate'.unacked <= gate.unacked + n /\ n + held' + inserted <= held + inserted'
    BY <1>4, <1>5
  <2>2. held \in Nat /\ held' \in Nat /\ inserted \in Nat /\ inserted' \in Nat /\ n \in Nat
    BY <1>1, <1>4
  <2>3. \A a, b, c, d, e, f \in Nat : b <= a + n /\ n + d + e <= c + f => b + d + e <= a + c + f
    BY <2>2, SMT
  <2> QED
    BY <1>1, <1>8, <2>1, <2>2, <2>3
<1>10. Budget'
  BY <1>2, <1>5, <1>6, <1>9, BudgetKept
<1> QED
  BY <1>6, <1>7, <1>10

\* A timer that fires only leaves its check to be made.
LEMMA TimerFiresOk ==
  ASSUME FlowInv, UNCHANGED kind, NEW t \in timers, TimerFires(t)
  PROVE  FlowInv'
<1> USE DEF FlowInv
<1>1. /\ timers' \subseteq timers /\ fired' = fired \cup {t.whose}
      /\ UNCHANGED <<gate, wait, owes, peerPaused, closed, stalled, held, inserted>>
  BY DEF TimerFires, output
<1>2. t.whose \in {"current", "stale"}
  BY DEF TypeOK
<1>3. TypeOK'
  BY <1>1, <1>2 DEF TypeOK
<1>4. kind # "blocking"
  BY DEF Kinds
<1>5. Kinds' /\ Opened' /\ NoLostWakeup' /\ Budget'
  BY <1>1, <1>4 DEF Kinds, Opened, NoLostWakeup, Budget, Reading
<1> QED
  BY <1>3, <1>5

\* The stall check of an observed gate meets no reader.
LEMMA CheckStallOk ==
  ASSUME FlowInv, UNCHANGED kind, NEW w \in fired, CheckStall(w)
  PROVE  FlowInv'
<1> USE DEF FlowInv
<1>1. /\ gate \in GateSet /\ timers \subseteq TimerSet /\ w \in {"current", "stale"}
      /\ owes \in [Makers -> {"none", "pause", "resume"}] /\ Stall \in Nat
  BY FlowAssumption DEF TypeOK, GateSet, TimerSet, Makers
<1>2. kind = "observed" /\ \A r \in Readers : wait[r].pc = "gone"
  <2>1. kind # "blocking"
    BY DEF Kinds
  <2> QED
    BY <2>1, FlowAssumption DEF Kinds, TypeOK
<1>3. /\ fired' \subseteq fired /\ wait' = wait /\ peerPaused' = peerPaused /\ closed' = closed
      /\ held' = held /\ inserted' = inserted
  BY DEF CheckStall, output
<1>4. {[t EXCEPT !.held = FALSE] : t \in timers} \subseteq TimerSet
  <2>1. \A t \in TimerSet : [t EXCEPT !.held = FALSE] \in TimerSet
    BY DEF TimerSet
  <2> QED
    BY <1>1, <2>1
<1>5. timers' \subseteq TimerSet
  <2>1. StallLeft > 0 => [left |-> StallLeft, whose |-> w, held |-> TRUE] \in TimerSet
    <3>1. gate.age \in 0 .. Stall
      BY <1>1 DEF GateSet
    <3>2. StallLeft > 0 => StallLeft \in 0 .. Stall
      BY <1>1, <3>1 DEF StallLeft
    <3> QED
      BY <1>1, <3>2 DEF TimerSet
  <2> QED
    BY <1>1, <1>4, <2>1 DEF CheckStall
<1>6. /\ gate' \in GateSet /\ gate'.mode = gate.mode
      /\ \/ gate' = gate /\ stalled' = stalled
         \/ gate'.disabled /\ ~gate'.paused /\ stalled'
  <2>1. [gate EXCEPT !.paused = FALSE, !.disabled = TRUE] \in GateSet
    BY <1>1 DEF GateSet
  <2> QED
    BY <1>1, <2>1 DEF CheckStall, GateSet
<1>7. owes' \in [Makers -> {"none", "pause", "resume"}] /\ stalled' \in BOOLEAN
  <2>1. owes' = owes \/ owes' = [owes EXCEPT !["timer"] = "resume"]
    BY DEF CheckStall, Callback
  <2>2. stalled' = stalled \/ stalled' = TRUE
    BY DEF CheckStall
  <2>3. owes' \in [Makers -> {"none", "pause", "resume"}]
    BY <1>1, <2>1 DEF Makers
  <2>4. stalled' \in BOOLEAN
    BY <2>2, Zenon DEF TypeOK
  <2> QED
    BY <2>3, <2>4
<1>8. TypeOK'
  BY <1>3, <1>5, <1>6, <1>7 DEF TypeOK, GateSet, TimerSet, Makers
<1>9. Kinds' /\ Opened' /\ NoLostWakeup' /\ Budget'
  BY <1>2, <1>3, <1>6 DEF Kinds, Opened, NoLostWakeup, Budget
<1> QED
  BY <1>8, <1>9

\* Callbacks and the end of the session touch neither gate nor readers.
LEMMA CallbackCloseOk ==
  ASSUME FlowInv, UNCHANGED kind, CloseSession \/ \E g \in DOMAIN owes : MakeCallback(g)
  PROVE  FlowInv'
<1> USE DEF FlowInv
<1>1. UNCHANGED <<gate, timers, fired, wait, stalled, held, inserted>>
  BY DEF CloseSession, MakeCallback, output
<1>2. closed' \in BOOLEAN /\ (closed => closed') /\ peerPaused' \in BOOLEAN
  BY DEF CloseSession, MakeCallback, TypeOK
<1>3. owes' \in [Makers -> {"none", "pause", "resume"}]
  BY DEF CloseSession, MakeCallback, Callback, TypeOK, Makers
<1>4. TypeOK'
  BY <1>1, <1>2, <1>3 DEF TypeOK, Makers
<1>5. Kinds' /\ Opened' /\ NoLostWakeup'
  BY <1>1 DEF Kinds, Opened, NoLostWakeup
<1>6. Budget'
  BY <1>1, <1>2 DEF Budget, Reading
<1> QED
  BY <1>4, <1>5, <1>6

\* Time runs down the timeouts of the readers and never turns one off.
LEMMA TickOk ==
  ASSUME FlowInv, UNCHANGED kind, Tick
  PROVE  FlowInv'
<1> USE DEF FlowInv
<1>1. /\ gate \in GateSet /\ timers \subseteq TimerSet
      /\ wait \in [Readers -> WaitSet] /\ Stall \in Nat /\ Never = Stall + 1
  BY FlowAssumption DEF TypeOK, GateSet, TimerSet, WaitSet, Never
<1> DEFINE down(n) == IF n = 0 THEN 0 ELSE n - 1
<1>2. UNCHANGED <<fired, owes, peerPaused, closed, stalled, held, inserted>>
  BY DEF Tick, output
<1>3. /\ gate' \in GateSet /\ gate'.mode = gate.mode /\ gate'.unacked = gate.unacked
      /\ gate'.paused = gate.paused /\ gate'.disabled = gate.disabled /\ gate'.hidden = gate.hidden
  <2>1. PICK a \in 0 .. Stall : gate' = [gate EXCEPT !.age = a]
    <3>1. gate.age \in 0 .. Stall
      BY <1>1 DEF GateSet
    <3>2. (IF Live /\ gate.age < Stall THEN gate.age + 1 ELSE gate.age) \in 0 .. Stall
      BY <1>1, <3>1
    <3> QED
      BY <3>2 DEF Tick
  <2> QED
    BY <1>1, <2>1 DEF GateSet
<1>4. timers' \subseteq TimerSet /\ (timers = {} => timers' = {})
  <2>1. \A t \in TimerSet : [t EXCEPT !.left = down(t.left)] \in TimerSet
    <3> SUFFICES ASSUME NEW t \in TimerSet PROVE [t EXCEPT !.left = down(t.left)] \in TimerSet
      OBVIOUS
    <3>1. down(t.left) \in 0 .. Stall
      BY <1>1 DEF TimerSet
    <3> HIDE DEF down
    <3> QED
      BY <3>1 DEF TimerSet
  <2>2. timers' = {[t EXCEPT !.left = down(t.left)] : t \in timers}
    BY DEF Tick
  <2> HIDE DEF down
  <2> QED
    BY <1>1, <2>1, <2>2
<1>5. ASSUME NEW r \in Readers
      PROVE  /\ wait'[r] \in WaitSet /\ wait'[r].pc = wait[r].pc /\ wait'[r].woken = wait[r].woken
             /\ wait[r].pc = "blocked" /\ wait[r].left # Never => wait'[r].left # Never /\ wait'[r].left <= wait[r].left
             /\ wait[r].left \in 0 .. Never
  <2>1. wait[r] \in WaitSet /\ wait[r].left \in 0 .. Never
    BY <1>1 DEF WaitSet
  <2>2. wait'[r] = IF wait[r].pc = "blocked" /\ wait[r].left # Never
                   THEN [wait[r] EXCEPT !.left = down(wait[r].left)] ELSE wait[r]
    BY DEF Tick
  <2>3. wait[r].left # Never => down(wait[r].left) \in 0 .. Stall /\ down(wait[r].left) <= wait[r].left /\ down(wait[r].left) \in 0 .. Never
    BY <1>1, <2>1
  <2> HIDE DEF down
  <2>4. CASE wait[r].pc = "blocked" /\ wait[r].left # Never
    <3>1. wait'[r] \in WaitSet
      BY <2>1, <2>2, <2>3, <2>4 DEF WaitSet
    <3>2. /\ wait'[r].pc = wait[r].pc /\ wait'[r].woken = wait[r].woken
          /\ wait'[r].left = down(wait[r].left)
      BY <2>1, <2>2, <2>4 DEF WaitSet
    <3> QED
      BY <1>1, <2>1, <2>3, <2>4, <3>1, <3>2
  <2> QED
    BY <2>1, <2>2, <2>4
<1> HIDE DEF down
<1>6. wait' \in [Readers -> WaitSet]
  <2>1. DOMAIN wait' = Readers /\ wait' = [r \in Readers |-> wait'[r]]
    BY DEF Tick
  <2> QED
    BY <1>5, <2>1
<1>7. TypeOK'
  BY <1>2, <1>3, <1>4, <1>6 DEF TypeOK, GateSet, TimerSet, WaitSet
<1>8. Kinds' /\ Opened'
  BY <1>2, <1>3, <1>4, <1>5 DEF Kinds, Opened
<1>9. NoLostWakeup'
  <2> SUFFICES ASSUME NEW r \in Readers, wait'[r].pc = "blocked" /\ ~wait'[r].woken
               PROVE  /\ gate'.mode = "blocking" /\ gate'.paused /\ ~gate'.disabled
                      /\ ~gate'.hidden => wait'[r].left # Never /\ wait'[r].left <= Stall
    BY DEF NoLostWakeup
  <2>1. wait[r].pc = "blocked" /\ ~wait[r].woken
    BY <1>5
  <2>2. /\ gate.mode = "blocking" /\ gate.paused /\ ~gate.disabled
        /\ ~gate.hidden => wait[r].left # Never /\ wait[r].left <= Stall
    BY <2>1 DEF NoLostWakeup
  <2>3. ~gate.hidden => wait'[r].left # Never /\ wait'[r].left <= wait[r].left
    BY <1>5, <2>1, <2>2
  <2>4. wait'[r].left \in 0 .. Never /\ wait[r].left \in 0 .. Never
    BY <1>5 DEF WaitSet
  <2> QED
    BY <1>1, <1>3, <2>2, <2>3, <2>4
<1>10. Budget'
  <2>1. gate'.unacked + held' + inserted <= gate.unacked + held + inserted'
    BY <1>1, <1>2, <1>3 DEF GateSet, TypeOK
  <2>2. \A r \in Readers : wait'[r].pc = "read" => wait[r].pc = "read"
    BY <1>5
  <2> QED
    BY <1>2, <1>3, <1>7, <2>1, <2>2, BudgetKept
<1> QED
  BY <1>7, <1>8, <1>9, <1>10

\* A reader that wakes looks again, one whose session closed reads on.
LEMMA WakesOk ==
  ASSUME FlowInv, UNCHANGED kind, NEW r \in Readers, WaitWakes(r) \/ WaitClosed(r)
  PROVE  FlowInv'
<1> USE DEF FlowInv
<1>1. UNCHANGED <<gate, timers, fired, owes, peerPaused, closed, stalled, held, inserted>>
  BY DEF WaitWakes, WaitClosed, output
<1>2. PICK p \in {"enter", "read"} : wait' = [wait EXCEPT ![r] = Idle(p)] /\ (p = "read" => closed)
  BY DEF WaitWakes, WaitClosed
<1>3. wait \in [Readers -> WaitSet] /\ wait[r].pc = "blocked"
  BY DEF TypeOK, WaitSet, WaitWakes, WaitClosed
<1>4. Idle(p) \in WaitSet /\ Idle(p).pc = p
  BY IdleFacts
<1>5. /\ wait' \in [Readers -> WaitSet] /\ wait'[r].pc = p
      /\ \A q \in Readers : q # r => wait'[q] = wait[q]
  BY <1>2, <1>3, <1>4
<1>6. TypeOK'
  BY <1>1, <1>5 DEF TypeOK, WaitSet
<1>7. Kinds' /\ Opened'
  BY <1>1, <1>3 DEF Kinds, Opened
<1>8. NoLostWakeup'
  <2>1. \A q \in Readers : wait'[q].pc = "blocked" => wait'[q] = wait[q]
    BY <1>5
  <2> QED
    BY <1>1, <2>1 DEF NoLostWakeup
<1>9. Budget'
  <2>1. CASE closed
    BY <1>1, <2>1 DEF Budget
  <2>2. CASE ~closed
    <3>1. \A q \in Readers : wait'[q].pc = "read" => wait[q].pc = "read"
      BY <1>2, <1>5, <2>2
    <3>2. gate'.unacked + held' + inserted <= gate.unacked + held + inserted'
      BY <1>1 DEF TypeOK
    <3> QED
      BY <1>1, <1>6, <3>1, <3>2, BudgetKept
  <2> QED
    BY <2>1, <2>2
<1> QED
  BY <1>6, <1>7, <1>8, <1>9

\* Wait lets a reader through at or below High, opens the gate, or pauses it.
LEMMA WaitCheckOk ==
  ASSUME FlowInv, UNCHANGED kind, NEW r \in Readers, WaitCheck(r)
  PROVE  FlowInv'
<1> USE DEF FlowInv
<1>1. /\ gate \in GateSet /\ wait \in [Readers -> WaitSet] /\ wait[r].pc = "enter"
      /\ Stall \in Nat /\ Never = Stall + 1 /\ gate.unacked \in Nat
  BY FlowAssumption DEF TypeOK, GateSet, WaitSet, Never, WaitCheck
<1>2. UNCHANGED <<timers, fired, owes, peerPaused, closed, held>>
  BY DEF WaitCheck
<1>3. kind = "blocking"
  BY <1>1, FlowAssumption DEF Kinds, TypeOK
<1>4. Idle("read") \in WaitSet /\ Idle("read").pc = "read"
  BY IdleFacts
<1>5. CASE Passes /\ wait' = [wait EXCEPT ![r] = Idle("read")] /\ inserted' = 0 /\ UNCHANGED <<gate, stalled>>
  <2>1. /\ wait' \in [Readers -> WaitSet] /\ wait'[r].pc = "read"
        /\ \A q \in Readers : q # r => wait'[q] = wait[q]
    BY <1>1, <1>4, <1>5
  <2>2. TypeOK'
    BY <1>2, <1>5, <2>1, FlowAssumption DEF TypeOK, WaitSet
  <2>3. Kinds' /\ Opened'
    BY <1>2, <1>3, <1>5 DEF Kinds, Opened
  <2>4. NoLostWakeup'
    <3>1. \A q \in Readers : wait'[q].pc = "blocked" => wait'[q] = wait[q]
      BY <2>1
    <3> QED
      BY <1>5, <3>1 DEF NoLostWakeup
  <2>5. Budget'
    <3>1. ASSUME gate.mode = "blocking" /\ ~stalled PROVE gate.unacked <= High
      BY <1>5, <3>1 DEF Passes, Live, Opened
    <3>2. Reading' \in SUBSET Readers
      BY DEF Reading
    <3>3. gate' = gate /\ stalled' = stalled /\ inserted' \in Nat /\ held' \in 0 .. MaxHeld
      BY <1>2, <1>5 DEF TypeOK
    <3> QED
      BY <1>1, <3>1, <3>2, <3>3, BelowHigh DEF Budget
  <2> QED
    BY <2>2, <2>3, <2>4, <2>5
<1>6. CASE /\ gate' = [gate EXCEPT !.paused = FALSE, !.disabled = TRUE]
           /\ wait' = [Released(wait) EXCEPT ![r] = Idle("read")]
           /\ stalled' = TRUE /\ UNCHANGED inserted
  <2>1. gate' \in GateSet /\ gate'.mode = gate.mode /\ ~gate'.paused
    BY <1>1, <1>6 DEF GateSet
  <2>2. /\ Released(wait) \in [Readers -> WaitSet]
        /\ \A q \in Readers : ~(Released(wait)[q].pc = "blocked" /\ ~Released(wait)[q].woken)
    BY <1>1, ReleasedFacts
  <2>3. /\ wait' \in [Readers -> WaitSet]
        /\ \A q \in Readers : ~(wait'[q].pc = "blocked" /\ ~wait'[q].woken)
    BY <1>4, <1>6, <2>2
  <2>4. TypeOK'
    BY <1>2, <1>6, <2>1, <2>3 DEF TypeOK, WaitSet, GateSet
  <2>5. Kinds' /\ Opened' /\ NoLostWakeup' /\ Budget'
    BY <1>2, <1>3, <1>6, <2>1, <2>3 DEF Kinds, Opened, NoLostWakeup, Budget
  <2> QED
    BY <2>4, <2>5
<1>7. CASE /\ ~Passes /\ ~StallsOut
           /\ gate' = [gate EXCEPT !.paused = TRUE, !.age = Since]
           /\ wait' = [wait EXCEPT ![r] =
                [pc |-> "blocked", woken |-> FALSE,
                 left |-> IF gate.hidden THEN Never ELSE Stall - Since]]
           /\ UNCHANGED <<stalled, inserted>>
  <2>1. Since \in 0 .. Stall /\ (~gate.hidden => Since < Stall)
    BY <1>1, <1>7 DEF Since, StallsOut, GateSet
  <2>2. PICK n \in 0 .. Never :
           /\ n = IF gate.hidden THEN Never ELSE Stall - Since
           /\ ~gate.hidden => n # Never /\ n <= Stall
    BY <1>1, <2>1
  <2>3. PICK w \in WaitSet : w = [pc |-> "blocked", woken |-> FALSE, left |-> n]
    BY DEF WaitSet
  <2>4. wait' = [wait EXCEPT ![r] = w]
    BY <1>7, <2>2, <2>3
  <2>5. w.pc = "blocked" /\ w.left = n
    BY <2>3
  <2>6. /\ wait' \in [Readers -> WaitSet] /\ wait'[r] = w
        /\ \A q \in Readers : q # r => wait'[q] = wait[q]
    BY <1>1, <2>4
  <2>7. /\ gate' \in GateSet /\ gate'.mode = gate.mode /\ gate'.paused /\ gate'.unacked = gate.unacked
        /\ gate'.disabled = gate.disabled /\ gate'.hidden = gate.hidden
    <3>1. \A a \in 0 .. Stall : [gate EXCEPT !.paused = TRUE, !.age = a] \in GateSet
      BY <1>1 DEF GateSet
    <3> QED
      BY <1>1, <1>7, <2>1, <3>1 DEF GateSet
  <2>8. ~gate.disabled /\ gate.mode = "blocking"
    BY <1>7, <1>3 DEF Passes, Live, Kinds
  <2>9. TypeOK'
    BY <1>2, <1>7, <2>6, <2>7 DEF TypeOK, WaitSet, GateSet
  <2>10. Kinds' /\ Opened'
    BY <1>2, <1>3, <1>7, <2>7, <2>8 DEF Kinds, Opened
  <2>11. NoLostWakeup'
    <3> SUFFICES ASSUME NEW q \in Readers, wait'[q].pc = "blocked" /\ ~wait'[q].woken
                 PROVE  /\ gate'.mode = "blocking" /\ gate'.paused /\ ~gate'.disabled
                        /\ ~gate'.hidden => wait'[q].left # Never /\ wait'[q].left <= Stall
      BY DEF NoLostWakeup
    <3>1. CASE q = r
      BY <2>2, <2>5, <2>6, <2>7, <2>8, <3>1
    <3>2. CASE q # r
      BY <2>6, <2>7, <2>8, <3>2 DEF NoLostWakeup
    <3> QED
      BY <3>1, <3>2
  <2>12. Budget'
    <3>1. \A q \in Readers : wait'[q].pc = "read" => wait[q].pc = "read"
      BY <2>5, <2>6
    <3>2. gate'.unacked + held' + inserted <= gate.unacked + held + inserted'
      BY <1>1, <1>2, <1>7, <2>7 DEF TypeOK
    <3> QED
      BY <1>2, <1>7, <2>7, <2>9, <3>1, <3>2, BudgetKept
  <2> QED
    BY <2>9, <2>10, <2>11, <2>12
<1> QED
  BY <1>5, <1>6, <1>7 DEF WaitCheck

-----------------------------------------------------------------------------
(* The theorems.                                                             *)

(* The invariant of the gate and its readers holds in every state: of the    *)
(* whole of flowcontrol.go, for any number of readers and any watermarks.    *)
THEOREM FlowInvariant == Spec => []FlowInv
<1>1. FlowInv /\ [Next]_vars => FlowInv'
  <2> SUFFICES ASSUME FlowInv, [Next]_vars PROVE FlowInv'
    OBVIOUS
  <2>1. CASE UNCHANGED vars
    <3>1. UNCHANGED <<kind, gate, timers, fired, wait, owes, peerPaused, closed, stalled, held, inserted>>
      BY <2>1 DEF vars, flow, output
    <3>2. TypeOK' /\ Kinds' /\ Opened'
      BY <3>1 DEF FlowInv, TypeOK, Kinds, Opened
    <3>3. NoLostWakeup' /\ Budget'
      BY <3>1 DEF FlowInv, NoLostWakeup, Budget, Reading
    <3> QED
      BY <3>2, <3>3 DEF FlowInv
  <2>2. CASE Next
    <3>1. UNCHANGED kind
      BY <2>2 DEF Next
    <3>2. CASE Ipc
      BY <3>1, <3>2, StartStopOk, AckOk, SetHiddenOk DEF Ipc
    <3>3. CASE StallStep
      BY <3>1, <3>3, TimerFiresOk, CheckStallOk DEF StallStep
    <3>4. ASSUME NEW r \in Readers, Reader(r) PROVE FlowInv'
      BY <3>1, <3>4, WaitCheckOk, WakesOk, ReadOk DEF Reader
    <3> QED
      BY <2>2, <3>1, <3>2, <3>3, <3>4, PaneOutputOk, OutsideOk, TickOk, CallbackCloseOk DEF Next
  <2> QED
    BY <2>1, <2>2
<1> QED
  BY InitFlow, <1>1, PTL DEF Spec

\* Counts and ages of a gate, its timers and its readers keep their types.
THEOREM TypeCorrect == Spec => []TypeOK
<1>1. FlowInv => TypeOK
  BY DEF FlowInv
<1> QED
  BY <1>1, FlowInvariant, PTL

(* No reader of Wait sleeps through its wake-up, whichever of Start, Stop,   *)
(* Ack, SetHidden and the other readers replaced the channel it waits on.    *)
THEOREM ReadersAreWoken == Spec => []NoLostWakeup
<1>1. FlowInv => NoLostWakeup
  BY DEF FlowInv
<1> QED
  BY <1>1, FlowInvariant, PTL

(* Until the safety net opens the gate, what the renderer has not            *)
(* acknowledged is bounded by High, one read for every reader, what the      *)
(* handshake filter may hold back and what was inserted past the gate.       *)
THEOREM BacklogIsBounded == Spec => []BacklogBounded
<1>1. FlowInv => BacklogBounded
  <2> SUFFICES ASSUME FlowInv, gate.mode = "blocking" /\ ~stalled /\ ~closed
               PROVE  gate.unacked <= High + MaxRead * Cardinality(Readers) + MaxHeld + inserted
    BY DEF BacklogBounded
  <2>1. Reading \in SUBSET Readers
    BY DEF Reading
  <2>2. Cardinality(Reading) \in Nat /\ Cardinality(Readers) \in Nat
    BY <2>1, ReadersCount
  <2> DEFINE x == MaxRead * Cardinality(Reading)
             y == MaxRead * Cardinality(Readers)
  <2>3. x \in Nat /\ y \in Nat
    BY <2>2, TimesMonotone, FlowAssumption
  <2>4. gate.unacked + held + x <= High + y + MaxHeld + inserted
    BY DEF FlowInv, Budget
  <2>5. /\ gate.unacked \in Nat /\ High \in Nat /\ MaxHeld \in Nat
        /\ held \in Nat /\ inserted \in Nat
    BY FlowAssumption DEF FlowInv, TypeOK
  <2> HIDE DEF x, y
  <2>6. gate.unacked <= High + y + MaxHeld + inserted
    BY <2>3, <2>4, <2>5
  <2> QED
    BY <2>6 DEF y
<1> QED
  BY <1>1, FlowInvariant, PTL
=============================================================================
