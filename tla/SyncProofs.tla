----------------------------- MODULE SyncProofs -----------------------------
(***************************************************************************)
(* The safety of synchronisation for any number of desktops, records,      *)
(* edits and failures: the desktops of DesktopSync on their own, then with *)
(* the phone of PhoneSync.                                                 *)
(*                                                                         *)
(* The invariants are stated for one record id at a time, and for a device *)
(* as operators on what it holds of that id: `l' its live record, `o' its  *)
(* tombstone, `q' the operation at the head of its queue; `r' is what the  *)
(* server has and `t' the latest edit.                                     *)
(***************************************************************************)
EXTENDS PhoneSync, TLAPS

-----------------------------------------------------------------------------
(* Types.                                                                  *)

\* The sets the variables range over; n is the clock and m the revision.
Recs(n) == [at : 0 .. n, dead : BOOLEAN]
Snaps(n) == [Ids -> Recs(n)]
Stamps(n) == [Ids -> 0 .. n]
Operations(n, m) ==
  [kind : {"none", "boot", "push"},
   pc : {"idle", "info", "post", "posted", "get", "got", "same", "applied"},
   had : BOOLEAN, refill : BOOLEAN, snap : Snaps(n), wrote : BOOLEAN, ans : 0 .. m]
Waiting == {"none", "boot", "push"}

\* The type invariant, with names for those sets.
Typed ==
  /\ revision \in Nat /\ clock \in 1 .. MaxClock
  /\ raced \subseteq Ids /\ blind \subseteq Devices
  /\ records \in Snaps(clock) /\ latest \in Snaps(clock) /\ late \in Snaps(clock)
  /\ local \in [Devices -> Stamps(clock)] /\ outbox \in [Devices -> Stamps(clock)]
  /\ pending \in [Devices -> BOOLEAN] /\ rev \in [Devices -> 0 .. revision \union {None}]
  /\ op \in [Devices -> Operations(clock, revision)] /\ queued \in [Devices -> Waiting]
  /\ again \in [Devices -> BOOLEAN] /\ timer \in [Devices -> BOOLEAN]
  /\ online \in [Devices -> BOOLEAN]
  /\ used \in [fails : 0 .. MaxFails, offline : 0 .. MaxOffline, restarts : 0 .. MaxRestarts]

\* TypeOK, spelt out per variable.
LEMMA TypedIsTypeOK == Typed <=> TypeOK
  BY DEF Typed, TypeOK, Recs, Snaps, Stamps, Operations, Waiting

USE InstanceAssumption DEF users, known

\* The distinguished values are of their types.
LEMMA NoneTyped ==
  ASSUME NEW n \in Nat, NEW m \in Nat
  PROVE  NoRec \in Recs(n) /\ Nothing \in Snaps(n) /\ NoOp \in Operations(n, m)
<1>1. NoRec \in Recs(n)
  BY DEF NoRec, Recs
<1>2. Nothing \in Snaps(n)
  BY <1>1 DEF Nothing, Snaps
<1> QED BY <1>1, <1>2 DEF NoOp, Operations

\* The sets grow with the clock and the revision.
LEMMA TypesGrow ==
  ASSUME NEW n \in Nat, NEW n2 \in Nat, NEW m \in Nat, NEW m2 \in Nat, n <= n2, m <= m2
  PROVE  /\ Recs(n) \subseteq Recs(n2) /\ Snaps(n) \subseteq Snaps(n2)
         /\ Stamps(n) \subseteq Stamps(n2)
         /\ Operations(n, m) \subseteq Operations(n2, m2)
<1>1. 0 .. n \subseteq 0 .. n2 /\ 0 .. m \subseteq 0 .. m2
  OBVIOUS
<1>2. Recs(n) \subseteq Recs(n2)
  BY <1>1 DEF Recs
<1>3. Snaps(n) \subseteq Snaps(n2) /\ Stamps(n) \subseteq Stamps(n2)
  BY <1>1, <1>2 DEF Snaps, Stamps
<1>4. Operations(n, m) \subseteq Operations(n2, m2)
  <2> SUFFICES ASSUME NEW q \in Operations(n, m) PROVE q \in Operations(n2, m2)
    OBVIOUS
  <2>1. q.snap \in Snaps(n2) /\ q.ans \in 0 .. m2
    BY <1>1, <1>3 DEF Operations
  <2> QED BY <2>1 DEF Operations
<1> QED BY <1>2, <1>3, <1>4

\* What a device sends, and the operation it starts, are of their types.
LEMMA StartedTyped ==
  ASSUME NEW n \in Nat, NEW m \in Nat, NEW loc \in Stamps(n), NEW out \in Stamps(n)
  PROVE  /\ Snapshot(loc, out) \in Snaps(n)
         /\ \A k \in Waiting, f \in BOOLEAN : Started(k, loc, out, f) \in Operations(n, m)
<1>1. Snapshot(loc, out) \in Snaps(n)
  BY DEF Snapshot, Snaps, Stamps, Recs
<1>2. NoOp \in Operations(n, m)
  BY NoneTyped
<1>3. ASSUME NEW k \in Waiting, NEW f \in BOOLEAN PROVE Started(k, loc, out, f) \in Operations(n, m)
  <2>1. HasPending(f, out) \in BOOLEAN
    BY DEF HasPending
  <2>2. ASSUME NEW s \in Snaps(n) PROVE [NoOp EXCEPT !.kind = "push", !.pc = "post", !.snap = s] \in Operations(n, m)
    BY <1>2 DEF Operations
  <2>3. ASSUME NEW b \in BOOLEAN PROVE [NoOp EXCEPT !.kind = "boot", !.pc = "info", !.had = b] \in Operations(n, m)
    BY <1>2 DEF Operations
  <2>4. CASE k = "push"
    <3>1. Started(k, loc, out, f) = [NoOp EXCEPT !.kind = "push", !.pc = "post", !.snap = Snapshot(loc, out)]
      BY <2>4 DEF Started
    <3> QED BY <1>1, <2>2, <3>1
  <2>5. CASE k = "boot"
    <3>1. Started(k, loc, out, f) = [NoOp EXCEPT !.kind = "boot", !.pc = "info", !.had = HasPending(f, out)]
      BY <2>5 DEF Started
    <3> QED BY <2>1, <2>3, <3>1
  <2>6. CASE k = "none"
    BY <1>2, <2>6 DEF Started
  <2> QED BY <2>4, <2>5, <2>6 DEF Waiting
<1> QED BY <1>1, <1>3

\* A push writes records the sender had; the revision never goes back.
LEMMA ApplyTyped ==
  ASSUME NEW n \in Nat, revision \in Nat, records \in Snaps(n), NEW snap \in Snaps(n), ApplyPush(snap)
  PROVE  records' \in Snaps(n) /\ revision' \in Nat /\ revision <= revision' /\ revision' <= revision + 1
  BY DEF ApplyPush, Snaps

\* Dropping a device's operations: the POST it gave up is what it was sending.
LEMMA DropTyped ==
  ASSUME Typed, NEW d \in Devices, Drop(d)
  PROVE  /\ op' \in [Devices -> Operations(clock, revision)] /\ queued' \in [Devices -> Waiting]
         /\ again' \in [Devices -> BOOLEAN] /\ late' \in Snaps(clock)
<1>1. NoOp \in Operations(clock, revision)
  BY NoneTyped DEF Typed
<1>2. late' \in Snaps(clock)
  BY DEF Drop, MayBeLate, Typed, Operations
<1> QED BY <1>1, <1>2 DEF Drop, Typed, Waiting

\* pushDirty, at a clock n the edit that calls it may have moved.
LEMMA PushDirtyTyped ==
  ASSUME Typed, NEW d \in Devices, NEW n \in Nat, clock <= n,
         local' \in [Devices -> Stamps(n)], outbox' \in [Devices -> Stamps(n)], PushDirty(d)
  PROVE  /\ op' \in [Devices -> Operations(n, revision)] /\ queued' \in [Devices -> Waiting]
         /\ again' \in [Devices -> BOOLEAN] /\ late' \in Snaps(n)
         /\ pending' \in [Devices -> BOOLEAN] /\ timer' \in [Devices -> BOOLEAN]
<1>0. clock \in Nat /\ revision \in Nat
  BY DEF Typed
<1>1. Snaps(clock) \subseteq Snaps(n) /\ Operations(clock, revision) \subseteq Operations(n, revision)
  BY <1>0, TypesGrow
<1>2. op \in [Devices -> Operations(n, revision)] /\ late \in Snaps(n)
  BY <1>1 DEF Typed
<1>3. pending' \in [Devices -> BOOLEAN] /\ timer' \in [Devices -> BOOLEAN]
  BY DEF PushDirty, Typed
<1>4. CASE online[d]
  <2>1. JoinOrEnqueue(d)
    BY <1>4 DEF PushDirty
  <2>2. Started("push", local'[d], outbox'[d], TRUE) \in Operations(n, revision)
    BY <1>0, StartedTyped DEF Waiting
  <2>3. op' \in [Devices -> Operations(n, revision)]
    BY <1>2, <2>1, <2>2 DEF JoinOrEnqueue
  <2>4. queued' \in [Devices -> Waiting] /\ again' \in [Devices -> BOOLEAN] /\ late' = late
    BY <2>1 DEF JoinOrEnqueue, Typed, Waiting
  <2> QED BY <1>2, <1>3, <2>3, <2>4
<1>5. CASE ~online[d]
  <2>1. Drop(d)
    BY <1>5 DEF PushDirty
  <2> QED BY <1>1, <1>3, <2>1, DropTyped
<1> QED BY <1>4, <1>5

\* The next operation of the queue.
LEMMA RunNextTyped ==
  ASSUME Typed, NEW d \in Devices, NEW flag \in BOOLEAN,
         local' \in [Devices -> Stamps(clock)], outbox' \in [Devices -> Stamps(clock)],
         RunNext(d, flag)
  PROVE  /\ op' \in [Devices -> Operations(clock, revision)] /\ queued' \in [Devices -> Waiting]
         /\ pending' \in [Devices -> BOOLEAN]
<1>1. queued[d] \in Waiting /\ clock \in Nat /\ revision \in Nat
  BY DEF Typed
<1>2. Started(queued[d], local'[d], outbox'[d], flag) \in Operations(clock, revision)
  BY <1>1, StartedTyped
<1>3. (CASE queued[d] = "push" -> TRUE
         [] queued[d] = "boot" -> HasPending(flag, outbox'[d])
         [] queued[d] = "none" -> flag) \in BOOLEAN
  BY <1>1 DEF Waiting, HasPending
<1> QED BY <1>2, <1>3 DEF RunNext, Typed, Waiting

\* The server's steps.
LEMMA ServeTyped ==
  ASSUME Typed, NEW d \in Devices, ServePost(d) \/ ServeLate \/ ServeGet(d)
  PROVE  Typed'
<1>0. clock \in Nat /\ revision \in Nat /\ op[d] \in Operations(clock, revision)
  BY DEF Typed
<1>1. CASE ServePost(d) \/ ServeLate
  <2>1. PICK snap \in Snaps(clock) : ApplyPush(snap)
    <3>1. op[d].snap \in Snaps(clock) /\ late \in Snaps(clock)
      BY <1>0 DEF Typed, Operations
    <3> QED BY <1>1, <3>1 DEF ServePost, ServeLate
  <2>2. records' \in Snaps(clock) /\ revision' \in Nat /\ revision <= revision'
    BY <1>0, <2>1, ApplyTyped DEF Typed
  <2>3. Operations(clock, revision) \subseteq Operations(clock, revision')
        /\ 0 .. revision \union {None} \subseteq 0 .. revision' \union {None}
    <3>1. Operations(clock, revision) \subseteq Operations(clock, revision')
      BY <1>0, <2>2, TypesGrow
    <3> QED BY <1>0, <2>2, <3>1
  <2>4. rev \in [Devices -> 0 .. revision' \union {None}] /\ op \in [Devices -> Operations(clock, revision')]
    BY <2>3 DEF Typed
  <2>5. CASE ServePost(d)
    <3>1. [op[d] EXCEPT !.pc = "posted", !.wrote = Written(op[d].snap) # {}, !.ans = revision']
            \in Operations(clock, revision')
      <4>1. op[d] \in Operations(clock, revision') /\ revision' \in 0 .. revision'
        BY <2>2, <2>4
      <4> QED BY <4>1 DEF Operations
    <3>2. op' \in [Devices -> Operations(clock, revision')]
      BY <2>4, <2>5, <3>1 DEF ServePost
    <3> QED BY <2>2, <2>4, <2>5, <3>2 DEF ServePost, Typed, store
  <2>6. CASE ServeLate
    <3>1. Nothing \in Snaps(clock)
      BY <1>0, NoneTyped
    <3> QED BY <2>2, <2>4, <2>6, <3>1 DEF ServeLate, Typed, store, tasks
  <2> QED BY <1>1, <2>5, <2>6
<1>2. CASE ServeGet(d)
  <2>1. op' \in [Devices -> Operations(clock, revision)]
    <3>1. /\ [op[d] EXCEPT !.pc = "same"] \in Operations(clock, revision)
          /\ [op[d] EXCEPT !.pc = "got", !.snap = records, !.ans = revision] \in Operations(clock, revision)
      <4>1. records \in Snaps(clock) /\ revision \in 0 .. revision
        BY DEF Typed
      <4> QED BY <1>0, <4>1 DEF Operations
    <3> QED BY <1>2, <3>1 DEF ServeGet, Typed
  <2> QED BY <1>2, <2>1 DEF ServeGet, Typed, store, server
<1> QED BY <1>1, <1>2

\* The user's steps and the retry timer.
LEMMA UserTyped ==
  ASSUME Typed, NEW d \in Devices, NEW i \in Ids, Edit(d, i) \/ Delete(d, i) \/ RetryFires(d)
  PROVE  Typed'
<1>0. clock \in Nat /\ revision \in Nat /\ clock + 1 \in Nat
  BY DEF Typed
<1>1. PICK n \in Nat : n = clock + 1
  BY <1>0, Zenon
<1>2. /\ Snaps(clock) \subseteq Snaps(n) /\ Stamps(clock) \subseteq Stamps(n)
  BY <1>0, <1>1, TypesGrow
<1>3. /\ records \in Snaps(n) /\ latest \in Snaps(n)
      /\ local \in [Devices -> Stamps(n)] /\ outbox \in [Devices -> Stamps(n)]
  BY <1>2 DEF Typed
<1>4. CASE Edit(d, i) \/ Delete(d, i)
  <2>1. clock' = n /\ clock' \in 1 .. MaxClock /\ DeletedAt = n
    BY <1>0, <1>1, <1>4 DEF Edit, Delete, DeletedAt, Typed
  <2>2. latest' \in Snaps(n)
    <3>1. [at |-> n, dead |-> TRUE] \in Recs(n) /\ [at |-> n, dead |-> FALSE] \in Recs(n)
      BY DEF Recs
    <3>2. latest' = [latest EXCEPT ![i] = [at |-> n, dead |-> TRUE]]
          \/ latest' = [latest EXCEPT ![i] = [at |-> n, dead |-> FALSE]]
      BY <1>4, <2>1 DEF Edit, Delete
    <3> QED BY <1>3, <3>1, <3>2 DEF Snaps
  <2>3. local' \in [Devices -> Stamps(n)] /\ outbox' \in [Devices -> Stamps(n)]
    <3>1. n \in 0 .. n /\ 0 \in 0 .. n
      OBVIOUS
    <3>2. [local[d] EXCEPT ![i] = n] \in Stamps(n) /\ [local[d] EXCEPT ![i] = 0] \in Stamps(n)
          /\ [outbox[d] EXCEPT ![i] = n] \in Stamps(n)
      BY <1>3, <3>1 DEF Stamps
    <3>3. CASE Edit(d, i)
      BY <1>3, <2>1, <3>2, <3>3 DEF Edit
    <3>4. CASE Delete(d, i)
      BY <1>3, <2>1, <3>2, <3>4 DEF Delete
    <3> QED BY <1>4, <3>3, <3>4
  <2>4. /\ PushDirty(d) /\ UNCHANGED <<server, known, online, used>>
        /\ raced' \subseteq Ids
    BY <1>4 DEF Edit, Delete, Act, Typed
  <2>5. /\ op' \in [Devices -> Operations(n, revision)] /\ queued' \in [Devices -> Waiting]
        /\ again' \in [Devices -> BOOLEAN] /\ late' \in Snaps(n)
        /\ pending' \in [Devices -> BOOLEAN] /\ timer' \in [Devices -> BOOLEAN]
    BY <1>0, <1>1, <2>3, <2>4, PushDirtyTyped
  <2> QED BY <1>3, <2>1, <2>2, <2>3, <2>4, <2>5 DEF Typed, server
<1>5. CASE RetryFires(d)
  <2>1. PushDirty(d) /\ UNCHANGED <<server, users, known, online, used, store>>
    BY <1>5 DEF RetryFires
  <2>2. /\ op' \in [Devices -> Operations(clock, revision)] /\ queued' \in [Devices -> Waiting]
        /\ again' \in [Devices -> BOOLEAN] /\ late' \in Snaps(clock)
        /\ pending' \in [Devices -> BOOLEAN] /\ timer' \in [Devices -> BOOLEAN]
    BY <1>0, <2>1, PushDirtyTyped DEF Typed, store
  <2> QED BY <2>1, <2>2 DEF Typed, server, store
<1> QED BY <1>4, <1>5

\* The device's steps.
LEMMA DeviceTyped ==
  ASSUME Typed, NEW d \in Devices,
         \/ Bootstrap(d) \/ BootInfo(d) \/ BootPushed(d) \/ BootRefill(d) \/ BootApply(d)
         \/ BootDone(d) \/ PushDone(d)
  PROVE  Typed'
<1>0. /\ clock \in Nat /\ revision \in Nat /\ op[d] \in Operations(clock, revision)
      /\ local[d] \in Stamps(clock) /\ outbox[d] \in Stamps(clock) /\ pending[d] \in BOOLEAN
  BY DEF Typed
<1>1. Nothing \in Snaps(clock) /\ NoOp \in Operations(clock, revision)
      /\ Snapshot(local[d], outbox[d]) \in Snaps(clock)
  BY <1>0, NoneTyped, StartedTyped
<1>2. op[d].snap \in Snaps(clock) /\ op[d].ans \in 0 .. revision /\ 0 \in 0 .. revision
  BY <1>0 DEF Operations
<1>3. ASSUME StoreRevision(d)
      PROVE  rev' \in [Devices -> 0 .. revision \union {None}] /\ blind' \subseteq Devices
  BY <1>2, <1>3 DEF StoreRevision, Blinded, Typed
<1>4. CASE Bootstrap(d)
  <2>1. Started("boot", local[d], outbox[d], pending[d]) \in Operations(clock, revision)
    BY <1>0, StartedTyped DEF Waiting
  <2>2. op' \in [Devices -> Operations(clock, revision)] /\ queued' \in [Devices -> Waiting]
    BY <1>4, <2>1 DEF Bootstrap, Typed, Waiting
  <2>3. pending' \in [Devices -> BOOLEAN]
    BY <1>4 DEF Bootstrap, Typed, HasPending
  <2> QED BY <1>4, <2>2, <2>3 DEF Bootstrap, Typed, server, store
<1>5. CASE BootInfo(d)
  <2>1. /\ [op[d] EXCEPT !.pc = "post", !.snap = Snapshot(local[d], outbox[d])] \in Operations(clock, revision)
        /\ [op[d] EXCEPT !.pc = "get"] \in Operations(clock, revision)
    BY <1>0, <1>1 DEF Operations
  <2>2. op' \in [Devices -> Operations(clock, revision)]
    BY <1>5, <2>1 DEF BootInfo, Typed
  <2> QED BY <1>5, <2>2 DEF BootInfo, Typed, server, store
<1>6. CASE BootPushed(d)
  <2>1. [op[d] EXCEPT !.pc = "get", !.snap = Nothing, !.wrote = FALSE, !.ans = 0] \in Operations(clock, revision)
    BY <1>0, <1>1, <1>2 DEF Operations
  <2>2. op' \in [Devices -> Operations(clock, revision)]
    BY <1>6, <2>1 DEF BootPushed, Typed
  <2>3. rev' \in [Devices -> 0 .. revision \union {None}] /\ blind' \subseteq Devices
    BY <1>3, <1>6 DEF BootPushed
  <2> QED BY <1>6, <2>2, <2>3 DEF BootPushed, Typed, server, store
<1>7. CASE BootRefill(d)
  <2>1. [op[d] EXCEPT !.pc = "post", !.refill = TRUE, !.snap = Snapshot(local[d], outbox[d])] \in Operations(clock, revision)
    BY <1>0, <1>1 DEF Operations
  <2>2. op' \in [Devices -> Operations(clock, revision)]
    BY <1>7, <2>1 DEF BootRefill, Typed
  <2> QED BY <1>7, <2>2 DEF BootRefill, Typed, server, store
<1>8. CASE BootApply(d)
  <2>1. [op[d] EXCEPT !.pc = "applied", !.snap = Nothing] \in Operations(clock, revision)
    BY <1>0, <1>1 DEF Operations
  <2>2. op' \in [Devices -> Operations(clock, revision)]
    BY <1>8, <2>1 DEF BootApply, Typed
  <2>3. Replaced(op[d].snap) \in Stamps(clock)
    BY <1>0, <1>2 DEF Replaced, Live, Stamps, Snaps, Recs
  <2>4. local' \in [Devices -> Stamps(clock)]
    BY <1>8, <2>3 DEF BootApply, Typed
  <2> QED BY <1>8, <2>2, <2>4 DEF BootApply, Typed, server
<1>9. CASE BootDone(d)
  <2>1. [i \in Ids |-> 0] \in Stamps(clock)
    BY <1>0 DEF Stamps
  <2>2. outbox' \in [Devices -> Stamps(clock)] /\ local' \in [Devices -> Stamps(clock)]
    BY <1>9, <2>1 DEF BootDone, Typed
  <2>3. rev' \in [Devices -> 0 .. revision \union {None}] /\ blind' \subseteq Devices
    BY <1>2, <1>9 DEF BootDone, Typed
  <2>4. /\ op' \in [Devices -> Operations(clock, revision)] /\ queued' \in [Devices -> Waiting]
        /\ pending' \in [Devices -> BOOLEAN]
    BY <1>9, <2>2, RunNextTyped DEF BootDone
  <2>5. again' \in [Devices -> BOOLEAN]
    BY <1>9 DEF BootDone, Typed
  <2> QED BY <1>9, <2>2, <2>3, <2>4, <2>5 DEF BootDone, Typed, server
<1>10. CASE PushDone(d)
  <2>1. Unsent(d) \in Stamps(clock)
    BY <1>0 DEF Unsent, Stamps
  <2>2. outbox' \in [Devices -> Stamps(clock)] /\ local' \in [Devices -> Stamps(clock)] /\ local' = local
    BY <1>10, <2>1 DEF PushDone, Typed
  <2>3. rev' \in [Devices -> 0 .. revision \union {None}] /\ blind' \subseteq Devices
    BY <1>3, <1>10 DEF PushDone
  <2>4. /\ op' \in [Devices -> Operations(clock, revision)] /\ queued' \in [Devices -> Waiting]
        /\ pending' \in [Devices -> BOOLEAN]
    <3>1. CASE ~(again[d] \/ HasPending(FALSE, outbox'[d]))
      <4>1. RunNext(d, FALSE)
        BY <1>10, <3>1 DEF PushDone
      <4> QED BY <2>2, <4>1, RunNextTyped
    <3>2. CASE again[d] \/ HasPending(FALSE, outbox'[d])
      <4>1. Started("push", local[d], outbox'[d], TRUE) \in Operations(clock, revision)
        BY <1>0, <2>2, StartedTyped DEF Waiting
      <4>2. /\ op' = [op EXCEPT ![d] = Started("push", local[d], outbox'[d], TRUE)]
            /\ pending' = [pending EXCEPT ![d] = TRUE] /\ queued' = queued
        BY <1>10, <3>2 DEF PushDone
      <4> QED BY <4>1, <4>2 DEF Typed
    <3> QED BY <3>1, <3>2
  <2>5. again' \in [Devices -> BOOLEAN]
    BY <1>10 DEF PushDone, Typed
  <2> QED BY <1>10, <2>2, <2>3, <2>4, <2>5 DEF PushDone, Typed, server
<1> QED BY <1>4, <1>5, <1>6, <1>7, <1>8, <1>9, <1>10

\* The failures.
LEMMA FailureTyped ==
  ASSUME Typed, NEW d \in Devices,
         RequestFails(d) \/ GoOffline(d) \/ GoOnline(d) \/ Stale(d) \/ Restart(d)
  PROVE  Typed'
<1>1. CASE RequestFails(d)
  <2>1. late' \in Snaps(clock)
    BY <1>1 DEF RequestFails, MayBeLate, Typed, Operations
  <2>2. /\ op' \in [Devices -> Operations(clock, revision)] /\ queued' \in [Devices -> Waiting]
        /\ pending' \in [Devices -> BOOLEAN]
    <3>1. local' = local /\ outbox' = outbox /\ RunNext(d, TRUE)
      BY <1>1 DEF RequestFails, store
    <3> QED BY <3>1, RunNextTyped DEF Typed
  <2>3. again' \in [Devices -> BOOLEAN] /\ timer' \in [Devices -> BOOLEAN]
    BY <1>1 DEF RequestFails, Typed
  <2>4. used' \in [fails : 0 .. MaxFails, offline : 0 .. MaxOffline, restarts : 0 .. MaxRestarts]
    BY <1>1 DEF RequestFails, Typed
  <2> QED BY <1>1, <2>1, <2>2, <2>3, <2>4 DEF RequestFails, Typed, server, store
<1>2. CASE GoOffline(d)
  <2>1. used' \in [fails : 0 .. MaxFails, offline : 0 .. MaxOffline, restarts : 0 .. MaxRestarts]
    BY <1>2 DEF GoOffline, Typed
  <2>2. online' \in [Devices -> BOOLEAN]
    BY <1>2 DEF GoOffline, Typed
  <2> QED BY <1>2, <2>1, <2>2 DEF GoOffline, Typed, server, store, tasks
<1>3. CASE GoOnline(d)
  <2>1. online' \in [Devices -> BOOLEAN]
    BY <1>3 DEF GoOnline, Typed
  <2> QED BY <1>3, <2>1 DEF GoOnline, Typed, server, store, tasks
<1>4. CASE Stale(d)
  <2>1. /\ op' \in [Devices -> Operations(clock, revision)] /\ queued' \in [Devices -> Waiting]
        /\ again' \in [Devices -> BOOLEAN] /\ late' \in Snaps(clock)
    BY <1>4, DropTyped DEF Stale
  <2> QED BY <1>4, <2>1 DEF Stale, Typed, server, store
<1>5. CASE Restart(d)
  <2>1. /\ op' \in [Devices -> Operations(clock, revision)] /\ queued' \in [Devices -> Waiting]
        /\ again' \in [Devices -> BOOLEAN] /\ late' \in Snaps(clock)
    BY <1>5, DropTyped DEF Restart
  <2>2. used' \in [fails : 0 .. MaxFails, offline : 0 .. MaxOffline, restarts : 0 .. MaxRestarts]
    BY <1>5 DEF Restart, Typed
  <2>3. online' \in [Devices -> BOOLEAN] /\ timer' \in [Devices -> BOOLEAN]
        /\ rev' \in [Devices -> 0 .. revision \union {None}] /\ blind' \subseteq Devices
    BY <1>5 DEF Restart, Typed
  <2> QED BY <1>5, <2>1, <2>2, <2>3 DEF Restart, Typed, server, store
<1> QED BY <1>1, <1>2, <1>3, <1>4, <1>5

\* Every step of the desktops and the server keeps the types.
LEMMA NextTyped == ASSUME Typed, [Next]_vars PROVE Typed'
<1>1. CASE UNCHANGED vars
  BY <1>1 DEF vars, Typed
<1>2. ASSUME NEW d \in Devices, Step(d) PROVE Typed'
  BY <1>2, ServeTyped, DeviceTyped DEF Step
<1>3. ASSUME NEW d \in Devices, NEW i \in Ids, Edit(d, i) \/ Delete(d, i) PROVE Typed'
  BY <1>3, UserTyped
<1>4. ASSUME NEW d \in Devices, Bootstrap(d) \/ RetryFires(d) PROVE Typed'
  BY <1>4, UserTyped, DeviceTyped
<1>5. ASSUME NEW d \in Devices, RequestFails(d) \/ GoOffline(d) \/ GoOnline(d) \/ Stale(d) \/ Restart(d)
      PROVE  Typed'
  BY <1>5, FailureTyped
<1>6. CASE ServeLate
  <2>1. CASE Devices = {}
    <3>1. clock \in Nat /\ revision \in Nat /\ late \in Snaps(clock) /\ ApplyPush(late)
      BY <1>6 DEF Typed, ServeLate
    <3>2. records' \in Snaps(clock) /\ revision' \in Nat
      BY <3>1, ApplyTyped DEF Typed
    <3>3. Nothing \in Snaps(clock)
      BY <3>1, NoneTyped
    <3>4. rev \in [Devices -> 0 .. revision' \union {None}] /\ op \in [Devices -> Operations(clock, revision')]
      BY <2>1 DEF Typed
    <3> QED BY <1>6, <3>2, <3>3, <3>4 DEF ServeLate, Typed, store, tasks
  <2>2. CASE Devices # {}
    BY <1>6, <2>2, ServeTyped
  <2> QED BY <2>1, <2>2
<1> QED BY <1>1, <1>2, <1>3, <1>4, <1>5, <1>6 DEF Next

\* The first state.
LEMMA InitTyped == ASSUME Init PROVE Typed
<1>1. clock = 1 /\ revision = 0 /\ 1 \in Nat /\ 0 \in Nat /\ 1 \in 1 .. MaxClock
  BY DEF Init
<1>2. Nothing \in Snaps(1) /\ NoOp \in Operations(1, 0)
  BY NoneTyped
<1>3. latest \in Snaps(1) /\ local \in [Devices -> Stamps(1)] /\ outbox \in [Devices -> Stamps(1)]
  BY DEF Init, Snaps, Recs, Stamps, NoRec
<1>4. used \in [fails : 0 .. MaxFails, offline : 0 .. MaxOffline, restarts : 0 .. MaxRestarts]
  BY DEF Init
<1> QED BY <1>1, <1>2, <1>3, <1>4 DEF Init, Typed, Waiting

\* Synchronisation keeps its types, however users edit and requests fail: no
\* timestamp is ahead of the clock and no stored revision ahead of the server's.
THEOREM TypeCorrect == Spec => []TypeOK
<1>1. Init => Typed
  BY InitTyped
<1>2. Typed /\ [Next]_vars => Typed'
  BY NextTyped
<1>3. Typed => TypeOK
  BY TypedIsTypeOK
<1> QED BY <1>1, <1>2, <1>3, PTL DEF Spec

-----------------------------------------------------------------------------
(* What the devices and the server know of a record.                       *)

\* The timestamps that are a deletion's: two records of an id with the same
\* timestamp are the same.
Kinds == SUBSET Nat

Fits(K, t, r) == r.at <= t.at /\ (r.dead <=> r.at \in K)

\* What a device sends of one id.
SnapAt(l, o) == IF o > l THEN [at |-> o, dead |-> TRUE] ELSE [at |-> l, dead |-> FALSE]

\* The server has the device's record or a newer one; the default preferences
\* need not be sent.
Sent(i, l, r) == l <= r.at \/ (i = Pref /\ l = 1)

IdOk(K, t, r, m) == 0 \notin K /\ (t.dead <=> t.at \in K) /\ Fits(K, t, r) /\ Fits(K, t, m)

\* One device and one id: p is pendingPush, w that a push was joined.
HoldOk(K, i, t, r, l, o, p) ==
  /\ l <= t.at /\ l \notin K /\ o <= t.at /\ (o # 0 => o \in K)
  /\ p \/ Sent(i, l, r)

PostOk(K, i, t, r, l, o, w, q) ==
  /\ Fits(K, t, q.snap[i])
  /\ q.kind = "push" => w \/ q.snap[i] = SnapAt(l, o)
  /\ q.kind = "boot" /\ q.pc \in {"post", "posted"} => q.snap[i] = SnapAt(l, o)
  /\ q.pc = "posted" => q.snap[i].at <= r.at

PullOk(i, r, l, o, q) ==
  /\ q.pc = "info" /\ ~q.had => Sent(i, l, r) /\ o = 0
  /\ q.pc \in {"get", "got", "same", "applied"} => Sent(i, l, r) /\ o <= r.at
  /\ q.pc = "got" => /\ q.snap[i].at <= r.at /\ o <= q.snap[i].at
                     /\ l <= q.snap[i].at \/ (i = Pref /\ q.snap = Nothing /\ ~q.refill)

DeviceOk(K, i, t, r, l, o, p, w, q) ==
  HoldOk(K, i, t, r, l, o, p) /\ PostOk(K, i, t, r, l, o, w, q) /\ PullOk(i, r, l, o, q)

\* The operations of a device: which steps each has, and none waits behind none.
ControlOk(q, k) ==
  /\ q.kind = "none" => q = NoOp /\ k = "none"
  /\ q.kind = "push" => q.pc \in {"post", "posted"}
  /\ q.kind = "boot" => q.pc # "idle"
Control == \A d \in Devices : ControlOk(op[d], queued[d])

\* One id, on the server and on every desktop.
IdBody(K, i) ==
  /\ IdOk(K, latest[i], records[i], late[i])
  /\ \A d \in Devices : DeviceOk(K, i, latest[i], records[i], local[d][i], outbox[d][i],
                                 pending[d], again[d], op[d])
IdInv(i) == \E K \in Kinds : IdBody(K, i)

\* The preferences, of which every desktop has a record: they are in
\* everything a desktop sends, and never deleted.
Full(snap) == snap[Pref].at # 0
NoTomb(snap) == ~snap[Pref].dead
PrefOk(R, l, o, q) ==
  /\ l # 0 /\ o = 0 /\ NoTomb(q.snap)
  /\ q.pc \in {"post", "posted"} => Full(q.snap)
  /\ q.pc = "posted" => Full(R)
  /\ q.pc = "info" => ~q.refill
  /\ q.refill /\ q.pc = "get" => Full(R)
  /\ q.pc = "got" => IF q.refill THEN Full(q.snap) ELSE q.snap = Nothing \/ Full(q.snap)
PrefInv ==
  /\ NoTomb(records) /\ NoTomb(late)
  /\ records = Nothing \/ Full(records)
  /\ late = Nothing \/ Full(late)
  /\ \A d \in Devices : PrefOk(records, local[d][Pref], outbox[d][Pref], op[d])

SafeInv == Control /\ PrefInv /\ \A i \in Ids \ raced : IdInv(i)

-----------------------------------------------------------------------------
(* Steps on one id.                                                        *)

AnyRec == [at : Nat, dead : BOOLEAN]

\* What a device sends of an id fits, and is the newer of what it holds.
LEMMA SnapAtOk ==
  ASSUME NEW K \in Kinds, NEW t \in AnyRec, NEW l \in Nat, NEW o \in Nat,
         l <= t.at, l \notin K, o <= t.at, o # 0 => o \in K
  PROVE  /\ SnapAt(l, o) \in AnyRec /\ Fits(K, t, SnapAt(l, o))
         /\ l <= SnapAt(l, o).at /\ o <= SnapAt(l, o).at
  BY DEF SnapAt, Fits, AnyRec, Kinds

\* A snapshot, one id at a time.
LEMMA SnapshotAt ==
  ASSUME NEW loc, NEW out, NEW i \in Ids
  PROVE  Snapshot(loc, out)[i] = SnapAt(loc[i], out[i])
  BY DEF Snapshot, SnapAt

\* The fields of an operation that starts.
LEMMA StartedFields ==
  ASSUME NEW k \in Waiting, NEW loc, NEW out, NEW f
  PROVE  LET q == Started(k, loc, out, f)
         IN  /\ q.kind = k /\ ~q.refill /\ q.ans = 0
             /\ k = "push" => q.pc = "post" /\ q.snap = Snapshot(loc, out)
             /\ k = "boot" => q.pc = "info" /\ q.snap = Nothing /\ (q.had <=> HasPending(f, out))
             /\ k = "none" => q = NoOp /\ q.pc = "idle" /\ q.snap = Nothing
  BY DEF Started, Waiting, NoOp

\* An operation that starts, on a device that has sent what it holds unless
\* the flag is set.
LEMMA StartedOk ==
  ASSUME NEW K \in Kinds, NEW i \in Ids, NEW n \in Nat, NEW t \in AnyRec, NEW r \in AnyRec,
         NEW loc \in Stamps(n), NEW out \in Stamps(n), NEW f, NEW w,
         NEW k \in Waiting, 0 \notin K, HoldOk(K, i, t, r, loc[i], out[i], f)
  PROVE  /\ PostOk(K, i, t, r, loc[i], out[i], w, Started(k, loc, out, f))
         /\ PullOk(i, r, loc[i], out[i], Started(k, loc, out, f))
<1>0. PICK q : q = Started(k, loc, out, f)
  OBVIOUS
<1>1. loc[i] \in Nat /\ out[i] \in Nat
  BY DEF Stamps
<1>2. Snapshot(loc, out)[i] = SnapAt(loc[i], out[i]) /\ Fits(K, t, SnapAt(loc[i], out[i]))
  BY <1>1, SnapAtOk, SnapshotAt DEF HoldOk
<1>3. Nothing[i] = NoRec /\ Fits(K, t, NoRec)
  BY DEF Nothing, NoRec, Fits, AnyRec, Kinds
<1>4. /\ q.kind = k
      /\ k = "push" => q.pc = "post" /\ q.snap = Snapshot(loc, out)
      /\ k = "boot" => q.pc = "info" /\ q.snap = Nothing /\ (q.had <=> HasPending(f, out))
      /\ k = "none" => q.pc = "idle" /\ q.snap = Nothing
  BY <1>0, StartedFields
<1>5. CASE k = "push"
  BY <1>0, <1>2, <1>4, <1>5 DEF PostOk, PullOk
<1>6. CASE k = "none"
  BY <1>0, <1>3, <1>4, <1>6 DEF PostOk, PullOk
<1>7. CASE k = "boot"
  <2>1. PostOk(K, i, t, r, loc[i], out[i], w, q)
    BY <1>3, <1>4, <1>7 DEF PostOk
  <2>2. ~q.had => ~f /\ out[i] = 0
    BY <1>4, <1>7 DEF HasPending
  <2>3. PullOk(i, r, loc[i], out[i], q)
    BY <1>4, <1>7, <2>2 DEF PullOk, HoldOk
  <2> QED BY <1>0, <2>1, <2>3
<1> QED BY <1>5, <1>6, <1>7 DEF Waiting

Agree(K, K2, n) == \A m \in 0 .. n : m \in K2 <=> m \in K
\* A device keeps its invariant when the server gets newer records and when an
\* edit elsewhere takes a later timestamp.
LEMMA HoldKeeps ==
  ASSUME NEW K \in Kinds, NEW K2 \in Kinds, NEW i \in Ids, NEW t \in AnyRec, NEW t2 \in AnyRec,
         NEW r \in AnyRec, NEW r2 \in AnyRec, NEW l \in Nat, NEW o \in Nat, NEW p,
         t.at <= t2.at, Agree(K, K2, t.at), r.at <= r2.at, HoldOk(K, i, t, r, l, o, p)
  PROVE  HoldOk(K2, i, t2, r2, l, o, p)
<1>1. Sent(i, l, r) => Sent(i, l, r2)
  BY DEF Sent, AnyRec
<1> QED BY <1>1 DEF HoldOk, AnyRec, Agree

\* The same for a push under way: what it carries is no newer than the latest
\* edit, and what it has posted the server has not gone back from.
LEMMA PostKeeps ==
  ASSUME NEW K \in Kinds, NEW K2 \in Kinds, NEW i \in Ids, NEW t \in AnyRec, NEW t2 \in AnyRec,
         NEW r \in AnyRec, NEW r2 \in AnyRec, NEW l, NEW o, NEW w, NEW q, q.snap[i] \in AnyRec,
         t.at <= t2.at, Agree(K, K2, t.at), r.at <= r2.at, PostOk(K, i, t, r, l, o, w, q)
  PROVE  PostOk(K2, i, t2, r2, l, o, w, q)
<1>1. Fits(K2, t2, q.snap[i])
  BY DEF PostOk, Fits, AnyRec, Agree
<1>2. q.pc = "posted" => q.snap[i].at <= r2.at
  BY DEF PostOk, AnyRec
<1> QED BY <1>1, <1>2 DEF PostOk

\* The same for a pull: its snapshot, and what it is compared with, are no newer
\* than what the server has.
LEMMA PullKeeps ==
  ASSUME NEW i \in Ids, NEW r \in AnyRec, NEW r2 \in AnyRec, NEW l \in Nat, NEW o \in Nat,
         NEW q, q.snap[i] \in AnyRec, r.at <= r2.at, PullOk(i, r, l, o, q)
  PROVE  PullOk(i, r2, l, o, q)
<1>1. Sent(i, l, r) => Sent(i, l, r2)
  BY DEF Sent, AnyRec
<1>2. o <= r.at => o <= r2.at
  BY DEF AnyRec
<1>3. q.snap[i].at <= r.at => q.snap[i].at <= r2.at
  BY DEF AnyRec
<1> QED BY <1>1, <1>2, <1>3 DEF PullOk

\* The other devices are as they were.
Frame(d) ==
  \A e \in Devices \ {d} :
    /\ local'[e] = local[e] /\ outbox'[e] = outbox[e] /\ pending'[e] = pending[e]
    /\ rev'[e] = rev[e] /\ op'[e] = op[e] /\ queued'[e] = queued[e] /\ again'[e] = again[e]
    /\ e \in blind' <=> e \in blind

\* Whatever a device does is its own affair.
LEMMA FrameHolds ==
  ASSUME Typed, NEW d \in Devices, NEW j \in Ids,
         \/ ServePost(d) \/ ServeGet(d) \/ Edit(d, j) \/ Delete(d, j) \/ RetryFires(d)
         \/ Bootstrap(d) \/ BootInfo(d) \/ BootPushed(d) \/ BootRefill(d) \/ BootApply(d)
         \/ BootDone(d) \/ PushDone(d) \/ RequestFails(d) \/ GoOffline(d) \/ GoOnline(d)
         \/ Stale(d) \/ Restart(d)
  PROVE  Frame(d)
<1> USE DEF Frame, Typed, store, tasks
<1>1. CASE ServePost(d) \/ ServeGet(d)
  BY <1>1 DEF ServePost, ServeGet
<1>2. ASSUME PushDirty(d)
      PROVE  \A e \in Devices \ {d} : pending'[e] = pending[e] /\ op'[e] = op[e]
                                      /\ queued'[e] = queued[e] /\ again'[e] = again[e]
  BY <1>2 DEF PushDirty, JoinOrEnqueue, Drop
<1>3. CASE Edit(d, j) \/ Delete(d, j) \/ RetryFires(d)
  <2>1. PushDirty(d) /\ rev' = rev /\ blind' = blind
    BY <1>3 DEF Edit, Delete, RetryFires
  <2>2. \A e \in Devices \ {d} : local'[e] = local[e] /\ outbox'[e] = outbox[e]
    BY <1>3 DEF Edit, Delete, RetryFires
  <2> QED BY <1>2, <2>1, <2>2
<1>4. CASE Bootstrap(d) \/ BootInfo(d) \/ BootPushed(d) \/ BootRefill(d) \/ BootApply(d)
  BY <1>4 DEF Bootstrap, BootInfo, BootPushed, BootRefill, BootApply, StoreRevision, Blinded
<1>5. ASSUME NEW f, RunNext(d, f)
      PROVE  \A e \in Devices \ {d} : pending'[e] = pending[e] /\ op'[e] = op[e] /\ queued'[e] = queued[e]
  BY <1>5 DEF RunNext
<1>6. CASE BootDone(d) \/ RequestFails(d)
  <2>1. CASE BootDone(d)
    <3>1. \A e \in Devices \ {d} : pending'[e] = pending[e] /\ op'[e] = op[e] /\ queued'[e] = queued[e]
      BY <1>5, <2>1 DEF BootDone
    <3> QED BY <2>1, <3>1 DEF BootDone
  <2>2. CASE RequestFails(d)
    <3>1. \A e \in Devices \ {d} : pending'[e] = pending[e] /\ op'[e] = op[e] /\ queued'[e] = queued[e]
      BY <1>5, <2>2 DEF RequestFails
    <3> QED BY <2>2, <3>1 DEF RequestFails
  <2> QED BY <1>6, <2>1, <2>2
<1>7. CASE PushDone(d)
  <2>1. \A e \in Devices \ {d} : pending'[e] = pending[e] /\ op'[e] = op[e] /\ queued'[e] = queued[e]
    <3>1. CASE again[d] \/ HasPending(FALSE, outbox'[d])
      BY <1>7, <3>1 DEF PushDone
    <3>2. CASE ~(again[d] \/ HasPending(FALSE, outbox'[d]))
      BY <1>5, <1>7, <3>2 DEF PushDone
    <3> QED BY <3>1, <3>2
  <2> QED BY <1>7, <2>1 DEF PushDone, StoreRevision, Blinded
<1>8. CASE GoOffline(d) \/ GoOnline(d) \/ Stale(d) \/ Restart(d)
  BY <1>8 DEF GoOffline, GoOnline, Stale, Restart, Drop
<1> QED BY <1>1, <1>3, <1>4, <1>6, <1>7, <1>8

\* What the variables hold of one id, in the types the lemmas above ask for.
LEMMA IdTyped ==
  ASSUME Typed, NEW i \in Ids
  PROVE  /\ clock \in Nat /\ revision \in Nat
         /\ latest[i] \in AnyRec /\ records[i] \in AnyRec /\ late[i] \in AnyRec
         /\ latest[i].at <= clock /\ records[i].at <= clock /\ late[i].at <= clock
         /\ \A d \in Devices : /\ local[d] \in Stamps(clock) /\ outbox[d] \in Stamps(clock)
                               /\ local[d][i] \in Nat /\ outbox[d][i] \in Nat
                               /\ local[d][i] <= clock /\ outbox[d][i] <= clock
                               /\ pending[d] \in BOOLEAN /\ again[d] \in BOOLEAN
                               /\ op[d] \in Operations(clock, revision)
                               /\ op[d].snap \in Snaps(clock) /\ op[d].snap[i] \in AnyRec
                               /\ op[d].snap[i].at <= clock
                               /\ queued[d] \in Waiting
<1>1. clock \in Nat /\ revision \in Nat
  BY DEF Typed
<1>2. ASSUME NEW s \in Snaps(clock) PROVE s[i] \in AnyRec /\ s[i].at <= clock
  BY <1>1 DEF Snaps, Recs, AnyRec
<1>3. ASSUME NEW s \in Stamps(clock) PROVE s[i] \in Nat /\ s[i] <= clock
  BY <1>1 DEF Stamps
<1>4. ASSUME NEW d \in Devices PROVE op[d] \in Operations(clock, revision) /\ op[d].snap \in Snaps(clock)
  BY DEF Typed, Operations
<1>5. records \in Snaps(clock) /\ latest \in Snaps(clock) /\ late \in Snaps(clock)
  BY DEF Typed
<1>6. ASSUME NEW d \in Devices
      PROVE  /\ local[d] \in Stamps(clock) /\ outbox[d] \in Stamps(clock)
             /\ pending[d] \in BOOLEAN /\ again[d] \in BOOLEAN /\ queued[d] \in Waiting
  BY DEF Typed
<1> QED BY <1>1, <1>2, <1>3, <1>4, <1>5, <1>6

\* A step of one device that leaves the server and the edits alone.
LEMMA OneDevice ==
  ASSUME Typed, Typed', NEW K \in Kinds, NEW i \in Ids, NEW d \in Devices, IdBody(K, i), Frame(d),
         latest'[i] = latest[i], records'[i] = records[i],
         late'[i] = late[i] \/ late'[i] = op[d].snap[i],
         DeviceOk(K, i, latest[i], records[i], local'[d][i], outbox'[d][i],
                  pending'[d], again'[d], op'[d])
  PROVE  IdBody(K, i)'
<1>1. Fits(K, latest[i], late'[i])
  BY DEF IdBody, IdOk, DeviceOk, PostOk
<1>2. IdOk(K, latest[i], records[i], late'[i])
  BY <1>1 DEF IdBody, IdOk
<1>3. ASSUME NEW e \in Devices
      PROVE  DeviceOk(K, i, latest[i], records[i], local'[e][i], outbox'[e][i], pending'[e], again'[e], op'[e])
  <2>1. CASE e = d
    BY <2>1
  <2>2. CASE e # d
    <3>1. /\ local'[e] = local[e] /\ outbox'[e] = outbox[e] /\ pending'[e] = pending[e]
          /\ op'[e] = op[e] /\ again'[e] = again[e]
      BY <2>2 DEF Frame
    <3>2. DeviceOk(K, i, latest[i], records[i], local[e][i], outbox[e][i], pending[e], again[e], op[e])
      BY DEF IdBody
    <3> QED BY <3>1, <3>2
  <2> QED BY <2>1, <2>2
<1> QED BY <1>2, <1>3 DEF IdBody

\* What a push does to one record.
LEMMA WrittenAt ==
  ASSUME NEW n \in Nat, records \in Snaps(n), NEW snap \in Snaps(n), ApplyPush(snap), NEW i \in Ids
  PROVE  /\ records'[i] = records[i] \/ (records'[i] = snap[i] /\ i \in Written(snap))
         /\ records[i].at <= records'[i].at /\ snap[i].at <= records'[i].at
<1>1. records[i] \in Recs(n) /\ snap[i] \in Recs(n)
  BY DEF Snaps
<1>2. CASE i \in Written(snap)
  <2>1. records'[i] = snap[i]
    BY <1>2 DEF ApplyPush
  <2>2. records[i].at <= snap[i].at
    BY <1>2 DEF Written
  <2> QED BY <1>1, <1>2, <2>1, <2>2 DEF Recs
<1>3. CASE i \notin Written(snap)
  <2>1. records'[i] = records[i]
    BY <1>3 DEF ApplyPush
  <2>2. snap[i] = NoRec \/ ~(records[i].at <= snap[i].at) \/ records[i] = snap[i]
    BY <1>3 DEF Written
  <2>3. snap[i].at <= records[i].at
    BY <1>1, <2>2 DEF Recs, NoRec
  <2> QED BY <1>1, <2>1, <2>3 DEF Recs
<1> QED BY <1>2, <1>3

\* The server writes a record that fits: every device keeps its invariant.
LEMMA ServedId ==
  ASSUME Typed, Typed', NEW K \in Kinds, NEW i \in Ids, IdBody(K, i), latest' = latest,
         NEW snap \in Snaps(clock), ApplyPush(snap), Fits(K, latest[i], snap[i])
  PROVE  /\ Fits(K, latest[i], records'[i]) /\ records[i].at <= records'[i].at
         /\ snap[i].at <= records'[i].at
         /\ \A d \in Devices : DeviceOk(K, i, latest[i], records'[i], local[d][i], outbox[d][i],
                                        pending[d], again[d], op[d])
<1>1. /\ records'[i] = records[i] \/ records'[i] = snap[i]
      /\ records[i].at <= records'[i].at /\ snap[i].at <= records'[i].at
  BY WrittenAt DEF Typed
<1>2. Fits(K, latest[i], records'[i])
  BY <1>1 DEF IdBody, IdOk
<1>3. ASSUME NEW d \in Devices
      PROVE  DeviceOk(K, i, latest[i], records'[i], local[d][i], outbox[d][i], pending[d], again[d], op[d])
  <2>1. DeviceOk(K, i, latest[i], records[i], local[d][i], outbox[d][i], pending[d], again[d], op[d])
    BY DEF IdBody
  <2>2. /\ latest[i] \in AnyRec /\ records[i] \in AnyRec /\ local[d][i] \in Nat /\ outbox[d][i] \in Nat
        /\ pending[d] \in BOOLEAN /\ again[d] \in BOOLEAN /\ op[d].snap[i] \in AnyRec
    BY IdTyped
  <2>3. records'[i] \in AnyRec
    <3>1. snap[i] \in AnyRec
      BY DEF Snaps, Recs, AnyRec, Typed
    <3> QED BY <1>1, <2>2, <3>1
  <2>4. latest[i].at <= latest[i].at /\ Agree(K, K, latest[i].at)
    BY <2>2 DEF AnyRec, Agree
  <2>5. HoldOk(K, i, latest[i], records'[i], local[d][i], outbox[d][i], pending[d])
    BY <1>1, <2>1, <2>2, <2>3, <2>4, HoldKeeps DEF DeviceOk
  <2>6. PostOk(K, i, latest[i], records'[i], local[d][i], outbox[d][i], again[d], op[d])
    BY <1>1, <2>1, <2>2, <2>3, <2>4, PostKeeps DEF DeviceOk
  <2>7. PullOk(i, records'[i], local[d][i], outbox[d][i], op[d])
    BY <1>1, <2>1, <2>2, <2>3, <2>4, PullKeeps DEF DeviceOk
  <2> QED BY <2>5, <2>6, <2>7 DEF DeviceOk
<1> QED BY <1>1, <1>2, <1>3

\* A POST is processed, in time or late.
LEMMA ServePostId ==
  ASSUME Typed, Typed', NEW K \in Kinds, NEW i \in Ids, IdBody(K, i), NEW d \in Devices, ServePost(d)
  PROVE  IdBody(K, i)'
<1>1. PICK snap \in Snaps(clock) : snap = op[d].snap
  BY IdTyped
<1>2. ApplyPush(snap) /\ latest' = latest /\ late' = late /\ Frame(d)
  BY <1>1, FrameHolds DEF ServePost
<1>3. Fits(K, latest[i], snap[i])
  BY <1>1 DEF IdBody, DeviceOk, PostOk
<1>4. /\ Fits(K, latest[i], records'[i]) /\ records[i].at <= records'[i].at
      /\ snap[i].at <= records'[i].at
      /\ \A e \in Devices : DeviceOk(K, i, latest[i], records'[i], local[e][i], outbox[e][i],
                                     pending[e], again[e], op[e])
  BY <1>2, <1>3, ServedId
<1>5. /\ op'[d].kind = op[d].kind /\ op'[d].snap = op[d].snap /\ op'[d].pc = "posted" /\ op[d].pc = "post"
      /\ local' = local /\ outbox' = outbox /\ pending' = pending /\ again' = again
  <2>1. op'[d].kind = op[d].kind /\ op'[d].snap = op[d].snap /\ op'[d].pc = "posted" /\ op[d].pc = "post"
    <3>1. op[d] \in Operations(clock, revision) /\ op[d].pc = "post"
      BY DEF ServePost, Typed
    <3>2. \E w, a : op'[d] = [op[d] EXCEPT !.pc = "posted", !.wrote = w, !.ans = a]
      BY DEF ServePost, Typed
    <3> QED BY <3>1, <3>2 DEF Operations
  <2>2. local' = local /\ outbox' = outbox /\ pending' = pending /\ again' = again
    BY DEF ServePost, store
  <2> QED BY <2>1, <2>2
<1>6. DeviceOk(K, i, latest[i], records'[i], local[d][i], outbox[d][i], pending[d], again[d], op'[d])
  <2>1. DeviceOk(K, i, latest[i], records'[i], local[d][i], outbox[d][i], pending[d], again[d], op[d])
    BY <1>4
  <2>2. PostOk(K, i, latest[i], records'[i], local[d][i], outbox[d][i], again[d], op'[d])
    BY <1>1, <1>4, <1>5, <2>1 DEF DeviceOk, PostOk
  <2>3. PullOk(i, records'[i], local[d][i], outbox[d][i], op'[d])
    BY <1>5 DEF PullOk
  <2> QED BY <2>1, <2>2, <2>3 DEF DeviceOk
<1>7. ASSUME NEW e \in Devices
      PROVE  DeviceOk(K, i, latest[i], records'[i], local[e][i], outbox[e][i], pending[e], again[e], op'[e])
  BY <1>2, <1>4, <1>6 DEF Frame
<1> QED BY <1>2, <1>4, <1>5, <1>7 DEF IdBody, IdOk

\* A request whose device gave it up is served late: it carries nothing newer
\* than the latest edit, and last-write-wins turns away what it is behind.
LEMMA ServeLateId ==
  ASSUME Typed, Typed', NEW K \in Kinds, NEW i \in Ids, IdBody(K, i), ServeLate
  PROVE  IdBody(K, i)'
<1>1. late \in Snaps(clock) /\ Fits(K, latest[i], late[i])
  BY DEF IdBody, IdOk, Typed
<1>2. ApplyPush(late) /\ latest' = latest /\ late' = Nothing
  BY DEF ServeLate
<1>3. /\ Fits(K, latest[i], records'[i]) /\ records[i].at <= records'[i].at
      /\ \A e \in Devices : DeviceOk(K, i, latest[i], records'[i], local[e][i], outbox[e][i],
                                     pending[e], again[e], op[e])
  BY <1>1, <1>2, ServedId
<1>4. Fits(K, latest[i], late'[i])
  <2>1. late'[i] = NoRec /\ latest[i].at \in Nat
    BY <1>2, IdTyped DEF Nothing, AnyRec
  <2> QED BY <2>1 DEF Fits, NoRec, IdBody, IdOk
<1>5. local' = local /\ outbox' = outbox /\ pending' = pending /\ again' = again /\ op' = op
  BY DEF ServeLate, store, tasks
<1> QED BY <1>2, <1>3, <1>4, <1>5 DEF IdBody, IdOk

\* What a device holds of an id and of the server, for the steps below.
LEMMA DeviceFacts ==
  ASSUME Typed, NEW K \in Kinds, NEW i \in Ids, NEW d \in Devices, IdBody(K, i)
  PROVE  /\ HoldOk(K, i, latest[i], records[i], local[d][i], outbox[d][i], pending[d])
         /\ PostOk(K, i, latest[i], records[i], local[d][i], outbox[d][i], again[d], op[d])
         /\ PullOk(i, records[i], local[d][i], outbox[d][i], op[d])
         /\ 0 \notin K /\ Fits(K, latest[i], NoRec)
         /\ latest[i] \in AnyRec /\ records[i] \in AnyRec
         /\ local[d][i] \in Nat /\ outbox[d][i] \in Nat
         /\ op[d] \in Operations(clock, revision) /\ op[d].snap[i] \in AnyRec
<1>1. /\ latest[i] \in AnyRec /\ records[i] \in AnyRec /\ local[d][i] \in Nat /\ outbox[d][i] \in Nat
      /\ op[d] \in Operations(clock, revision) /\ op[d].snap[i] \in AnyRec
  BY IdTyped
<1>2. 0 \notin K
  BY DEF IdBody, IdOk
<1>3. Fits(K, latest[i], NoRec)
  BY <1>1, <1>2 DEF Fits, NoRec, AnyRec
<1> QED BY <1>1, <1>2, <1>3 DEF IdBody, DeviceOk

\* A step that only moves the operation of a device on.
LEMMA OperationMoves ==
  ASSUME Typed, Typed', NEW K \in Kinds, NEW i \in Ids, NEW d \in Devices, IdBody(K, i), Frame(d),
         local' = local, outbox' = outbox, pending' = pending, again' = again,
         latest' = latest, records' = records, late' = late,
         PostOk(K, i, latest[i], records[i], local[d][i], outbox[d][i], again[d], op'[d]),
         PullOk(i, records[i], local[d][i], outbox[d][i], op'[d])
  PROVE  IdBody(K, i)'
<1>1. DeviceOk(K, i, latest[i], records[i], local'[d][i], outbox'[d][i], pending'[d], again'[d], op'[d])
  BY DeviceFacts DEF DeviceOk
<1> QED BY <1>1, OneDevice

\* A GET is answered.
LEMMA ServeGetId ==
  ASSUME Typed, Typed', Control, NEW K \in Kinds, NEW i \in Ids, IdBody(K, i), i # Pref \/ PrefInv,
         NEW d \in Devices, ServeGet(d)
  PROVE  IdBody(K, i)'
<1>1. /\ PostOk(K, i, latest[i], records[i], local[d][i], outbox[d][i], again[d], op[d])
      /\ PullOk(i, records[i], local[d][i], outbox[d][i], op[d])
      /\ records[i] \in AnyRec /\ local[d][i] \in Nat /\ outbox[d][i] \in Nat
      /\ op[d] \in Operations(clock, revision)
  BY DeviceFacts
<1>2. /\ Frame(d) /\ op[d].pc = "get" /\ local' = local /\ outbox' = outbox /\ pending' = pending
      /\ again' = again /\ latest' = latest /\ records' = records /\ late' = late
  BY FrameHolds DEF ServeGet, store, server
<1>3. op[d].kind # "push"
  BY <1>2 DEF Control, ControlOk
<1>4. Sent(i, local[d][i], records[i]) /\ outbox[d][i] <= records[i].at
  BY <1>1, <1>2 DEF PullOk
<1>5. CASE rev[d] = revision
  <2>1. op'[d] = [op[d] EXCEPT !.pc = "same"]
    BY <1>5 DEF ServeGet, Typed
  <2>2. op'[d].pc = "same" /\ op'[d].kind = op[d].kind /\ op'[d].snap = op[d].snap
    BY <1>1, <2>1 DEF Operations
  <2>3. PostOk(K, i, latest[i], records[i], local[d][i], outbox[d][i], again[d], op'[d])
    BY <1>1, <1>3, <2>2 DEF PostOk
  <2>4. PullOk(i, records[i], local[d][i], outbox[d][i], op'[d])
    BY <1>4, <2>2 DEF PullOk
  <2> QED BY <1>2, <2>3, <2>4, OperationMoves
<1>6. CASE rev[d] # revision
  <2>1. op'[d] = [op[d] EXCEPT !.pc = "got", !.snap = records, !.ans = revision]
    BY <1>6 DEF ServeGet, Typed
  <2>2. op'[d].pc = "got" /\ op'[d].kind = op[d].kind /\ op'[d].snap = records
        /\ op'[d].refill = op[d].refill
    BY <1>1, <2>1 DEF Operations
  <2>3. Fits(K, latest[i], records[i])
    BY DEF IdBody, IdOk
  <2>4. local[d][i] <= records[i].at \/ (i = Pref /\ records = Nothing /\ ~op[d].refill)
    <3>1. CASE local[d][i] <= records[i].at
      BY <3>1
    <3>2. CASE i = Pref /\ local[d][i] = 1 /\ ~(local[d][i] <= records[i].at)
      <4>1. records[Pref].at = 0
        BY <1>1, <3>2 DEF AnyRec
      <4>2. records = Nothing /\ ~op[d].refill
        BY <1>2, <3>2, <4>1 DEF PrefInv, PrefOk, Full
      <4> QED BY <3>2, <4>2
    <3> QED BY <1>4, <3>1, <3>2 DEF Sent
  <2>5. PullOk(i, records[i], local[d][i], outbox[d][i], op'[d])
    BY <1>1, <1>4, <2>2, <2>4 DEF PullOk, AnyRec
  <2>6. PostOk(K, i, latest[i], records[i], local[d][i], outbox[d][i], again[d], op'[d])
    BY <1>3, <2>2, <2>3 DEF PostOk
  <2> QED BY <1>2, <2>5, <2>6, OperationMoves
<1> QED BY <1>5, <1>6

\* The steps of a bootstrap before it applies anything.
LEMMA BootInfoId ==
  ASSUME Typed, Typed', Control, NEW K \in Kinds, NEW i \in Ids, IdBody(K, i),
         NEW d \in Devices, BootInfo(d) \/ BootRefill(d)
  PROVE  IdBody(K, i)'
<1>1. /\ HoldOk(K, i, latest[i], records[i], local[d][i], outbox[d][i], pending[d])
      /\ PostOk(K, i, latest[i], records[i], local[d][i], outbox[d][i], again[d], op[d])
      /\ PullOk(i, records[i], local[d][i], outbox[d][i], op[d])
      /\ latest[i] \in AnyRec /\ records[i] \in AnyRec /\ local[d][i] \in Nat /\ outbox[d][i] \in Nat
      /\ op[d] \in Operations(clock, revision)
  BY DeviceFacts
<1>2. /\ Frame(d) /\ local' = local /\ outbox' = outbox /\ pending' = pending
      /\ again' = again /\ latest' = latest /\ records' = records /\ late' = late
      /\ op[d].pc \in {"info", "got"}
  BY FrameHolds DEF BootInfo, BootRefill, store, server
<1>3. op[d].kind # "push"
  BY <1>2 DEF Control, ControlOk
<1>4. PICK s : s = Snapshot(local[d], outbox[d])
  OBVIOUS
<1>5. s[i] = SnapAt(local[d][i], outbox[d][i]) /\ Fits(K, latest[i], SnapAt(local[d][i], outbox[d][i]))
  BY <1>1, <1>4, SnapshotAt, SnapAtOk DEF HoldOk
<1>6. \/ op'[d].pc = "post" /\ op'[d].kind = op[d].kind /\ op'[d].snap = s
      \/ /\ op'[d].pc = "get" /\ op'[d].kind = op[d].kind /\ op'[d].snap = op[d].snap
         /\ op[d].pc = "info" /\ ~op[d].had
  <2>1. CASE BootInfo(d)
    <3>1. op'[d] = IF op[d].had THEN [op[d] EXCEPT !.pc = "post", !.snap = s] ELSE [op[d] EXCEPT !.pc = "get"]
      BY <1>4, <2>1 DEF BootInfo, Typed
    <3>2. op[d].pc = "info" /\ op[d].had \in BOOLEAN
      BY <1>1, <2>1 DEF Operations, BootInfo
    <3>3. CASE op[d].had
      BY <1>1, <3>1, <3>3 DEF Operations
    <3>4. CASE ~op[d].had
      BY <1>1, <3>1, <3>2, <3>4 DEF Operations
    <3> QED BY <3>3, <3>4
  <2>2. CASE BootRefill(d)
    <3>1. op'[d] = [op[d] EXCEPT !.pc = "post", !.refill = TRUE, !.snap = s]
      BY <1>4, <2>2 DEF BootRefill, Typed
    <3> QED BY <1>1, <3>1 DEF Operations
  <2> QED BY <2>1, <2>2
<1>7. PostOk(K, i, latest[i], records[i], local[d][i], outbox[d][i], again[d], op'[d])
  BY <1>1, <1>3, <1>5, <1>6 DEF PostOk
<1>8. PullOk(i, records[i], local[d][i], outbox[d][i], op'[d])
  BY <1>1, <1>6 DEF PullOk, AnyRec
<1> QED BY <1>2, <1>7, <1>8, OperationMoves

\* The POST of a bootstrap is answered: the server has all the device holds.
LEMMA BootPushedId ==
  ASSUME Typed, Typed', Control, NEW K \in Kinds, NEW i \in Ids, IdBody(K, i),
         NEW d \in Devices, BootPushed(d)
  PROVE  IdBody(K, i)'
<1>1. /\ HoldOk(K, i, latest[i], records[i], local[d][i], outbox[d][i], pending[d])
      /\ PostOk(K, i, latest[i], records[i], local[d][i], outbox[d][i], again[d], op[d])
      /\ latest[i] \in AnyRec /\ records[i] \in AnyRec /\ local[d][i] \in Nat /\ outbox[d][i] \in Nat
      /\ op[d] \in Operations(clock, revision) /\ Fits(K, latest[i], NoRec)
  BY DeviceFacts
<1>2. /\ Frame(d) /\ local' = local /\ outbox' = outbox /\ pending' = pending
      /\ again' = again /\ latest' = latest /\ records' = records /\ late' = late
      /\ op[d].pc = "posted" /\ op[d].kind = "boot"
  BY FrameHolds DEF BootPushed, store, server
<1>3. op[d].snap[i] = SnapAt(local[d][i], outbox[d][i]) /\ op[d].snap[i].at <= records[i].at
  BY <1>1, <1>2 DEF PostOk
<1>4. local[d][i] <= records[i].at /\ outbox[d][i] <= records[i].at
  BY <1>1, <1>3 DEF SnapAt, AnyRec
<1>5. op'[d].pc = "get" /\ op'[d].kind = "boot" /\ op'[d].snap = Nothing
  <2>1. op'[d] = [op[d] EXCEPT !.pc = "get", !.snap = Nothing, !.wrote = FALSE, !.ans = 0]
    BY DEF BootPushed, Typed
  <2> QED BY <1>1, <1>2, <2>1 DEF Operations
<1>6. PostOk(K, i, latest[i], records[i], local[d][i], outbox[d][i], again[d], op'[d])
  BY <1>1, <1>5 DEF PostOk, Nothing
<1>7. PullOk(i, records[i], local[d][i], outbox[d][i], op'[d])
  BY <1>4, <1>5 DEF PullOk, Sent
<1> QED BY <1>2, <1>6, <1>7, OperationMoves

\* The snapshot replaces what the device holds, all of which it has of the
\* server or sent before.
LEMMA BootApplyId ==
  ASSUME Typed, Typed', Control, NEW K \in Kinds, NEW i \in Ids, IdBody(K, i), i # Pref \/ PrefInv,
         NEW d \in Devices, BootApply(d)
  PROVE  IdBody(K, i)' /\ local'[d][i] = Live(op[d].snap[i])
<1>1. /\ HoldOk(K, i, latest[i], records[i], local[d][i], outbox[d][i], pending[d])
      /\ PostOk(K, i, latest[i], records[i], local[d][i], outbox[d][i], again[d], op[d])
      /\ PullOk(i, records[i], local[d][i], outbox[d][i], op[d])
      /\ latest[i] \in AnyRec /\ records[i] \in AnyRec /\ local[d][i] \in Nat /\ outbox[d][i] \in Nat
      /\ op[d] \in Operations(clock, revision) /\ op[d].snap[i] \in AnyRec
      /\ Fits(K, latest[i], NoRec) /\ 0 \notin K
  BY DeviceFacts
<1>2. /\ Frame(d) /\ outbox' = outbox /\ pending' = pending
      /\ again' = again /\ latest' = latest /\ records' = records /\ late' = late
      /\ op[d].pc = "got" /\ (op[d].snap # Nothing \/ op[d].refill)
  BY FrameHolds DEF BootApply, server
<1>3. op[d].kind # "push"
  BY <1>2 DEF Control, ControlOk
<1>4. op'[d].pc = "applied" /\ op'[d].kind = op[d].kind /\ op'[d].snap = Nothing
  <2>1. op'[d] = [op[d] EXCEPT !.pc = "applied", !.snap = Nothing]
    BY DEF BootApply, Typed
  <2> QED BY <1>1, <2>1 DEF Operations
<1>5. local'[d][i] = Live(op[d].snap[i])
  <2>1. ~(i = Pref /\ op[d].snap[i] = NoRec)
    <3> SUFFICES ASSUME i = Pref, op[d].snap[Pref] = NoRec PROVE FALSE
      OBVIOUS
    <3>1. Full(op[d].snap)
      BY <1>2 DEF PrefInv, PrefOk
    <3> QED BY <3>1 DEF Full, NoRec
  <2>2. local'[d] = Replaced(op[d].snap)
    BY DEF BootApply, Typed
  <2> QED BY <2>1, <2>2 DEF Replaced
<1>6. /\ Fits(K, latest[i], op[d].snap[i]) /\ op[d].snap[i].at <= records[i].at
      /\ outbox[d][i] <= records[i].at
  BY <1>1, <1>2 DEF PostOk, PullOk
<1>7. /\ local'[d][i] \in Nat /\ local'[d][i] <= records[i].at /\ local'[d][i] <= latest[i].at
      /\ local'[d][i] \notin K
  BY <1>1, <1>5, <1>6 DEF Live, AnyRec, Fits
<1>8. HoldOk(K, i, latest[i], records[i], local'[d][i], outbox'[d][i], pending'[d])
  BY <1>1, <1>2, <1>7 DEF HoldOk, Sent
<1>9. PostOk(K, i, latest[i], records[i], local'[d][i], outbox'[d][i], again'[d], op'[d])
  BY <1>1, <1>3, <1>4 DEF PostOk, Nothing
<1>10. PullOk(i, records[i], local'[d][i], outbox'[d][i], op'[d])
  BY <1>2, <1>4, <1>6, <1>7 DEF PullOk, Sent
<1>11. DeviceOk(K, i, latest[i], records[i], local'[d][i], outbox'[d][i], pending'[d], again'[d], op'[d])
  BY <1>8, <1>9, <1>10 DEF DeviceOk
<1> QED BY <1>2, <1>5, <1>11, OneDevice

\* The next operation of the queue starts on what the device then holds.
LEMMA RunNextOk ==
  ASSUME Typed, NEW K \in Kinds, NEW i \in Ids, NEW d \in Devices, IdBody(K, i),
         NEW flag \in BOOLEAN, RunNext(d, flag),
         local'[d] \in Stamps(clock), outbox'[d] \in Stamps(clock), again'[d] \in BOOLEAN,
         HoldOk(K, i, latest[i], records[i], local'[d][i], outbox'[d][i], flag)
  PROVE  DeviceOk(K, i, latest[i], records[i], local'[d][i], outbox'[d][i],
                  pending'[d], again'[d], op'[d])
<1>1. /\ latest[i] \in AnyRec /\ records[i] \in AnyRec /\ 0 \notin K
      /\ queued[d] \in Waiting /\ clock \in Nat
  BY DeviceFacts, IdTyped
<1>2. op'[d] = Started(queued[d], local'[d], outbox'[d], flag)
  BY DEF RunNext, Typed
<1>3. /\ PostOk(K, i, latest[i], records[i], local'[d][i], outbox'[d][i], again'[d],
                Started(queued[d], local'[d], outbox'[d], flag))
      /\ PullOk(i, records[i], local'[d][i], outbox'[d][i],
                Started(queued[d], local'[d], outbox'[d], flag))
  BY <1>1, StartedOk
<1>4. flag => pending'[d]
  BY <1>1 DEF RunNext, Typed, Waiting, HasPending
<1>5. HoldOk(K, i, latest[i], records[i], local'[d][i], outbox'[d][i], pending'[d])
  BY <1>4 DEF HoldOk
<1> QED BY <1>2, <1>3, <1>5 DEF DeviceOk

\* A bootstrap is called.
LEMMA BootstrapId ==
  ASSUME Typed, Typed', NEW K \in Kinds, NEW i \in Ids, IdBody(K, i), NEW d \in Devices, Bootstrap(d)
  PROVE  IdBody(K, i)'
<1>1. /\ HoldOk(K, i, latest[i], records[i], local[d][i], outbox[d][i], pending[d])
      /\ PostOk(K, i, latest[i], records[i], local[d][i], outbox[d][i], again[d], op[d])
      /\ PullOk(i, records[i], local[d][i], outbox[d][i], op[d])
      /\ latest[i] \in AnyRec /\ records[i] \in AnyRec /\ 0 \notin K
  BY DeviceFacts
<1>2. /\ clock \in Nat /\ local[d] \in Stamps(clock) /\ outbox[d] \in Stamps(clock)
      /\ pending[d] \in BOOLEAN /\ again[d] \in BOOLEAN
  BY IdTyped
<1>3. /\ Frame(d) /\ local' = local /\ outbox' = outbox /\ again' = again
      /\ latest' = latest /\ records' = records /\ late' = late
  BY FrameHolds DEF Bootstrap, store, server
<1>4. HoldOk(K, i, latest[i], records[i], local[d][i], outbox[d][i], pending'[d])
  <2>1. pending[d] => pending'[d]
    BY DEF Bootstrap, Typed, HasPending
  <2> QED BY <1>1, <2>1 DEF HoldOk
<1>5. /\ PostOk(K, i, latest[i], records[i], local[d][i], outbox[d][i], again[d], op'[d])
      /\ PullOk(i, records[i], local[d][i], outbox[d][i], op'[d])
  <2>1. CASE op[d].kind = "none"
    <3>1. op'[d] = Started("boot", local[d], outbox[d], pending[d])
      BY <2>1 DEF Bootstrap, Typed
    <3>2. "boot" \in Waiting
      BY DEF Waiting
    <3>3. /\ PostOk(K, i, latest[i], records[i], local[d][i], outbox[d][i], again[d],
                    Started("boot", local[d], outbox[d], pending[d]))
          /\ PullOk(i, records[i], local[d][i], outbox[d][i],
                    Started("boot", local[d], outbox[d], pending[d]))
      BY <1>1, <1>2, <3>2, StartedOk
    <3> QED BY <3>1, <3>3
  <2>2. CASE op[d].kind # "none"
    BY <1>1, <2>2 DEF Bootstrap
  <2> QED BY <2>1, <2>2
<1>6. DeviceOk(K, i, latest[i], records[i], local'[d][i], outbox'[d][i], pending'[d], again'[d], op'[d])
  BY <1>3, <1>4, <1>5 DEF DeviceOk
<1> QED BY <1>3, <1>6, OneDevice

\* A bootstrap ends: what it drops from the outbox the server has.
LEMMA BootDoneId ==
  ASSUME Typed, Typed', NEW K \in Kinds, NEW i \in Ids, IdBody(K, i), NEW d \in Devices, BootDone(d)
  PROVE  IdBody(K, i)' /\ outbox[d][i] <= records[i].at
<1>1. /\ HoldOk(K, i, latest[i], records[i], local[d][i], outbox[d][i], pending[d])
      /\ PullOk(i, records[i], local[d][i], outbox[d][i], op[d])
      /\ latest[i] \in AnyRec
  BY DeviceFacts
<1>2. /\ Frame(d) /\ local' = local /\ latest' = latest /\ records' = records /\ late' = late
      /\ clock' = clock /\ op[d].pc \in {"applied", "same"}
  BY FrameHolds DEF BootDone, server
<1>3. Sent(i, local[d][i], records[i]) /\ outbox[d][i] <= records[i].at
  BY <1>1, <1>2 DEF PullOk
<1>4. outbox'[d][i] = 0
  BY DEF BootDone, Typed
<1>5. HoldOk(K, i, latest[i], records[i], local'[d][i], outbox'[d][i], FALSE)
  BY <1>1, <1>2, <1>3, <1>4 DEF HoldOk, AnyRec
<1>6. /\ local'[d] \in Stamps(clock) /\ outbox'[d] \in Stamps(clock) /\ again'[d] \in BOOLEAN
  BY <1>2 DEF Typed
<1>7. RunNext(d, FALSE)
  BY DEF BootDone
<1>8. DeviceOk(K, i, latest[i], records[i], local'[d][i], outbox'[d][i], pending'[d], again'[d], op'[d])
  BY <1>5, <1>6, <1>7, RunNextOk
<1> QED BY <1>2, <1>3, <1>8, OneDevice

\* A push ends: the server has what it carried, and an edit made meanwhile
\* makes it go round again.
LEMMA PushDoneId ==
  ASSUME Typed, Typed', NEW K \in Kinds, NEW i \in Ids, IdBody(K, i), NEW d \in Devices, PushDone(d)
  PROVE  IdBody(K, i)' /\ (outbox'[d][i] = 0 => outbox[d][i] <= records[i].at)
<1>1. /\ HoldOk(K, i, latest[i], records[i], local[d][i], outbox[d][i], pending[d])
      /\ PostOk(K, i, latest[i], records[i], local[d][i], outbox[d][i], again[d], op[d])
      /\ latest[i] \in AnyRec /\ records[i] \in AnyRec /\ local[d][i] \in Nat /\ outbox[d][i] \in Nat
      /\ op[d].snap[i] \in AnyRec /\ 0 \notin K
  BY DeviceFacts
<1>2. /\ Frame(d) /\ local' = local /\ latest' = latest /\ records' = records /\ late' = late
      /\ clock' = clock /\ op[d].pc = "posted" /\ op[d].kind = "push"
  BY FrameHolds DEF PushDone, server
<1>3. op[d].snap[i].at <= records[i].at
  BY <1>1, <1>2 DEF PostOk
<1>4. /\ outbox'[d][i] = 0 \/ outbox'[d][i] = outbox[d][i]
      /\ outbox'[d][i] = 0 => outbox[d][i] <= records[i].at
  <2>1. outbox'[d][i] = IF op[d].snap[i].dead /\ op[d].snap[i].at = outbox[d][i] THEN 0 ELSE outbox[d][i]
    BY DEF PushDone, Typed, Unsent
  <2> QED BY <1>1, <1>3, <2>1 DEF AnyRec
<1>5. /\ local'[d] \in Stamps(clock) /\ outbox'[d] \in Stamps(clock) /\ again'[d] \in BOOLEAN
      /\ clock \in Nat
  BY <1>2 DEF Typed
<1>6. HoldOk(K, i, latest[i], records[i], local'[d][i], outbox'[d][i], TRUE)
  BY <1>1, <1>2, <1>4 DEF HoldOk, AnyRec
<1>7. CASE again[d] \/ HasPending(FALSE, outbox'[d])
  <2>0. /\ op' = [op EXCEPT ![d] = Started("push", local[d], outbox'[d], TRUE)]
        /\ pending' = [pending EXCEPT ![d] = TRUE]
    BY <1>7 DEF PushDone
  <2>1. op'[d] = Started("push", local'[d], outbox'[d], TRUE) /\ pending'[d]
    BY <1>2, <2>0 DEF Typed
  <2>2. "push" \in Waiting /\ TRUE \in BOOLEAN
    BY DEF Waiting
  <2>3. /\ PostOk(K, i, latest[i], records[i], local'[d][i], outbox'[d][i], again'[d],
                  Started("push", local'[d], outbox'[d], TRUE))
        /\ PullOk(i, records[i], local'[d][i], outbox'[d][i],
                  Started("push", local'[d], outbox'[d], TRUE))
    BY <1>1, <1>5, <1>6, <2>2, StartedOk
  <2>4. HoldOk(K, i, latest[i], records[i], local'[d][i], outbox'[d][i], pending'[d])
    BY <1>6, <2>1 DEF HoldOk
  <2>5. DeviceOk(K, i, latest[i], records[i], local'[d][i], outbox'[d][i], pending'[d], again'[d], op'[d])
    BY <2>1, <2>3, <2>4 DEF DeviceOk
  <2> QED BY <1>2, <1>4, <2>5, OneDevice
<1>8. CASE ~(again[d] \/ HasPending(FALSE, outbox'[d]))
  <2>1. op[d].snap[i] = SnapAt(local[d][i], outbox[d][i])
    BY <1>1, <1>2, <1>8 DEF PostOk
  <2>2. local[d][i] <= records[i].at
    BY <1>1, <1>3, <2>1 DEF SnapAt, AnyRec
  <2>3. HoldOk(K, i, latest[i], records[i], local'[d][i], outbox'[d][i], FALSE)
    BY <1>2, <1>6, <2>2 DEF HoldOk, Sent
  <2>4. RunNext(d, FALSE)
    BY <1>8 DEF PushDone
  <2>5. DeviceOk(K, i, latest[i], records[i], local'[d][i], outbox'[d][i], pending'[d], again'[d], op'[d])
    BY <1>5, <2>3, <2>4, RunNextOk
  <2> QED BY <1>2, <1>4, <2>5, OneDevice
<1> QED BY <1>7, <1>8

\* A request fails, the session comes and goes, the application restarts.
LEMMA FailureId ==
  ASSUME Typed, Typed', NEW K \in Kinds, NEW i \in Ids, IdBody(K, i), NEW d \in Devices,
         RequestFails(d) \/ GoOffline(d) \/ GoOnline(d) \/ Stale(d) \/ Restart(d)
  PROVE  IdBody(K, i)'
<1>1. /\ HoldOk(K, i, latest[i], records[i], local[d][i], outbox[d][i], pending[d])
      /\ PostOk(K, i, latest[i], records[i], local[d][i], outbox[d][i], again[d], op[d])
      /\ PullOk(i, records[i], local[d][i], outbox[d][i], op[d])
      /\ Fits(K, latest[i], NoRec)
  BY DeviceFacts
<1>2. /\ Frame(d) /\ local' = local /\ outbox' = outbox /\ latest' = latest /\ records' = records
      /\ clock' = clock
  BY FrameHolds DEF RequestFails, GoOffline, GoOnline, Stale, Restart, store, server
<1>3. late'[i] = late[i] \/ late'[i] = op[d].snap[i]
  BY DEF RequestFails, GoOffline, GoOnline, Stale, Restart, Drop, MayBeLate
<1>4. DeviceOk(K, i, latest[i], records[i], local'[d][i], outbox'[d][i], pending'[d], again'[d], op'[d])
  <2>1. CASE RequestFails(d)
    <3>1. /\ local'[d] \in Stamps(clock) /\ outbox'[d] \in Stamps(clock) /\ again'[d] \in BOOLEAN
      BY <1>2 DEF Typed
    <3>2. HoldOk(K, i, latest[i], records[i], local'[d][i], outbox'[d][i], TRUE)
      BY <1>1, <1>2 DEF HoldOk
    <3>3. RunNext(d, TRUE)
      BY <2>1 DEF RequestFails
    <3> QED BY <3>1, <3>2, <3>3, RunNextOk
  <2>2. CASE GoOffline(d) \/ GoOnline(d)
    <3>1. pending' = pending /\ again' = again /\ op' = op
      BY <2>2 DEF GoOffline, GoOnline, tasks
    <3> QED BY <1>1, <1>2, <3>1 DEF DeviceOk
  <2>3. CASE Stale(d) \/ Restart(d)
    <3>1. pending' = pending /\ op'[d] = NoOp
      BY <2>3 DEF Stale, Restart, Drop, Typed
    <3>2. NoOp.kind = "none" /\ NoOp.pc = "idle" /\ NoOp.snap[i] = NoRec
      BY DEF NoOp, Nothing
    <3>3. PostOk(K, i, latest[i], records[i], local'[d][i], outbox'[d][i], again'[d], op'[d])
      BY <1>1, <3>1, <3>2 DEF PostOk
    <3>4. PullOk(i, records[i], local'[d][i], outbox'[d][i], op'[d])
      BY <3>1, <3>2 DEF PullOk
    <3> QED BY <1>1, <1>2, <3>1, <3>3, <3>4 DEF DeviceOk
  <2> QED BY <2>1, <2>2, <2>3
<1> QED BY <1>2, <1>3, <1>4, OneDevice

\* pushDirty: what the device now holds goes into a push that starts, makes
\* the one under way go round again, or waits for the session to be back.
LEMMA PushDirtyOk ==
  ASSUME Typed, Control, NEW K \in Kinds, NEW i \in Ids, NEW d \in Devices, NEW t \in AnyRec,
         NEW n \in Nat, local'[d] \in Stamps(n), outbox'[d] \in Stamps(n), PushDirty(d),
         0 \notin K, HoldOk(K, i, t, records[i], local'[d][i], outbox'[d][i], TRUE),
         PostOk(K, i, t, records[i], local[d][i], outbox[d][i], again[d], op[d]),
         PullOk(i, records[i], local[d][i], outbox[d][i], op[d]),
         Pulling(d) => local'[d][i] = local[d][i] /\ outbox'[d][i] = outbox[d][i]
  PROVE  /\ DeviceOk(K, i, t, records[i], local'[d][i], outbox'[d][i], pending'[d], again'[d], op'[d])
         /\ late'[i] = late[i] \/ late'[i] = op[d].snap[i]
<1>1. ControlOk(op[d], queued[d]) /\ op[d].kind \in Waiting /\ queued[d] \in Waiting
  BY DEF Control, Typed, Operations, Waiting
<1>2. pending'[d]
  BY DEF PushDirty, Typed
<1>3. HoldOk(K, i, t, records[i], local'[d][i], outbox'[d][i], pending'[d])
  BY <1>2 DEF HoldOk
<1>4. CASE online[d] /\ op[d].kind = "push"
  <2>1. again'[d] /\ op' = op /\ late' = late
    BY <1>4 DEF PushDirty, JoinOrEnqueue, Typed
  <2>2. op[d].pc \in {"post", "posted"}
    BY <1>1, <1>4 DEF ControlOk
  <2>3. PostOk(K, i, t, records[i], local'[d][i], outbox'[d][i], again'[d], op'[d])
    BY <1>4, <2>1 DEF PostOk
  <2>4. PullOk(i, records[i], local'[d][i], outbox'[d][i], op'[d])
    BY <2>1, <2>2 DEF PullOk
  <2> QED BY <1>3, <2>1, <2>3, <2>4 DEF DeviceOk
<1>5. CASE online[d] /\ op[d].kind = "boot"
  <2>1. op' = op /\ late' = late /\ again'[d] \in {TRUE, again[d]}
    BY <1>5 DEF PushDirty, JoinOrEnqueue, Typed
  <2>2. PostOk(K, i, t, records[i], local'[d][i], outbox'[d][i], again'[d], op'[d])
    BY <1>5, <2>1 DEF PostOk, Pulling
  <2>3. PullOk(i, records[i], local'[d][i], outbox'[d][i], op'[d])
    BY <1>5, <2>1 DEF PullOk, Pulling
  <2> QED BY <1>3, <2>1, <2>2, <2>3 DEF DeviceOk
<1>6. CASE online[d] /\ op[d].kind = "none"
  <2>1. queued[d] = "none"
    BY <1>1, <1>6 DEF ControlOk
  <2>2. op'[d] = Started("push", local'[d], outbox'[d], TRUE) /\ late' = late
    BY <1>6, <2>1 DEF PushDirty, JoinOrEnqueue, Typed
  <2>3. "push" \in Waiting /\ records[i] \in AnyRec
    BY IdTyped DEF Waiting
  <2>4. /\ PostOk(K, i, t, records[i], local'[d][i], outbox'[d][i], again'[d],
                  Started("push", local'[d], outbox'[d], TRUE))
        /\ PullOk(i, records[i], local'[d][i], outbox'[d][i],
                  Started("push", local'[d], outbox'[d], TRUE))
    BY <2>3, StartedOk
  <2> QED BY <1>3, <2>2, <2>4 DEF DeviceOk
<1>7. CASE ~online[d]
  <2>1. op'[d] = NoOp /\ (late'[i] = late[i] \/ late'[i] = op[d].snap[i])
    BY <1>7 DEF PushDirty, Drop, MayBeLate, Typed
  <2>2. NoOp.kind = "none" /\ NoOp.pc = "idle" /\ NoOp.snap[i] = NoRec
    BY DEF NoOp, Nothing
  <2>3. Fits(K, t, NoRec)
    BY DEF Fits, NoRec, AnyRec
  <2>4. PostOk(K, i, t, records[i], local'[d][i], outbox'[d][i], again'[d], op'[d])
    BY <2>1, <2>2, <2>3 DEF PostOk
  <2>5. PullOk(i, records[i], local'[d][i], outbox'[d][i], op'[d])
    BY <2>1, <2>2 DEF PullOk
  <2> QED BY <1>3, <2>1, <2>4, <2>5 DEF DeviceOk
<1> QED BY <1>1, <1>4, <1>5, <1>6, <1>7 DEF Waiting

\* An id after a step that called pushDirty; K2 has the kind of its new
\* timestamp, if it got one.
LEMMA DirtyId ==
  ASSUME Typed, Typed', Control, NEW K \in Kinds, NEW K2 \in Kinds, NEW i \in Ids, NEW d \in Devices,
         IdBody(K, i), Frame(d), records' = records, PushDirty(d),
         latest[i].at <= latest'[i].at, Agree(K, K2, latest[i].at),
         latest'[i].dead <=> latest'[i].at \in K2,
         HoldOk(K2, i, latest'[i], records[i], local'[d][i], outbox'[d][i], TRUE),
         Pulling(d) => local'[d][i] = local[d][i] /\ outbox'[d][i] = outbox[d][i]
  PROVE  IdBody(K2, i)'
<1>1. latest[i] \in AnyRec /\ latest'[i] \in AnyRec /\ records[i] \in AnyRec /\ late[i] \in AnyRec
      /\ clock' \in Nat /\ local'[d] \in Stamps(clock') /\ outbox'[d] \in Stamps(clock')
  BY IdTyped DEF Typed, Snaps, Recs, AnyRec
<1>2. 0 \notin K2
  BY <1>1 DEF IdBody, IdOk, Agree, AnyRec
<1>3. ASSUME NEW r \in AnyRec, Fits(K, latest[i], r) PROVE Fits(K2, latest'[i], r)
  BY <1>1, <1>3 DEF Fits, Agree, AnyRec
<1>4. records[i].at <= records[i].at
  BY <1>1 DEF AnyRec
<1>5. ASSUME NEW e \in Devices
      PROVE  DeviceOk(K2, i, latest'[i], records[i], local[e][i], outbox[e][i], pending[e], again[e], op[e])
  <2>1. /\ HoldOk(K, i, latest[i], records[i], local[e][i], outbox[e][i], pending[e])
        /\ PostOk(K, i, latest[i], records[i], local[e][i], outbox[e][i], again[e], op[e])
        /\ PullOk(i, records[i], local[e][i], outbox[e][i], op[e])
        /\ local[e][i] \in Nat /\ outbox[e][i] \in Nat /\ op[e].snap[i] \in AnyRec
    BY DeviceFacts
  <2>2. HoldOk(K2, i, latest'[i], records[i], local[e][i], outbox[e][i], pending[e])
    BY <1>1, <1>4, <2>1, HoldKeeps
  <2>3. PostOk(K2, i, latest'[i], records[i], local[e][i], outbox[e][i], again[e], op[e])
    BY <1>1, <1>4, <2>1, PostKeeps
  <2> QED BY <2>1, <2>2, <2>3 DEF DeviceOk
<1>6. /\ DeviceOk(K2, i, latest'[i], records[i], local'[d][i], outbox'[d][i], pending'[d], again'[d], op'[d])
      /\ late'[i] = late[i] \/ late'[i] = op[d].snap[i]
  <2>1. /\ PostOk(K2, i, latest'[i], records[i], local[d][i], outbox[d][i], again[d], op[d])
        /\ PullOk(i, records[i], local[d][i], outbox[d][i], op[d])
    BY <1>5 DEF DeviceOk
  <2> QED BY <1>1, <1>2, <2>1, PushDirtyOk
<1>7. ASSUME NEW e \in Devices
      PROVE  DeviceOk(K2, i, latest'[i], records[i], local'[e][i], outbox'[e][i], pending'[e], again'[e], op'[e])
  <2>1. CASE e = d
    BY <1>6, <2>1
  <2>2. CASE e # d
    <3>1. /\ local'[e] = local[e] /\ outbox'[e] = outbox[e] /\ pending'[e] = pending[e]
          /\ op'[e] = op[e] /\ again'[e] = again[e]
      BY <2>2 DEF Frame
    <3> QED BY <1>5, <3>1
  <2> QED BY <2>1, <2>2
<1>8. IdOk(K2, latest'[i], records[i], late'[i])
  <2>1. Fits(K2, latest'[i], records[i])
    BY <1>1, <1>3 DEF IdBody, IdOk
  <2>2. Fits(K2, latest'[i], late[i])
    BY <1>1, <1>3 DEF IdBody, IdOk
  <2>3. Fits(K2, latest'[i], op[d].snap[i])
    BY <1>5 DEF DeviceOk, PostOk
  <2> QED BY <1>2, <1>6, <2>1, <2>2, <2>3 DEF IdOk
<1> QED BY <1>7, <1>8 DEF IdBody

\* A later state of an id: more timestamps are decided.
Later(K, K2, i) == Agree(K, K2, latest[i].at) /\ latest[i].at <= latest'[i].at

\* A user edits or deletes a record, not during a pull, or the retry timer fires.
LEMMA UserId ==
  ASSUME Typed, Typed', Control, NEW K \in Kinds, NEW i \in Ids, IdBody(K, i),
         NEW d \in Devices, NEW j \in Ids, Edit(d, j) \/ Delete(d, j) \/ RetryFires(d),
         i \notin raced'
  PROVE  \E K2 \in Kinds : Later(K, K2, i) /\ IdBody(K2, i)'
<1>1. /\ HoldOk(K, i, latest[i], records[i], local[d][i], outbox[d][i], pending[d])
      /\ latest[i] \in AnyRec /\ records[i] \in AnyRec /\ local[d][i] \in Nat /\ outbox[d][i] \in Nat
      /\ 0 \notin K
  BY DeviceFacts
<1>2. clock \in Nat /\ latest[i].at <= clock
  BY IdTyped
<1>3. Frame(d) /\ records' = records /\ PushDirty(d)
  BY FrameHolds DEF Edit, Delete, RetryFires, server
<1>4. latest[i].dead <=> latest[i].at \in K
  BY DEF IdBody, IdOk
<1>5. ASSUME latest'[i] = latest[i], local'[d][i] = local[d][i], outbox'[d][i] = outbox[d][i]
      PROVE  Later(K, K, i) /\ IdBody(K, i)'
  <2>1. HoldOk(K, i, latest'[i], records[i], local'[d][i], outbox'[d][i], TRUE)
    BY <1>1, <1>5 DEF HoldOk
  <2>2. latest[i].at <= latest'[i].at /\ Agree(K, K, latest[i].at)
    BY <1>1, <1>5 DEF AnyRec, Agree
  <2>3. latest'[i].dead <=> latest'[i].at \in K
    BY <1>4, <1>5
  <2>4. IdBody(K, i)'
    BY <1>3, <1>5, <2>1, <2>2, <2>3, DirtyId
  <2> QED BY <2>2, <2>4 DEF Later
<1>6. CASE RetryFires(d) \/ j # i
  <2>1. latest'[i] = latest[i] /\ local'[d][i] = local[d][i] /\ outbox'[d][i] = outbox[d][i]
    BY <1>6 DEF RetryFires, Edit, Delete, Typed, store, Stamps, Snaps
  <2> QED BY <1>5, <2>1
<1>7. CASE j = i /\ (Edit(d, j) \/ Delete(d, j))
  <2>0. clock + 1 \in Nat
    BY <1>2
  <2>1. PICK n \in Nat : n = clock + 1
    BY <2>0, Zenon
  <2>2. ~Pulling(d) /\ n # 0 /\ latest[i].at < n
    BY <1>1, <1>2, <1>7, <2>1 DEF Edit, Delete, Act, AnyRec
  <2>3. CASE Edit(d, i)
    <3>1. PICK K2 \in Kinds : K2 = K \ {n}
      BY DEF Kinds
    <3>2. local'[d][i] = n /\ outbox' = outbox /\ latest'[i] = [at |-> n, dead |-> FALSE]
      BY <2>1, <2>3 DEF Edit, Typed, Stamps, Snaps
    <3>3. Agree(K, K2, latest[i].at)
      BY <1>1, <2>2, <3>1 DEF Agree, AnyRec
    <3>4. latest[i].at <= latest'[i].at /\ (latest'[i].dead <=> latest'[i].at \in K2)
      BY <1>1, <2>2, <3>1, <3>2 DEF AnyRec
    <3>5. HoldOk(K2, i, latest'[i], records[i], local'[d][i], outbox'[d][i], TRUE)
      <4>1. outbox[d][i] <= latest[i].at /\ (outbox[d][i] # 0 => outbox[d][i] \in K)
        BY <1>1 DEF HoldOk
      <4>2. latest'[i].at = n /\ outbox'[d][i] <= n /\ (outbox'[d][i] # 0 => outbox'[d][i] \in K2)
        BY <1>1, <2>2, <3>1, <3>2, <4>1 DEF AnyRec
      <4> QED BY <3>1, <3>2, <4>2 DEF HoldOk
    <3>6. IdBody(K2, i)'
      BY <1>3, <2>2, <3>3, <3>4, <3>5, DirtyId
    <3> QED BY <3>3, <3>4, <3>6 DEF Later
  <2>4. CASE Delete(d, i)
    <3>1. PICK K2 \in Kinds : K2 = K \union {n}
      BY DEF Kinds
    <3>2. local'[d][i] = 0 /\ outbox'[d][i] = n /\ latest'[i] = [at |-> n, dead |-> TRUE]
      BY <2>1, <2>4 DEF Delete, DeletedAt, Typed, Stamps, Snaps
    <3>3. Agree(K, K2, latest[i].at)
      BY <1>1, <2>2, <3>1 DEF Agree, AnyRec
    <3>4. latest[i].at <= latest'[i].at /\ (latest'[i].dead <=> latest'[i].at \in K2)
      BY <1>1, <2>2, <3>1, <3>2 DEF AnyRec
    <3>5. HoldOk(K2, i, latest'[i], records[i], local'[d][i], outbox'[d][i], TRUE)
      BY <1>1, <2>2, <3>1, <3>2 DEF HoldOk
    <3>6. IdBody(K2, i)'
      BY <1>3, <2>2, <3>3, <3>4, <3>5, DirtyId
    <3> QED BY <3>3, <3>4, <3>6 DEF Later
  <2> QED BY <1>7, <2>3, <2>4
<1> QED BY <1>6, <1>7

\* One id, whatever the desktops and the server do.
LEMMA NextBody ==
  ASSUME Typed, Typed', Control, NEW K \in Kinds, NEW i \in Ids, i # Pref \/ PrefInv,
         i \notin raced', IdBody(K, i), [Next]_vars
  PROVE  \E K2 \in Kinds : Later(K, K2, i) /\ IdBody(K2, i)'
<1>1. latest' = latest => Later(K, K, i)
  <2>1. latest[i] \in AnyRec
    BY IdTyped
  <2> QED BY <2>1 DEF Later, Agree, AnyRec
<1>2. CASE UNCHANGED vars
  <2>1. IdBody(K, i)' /\ latest' = latest
    BY <1>2 DEF IdBody, vars
  <2> QED BY <1>1, <2>1
<1>3. ASSUME NEW d \in Devices, Step(d) PROVE IdBody(K, i)' /\ Later(K, K, i)
  <2>1. latest' = latest
    BY <1>3 DEF Step, ServePost, ServeGet, BootInfo, BootPushed, BootRefill, BootApply, BootDone, PushDone
  <2>2. IdBody(K, i)'
    BY <1>3, ServePostId, ServeGetId, BootInfoId, BootPushedId, BootApplyId, BootDoneId, PushDoneId DEF Step
  <2> QED BY <1>1, <2>1, <2>2
<1>4. ASSUME NEW d \in Devices, NEW j \in Ids, Edit(d, j) \/ Delete(d, j) \/ RetryFires(d)
      PROVE  \E K2 \in Kinds : Later(K, K2, i) /\ IdBody(K2, i)'
  BY <1>4, UserId
<1>5. ASSUME NEW d \in Devices,
             \/ Bootstrap(d) \/ RequestFails(d) \/ GoOffline(d) \/ GoOnline(d) \/ Stale(d) \/ Restart(d)
      PROVE  IdBody(K, i)' /\ Later(K, K, i)
  <2>1. latest' = latest
    BY <1>5 DEF Bootstrap, RequestFails, GoOffline, GoOnline, Stale, Restart
  <2>2. IdBody(K, i)'
    BY <1>5, BootstrapId, FailureId
  <2> QED BY <1>1, <2>1, <2>2
<1>6. CASE ServeLate
  <2>1. IdBody(K, i)' /\ latest' = latest
    BY <1>6, ServeLateId DEF ServeLate
  <2> QED BY <1>1, <2>1
<1> QED BY <1>2, <1>3, <1>4, <1>5, <1>6 DEF Next

\* The same, whichever deletions there were.
LEMMA NextId ==
  ASSUME Typed, Typed', Control, NEW i \in Ids, i # Pref \/ PrefInv,
         i \notin raced', IdInv(i), [Next]_vars
  PROVE  IdInv(i)'
<1>1. PICK K \in Kinds : IdBody(K, i)
  BY DEF IdInv
<1>2. PICK K2 \in Kinds : IdBody(K2, i)'
  BY <1>1, NextBody
<1> QED BY <1>2 DEF IdInv

\* Which operations a device has under way.
LEMMA ControlStep == ASSUME Typed, Control, [Next]_vars PROVE Control'
<1>1. ASSUME NEW k \in Waiting, NEW loc, NEW out, NEW f
      PROVE  ControlOk(Started(k, loc, out, f), "none")
  <2>1. PICK q : q = Started(k, loc, out, f)
    OBVIOUS
  <2>2. /\ q.kind = k /\ (k = "push" => q.pc = "post") /\ (k = "boot" => q.pc = "info")
        /\ (k = "none" => q = NoOp)
    BY <2>1, StartedFields
  <2> QED BY <2>1, <2>2 DEF ControlOk
<1>2. ASSUME NEW d \in Devices, Frame(d), ControlOk(op'[d], queued'[d]) PROVE Control'
  BY <1>2 DEF Control, Frame
<1>3. ASSUME NEW d \in Devices
      PROVE  /\ ControlOk(op[d], queued[d]) /\ queued[d] \in Waiting
             /\ op[d] \in Operations(clock, revision)
  BY DEF Control, Typed
<1>4. NoOp.kind = "none" /\ ControlOk(NoOp, "none")
  BY DEF NoOp, ControlOk
<1>5. ASSUME NEW d \in Devices, NEW f, RunNext(d, f) PROVE ControlOk(op'[d], queued'[d])
  <2>1. op'[d] = Started(queued[d], local'[d], outbox'[d], f) /\ queued'[d] = "none"
    BY <1>5 DEF RunNext, Typed
  <2> QED BY <1>1, <1>3, <2>1
<1>6. ASSUME NEW d \in Devices, Drop(d) PROVE ControlOk(op'[d], queued'[d])
  <2>1. op'[d] = NoOp /\ queued'[d] = "none"
    BY <1>6 DEF Drop, Typed
  <2> QED BY <1>4, <2>1
<1>7. ASSUME NEW d \in Devices, NEW j \in Ids, Edit(d, j) \/ Delete(d, j) \/ RetryFires(d) PROVE Control'
  <2>1. PushDirty(d) /\ Frame(d)
    BY <1>7, FrameHolds DEF Edit, Delete, RetryFires
  <2>2. CASE online[d]
    <3>1. CASE "push" \in {op[d].kind, queued[d]}
      <4>1. op' = op /\ queued' = queued
        BY <2>1, <2>2, <3>1 DEF PushDirty, JoinOrEnqueue
      <4> QED BY <4>1 DEF Control
    <3>2. CASE "push" \notin {op[d].kind, queued[d]} /\ op[d].kind = "none"
      <4>1. op'[d] = Started("push", local'[d], outbox'[d], TRUE) /\ queued' = queued
        BY <2>1, <2>2, <3>2 DEF PushDirty, JoinOrEnqueue, Typed
      <4>2. queued'[d] = "none" /\ "push" \in Waiting
        BY <1>3, <3>2, <4>1 DEF ControlOk, Waiting
      <4>3. ControlOk(op'[d], queued'[d])
        BY <1>1, <4>1, <4>2
      <4> QED BY <1>2, <2>1, <4>3
    <3>3. CASE "push" \notin {op[d].kind, queued[d]} /\ op[d].kind # "none"
      <4>1. op' = op
        BY <2>1, <2>2, <3>3 DEF PushDirty, JoinOrEnqueue
      <4>2. ControlOk(op'[d], queued'[d])
        BY <1>3, <3>3, <4>1 DEF ControlOk
      <4> QED BY <1>2, <2>1, <4>2
    <3> QED BY <3>1, <3>2, <3>3
  <2>3. CASE ~online[d]
    <3>1. Drop(d)
      BY <2>1, <2>3 DEF PushDirty
    <3> QED BY <1>2, <1>6, <2>1, <3>1
  <2> QED BY <2>2, <2>3
<1>8. ASSUME NEW d \in Devices, BootDone(d) \/ RequestFails(d) \/ Stale(d) \/ Restart(d) PROVE Control'
  <2>1. Frame(d)
    BY <1>8, FrameHolds
  <2>2. ControlOk(op'[d], queued'[d])
    BY <1>5, <1>6, <1>8 DEF BootDone, RequestFails, Stale, Restart
  <2> QED BY <1>2, <2>1, <2>2
<1>9. ASSUME NEW d \in Devices, PushDone(d) PROVE Control'
  <2>1. Frame(d)
    BY <1>9, FrameHolds
  <2>2. CASE again[d] \/ HasPending(FALSE, outbox'[d])
    <3>1. op' = [op EXCEPT ![d] = Started("push", local[d], outbox'[d], TRUE)] /\ queued' = queued
      BY <1>9, <2>2 DEF PushDone
    <3>2. op'[d] = Started("push", local[d], outbox'[d], TRUE) /\ "push" \in Waiting
      BY <3>1 DEF Typed, Waiting
    <3>3. op'[d].kind = "push" /\ op'[d].pc = "post"
      BY <3>2 DEF Started, NoOp
    <3>4. ControlOk(op'[d], queued'[d])
      BY <3>3 DEF ControlOk
    <3> QED BY <1>2, <2>1, <3>4
  <2>3. CASE ~(again[d] \/ HasPending(FALSE, outbox'[d]))
    <3>1. RunNext(d, FALSE)
      BY <1>9, <2>3 DEF PushDone
    <3> QED BY <1>2, <1>5, <2>1, <3>1
  <2> QED BY <2>2, <2>3
<1>10. ASSUME NEW d \in Devices, Bootstrap(d) PROVE Control'
  <2>1. Frame(d)
    BY <1>10, FrameHolds
  <2>2. CASE op[d].kind = "none"
    <3>1. op'[d] = Started("boot", local[d], outbox[d], pending[d]) /\ queued' = queued
      BY <1>10, <2>2 DEF Bootstrap, Typed
    <3>2. queued'[d] = "none" /\ "boot" \in Waiting
      BY <1>3, <2>2, <3>1 DEF ControlOk, Waiting
    <3>3. ControlOk(op'[d], queued'[d])
      BY <1>1, <3>1, <3>2
    <3> QED BY <1>2, <2>1, <3>3
  <2>3. CASE op[d].kind # "none"
    <3>1. op' = op
      BY <1>10, <2>3 DEF Bootstrap
    <3>2. ControlOk(op'[d], queued'[d])
      BY <1>3, <2>3, <3>1 DEF ControlOk
    <3> QED BY <1>2, <2>1, <3>2
  <2> QED BY <2>2, <2>3
<1>11. ASSUME NEW d \in Devices,
              \/ ServePost(d) \/ ServeGet(d) \/ BootInfo(d) \/ BootPushed(d) \/ BootRefill(d) \/ BootApply(d)
       PROVE  Control'
  <2>1. Frame(d) /\ queued' = queued
    BY <1>11, FrameHolds DEF ServePost, ServeGet, BootInfo, BootPushed, BootRefill, BootApply
  <2>2. op[d].pc # "idle" /\ (op[d].pc = "post" \/ op[d].pc \notin {"post", "posted"} \/ BootPushed(d))
    BY <1>11 DEF ServePost, ServeGet, BootInfo, BootPushed, BootRefill, BootApply
  <2>3. op[d].kind # "none"
    BY <1>3, <2>2 DEF ControlOk, NoOp
  <2>4. /\ op'[d].kind = op[d].kind /\ op'[d].pc # "idle"
        /\ ServePost(d) => op'[d].pc = "posted"
    <3> USE DEF Typed, Operations
    <3>1. CASE ServePost(d)
      <4>1. \E w, a : op'[d] = [op[d] EXCEPT !.pc = "posted", !.wrote = w, !.ans = a]
        BY <3>1 DEF ServePost
      <4> QED BY <1>3, <4>1
    <3>2. CASE ServeGet(d)
      BY <1>3, <3>2 DEF ServeGet, ServePost
    <3>3. CASE BootInfo(d)
      <4>1. op'[d] = IF op[d].had THEN [op[d] EXCEPT !.pc = "post", !.snap = Snapshot(local[d], outbox[d])]
                                  ELSE [op[d] EXCEPT !.pc = "get"]
        BY <3>3 DEF BootInfo
      <4>2. op'[d].kind = op[d].kind /\ op'[d].pc \in {"post", "get"}
        BY <1>3, <4>1
      <4> QED BY <3>3, <4>2 DEF BootInfo, ServePost
    <3>4. CASE BootPushed(d)
      BY <1>3, <3>4 DEF BootPushed, ServePost
    <3>5. CASE BootRefill(d)
      <4>1. op'[d] = [op[d] EXCEPT !.pc = "post", !.refill = TRUE, !.snap = Snapshot(local[d], outbox[d])]
        BY <3>5 DEF BootRefill
      <4>2. op'[d].kind = op[d].kind /\ op'[d].pc = "post"
        BY <1>3, <4>1
      <4> QED BY <3>5, <4>2 DEF BootRefill, ServePost
    <3>6. CASE BootApply(d)
      BY <1>3, <3>6 DEF BootApply, ServePost
    <3> QED BY <1>11, <3>1, <3>2, <3>3, <3>4, <3>5, <3>6
  <2>5. ~ServePost(d) => op[d].kind # "push"
    BY <1>3, <1>11 DEF ServeGet, BootInfo, BootPushed, BootRefill, BootApply, ControlOk
  <2>6. ControlOk(op'[d], queued'[d])
    BY <1>3, <2>3, <2>4, <2>5 DEF ControlOk
  <2> QED BY <1>2, <2>1, <2>6
<1>12. ASSUME op' = op, queued' = queued PROVE Control'
  BY <1>12 DEF Control
<1>13. ASSUME NEW d \in Devices, GoOffline(d) \/ GoOnline(d) PROVE Control'
  BY <1>12, <1>13 DEF GoOffline, GoOnline, tasks
<1>14. CASE ServeLate \/ UNCHANGED vars
  BY <1>12, <1>14 DEF ServeLate, tasks, vars
<1> QED BY <1>7, <1>8, <1>9, <1>10, <1>11, <1>13, <1>14 DEF Next, Step

\* A snapshot of a device has its preferences.
LEMMA PrefSnapshot ==
  ASSUME NEW loc, NEW out, loc[Pref] \in Nat, loc[Pref] # 0, out[Pref] = 0
  PROVE  /\ Full(Snapshot(loc, out)) /\ NoTomb(Snapshot(loc, out))
         /\ \A R, f : \A k \in Waiting : PrefOk(R, loc[Pref], out[Pref], Started(k, loc, out, f))
<1>0. Snapshot(loc, out)[Pref] = SnapAt(loc[Pref], out[Pref])
  BY SnapshotAt
<1>1. Snapshot(loc, out)[Pref] = [at |-> loc[Pref], dead |-> FALSE]
  BY <1>0 DEF SnapAt
<1>2. Full(Snapshot(loc, out)) /\ NoTomb(Snapshot(loc, out))
  BY <1>1 DEF Full, NoTomb
<1>3. NoTomb(Nothing)
  BY DEF NoTomb, Nothing, NoRec
<1>4. ASSUME NEW R, NEW f, NEW k \in Waiting
      PROVE  PrefOk(R, loc[Pref], out[Pref], Started(k, loc, out, f))
  <2>1. PICK q : q = Started(k, loc, out, f)
    OBVIOUS
  <2>2. /\ ~q.refill
        /\ \/ q.pc = "post" /\ q.snap = Snapshot(loc, out)
           \/ q.pc \in {"info", "idle"} /\ q.snap = Nothing
    BY <2>1, StartedFields DEF Waiting
  <2> QED BY <1>2, <1>3, <2>1, <2>2 DEF PrefOk
<1> QED BY <1>2, <1>4

\* The preferences, when one device moves.
LEMMA OnePref ==
  ASSUME PrefInv, NEW d \in Devices, Frame(d), records' = records,
         late' = late \/ (late' = op[d].snap /\ op[d].pc = "post"),
         PrefOk(records, local'[d][Pref], outbox'[d][Pref], op'[d])
  PROVE  PrefInv'
<1>1. NoTomb(late') /\ (late' = Nothing \/ Full(late'))
  BY DEF PrefInv, PrefOk
<1>2. ASSUME NEW e \in Devices PROVE PrefOk(records, local'[e][Pref], outbox'[e][Pref], op'[e])
  <2>1. CASE e = d
    BY <2>1
  <2>2. CASE e # d
    <3>1. local'[e] = local[e] /\ outbox'[e] = outbox[e] /\ op'[e] = op[e]
      BY <2>2 DEF Frame
    <3> QED BY <3>1 DEF PrefInv
  <2> QED BY <2>1, <2>2
<1> QED BY <1>1, <1>2 DEF PrefInv, Full, NoTomb

\* The server writes something with preferences in it.
LEMMA PrefServed ==
  ASSUME Typed, PrefInv, NEW snap \in Snaps(clock), ApplyPush(snap), Full(snap), NoTomb(snap)
  PROVE  /\ Full(records') /\ NoTomb(records')
         /\ \A d \in Devices : PrefOk(records', local[d][Pref], outbox[d][Pref], op[d])
<1>1. /\ clock \in Nat /\ records \in Snaps(clock) /\ Pref \in Ids /\ snap[Pref] \in AnyRec
      /\ records[Pref] \in AnyRec
  BY DEF Typed, Snaps, Recs, AnyRec
<1>2. /\ records'[Pref] = records[Pref] \/ records'[Pref] = snap[Pref]
      /\ snap[Pref].at <= records'[Pref].at
  BY <1>1, WrittenAt
<1>3. Full(records') /\ NoTomb(records')
  BY <1>1, <1>2 DEF Full, NoTomb, PrefInv, AnyRec
<1> QED BY <1>3 DEF PrefInv, PrefOk

\* The preferences are never deleted and always sent.
LEMMA PrefStep == ASSUME Typed, Typed', Control, PrefInv, [Next]_vars PROVE PrefInv'
<1>0. ASSUME NEW d \in Devices
      PROVE  /\ PrefOk(records, local[d][Pref], outbox[d][Pref], op[d])
             /\ local[d][Pref] \in Nat /\ op[d].snap \in Snaps(clock)
             /\ op[d] \in Operations(clock, revision) /\ queued[d] \in Waiting
             /\ ControlOk(op[d], queued[d])
  <2>1. Pref \in Ids
    OBVIOUS
  <2> QED BY <2>1, IdTyped DEF PrefInv, Control
<1>1. NoTomb(Nothing) /\ \A R, l, o : l # 0 /\ o = 0 => PrefOk(R, l, o, NoOp)
  BY DEF NoTomb, Nothing, NoRec, PrefOk, NoOp
<1>2. ASSUME NEW d \in Devices, NEW f, RunNext(d, f), local'[d][Pref] \in Nat, local'[d][Pref] # 0,
             outbox'[d][Pref] = 0
      PROVE  PrefOk(records, local'[d][Pref], outbox'[d][Pref], op'[d])
  <2>1. op'[d] = Started(queued[d], local'[d], outbox'[d], f)
    BY <1>2 DEF RunNext, Typed
  <2> QED BY <1>0, <1>2, <2>1, PrefSnapshot
<1>3. ASSUME NEW d \in Devices, ServePost(d) PROVE PrefInv'
  <2>1. PICK snap \in Snaps(clock) : snap = op[d].snap
    BY <1>0
  <2>2. ApplyPush(snap) /\ Full(snap) /\ NoTomb(snap) /\ late' = late /\ Frame(d)
    BY <1>0, <1>3, <2>1, FrameHolds DEF ServePost, PrefOk
  <2>3. /\ Full(records') /\ NoTomb(records')
        /\ \A e \in Devices : PrefOk(records', local[e][Pref], outbox[e][Pref], op[e])
    BY <2>2, PrefServed
  <2>4. op'[d].pc = "posted" /\ op'[d].snap = op[d].snap /\ local' = local /\ outbox' = outbox
    <3>1. /\ op' = [op EXCEPT ![d].pc = "posted", ![d].wrote = Written(op[d].snap) # {},
                              ![d].ans = revision']
          /\ local' = local /\ outbox' = outbox
      BY <1>3 DEF ServePost, store
    <3>2. op'[d] = [op[d] EXCEPT !.pc = "posted", !.wrote = Written(op[d].snap) # {}, !.ans = revision']
      BY <3>1 DEF Typed
    <3>3. op[d] \in Operations(clock, revision)
      BY <1>0
    <3>4. op'[d].pc = "posted" /\ op'[d].snap = op[d].snap
      BY <3>2, <3>3 DEF Operations
    <3> QED BY <3>1, <3>4
  <2>5. PrefOk(records', local'[d][Pref], outbox'[d][Pref], op'[d])
    BY <2>1, <2>2, <2>3, <2>4 DEF PrefOk
  <2>6. \A e \in Devices : PrefOk(records', local'[e][Pref], outbox'[e][Pref], op'[e])
    BY <2>2, <2>3, <2>4, <2>5 DEF Frame
  <2> QED BY <2>2, <2>3, <2>6 DEF PrefInv
<1>4. CASE ServeLate
  <2>1. ApplyPush(late) /\ late \in Snaps(clock) /\ Full(late) /\ NoTomb(late) /\ late' = Nothing
    BY <1>4 DEF ServeLate, PrefInv, Typed
  <2>2. /\ Full(records') /\ NoTomb(records')
        /\ \A e \in Devices : PrefOk(records', local[e][Pref], outbox[e][Pref], op[e])
    BY <2>1, PrefServed
  <2>3. local' = local /\ outbox' = outbox /\ op' = op
    BY <1>4 DEF ServeLate, store, tasks
  <2> QED BY <1>1, <2>1, <2>2, <2>3 DEF PrefInv
<1>5. ASSUME NEW d \in Devices, ServeGet(d) PROVE PrefInv'
  <2>1. /\ Frame(d) /\ records' = records /\ late' = late /\ local' = local /\ outbox' = outbox
        /\ op[d].pc = "get"
    BY <1>5, FrameHolds DEF ServeGet, server, store
  <2>2. CASE rev[d] = revision
    <3>1. op'[d] = [op[d] EXCEPT !.pc = "same"]
      BY <1>5, <2>2 DEF ServeGet, Typed
    <3>2. op'[d].pc = "same" /\ op'[d].snap = op[d].snap
      BY <1>0, <3>1 DEF Operations
    <3>3. PrefOk(records, local'[d][Pref], outbox'[d][Pref], op'[d])
      BY <1>0, <2>1, <3>2 DEF PrefOk
    <3> QED BY <2>1, <3>3, OnePref
  <2>3. CASE rev[d] # revision
    <3>1. op'[d] = [op[d] EXCEPT !.pc = "got", !.snap = records, !.ans = revision]
      BY <1>5, <2>3 DEF ServeGet, Typed
    <3>2. op'[d].pc = "got" /\ op'[d].snap = records /\ op'[d].refill = op[d].refill
      BY <1>0, <3>1 DEF Operations
    <3>3. PrefOk(records, local'[d][Pref], outbox'[d][Pref], op'[d])
      BY <1>0, <2>1, <3>2 DEF PrefOk, PrefInv
    <3> QED BY <2>1, <3>3, OnePref
  <2> QED BY <2>2, <2>3
<1>6. ASSUME NEW d \in Devices, BootInfo(d) \/ BootRefill(d) PROVE PrefInv'
  <2>1. /\ Frame(d) /\ records' = records /\ late' = late /\ local' = local /\ outbox' = outbox
    BY <1>6, FrameHolds DEF BootInfo, BootRefill, server, store
  <2>2. PICK s : s = Snapshot(local[d], outbox[d])
    OBVIOUS
  <2>3. Full(s) /\ NoTomb(s)
    BY <1>0, <2>2, PrefSnapshot DEF PrefOk
  <2>4. \/ op'[d].pc = "post" /\ op'[d].snap = s
        \/ op'[d].pc = "get" /\ op'[d].snap = op[d].snap /\ ~op'[d].refill
    <3>1. CASE BootInfo(d)
      <4>1. op'[d] = IF op[d].had THEN [op[d] EXCEPT !.pc = "post", !.snap = s] ELSE [op[d] EXCEPT !.pc = "get"]
        BY <2>2, <3>1 DEF BootInfo, Typed
      <4>2. ~op[d].refill
        BY <1>0, <3>1 DEF BootInfo, PrefOk
      <4>3. CASE op[d].had
        BY <1>0, <4>1, <4>3 DEF Operations
      <4>4. CASE ~op[d].had
        BY <1>0, <4>1, <4>2, <4>4 DEF Operations
      <4> QED BY <4>3, <4>4
    <3>2. CASE BootRefill(d)
      <4>1. op'[d] = [op[d] EXCEPT !.pc = "post", !.refill = TRUE, !.snap = s]
        BY <2>2, <3>2 DEF BootRefill, Typed
      <4> QED BY <1>0, <4>1 DEF Operations
    <3> QED BY <1>6, <3>1, <3>2
  <2>5. PrefOk(records, local'[d][Pref], outbox'[d][Pref], op'[d])
    BY <1>0, <2>1, <2>3, <2>4 DEF PrefOk
  <2> QED BY <2>1, <2>5, OnePref
<1>7. ASSUME NEW d \in Devices, BootPushed(d) PROVE PrefInv'
  <2>1. /\ Frame(d) /\ records' = records /\ late' = late /\ local' = local /\ outbox' = outbox
        /\ op[d].pc = "posted"
    BY <1>7, FrameHolds DEF BootPushed, server, store
  <2>2. op'[d] = [op[d] EXCEPT !.pc = "get", !.snap = Nothing, !.wrote = FALSE, !.ans = 0]
    BY <1>7 DEF BootPushed, Typed
  <2>3. op'[d].pc = "get" /\ op'[d].snap = Nothing
    BY <1>0, <2>2 DEF Operations
  <2>4. PrefOk(records, local'[d][Pref], outbox'[d][Pref], op'[d])
    BY <1>0, <1>1, <2>1, <2>3 DEF PrefOk
  <2> QED BY <2>1, <2>4, OnePref
<1>8. ASSUME NEW d \in Devices, BootApply(d) PROVE PrefInv'
  <2>1. /\ Frame(d) /\ records' = records /\ late' = late /\ outbox' = outbox
        /\ op[d].pc = "got" /\ (op[d].snap # Nothing \/ op[d].refill)
    BY <1>8, FrameHolds DEF BootApply, server
  <2>2. op'[d] = [op[d] EXCEPT !.pc = "applied", !.snap = Nothing] /\ local'[d] = Replaced(op[d].snap)
    BY <1>8 DEF BootApply, Typed
  <2>3. op'[d].pc = "applied" /\ op'[d].snap = Nothing
    BY <1>0, <2>2 DEF Operations
  <2>4. Full(op[d].snap) /\ NoTomb(op[d].snap)
    BY <1>0, <2>1 DEF PrefOk
  <2>5. local'[d][Pref] # 0
    <3>1. op[d].snap[Pref] # NoRec
      BY <2>4 DEF Full, NoRec
    <3> QED BY <2>2, <2>4, <3>1 DEF Replaced, Live, Full, NoTomb
  <2>6. PrefOk(records, local'[d][Pref], outbox'[d][Pref], op'[d])
    BY <1>0, <1>1, <2>1, <2>3, <2>5 DEF PrefOk
  <2> QED BY <2>1, <2>6, OnePref
<1>9. ASSUME NEW d \in Devices, BootDone(d) \/ RequestFails(d) PROVE PrefInv'
  <2>1. /\ Frame(d) /\ records' = records /\ local' = local
        /\ late' = late \/ (late' = op[d].snap /\ op[d].pc = "post")
    BY <1>9, FrameHolds DEF BootDone, RequestFails, MayBeLate, server, store
  <2>2. local'[d][Pref] # 0 /\ local'[d][Pref] \in Nat /\ outbox'[d][Pref] = 0
    <3>1. outbox'[d][Pref] = 0
      <4>1. CASE BootDone(d)
        BY <4>1 DEF BootDone, Typed
      <4>2. CASE RequestFails(d)
        BY <1>0, <4>2 DEF PrefOk, RequestFails, store
      <4> QED BY <1>9, <4>1, <4>2
    <3> QED BY <1>0, <2>1, <3>1 DEF PrefOk
  <2>3. PICK f : RunNext(d, f)
    BY <1>9 DEF BootDone, RequestFails
  <2>4. PrefOk(records, local'[d][Pref], outbox'[d][Pref], op'[d])
    BY <1>2, <2>2, <2>3
  <2> QED BY <2>1, <2>4, OnePref
<1>10. ASSUME NEW d \in Devices, PushDone(d) PROVE PrefInv'
  <2>1. /\ Frame(d) /\ records' = records /\ late' = late /\ local' = local
    BY <1>10, FrameHolds DEF PushDone, server
  <2>2. outbox'[d][Pref] = 0
    BY <1>0, <1>10 DEF PrefOk, PushDone, Unsent, Typed
  <2>3. local'[d][Pref] # 0 /\ local'[d][Pref] \in Nat
    BY <1>0, <2>1 DEF PrefOk
  <2>4. PrefOk(records, local'[d][Pref], outbox'[d][Pref], op'[d])
    <3>1. CASE again[d] \/ HasPending(FALSE, outbox'[d])
      <4>1. op' = [op EXCEPT ![d] = Started("push", local[d], outbox'[d], TRUE)]
        BY <1>10, <3>1 DEF PushDone
      <4>2. op'[d] = Started("push", local'[d], outbox'[d], TRUE) /\ "push" \in Waiting
        BY <2>1, <4>1 DEF Typed, Waiting
      <4> QED BY <2>2, <2>3, <4>2, PrefSnapshot
    <3>2. CASE ~(again[d] \/ HasPending(FALSE, outbox'[d]))
      <4>1. RunNext(d, FALSE)
        BY <1>10, <3>2 DEF PushDone
      <4> QED BY <1>2, <2>2, <2>3, <4>1
    <3> QED BY <3>1, <3>2
  <2> QED BY <2>1, <2>4, OnePref
<1>11. ASSUME NEW d \in Devices, Bootstrap(d) PROVE PrefInv'
  <2>1. /\ Frame(d) /\ records' = records /\ late' = late /\ local' = local /\ outbox' = outbox
    BY <1>11, FrameHolds DEF Bootstrap, server, store
  <2>2. PrefOk(records, local'[d][Pref], outbox'[d][Pref], op'[d])
    <3>1. CASE op[d].kind = "none"
      <4>1. op'[d] = Started("boot", local[d], outbox[d], pending[d]) /\ "boot" \in Waiting
        BY <1>11, <3>1 DEF Bootstrap, Typed, Waiting
      <4>2. local[d][Pref] \in Nat /\ local[d][Pref] # 0 /\ outbox[d][Pref] = 0
        BY <1>0 DEF PrefOk
      <4> QED BY <2>1, <4>1, <4>2, PrefSnapshot
    <3>2. CASE op[d].kind # "none"
      <4>1. op' = op
        BY <1>11, <3>2 DEF Bootstrap
      <4> QED BY <1>0, <2>1, <4>1
    <3> QED BY <3>1, <3>2
  <2> QED BY <2>1, <2>2, OnePref
<1>12. ASSUME NEW d \in Devices, GoOffline(d) \/ GoOnline(d) \/ Stale(d) \/ Restart(d) PROVE PrefInv'
  <2>1. /\ Frame(d) /\ records' = records /\ local' = local /\ outbox' = outbox
        /\ late' = late \/ (late' = op[d].snap /\ op[d].pc = "post")
    BY <1>12, FrameHolds DEF GoOffline, GoOnline, Stale, Restart, Drop, MayBeLate, server, store
  <2>2. op'[d] = op[d] \/ op'[d] = NoOp
    BY <1>12 DEF GoOffline, GoOnline, Stale, Restart, Drop, tasks, Typed
  <2>3. PrefOk(records, local'[d][Pref], outbox'[d][Pref], op'[d])
    BY <1>0, <1>1, <2>1, <2>2 DEF PrefOk
  <2> QED BY <2>1, <2>3, OnePref
<1>13. ASSUME NEW d \in Devices, NEW j \in Ids, Edit(d, j) \/ Delete(d, j) \/ RetryFires(d) PROVE PrefInv'
  <2>1. Frame(d) /\ records' = records /\ PushDirty(d)
    BY <1>13, FrameHolds DEF Edit, Delete, RetryFires, server
  <2>2. late' = late \/ (late' = op[d].snap /\ op[d].pc = "post")
    BY <2>1 DEF PushDirty, JoinOrEnqueue, Drop, MayBeLate
  <2>3. local'[d][Pref] \in Nat /\ local'[d][Pref] # 0 /\ outbox'[d][Pref] = 0
    <3>1. CASE RetryFires(d)
      BY <1>0, <3>1 DEF RetryFires, store, PrefOk
    <3>2. CASE Edit(d, j)
      <4>1. local'[d][Pref] \in {local[d][Pref], clock + 1} /\ outbox' = outbox /\ clock \in Nat
        BY <3>2 DEF Edit, Typed, Stamps
      <4> QED BY <1>0, <4>1 DEF PrefOk
    <3>3. CASE Delete(d, j)
      <4>1. j # Pref
        BY <3>3 DEF Delete
      <4>2. local'[d][Pref] = local[d][Pref] /\ outbox'[d][Pref] = outbox[d][Pref]
        BY <3>3, <4>1 DEF Delete, Typed, Stamps
      <4> QED BY <1>0, <4>2 DEF PrefOk
    <3> QED BY <1>13, <3>1, <3>2, <3>3
  <2>4. \/ op'[d] = op[d] \/ op'[d] = NoOp
        \/ op'[d] = Started("push", local'[d], outbox'[d], TRUE)
    <3>1. CASE online[d]
      <4>1. \/ op' = op \/ op' = [op EXCEPT ![d] = Started("push", local'[d], outbox'[d], TRUE)]
        BY <2>1, <3>1 DEF PushDirty, JoinOrEnqueue
      <4> QED BY <4>1 DEF Typed
    <3>2. CASE ~online[d]
      <4>1. op' = [op EXCEPT ![d] = NoOp]
        BY <2>1, <3>2 DEF PushDirty, Drop
      <4> QED BY <4>1 DEF Typed
    <3> QED BY <3>1, <3>2
  <2>5. PrefOk(records, local'[d][Pref], outbox'[d][Pref], op'[d])
    <3>1. CASE op'[d] = op[d] \/ op'[d] = NoOp
      BY <1>0, <1>1, <2>3, <3>1 DEF PrefOk
    <3>2. CASE op'[d] = Started("push", local'[d], outbox'[d], TRUE)
      <4>1. "push" \in Waiting
        BY DEF Waiting
      <4> QED BY <2>3, <3>2, <4>1, PrefSnapshot
    <3> QED BY <2>4, <3>1, <3>2
  <2> QED BY <2>1, <2>2, <2>5, OnePref
<1>14. CASE UNCHANGED vars
  BY <1>14 DEF vars, PrefInv, Full, NoTomb
<1> QED BY <1>3, <1>4, <1>5, <1>6, <1>7, <1>8, <1>9, <1>10, <1>11, <1>12, <1>13, <1>14 DEF Next, Step

\* Two records of an id with the timestamp of its latest edit are the same.
LEMMA SameRec ==
  ASSUME NEW K \in Kinds, NEW t \in AnyRec, NEW r \in AnyRec, t.dead <=> t.at \in K,
         Fits(K, t, r), t.at <= r.at
  PROVE  r = t
<1>1. r.at = t.at /\ (r.dead <=> t.dead)
  BY DEF Fits, AnyRec
<1>2. r = [at |-> r.at, dead |-> r.dead] /\ t = [at |-> t.at, dead |-> t.dead]
        /\ r.dead \in BOOLEAN /\ t.dead \in BOOLEAN
  BY DEF AnyRec
<1>3. r.dead = t.dead
  BY <1>1, <1>2, Zenon
<1> QED BY <1>1, <1>2, <1>3, Zenon

\* A push does not replace the latest edit.
LEMMA LatestServed ==
  ASSUME Typed, NEW K \in Kinds, NEW i \in Ids, IdBody(K, i),
         NEW snap \in Snaps(clock), ApplyPush(snap), Fits(K, latest[i], snap[i]),
         records[i] = latest[i]
  PROVE  records'[i] = latest[i]
<1>1. /\ latest[i] \in AnyRec /\ records[i] \in AnyRec /\ clock \in Nat /\ snap[i] \in AnyRec
      /\ records \in Snaps(clock)
  BY IdTyped DEF Snaps, Recs, AnyRec, Typed
<1>2. records'[i] = records[i] \/ (records'[i] = snap[i] /\ i \in Written(snap))
  BY <1>1, WrittenAt
<1>3. CASE records'[i] = snap[i] /\ i \in Written(snap)
  <2>1. latest[i].at <= snap[i].at
    BY <1>3 DEF Written
  <2>2. latest[i].dead <=> latest[i].at \in K
    BY DEF IdBody, IdOk
  <2>3. snap[i] = latest[i]
    BY <1>1, <2>1, <2>2, SameRec
  <2> QED BY <1>3, <2>3
<1> QED BY <1>2, <1>3

\* What becomes of the latest edit of an id: a later one takes its place, or it
\* stays where it is, but for the device that applies a snapshot, which by
\* then the server has it from.
LatestStays(i) ==
  /\ latest'[i] = latest[i]
  /\ records[i] = latest[i] => records'[i] = latest[i]
  /\ \A d \in Devices : local[d][i] = latest[i].at => local'[d][i] = latest[i].at \/ records[i] = latest[i]

\* A step of the desktops and the server loses no latest edit.
LEMMA LatestStep ==
  ASSUME Typed, Typed', Control, NEW i \in Ids, i # Pref \/ PrefInv, IdInv(i), [Next]_vars
  PROVE  \/ latest'[i].dead \/ \E d \in Devices : local'[d][i] = latest'[i].at
         \/ LatestStays(i)
<1>1. PICK K \in Kinds : IdBody(K, i)
  BY DEF IdInv
<1>2. ASSUME latest' = latest, records' = records, local' = local PROVE LatestStays(i)
  BY <1>2 DEF LatestStays
<1>3. ASSUME NEW snap \in Snaps(clock), ApplyPush(snap), Fits(K, latest[i], snap[i]),
             latest' = latest, local' = local
      PROVE  LatestStays(i)
  BY <1>1, <1>3, LatestServed DEF LatestStays
<1>4. ASSUME NEW d \in Devices, ServePost(d) PROVE LatestStays(i)
  <2>1. op[d].snap \in Snaps(clock) /\ Fits(K, latest[i], op[d].snap[i])
    BY <1>1, IdTyped, DeviceFacts DEF PostOk
  <2>2. ApplyPush(op[d].snap) /\ latest' = latest /\ local' = local
    BY <1>4 DEF ServePost, store
  <2> QED BY <1>3, <2>1, <2>2
<1>5. CASE ServeLate
  <2>1. late \in Snaps(clock) /\ Fits(K, latest[i], late[i])
    BY <1>1 DEF IdBody, IdOk, Typed
  <2>2. ApplyPush(late) /\ latest' = latest /\ local' = local
    BY <1>5 DEF ServeLate, store
  <2> QED BY <1>3, <2>1, <2>2
<1>6. ASSUME NEW d \in Devices, BootApply(d) PROVE LatestStays(i)
  <2>1. /\ latest' = latest /\ records' = records /\ op[d].pc = "got" /\ (op[d].snap # Nothing \/ op[d].refill)
    BY <1>6 DEF BootApply, server
  <2>2. \A e \in Devices \ {d} : local'[e] = local[e]
    BY <1>6, FrameHolds DEF Frame
  <2>3. ASSUME local[d][i] = latest[i].at PROVE records[i] = latest[i]
    <3>1. /\ PullOk(i, records[i], local[d][i], outbox[d][i], op[d])
          /\ latest[i] \in AnyRec /\ records[i] \in AnyRec /\ op[d].snap[i] \in AnyRec
      BY <1>1, DeviceFacts
    <3>2. op[d].snap[i].at <= records[i].at /\ local[d][i] <= op[d].snap[i].at
      BY <2>1, <3>1 DEF PullOk
    <3>3. latest[i].at <= records[i].at
      BY <2>3, <3>1, <3>2 DEF AnyRec
    <3>4. Fits(K, latest[i], records[i]) /\ (latest[i].dead <=> latest[i].at \in K)
      BY <1>1 DEF IdBody, IdOk
    <3> QED BY <3>1, <3>3, <3>4, SameRec
  <2> QED BY <2>1, <2>2, <2>3 DEF LatestStays
<1>7. ASSUME NEW d \in Devices,
             \/ ServeGet(d) \/ BootInfo(d) \/ BootPushed(d) \/ BootRefill(d) \/ BootDone(d) \/ PushDone(d)
             \/ Bootstrap(d) \/ RetryFires(d) \/ RequestFails(d) \/ GoOffline(d) \/ GoOnline(d)
             \/ Stale(d) \/ Restart(d)
      PROVE  LatestStays(i)
  <2>1. latest' = latest /\ records' = records /\ local' = local
    BY <1>7 DEF ServeGet, BootInfo, BootPushed, BootRefill, BootDone, PushDone, Bootstrap, RetryFires,
                RequestFails, GoOffline, GoOnline, Stale, Restart, server, store
  <2> QED BY <1>2, <2>1
<1>8. ASSUME NEW d \in Devices, NEW j \in Ids, Edit(d, j)
      PROVE  local'[d][i] = latest'[i].at \/ LatestStays(i)
  <2>1. CASE j = i
    BY <1>8, <2>1 DEF Edit, Typed, Stamps, Snaps
  <2>2. CASE j # i
    BY <1>8, <2>2 DEF Edit, Typed, Stamps, Snaps, LatestStays, server
  <2> QED BY <2>1, <2>2
<1>9. ASSUME NEW d \in Devices, NEW j \in Ids, Delete(d, j)
      PROVE  latest'[i].dead \/ LatestStays(i)
  <2>1. CASE j = i
    BY <1>9, <2>1 DEF Delete, Typed, Snaps
  <2>2. CASE j # i
    BY <1>9, <2>2 DEF Delete, Typed, Stamps, Snaps, LatestStays, server
  <2> QED BY <2>1, <2>2
<1>10. CASE UNCHANGED vars
  BY <1>2, <1>10 DEF vars
<1> QED BY <1>4, <1>5, <1>6, <1>7, <1>8, <1>9, <1>10 DEF Next, Step

\* The first state.
LEMMA InitSafe == ASSUME Init, Typed PROVE SafeInv
<1>1. \A d \in Devices : op[d] = NoOp /\ queued[d] = "none"
  BY DEF Init
<1>2. Control
  <2>1. ControlOk(NoOp, "none")
    BY DEF ControlOk, NoOp
  <2> QED BY <1>1, <2>1 DEF Control
<1>3. PrefInv
  <2>1. ASSUME NEW d \in Devices PROVE local[d][Pref] = 1 /\ outbox[d][Pref] = 0
    BY DEF Init
  <2>2. NoTomb(Nothing)
    BY DEF NoTomb, Nothing, NoRec
  <2>3. ASSUME NEW d \in Devices PROVE PrefOk(records, local[d][Pref], outbox[d][Pref], op[d])
    BY <1>1, <2>1, <2>2 DEF PrefOk, NoOp
  <2> QED BY <2>2, <2>3 DEF Init, PrefInv
<1>4. ASSUME NEW i \in Ids PROVE IdInv(i)
  <2>1. PICK K \in Kinds : K = {}
    BY DEF Kinds
  <2>2. /\ records[i] = NoRec /\ late[i] = NoRec /\ ~latest[i].dead
        /\ latest[i].at = IF i = Pref THEN 1 ELSE 0
    BY DEF Init, Nothing, NoRec
  <2>3. ASSUME NEW d \in Devices
        PROVE /\ local[d][i] = (IF i = Pref THEN 1 ELSE 0) /\ outbox[d][i] = 0 /\ op[d] = NoOp
    BY DEF Init
  <2>4. IdOk(K, latest[i], records[i], late[i])
    BY <2>1, <2>2 DEF IdOk, Fits, NoRec
  <2>5. ASSUME NEW d \in Devices
        PROVE  DeviceOk(K, i, latest[i], records[i], local[d][i], outbox[d][i], pending[d], again[d], op[d])
    <3>1. HoldOk(K, i, latest[i], records[i], local[d][i], outbox[d][i], pending[d])
      BY <2>1, <2>2, <2>3 DEF HoldOk, Sent, NoRec
    <3>2. PostOk(K, i, latest[i], records[i], local[d][i], outbox[d][i], again[d], op[d])
      BY <2>1, <2>2, <2>3 DEF PostOk, NoOp, Nothing, NoRec, Fits
    <3>3. PullOk(i, records[i], local[d][i], outbox[d][i], op[d])
      BY <2>3 DEF PullOk, NoOp
    <3> QED BY <3>1, <3>2, <3>3 DEF DeviceOk
  <2>6. IdInv(i)
    BY <2>4, <2>5 DEF IdInv, IdBody
  <2> QED BY <2>6
<1> QED BY <1>2, <1>3, <1>4 DEF SafeInv

\* What somebody acted on during a pull stays so marked.
LEMMA RacedGrows == ASSUME [Next]_vars PROVE raced \subseteq raced'
<1>1. ASSUME NEW d \in Devices, Step(d) PROVE raced' = raced
  BY <1>1 DEF Step, ServePost, ServeGet, BootInfo, BootPushed, BootRefill, BootApply, BootDone, PushDone
<1>2. ASSUME NEW d \in Devices, NEW i \in Ids, Edit(d, i) \/ Delete(d, i) PROVE raced \subseteq raced'
  BY <1>2 DEF Edit, Delete, Act
<1>3. ASSUME NEW d \in Devices,
             \/ Bootstrap(d) \/ RetryFires(d) \/ RequestFails(d) \/ GoOffline(d) \/ GoOnline(d)
             \/ Stale(d) \/ Restart(d)
      PROVE  raced' = raced
  BY <1>3 DEF Bootstrap, RetryFires, RequestFails, GoOffline, GoOnline, Stale, Restart
<1>4. CASE ServeLate \/ UNCHANGED vars
  BY <1>4 DEF ServeLate, vars
<1> QED BY <1>1, <1>2, <1>3, <1>4 DEF Next

\* The invariant of the desktops, step by step.
LEMMA SafeStep ==
  ASSUME Typed, Typed', SafeInv, [Next]_vars
  PROVE  SafeInv'
<1>1. Control' /\ PrefInv'
  BY ControlStep, PrefStep DEF SafeInv
<1>2. ASSUME NEW i \in Ids, i \notin raced' PROVE IdInv(i)'
  BY <1>2, NextId, RacedGrows DEF SafeInv
<1> QED BY <1>1, <1>2 DEF SafeInv

\* The types and the invariant together hold of every behaviour.
LEMMA SafeAlways == Spec => [](Typed /\ SafeInv)
<1>1. Init => Typed /\ SafeInv
  BY InitTyped, InitSafe
<1>2. Typed /\ SafeInv /\ [Next]_vars => (Typed /\ SafeInv)'
  BY NextTyped, SafeStep
<1> QED BY <1>1, <1>2, PTL DEF Spec

\* No edit is lost: with any number of desktops, each pushing before it pulls,
\* and whatever fails, restarts or arrives late, the latest edit of a record
\* that nobody acted on during a pull is on the server or still on a desktop.
THEOREM EditsKept == ASSUME Devices # {} PROVE Spec => []NoEditLost
<1>1. Init => NoEditLost
  <2> SUFFICES ASSUME Init, NEW i \in Ids
               PROVE  records[i] = latest[i] \/ \E d \in Devices : local[d][i] = latest[i].at
    BY DEF NoEditLost, EditHeld
  <2>1. CASE i # Pref
    BY <2>1 DEF Init, Nothing
  <2>2. CASE i = Pref
    BY <2>2 DEF Init
  <2> QED BY <2>1, <2>2
<1>2. Typed /\ Typed' /\ SafeInv /\ NoEditLost /\ [Next]_vars => NoEditLost'
  <2> SUFFICES ASSUME Typed, Typed', SafeInv, NoEditLost, [Next]_vars, NEW i \in Ids, i \notin raced'
               PROVE  \/ latest'[i].dead \/ records'[i] = latest'[i]
                      \/ \E d \in Devices : local'[d][i] = latest'[i].at
    BY DEF NoEditLost, EditHeld
  <2>1. i \notin raced
    BY RacedGrows
  <2>2. CASE LatestStays(i)
    BY <2>1, <2>2 DEF LatestStays, NoEditLost, EditHeld
  <2> QED BY <2>1, <2>2, LatestStep DEF SafeInv
<1>3. Spec => [](Typed /\ SafeInv)
  BY SafeAlways
<1> QED BY <1>1, <1>2, <1>3, PTL DEF Spec

\* Deletions reach the server: a tombstone of a record that nobody acted on
\* during a pull leaves the outbox of a desktop only when the server has it or
\* a newer record, also when the push that carried it is not the one that
\* ends, or when a bootstrap clears the outbox.
THEOREM TombstonesKept == Spec => TombstoneKept
<1>1. Typed /\ Typed' /\ SafeInv /\ [Next]_vars
      => \A d \in Devices, i \in Ids \ raced :
            outbox[d][i] # 0 /\ outbox'[d][i] = 0 => records[i].at >= outbox[d][i]
  <2> SUFFICES ASSUME Typed, Typed', SafeInv, [Next]_vars, NEW d \in Devices, NEW i \in Ids \ raced,
                      outbox[d][i] # 0, outbox'[d][i] = 0
               PROVE  outbox[d][i] <= records[i].at
    <3>1. Typed => \A d \in Devices, i \in Ids : outbox[d][i] \in Nat /\ records[i].at \in Nat
      BY IdTyped DEF AnyRec
    <3> QED BY <3>1
  <2>1. PICK K \in Kinds : IdBody(K, i)
    BY DEF SafeInv, IdInv
  <2>2. ASSUME NEW e \in Devices, BootDone(e) \/ PushDone(e) PROVE outbox[d][i] <= records[i].at
    <3>1. e = d
      <4>1. Frame(e)
        BY <2>2, FrameHolds
      <4> QED BY <4>1 DEF Frame
    <3> QED BY <2>1, <2>2, <3>1, BootDoneId, PushDoneId
  <2>3. ASSUME NEW e \in Devices, NEW j \in Ids, Delete(e, j) PROVE FALSE
    BY <2>3 DEF Delete, DeletedAt, Typed, Stamps
  <2>4. ASSUME NEW e \in Devices,
               \/ ServePost(e) \/ ServeGet(e) \/ BootInfo(e) \/ BootPushed(e) \/ BootRefill(e) \/ BootApply(e)
               \/ Bootstrap(e) \/ RetryFires(e) \/ RequestFails(e) \/ GoOffline(e) \/ GoOnline(e)
               \/ Stale(e) \/ Restart(e) \/ \E j \in Ids : Edit(e, j)
        PROVE  FALSE
    BY <2>4 DEF ServePost, ServeGet, BootInfo, BootPushed, BootRefill, BootApply, Bootstrap, RetryFires,
                RequestFails, GoOffline, GoOnline, Stale, Restart, Edit, store
  <2>5. CASE ServeLate \/ UNCHANGED vars
    BY <2>5 DEF ServeLate, vars, store
  <2> QED BY <2>2, <2>3, <2>4, <2>5 DEF Next, Step
<1>2. Spec => [](Typed /\ SafeInv)
  BY SafeAlways
<1> QED BY <1>1, <1>2, PTL DEF Spec, TombstoneKept

-----------------------------------------------------------------------------
(* The stored revision.                                                    *)

\* The device has what the server has of an id, or something newer.
InStep(l, o, r) == l = Live(r) \/ l > r.at \/ (l = 0 /\ o > r.at)

\* One device and one id: v is the stored revision, R the server's, and u says
\* that v came from a push that wrote nothing.
RevOk(i, r, l, o, q, v, R, u) ==
  /\ l = 0 \/ o <= l
  /\ v = R /\ ~u => InStep(l, o, r)
  /\ q.kind = "push" => q.snap[i] = SnapAt(l, o) \/ l > q.snap[i].at
                        \/ (l = 0 /\ o > q.snap[i].at)
  /\ q.pc = "posted" /\ q.wrote /\ ~u /\ v # None /\ q.ans <= v + 1 /\ q.ans = R => InStep(l, o, r)
  /\ q.pc = "got" /\ q.ans = R => q.snap[i] = r
  /\ q.pc = "applied" /\ q.ans = R => l = Live(r)

\* What a device with a stored revision knows of the account as a whole.
AccountOk(q, v) ==
  /\ v # None => Full(records)
  /\ q.pc \in {"got", "applied"} => v < q.ans
  /\ q.pc = "got" /\ Full(q.snap) => Full(records)
  /\ q.pc = "applied" => Full(records)
RevDevice(d) ==
  /\ AccountOk(op[d], rev[d])
  /\ \A i \in Ids \ raced :
       RevOk(i, records[i], local[d][i], outbox[d][i], op[d], rev[d], revision, d \in blind)
RevInv == \A d \in Devices : RevDevice(d)

\* What the proof of a step uses of one device and one id.
LEMMA RevFacts ==
  ASSUME Typed, SafeInv, RevInv, NEW d \in Devices, NEW i \in Ids \ raced
  PROVE  /\ revision \in Nat /\ clock \in Nat /\ records[i] \in AnyRec /\ late[i] \in AnyRec
         /\ local[d][i] \in Nat /\ outbox[d][i] \in Nat
         /\ op[d] \in Operations(clock, revision) /\ op[d].snap \in Snaps(clock)
         /\ op[d].snap[i] \in AnyRec /\ op[d].ans \in 0 .. revision
         /\ rev[d] \in 0 .. revision \union {None} /\ queued[d] \in Waiting
         /\ RevOk(i, records[i], local[d][i], outbox[d][i], op[d], rev[d], revision, d \in blind)
         /\ ControlOk(op[d], queued[d])
         /\ op[d].kind = "boot" /\ op[d].pc \in {"post", "posted"}
              => op[d].snap[i] = SnapAt(local[d][i], outbox[d][i])
         /\ op[d].pc = "posted" => op[d].snap[i].at <= records[i].at
         /\ op[d].pc \in {"get", "got", "same", "applied"} => outbox[d][i] <= records[i].at
         /\ op[d].pc = "got" => outbox[d][i] <= op[d].snap[i].at /\ op[d].snap[i].at <= records[i].at
<1>1. PICK K \in Kinds : IdBody(K, i)
  BY DEF SafeInv, IdInv
<1>2. /\ PostOk(K, i, latest[i], records[i], local[d][i], outbox[d][i], again[d], op[d])
      /\ PullOk(i, records[i], local[d][i], outbox[d][i], op[d])
  BY <1>1, DeviceFacts
<1>3. /\ revision \in Nat /\ clock \in Nat /\ records[i] \in AnyRec /\ late[i] \in AnyRec
      /\ local[d][i] \in Nat /\ outbox[d][i] \in Nat
      /\ op[d] \in Operations(clock, revision) /\ op[d].snap \in Snaps(clock)
      /\ op[d].snap[i] \in AnyRec /\ queued[d] \in Waiting
  BY IdTyped
<1>4. op[d].ans \in 0 .. revision /\ rev[d] \in 0 .. revision \union {None}
  BY <1>3 DEF Operations, Typed
<1>5. RevOk(i, records[i], local[d][i], outbox[d][i], op[d], rev[d], revision, d \in blind)
  BY DEF RevInv, RevDevice
<1>6. ControlOk(op[d], queued[d])
  BY DEF SafeInv, Control
<1>7. /\ op[d].kind = "boot" /\ op[d].pc \in {"post", "posted"}
              => op[d].snap[i] = SnapAt(local[d][i], outbox[d][i])
      /\ op[d].pc = "posted" => op[d].snap[i].at <= records[i].at
  BY <1>2 DEF PostOk
<1>8. /\ op[d].pc \in {"get", "got", "same", "applied"} => outbox[d][i] <= records[i].at
      /\ op[d].pc = "got" => outbox[d][i] <= op[d].snap[i].at /\ op[d].snap[i].at <= records[i].at
  BY <1>2 DEF PullOk
<1> QED BY <1>3, <1>4, <1>5, <1>6, <1>7, <1>8

\* And of the device, whatever the id.
LEMMA RevStored ==
  ASSUME Typed, SafeInv, RevInv, NEW d \in Devices
  PROVE  /\ AccountOk(op[d], rev[d]) /\ ControlOk(op[d], queued[d])
         /\ revision \in Nat /\ op[d] \in Operations(clock, revision) /\ op[d].ans \in 0 .. revision
         /\ rev[d] \in 0 .. revision \union {None} /\ op[d].snap \in Snaps(clock)
  BY DEF RevInv, RevDevice, SafeInv, Control, Typed, Operations

\* An operation whose answer has not come, or needs none.
LEMMA RevQuiet ==
  ASSUME NEW i \in Ids, NEW r, NEW l, NEW o, NEW v, NEW R, NEW u, NEW q,
         l = 0 \/ o <= l, v = R /\ ~u => InStep(l, o, r),
         q.pc \notin {"posted", "got", "applied"},
         q.kind = "push" => q.snap[i] = SnapAt(l, o) \/ l > q.snap[i].at \/ (l = 0 /\ o > q.snap[i].at)
  PROVE  RevOk(i, r, l, o, q, v, R, u)
  BY DEF RevOk

\* An operation that starts.
LEMMA StartedRev ==
  ASSUME NEW k \in Waiting, NEW loc, NEW out, NEW f, NEW i \in Ids, NEW r, NEW v, NEW R, NEW u,
         loc[i] = 0 \/ out[i] <= loc[i], v = R /\ ~u => InStep(loc[i], out[i], r)
  PROVE  RevOk(i, r, loc[i], out[i], Started(k, loc, out, f), v, R, u)
<1>1. PICK q : q = Started(k, loc, out, f)
  OBVIOUS
<1>2. /\ q.kind = k
      /\ k = "push" => q.pc = "post" /\ q.snap = Snapshot(loc, out)
  BY <1>1, StartedFields
<1>3. q.pc \notin {"posted", "got", "applied"}
  BY <1>1, <1>2, StartedFields DEF Waiting
<1>4. Snapshot(loc, out)[i] = SnapAt(loc[i], out[i])
  BY SnapshotAt
<1>5. q.kind = "push" => q.snap[i] = SnapAt(loc[i], out[i])
  BY <1>2, <1>4
<1>6. RevOk(i, r, loc[i], out[i], q, v, R, u)
  BY <1>3, <1>5, RevQuiet
<1> QED BY <1>1, <1>6

\* An operation that starts has fetched nothing.
LEMMA StartedStored ==
  ASSUME NEW k \in Waiting, NEW loc, NEW out, NEW f, NEW v, v # None => Full(records)
  PROVE  AccountOk(Started(k, loc, out, f), v)
<1>1. PICK q : q = Started(k, loc, out, f)
  OBVIOUS
<1>2. q.pc \in {"post", "info", "idle"}
  BY <1>1, StartedFields DEF Waiting
<1> QED BY <1>1, <1>2 DEF AccountOk

\* A step of one device that leaves the server alone.
LEMMA OneRev ==
  ASSUME RevInv, NEW d \in Devices, Frame(d), records' = records, revision' = revision,
         raced \subseteq raced', AccountOk(op'[d], rev'[d]),
         \A i \in Ids \ raced' :
            RevOk(i, records[i], local'[d][i], outbox'[d][i], op'[d], rev'[d], revision, d \in blind')
  PROVE  RevInv'
<1> SUFFICES ASSUME NEW e \in Devices PROVE RevDevice(e)'
  BY DEF RevInv
<1>1. CASE e = d
  BY <1>1 DEF RevDevice, AccountOk, Full
<1>2. CASE e # d
  <2>1. /\ local'[e] = local[e] /\ outbox'[e] = outbox[e] /\ op'[e] = op[e] /\ rev'[e] = rev[e]
        /\ e \in blind' <=> e \in blind
    BY <1>2 DEF Frame
  <2>2. AccountOk(op[e], rev[e])'
    BY <2>1 DEF RevInv, RevDevice, AccountOk, Full
  <2>3. ASSUME NEW i \in Ids \ raced'
        PROVE  RevOk(i, records[i], local[e][i], outbox[e][i], op[e], rev[e], revision, e \in blind')
    <3>1. RevOk(i, records[i], local[e][i], outbox[e][i], op[e], rev[e], revision, e \in blind)
      BY DEF RevInv, RevDevice
    <3> QED BY <2>1, <3>1 DEF RevOk
  <2> QED BY <2>1, <2>2, <2>3 DEF RevDevice
<1> QED BY <1>1, <1>2

\* A push: nothing is written and nothing changes, or the revision moves and
\* what was learnt of an older one says nothing.
LEMMA RevServed ==
  ASSUME Typed, NEW snap \in Snaps(clock), ApplyPush(snap)
  PROVE  /\ Full(records) => Full(records')
         /\ \/ Written(snap) = {} /\ revision' = revision /\ \A i \in Ids : records'[i] = records[i]
            \/ Written(snap) # {} /\ revision' = revision + 1
<1>1. records[Pref].at <= records'[Pref].at /\ records[Pref].at \in Nat /\ records'[Pref].at \in Nat
  <2>1. records[Pref].at <= records'[Pref].at /\ (records'[Pref] = records[Pref] \/ records'[Pref] = snap[Pref])
    BY WrittenAt DEF Typed
  <2>2. records[Pref].at \in Nat /\ snap[Pref].at \in Nat
    BY DEF Typed, Snaps, Recs
  <2> QED BY <2>1, <2>2
<1>2. Full(records) => Full(records')
  BY <1>1 DEF Full
<1> QED BY <1>2 DEF ApplyPush

LEMMA RevMoves ==
  ASSUME Typed, SafeInv, RevInv, NEW snap \in Snaps(clock), ApplyPush(snap),
         NEW d \in Devices
  PROVE  /\ rev[d] # None => Full(records')
         /\ op[d].pc = "got" /\ Full(op[d].snap) => Full(records')
         /\ op[d].pc = "applied" => Full(records')
         /\ \A i \in Ids \ raced :
              RevOk(i, records'[i], local[d][i], outbox[d][i], op[d], rev[d], revision', d \in blind)
<1>1. /\ Full(records) => Full(records')
      /\ \/ Written(snap) = {} /\ revision' = revision /\ \A i \in Ids : records'[i] = records[i]
         \/ Written(snap) # {} /\ revision' = revision + 1
  BY RevServed
<1>2. AccountOk(op[d], rev[d])
  BY RevStored
<1>3. ASSUME NEW i \in Ids \ raced
      PROVE  RevOk(i, records'[i], local[d][i], outbox[d][i], op[d], rev[d], revision', d \in blind)
  <2>1. /\ revision \in Nat /\ op[d].ans \in 0 .. revision /\ rev[d] \in 0 .. revision \union {None}
        /\ RevOk(i, records[i], local[d][i], outbox[d][i], op[d], rev[d], revision, d \in blind)
    BY RevFacts
  <2>2. CASE Written(snap) = {} /\ revision' = revision /\ records'[i] = records[i]
    BY <2>1, <2>2
  <2>3. CASE revision' = revision + 1
    <3>1. op[d].ans # revision' /\ rev[d] # revision'
      BY <2>1, <2>3 DEF None
    <3> QED BY <2>1, <3>1 DEF RevOk
  <2> QED BY <1>1, <2>2, <2>3
<1> QED BY <1>1, <1>2, <1>3 DEF AccountOk

\* A push that is written brings the server in step with its sender, if the
\* sender had the revision before it.
LEMMA PostRev ==
  ASSUME NEW l \in Nat, NEW o \in Nat, NEW r \in AnyRec, NEW r2 \in AnyRec, NEW s \in AnyRec,
         l = 0 \/ o <= l, InStep(l, o, r), r2 = r \/ r2 = s,
         s = SnapAt(l, o) \/ l > s.at \/ (l = 0 /\ o > s.at)
  PROVE  InStep(l, o, r2)
<1>1. CASE r2 = r
  BY <1>1
<1>2. CASE r2 = s /\ s = SnapAt(l, o)
  BY <1>2 DEF InStep, SnapAt, Live
<1>3. CASE r2 = s /\ s # SnapAt(l, o)
  BY <1>3 DEF InStep
<1> QED BY <1>1, <1>2, <1>3

\* A POST is processed.
LEMMA ServePostRev ==
  ASSUME Typed, SafeInv, RevInv, NEW d \in Devices, ServePost(d)
  PROVE  RevInv'
<1>1. PICK snap \in Snaps(clock) : snap = op[d].snap
  BY RevStored
<1>2. /\ op[d].pc = "post" /\ ApplyPush(snap) /\ raced' = raced /\ blind' = blind
      /\ local' = local /\ outbox' = outbox /\ rev' = rev
  BY <1>1 DEF ServePost, store
<1>3. \/ Written(snap) = {} /\ revision' = revision /\ \A i \in Ids : records'[i] = records[i]
      \/ Written(snap) # {} /\ revision' = revision + 1
  BY <1>2, RevServed
<1>4. /\ op'[d] = [op[d] EXCEPT !.pc = "posted", !.wrote = Written(snap) # {}, !.ans = revision']
      /\ \A e \in Devices \ {d} : op'[e] = op[e]
  BY <1>1 DEF ServePost, Typed
<1>5. /\ op'[d].pc = "posted" /\ op'[d].ans = revision' /\ op'[d].snap = snap /\ op'[d].kind = op[d].kind
      /\ op'[d].wrote <=> Written(snap) # {}
  <2>1. op[d] \in Operations(clock, revision)
    BY RevStored
  <2> QED BY <1>1, <1>4, <2>1 DEF Operations
<1>6. ASSUME NEW e \in Devices
      PROVE  /\ rev[e] # None => Full(records')
             /\ op[e].pc = "got" /\ Full(op[e].snap) => Full(records')
             /\ op[e].pc = "applied" => Full(records')
             /\ \A i \in Ids \ raced :
                  RevOk(i, records'[i], local[e][i], outbox[e][i], op[e], rev[e], revision', e \in blind)
  BY <1>2, RevMoves
<1>7. ASSUME NEW e \in Devices, e # d PROVE RevDevice(e)'
  <2>1. AccountOk(op[e], rev[e]) /\ op'[e] = op[e]
    BY <1>4, <1>7, RevStored
  <2> QED BY <1>2, <1>6, <2>1 DEF RevDevice, AccountOk
<1>8. RevDevice(d)'
  <2>1. ASSUME NEW i \in Ids \ raced
        PROVE  RevOk(i, records'[i], local[d][i], outbox[d][i], op'[d], rev[d], revision', d \in blind)
    <3>1. /\ revision \in Nat /\ records[i] \in AnyRec /\ local[d][i] \in Nat /\ outbox[d][i] \in Nat
          /\ snap[i] \in AnyRec /\ rev[d] \in 0 .. revision \union {None}
          /\ RevOk(i, records[i], local[d][i], outbox[d][i], op[d], rev[d], revision, d \in blind)
          /\ ControlOk(op[d], queued[d])
          /\ op[d].kind = "boot" => snap[i] = SnapAt(local[d][i], outbox[d][i])
      BY <1>1, <1>2, RevFacts
    <3>2. local[d][i] = 0 \/ outbox[d][i] <= local[d][i]
      BY <3>1 DEF RevOk
    <3>3. op[d].kind \in {"boot", "push"}
      BY <1>1, <1>2, <3>1, RevFacts DEF ControlOk, NoOp, Operations
    <3>4. \/ snap[i] = SnapAt(local[d][i], outbox[d][i]) \/ local[d][i] > snap[i].at
          \/ (local[d][i] = 0 /\ outbox[d][i] > snap[i].at)
      BY <1>1, <3>1, <3>3 DEF RevOk
    <3>5. rev[d] = revision /\ d \notin blind => InStep(local[d][i], outbox[d][i], records[i])
      BY <3>1 DEF RevOk
    <3>6. CASE Written(snap) = {} /\ revision' = revision /\ records'[i] = records[i]
      BY <1>5, <3>2, <3>4, <3>5, <3>6 DEF RevOk
    <3>7. CASE revision' = revision + 1
      <4>1. records'[i] = records[i] \/ records'[i] = snap[i]
        BY <1>2 DEF ApplyPush
      <4>2. rev[d] # revision' /\ (rev[d] # None /\ revision' <= rev[d] + 1 => rev[d] = revision)
        BY <3>1, <3>7 DEF None
      <4>3. InStep(local[d][i], outbox[d][i], records[i]) => InStep(local[d][i], outbox[d][i], records'[i])
        BY <3>1, <3>2, <3>4, <4>1, PostRev
      <4> QED BY <1>5, <3>2, <3>4, <3>5, <4>2, <4>3 DEF RevOk
    <3> QED BY <1>3, <3>6, <3>7
  <2> QED BY <1>2, <1>5, <1>6, <2>1 DEF RevDevice, AccountOk
<1> QED BY <1>7, <1>8 DEF RevInv

\* A POST is processed late.
LEMMA ServeLateRev == ASSUME Typed, SafeInv, RevInv, ServeLate PROVE RevInv'
<1>1. late \in Snaps(clock) /\ ApplyPush(late)
  BY DEF ServeLate, Typed
<1>2. /\ local' = local /\ outbox' = outbox /\ op' = op /\ rev' = rev /\ raced' = raced /\ blind' = blind
  BY DEF ServeLate, store, tasks
<1>3. ASSUME NEW e \in Devices PROVE RevDevice(e)'
  <2>1. AccountOk(op[e], rev[e])
    BY RevStored
  <2>2. /\ rev[e] # None => Full(records')
        /\ op[e].pc = "got" /\ Full(op[e].snap) => Full(records')
        /\ op[e].pc = "applied" => Full(records')
        /\ \A i \in Ids \ raced :
             RevOk(i, records'[i], local[e][i], outbox[e][i], op[e], rev[e], revision', e \in blind)
    BY <1>1, RevMoves
  <2> QED BY <1>2, <2>1, <2>2 DEF RevDevice, AccountOk
<1> QED BY <1>3 DEF RevInv

\* A snapshot is fetched.
LEMMA ServeGetRev ==
  ASSUME Typed, SafeInv, RevInv, NEW d \in Devices, ServeGet(d)
  PROVE  RevInv'
<1>1. /\ Frame(d) /\ records' = records /\ revision' = revision /\ local' = local
      /\ outbox' = outbox /\ rev' = rev /\ raced' = raced /\ blind' = blind /\ op[d].pc = "get"
  BY FrameHolds DEF ServeGet, server, store
<1>2. /\ AccountOk(op[d], rev[d]) /\ op[d] \in Operations(clock, revision) /\ op[d].kind # "push"
      /\ revision \in Nat /\ rev[d] \in 0 .. revision \union {None}
  BY <1>1, RevStored DEF ControlOk
<1>3. ASSUME NEW i \in Ids \ raced
      PROVE  RevOk(i, records[i], local[d][i], outbox[d][i], op[d], rev[d], revision, d \in blind)
  BY RevFacts
<1>4. CASE rev[d] = revision
  <2>1. op'[d] = [op[d] EXCEPT !.pc = "same"]
    BY <1>4 DEF ServeGet, Typed
  <2>2. op'[d].pc = "same" /\ op'[d].snap = op[d].snap /\ op'[d].kind = op[d].kind
    BY <1>2, <2>1 DEF Operations
  <2>3. ASSUME NEW i \in Ids \ raced
        PROVE  RevOk(i, records[i], local[d][i], outbox[d][i], op'[d], rev[d], revision, d \in blind)
    BY <1>2, <1>3, <2>2 DEF RevOk
  <2>4. AccountOk(op'[d], rev[d])
    BY <1>2, <2>2 DEF AccountOk
  <2> QED BY <1>1, <2>3, <2>4, OneRev
<1>5. CASE rev[d] # revision
  <2>1. op'[d] = [op[d] EXCEPT !.pc = "got", !.snap = records, !.ans = revision]
    BY <1>5 DEF ServeGet, Typed
  <2>2. op'[d].pc = "got" /\ op'[d].snap = records /\ op'[d].ans = revision /\ op'[d].kind = op[d].kind
    BY <1>2, <2>1 DEF Operations
  <2>3. rev[d] < revision
    BY <1>2, <1>5 DEF None
  <2>4. ASSUME NEW i \in Ids \ raced
        PROVE  RevOk(i, records[i], local[d][i], outbox[d][i], op'[d], rev[d], revision, d \in blind)
    BY <1>2, <1>3, <2>2 DEF RevOk
  <2>5. AccountOk(op'[d], rev[d])
    BY <1>2, <2>2, <2>3 DEF AccountOk
  <2> QED BY <1>1, <2>4, <2>5, OneRev
<1> QED BY <1>4, <1>5

\* What is sent before a pull, and when the account is empty.
LEMMA BootInfoRev ==
  ASSUME Typed, SafeInv, RevInv, NEW d \in Devices, BootInfo(d) \/ BootRefill(d)
  PROVE  RevInv'
<1>1. /\ Frame(d) /\ records' = records /\ revision' = revision /\ local' = local
      /\ outbox' = outbox /\ rev' = rev /\ raced' = raced /\ blind' = blind
      /\ op[d].pc \in {"info", "got"}
  BY FrameHolds DEF BootInfo, BootRefill, server, store
<1>2. /\ AccountOk(op[d], rev[d]) /\ op[d] \in Operations(clock, revision) /\ op[d].kind # "push"
  BY <1>1, RevStored DEF ControlOk
<1>3. PICK s : s = Snapshot(local[d], outbox[d])
  OBVIOUS
<1>4. \/ op'[d] = [op[d] EXCEPT !.pc = "post", !.snap = s]
      \/ op'[d] = [op[d] EXCEPT !.pc = "get"]
      \/ op'[d] = [op[d] EXCEPT !.pc = "post", !.refill = TRUE, !.snap = s]
  <2>1. CASE BootInfo(d)
    BY <1>3, <2>1 DEF BootInfo, Typed
  <2>2. CASE BootRefill(d)
    BY <1>3, <2>2 DEF BootRefill, Typed
  <2> QED BY <2>1, <2>2
<1>5. op'[d].pc \in {"post", "get"} /\ op'[d].kind = op[d].kind
  BY <1>2, <1>4 DEF Operations
<1>6. ASSUME NEW i \in Ids \ raced
      PROVE  RevOk(i, records[i], local[d][i], outbox[d][i], op'[d], rev[d], revision, d \in blind)
  <2>1. RevOk(i, records[i], local[d][i], outbox[d][i], op[d], rev[d], revision, d \in blind)
    BY RevFacts
  <2> QED BY <1>2, <1>5, <2>1 DEF RevOk
<1>7. AccountOk(op'[d], rev[d])
  BY <1>2, <1>5 DEF AccountOk
<1> QED BY <1>1, <1>6, <1>7, OneRev

\* The answer's revision is stored: it is the server's only in step with it.
LEMMA StoreRev ==
  ASSUME Typed, SafeInv, RevInv, NEW d \in Devices, StoreRevision(d), op[d].pc = "posted"
  PROVE  /\ rev'[d] # None => rev[d] # None
         /\ \A i \in Ids \ raced :
              rev'[d] = revision /\ d \notin blind' => InStep(local[d][i], outbox[d][i], records[i])
<1>1. rev'[d] = IF rev[d] # None /\ op[d].ans <= rev[d] + 1 THEN op[d].ans ELSE rev[d]
  BY DEF StoreRevision, Typed
<1>2. ASSUME d \notin blind'
      PROVE  /\ d \notin blind
             /\ rev[d] # None /\ op[d].ans <= rev[d] + 1 => op[d].ans = rev[d] \/ op[d].wrote
  BY <1>2 DEF StoreRevision, Blinded
<1>3. ASSUME NEW i \in Ids \ raced, rev'[d] = revision, d \notin blind'
      PROVE  InStep(local[d][i], outbox[d][i], records[i])
  <2>1. RevOk(i, records[i], local[d][i], outbox[d][i], op[d], rev[d], revision, d \in blind)
    BY RevFacts
  <2>2. CASE rev[d] = revision
    BY <1>2, <1>3, <2>1, <2>2 DEF RevOk
  <2>3. CASE rev[d] # revision
    <3>1. rev[d] # None /\ op[d].ans <= rev[d] + 1 /\ op[d].ans = revision
      BY <1>1, <1>3, <2>3
    <3>2. op[d].wrote
      BY <1>2, <1>3, <2>3, <3>1
    <3> QED BY <1>2, <1>3, <2>1, <3>1, <3>2 DEF RevOk
  <2> QED BY <2>2, <2>3
<1> QED BY <1>1, <1>3

\* The push of a bootstrap is over.
LEMMA BootPushedRev ==
  ASSUME Typed, SafeInv, RevInv, NEW d \in Devices, BootPushed(d)
  PROVE  RevInv'
<1>1. /\ Frame(d) /\ records' = records /\ revision' = revision /\ local' = local /\ raced' = raced
      /\ outbox' = outbox /\ op[d].pc = "posted" /\ op[d].kind = "boot" /\ StoreRevision(d)
  BY FrameHolds DEF BootPushed, server, store
<1>2. AccountOk(op[d], rev[d]) /\ op[d] \in Operations(clock, revision)
  BY RevStored
<1>3. op'[d] = [op[d] EXCEPT !.pc = "get", !.snap = Nothing, !.wrote = FALSE, !.ans = 0]
  BY DEF BootPushed, Typed
<1>4. op'[d].pc = "get" /\ op'[d].kind = "boot"
  BY <1>1, <1>2, <1>3 DEF Operations
<1>5. ASSUME NEW i \in Ids \ raced
      PROVE  RevOk(i, records[i], local[d][i], outbox[d][i], op'[d], rev'[d], revision, d \in blind')
  <2>1. RevOk(i, records[i], local[d][i], outbox[d][i], op[d], rev[d], revision, d \in blind)
    BY RevFacts
  <2>2. rev'[d] = revision /\ d \notin blind' => InStep(local[d][i], outbox[d][i], records[i])
    BY <1>1, StoreRev
  <2> QED BY <1>4, <2>1, <2>2 DEF RevOk
<1>6. AccountOk(op'[d], rev'[d])
  <2>1. rev'[d] # None => rev[d] # None
    BY <1>1, StoreRev
  <2> QED BY <1>2, <1>4, <2>1 DEF AccountOk
<1> QED BY <1>1, <1>5, <1>6, OneRev

\* The next operation starts, with whatever revision is stored.
LEMMA RunNextRev ==
  ASSUME Typed, SafeInv, RevInv, NEW d \in Devices, NEW k \in Waiting, NEW f, Frame(d),
         records' = records, revision' = revision, local' = local, raced' = raced,
         op'[d] = Started(k, local'[d], outbox'[d], f), rev'[d] # None => Full(records),
         \A i \in Ids \ raced :
            /\ outbox'[d][i] = 0 \/ outbox'[d][i] = outbox[d][i]
            /\ rev'[d] = revision /\ d \notin blind' => InStep(local[d][i], outbox'[d][i], records[i])
  PROVE  RevInv'
<1>1. AccountOk(op'[d], rev'[d])
  BY StartedStored
<1>2. ASSUME NEW i \in Ids \ raced
      PROVE  RevOk(i, records[i], local'[d][i], outbox'[d][i], op'[d], rev'[d], revision, d \in blind')
  <2>1. /\ local[d][i] \in Nat
        /\ RevOk(i, records[i], local[d][i], outbox[d][i], op[d], rev[d], revision, d \in blind)
    BY RevFacts
  <2>2. local'[d][i] = 0 \/ outbox'[d][i] <= local'[d][i]
    BY <2>1 DEF RevOk
  <2>3. rev'[d] = revision /\ ~(d \in blind') => InStep(local'[d][i], outbox'[d][i], records[i])
    OBVIOUS
  <2>4. RevOk(i, records[i], local'[d][i], outbox'[d][i], Started(k, local'[d], outbox'[d], f),
              rev'[d], revision, d \in blind')
    BY <2>2, <2>3, StartedRev
  <2> QED BY <2>4
<1> QED BY <1>1, <1>2, OneRev

\* A push is over: the tombstones it carried are on the server.
LEMMA PushDoneRev ==
  ASSUME Typed, SafeInv, RevInv, NEW d \in Devices, PushDone(d)
  PROVE  RevInv'
<1>1. /\ Frame(d) /\ records' = records /\ revision' = revision /\ local' = local /\ raced' = raced
      /\ op[d].pc = "posted" /\ StoreRevision(d)
  BY FrameHolds DEF PushDone, server
<1>2. rev'[d] # None => Full(records)
  BY <1>1, StoreRev, RevStored DEF AccountOk
<1>3. ASSUME NEW i \in Ids \ raced
      PROVE  /\ outbox'[d][i] = 0 \/ outbox'[d][i] = outbox[d][i]
             /\ rev'[d] = revision /\ d \notin blind' => InStep(local[d][i], outbox'[d][i], records[i])
  <2>1. outbox'[d][i] = IF op[d].snap[i].dead /\ op[d].snap[i].at = outbox[d][i] THEN 0 ELSE outbox[d][i]
    BY DEF PushDone, Unsent, Typed
  <2>2. /\ records[i] \in AnyRec /\ outbox[d][i] \in Nat /\ local[d][i] \in Nat
        /\ op[d].snap[i].at <= records[i].at
    BY <1>1, RevFacts
  <2>3. rev'[d] = revision /\ d \notin blind' => InStep(local[d][i], outbox[d][i], records[i])
    BY <1>1, StoreRev
  <2>4. CASE outbox'[d][i] = outbox[d][i]
    BY <2>3, <2>4
  <2>5. CASE outbox'[d][i] = 0 /\ outbox[d][i] <= records[i].at
    BY <2>2, <2>3, <2>5 DEF InStep, AnyRec
  <2> QED BY <2>1, <2>2, <2>4, <2>5
<1>4. PICK k \in Waiting, f \in BOOLEAN : op'[d] = Started(k, local'[d], outbox'[d], f)
  <2>1. CASE again[d] \/ HasPending(FALSE, outbox'[d])
    <3>1. op' = [op EXCEPT ![d] = Started("push", local[d], outbox'[d], TRUE)]
      BY <2>1 DEF PushDone
    <3>2. op'[d] = Started("push", local'[d], outbox'[d], TRUE) /\ "push" \in Waiting
      BY <1>1, <3>1 DEF Typed, Waiting
    <3> QED BY <3>2
  <2>2. CASE ~(again[d] \/ HasPending(FALSE, outbox'[d]))
    <3>1. RunNext(d, FALSE)
      BY <2>2 DEF PushDone
    <3>2. op'[d] = Started(queued[d], local'[d], outbox'[d], FALSE) /\ queued[d] \in Waiting
      BY <3>1 DEF RunNext, Typed
    <3> QED BY <3>2
  <2> QED BY <2>1, <2>2
<1> QED BY <1>1, <1>2, <1>3, <1>4, RunNextRev

\* A snapshot is applied.
LEMMA BootApplyRev ==
  ASSUME Typed, Typed', SafeInv, RevInv, NEW d \in Devices, BootApply(d)
  PROVE  RevInv'
<1>1. /\ Frame(d) /\ records' = records /\ revision' = revision /\ rev' = rev /\ raced' = raced
      /\ blind' = blind
      /\ outbox' = outbox /\ op[d].pc = "got" /\ (op[d].snap # Nothing \/ op[d].refill)
  BY FrameHolds DEF BootApply, server
<1>2. /\ AccountOk(op[d], rev[d]) /\ op[d] \in Operations(clock, revision) /\ op[d].kind # "push"
      /\ op[d].ans \in 0 .. revision /\ rev[d] \in 0 .. revision \union {None} /\ revision \in Nat
  BY <1>1, RevStored DEF ControlOk
<1>3. op'[d] = [op[d] EXCEPT !.pc = "applied", !.snap = Nothing]
  BY DEF BootApply, Typed
<1>4. op'[d].pc = "applied" /\ op'[d].ans = op[d].ans /\ op'[d].kind = op[d].kind
  BY <1>2, <1>3 DEF Operations
<1>5. ASSUME NEW i \in Ids \ raced PROVE local'[d][i] = Live(op[d].snap[i])
  <2>1. PICK K \in Kinds : IdBody(K, i)
    BY DEF SafeInv, IdInv
  <2> QED BY <2>1, BootApplyId DEF SafeInv
<1>6. AccountOk(op'[d], rev'[d])
  <2>1. PrefOk(records, local[d][Pref], outbox[d][Pref], op[d])
    BY DEF SafeInv, PrefInv
  <2>2. Full(op[d].snap)
    BY <1>1, <2>1 DEF PrefOk
  <2> QED BY <1>1, <1>2, <1>4, <2>2 DEF AccountOk
<1>7. ASSUME NEW i \in Ids \ raced
      PROVE  RevOk(i, records[i], local'[d][i], outbox'[d][i], op'[d], rev'[d], revision, d \in blind)
  <2>1. /\ RevOk(i, records[i], local[d][i], outbox[d][i], op[d], rev[d], revision, d \in blind)
        /\ outbox[d][i] <= op[d].snap[i].at /\ outbox[d][i] \in Nat /\ op[d].snap[i] \in AnyRec
    BY <1>1, RevFacts
  <2>2. local'[d][i] = 0 \/ outbox'[d][i] <= local'[d][i]
    BY <1>1, <1>5, <2>1 DEF Live, AnyRec
  <2>3. rev'[d] # revision
    BY <1>1, <1>2 DEF None, AccountOk
  <2>4. op'[d].ans = revision => local'[d][i] = Live(records[i])
    BY <1>1, <1>4, <1>5, <2>1 DEF RevOk
  <2> QED BY <1>2, <1>4, <2>2, <2>3, <2>4 DEF RevOk
<1> QED BY <1>1, <1>6, <1>7, OneRev

\* A bootstrap is over.
LEMMA BootDoneRev ==
  ASSUME Typed, SafeInv, RevInv, NEW d \in Devices, BootDone(d)
  PROVE  RevInv'
<1>1. /\ Frame(d) /\ records' = records /\ revision' = revision /\ local' = local /\ raced' = raced
      /\ op[d].pc \in {"applied", "same"}
  BY FrameHolds DEF BootDone, server
<1>2. /\ rev'[d] = IF op[d].pc = "applied" THEN op[d].ans ELSE rev[d]
      /\ op[d].pc = "same" => blind' = blind
  BY DEF BootDone, Typed
<1>3. rev'[d] # None => Full(records)
  BY <1>2, RevStored DEF AccountOk
<1>4. ASSUME NEW i \in Ids \ raced
      PROVE  /\ outbox'[d][i] = 0
             /\ rev'[d] = revision /\ d \notin blind' => InStep(local[d][i], outbox'[d][i], records[i])
  <2>1. /\ RevOk(i, records[i], local[d][i], outbox[d][i], op[d], rev[d], revision, d \in blind)
        /\ outbox[d][i] <= records[i].at /\ outbox[d][i] \in Nat /\ records[i] \in AnyRec
    BY <1>1, RevFacts
  <2>2. outbox'[d][i] = 0
    BY DEF BootDone, Typed
  <2>3. CASE op[d].pc = "applied"
    BY <1>2, <2>1, <2>2, <2>3 DEF RevOk, InStep
  <2>4. CASE op[d].pc = "same"
    BY <1>2, <2>1, <2>2, <2>4 DEF RevOk, InStep, AnyRec
  <2> QED BY <1>1, <2>2, <2>3, <2>4
<1>5. PICK k \in Waiting, f \in BOOLEAN : op'[d] = Started(k, local'[d], outbox'[d], f)
  <2>1. op'[d] = Started(queued[d], local'[d], outbox'[d], FALSE) /\ queued[d] \in Waiting
    BY DEF BootDone, RunNext, Typed
  <2> QED BY <2>1
<1> QED BY <1>1, <1>3, <1>4, <1>5, RunNextRev

\* Failures, and a bootstrap that starts.
LEMMA FailureRev ==
  ASSUME Typed, SafeInv, RevInv, NEW d \in Devices,
         RequestFails(d) \/ GoOffline(d) \/ GoOnline(d) \/ Stale(d) \/ Restart(d) \/ Bootstrap(d)
  PROVE  RevInv'
<1>1. /\ Frame(d) /\ records' = records /\ revision' = revision /\ local' = local /\ outbox' = outbox
      /\ raced' = raced
  BY FrameHolds DEF RequestFails, GoOffline, GoOnline, Stale, Restart, Bootstrap, server, store
<1>2. (rev'[d] = rev[d] /\ blind' = blind) \/ rev'[d] = None
  <2>1. CASE Restart(d)
    BY <2>1 DEF Restart, Typed
  <2>2. CASE ~Restart(d)
    BY <2>2 DEF RequestFails, GoOffline, GoOnline, Stale, Bootstrap
  <2> QED BY <2>1, <2>2
<1>3. AccountOk(op[d], rev[d]) /\ revision \in Nat
  BY RevStored
<1>4. ASSUME NEW i \in Ids \ raced
      PROVE  /\ RevOk(i, records[i], local[d][i], outbox[d][i], op[d], rev[d], revision, d \in blind)
             /\ rev'[d] = revision /\ d \notin blind' => InStep(local[d][i], outbox[d][i], records[i])
  <2>1. RevOk(i, records[i], local[d][i], outbox[d][i], op[d], rev[d], revision, d \in blind)
    BY RevFacts
  <2>2. rev'[d] = revision => rev[d] = revision /\ blind' = blind
    BY <1>2, <1>3 DEF None
  <2> QED BY <2>1, <2>2 DEF RevOk
<1>5. ASSUME NEW k \in Waiting, NEW f, op'[d] = Started(k, local'[d], outbox'[d], f) PROVE RevInv'
  <2>1. rev'[d] # None => Full(records)
    BY <1>2, <1>3 DEF AccountOk
  <2> QED BY <1>1, <1>4, <1>5, <2>1, RunNextRev
<1>6. CASE RequestFails(d)
  <2>1. op'[d] = Started(queued[d], local'[d], outbox'[d], TRUE) /\ queued[d] \in Waiting
    BY <1>6 DEF RequestFails, RunNext, Typed
  <2> QED BY <1>5, <2>1
<1>7. CASE Stale(d) \/ Restart(d)
  <2>1. op'[d] = Started("none", local'[d], outbox'[d], FALSE) /\ "none" \in Waiting
    BY <1>7 DEF Stale, Restart, Drop, Typed, Started, Waiting
  <2> QED BY <1>5, <2>1
<1>8. CASE op'[d] = op[d] /\ rev'[d] = rev[d] /\ blind' = blind
  BY <1>1, <1>3, <1>4, <1>8, OneRev
<1>9. CASE GoOffline(d) \/ GoOnline(d)
  BY <1>8, <1>9 DEF GoOffline, GoOnline, tasks
<1>10. CASE Bootstrap(d)
  <2>1. CASE op[d].kind = "none"
    <3>1. op'[d] = Started("boot", local'[d], outbox'[d], pending[d]) /\ "boot" \in Waiting
      BY <1>1, <1>10, <2>1 DEF Bootstrap, Typed, Waiting
    <3> QED BY <1>5, <3>1
  <2>2. CASE op[d].kind # "none"
    BY <1>8, <1>10, <2>2 DEF Bootstrap
  <2> QED BY <2>1, <2>2
<1> QED BY <1>6, <1>7, <1>9, <1>10

\* A device holds something newer than the server of what a user edits on it.
LEMMA UserRev ==
  ASSUME Typed, SafeInv, RevInv, NEW d \in Devices, NEW j \in Ids,
         Edit(d, j) \/ Delete(d, j) \/ RetryFires(d)
  PROVE  RevInv'
<1>1. /\ Frame(d) /\ records' = records /\ revision' = revision /\ rev' = rev /\ blind' = blind
      /\ PushDirty(d) /\ raced \subseteq raced'
  BY FrameHolds DEF Edit, Delete, RetryFires, Act, server
<1>2. AccountOk(op[d], rev[d])
  BY RevStored
<1>3. \/ op'[d] = op[d]
      \/ \E k \in Waiting, f \in BOOLEAN : op'[d] = Started(k, local'[d], outbox'[d], f)
  <2>1. CASE online[d]
    <3>1. \/ op' = op \/ op' = [op EXCEPT ![d] = Started("push", local'[d], outbox'[d], TRUE)]
      BY <1>1, <2>1 DEF PushDirty, JoinOrEnqueue
    <3>2. (op'[d] = op[d] \/ op'[d] = Started("push", local'[d], outbox'[d], TRUE)) /\ "push" \in Waiting
      BY <3>1 DEF Typed, Waiting
    <3> QED BY <3>2
  <2>2. CASE ~online[d]
    <3>1. op'[d] = Started("none", local'[d], outbox'[d], TRUE) /\ "none" \in Waiting
      BY <1>1, <2>2 DEF PushDirty, Drop, Typed, Started, Waiting
    <3> QED BY <3>1
  <2> QED BY <2>1, <2>2
<1>4. ASSUME NEW i \in Ids \ raced'
      PROVE  /\ RevOk(i, records[i], local'[d][i], outbox'[d][i], op[d], rev[d], revision, d \in blind)
             /\ local'[d][i] = 0 \/ outbox'[d][i] <= local'[d][i]
             /\ rev[d] = revision /\ d \notin blind => InStep(local'[d][i], outbox'[d][i], records[i])
  <2>1. /\ RevOk(i, records[i], local[d][i], outbox[d][i], op[d], rev[d], revision, d \in blind)
        /\ ControlOk(op[d], queued[d])
    BY <1>1, RevFacts
  <2>2. CASE local'[d][i] = local[d][i] /\ outbox'[d][i] = outbox[d][i]
    BY <2>1, <2>2 DEF RevOk
  <2>3. CASE j = i /\ (Edit(d, j) \/ Delete(d, j))
    <3>1. /\ clock \in Nat /\ records[i].at <= clock /\ op[d].snap[i].at <= clock /\ outbox[d][i] <= clock
          /\ records[i] \in AnyRec /\ op[d].snap[i] \in AnyRec /\ outbox[d][i] \in Nat
      BY IdTyped
    <3>2. ~Pulling(d)
      BY <2>3 DEF Edit, Delete, Act
    <3>3. op[d].pc \notin {"got", "applied"}
      <4>1. op[d].kind \in {"none", "boot", "push"}
        BY DEF Typed, Operations
      <4> QED BY <2>1, <3>2, <4>1 DEF ControlOk, NoOp, Pulling
    <3>4. \/ local'[d][i] = clock + 1 /\ outbox'[d][i] = outbox[d][i]
          \/ local'[d][i] = 0 /\ outbox'[d][i] = clock + 1
      BY <2>3 DEF Edit, Delete, DeletedAt, Typed, Stamps
    <3>5. /\ local'[d][i] = 0 \/ outbox'[d][i] <= local'[d][i]
          /\ InStep(local'[d][i], outbox'[d][i], records[i])
          /\ local'[d][i] > op[d].snap[i].at \/ (local'[d][i] = 0 /\ outbox'[d][i] > op[d].snap[i].at)
      BY <3>1, <3>4 DEF InStep, AnyRec
    <3> QED BY <3>3, <3>5 DEF RevOk
  <2>4. \/ local'[d][i] = local[d][i] /\ outbox'[d][i] = outbox[d][i]
        \/ j = i /\ (Edit(d, j) \/ Delete(d, j))
    BY DEF Edit, Delete, RetryFires, store, Typed, Stamps
  <2> QED BY <2>2, <2>3, <2>4
<1>5. CASE op'[d] = op[d]
  BY <1>1, <1>2, <1>4, <1>5, OneRev
<1>6. ASSUME NEW k \in Waiting, NEW f, op'[d] = Started(k, local'[d], outbox'[d], f) PROVE RevInv'
  <2>1. AccountOk(op'[d], rev'[d])
    BY <1>1, <1>2, <1>6, StartedStored DEF AccountOk
  <2>2. ASSUME NEW i \in Ids \ raced'
        PROVE  RevOk(i, records[i], local'[d][i], outbox'[d][i], op'[d], rev'[d], revision, d \in blind)
    <3>1. /\ local'[d][i] = 0 \/ outbox'[d][i] <= local'[d][i]
          /\ rev[d] = revision /\ ~(d \in blind) => InStep(local'[d][i], outbox'[d][i], records[i])
      BY <1>4
    <3>2. RevOk(i, records[i], local'[d][i], outbox'[d][i], Started(k, local'[d], outbox'[d], f),
                rev[d], revision, d \in blind)
      BY <3>1, StartedRev
    <3> QED BY <1>1, <1>6, <3>2
  <2> QED BY <1>1, <2>1, <2>2, OneRev
<1> QED BY <1>3, <1>5, <1>6

\* What a stored revision says is kept by every step.
LEMMA RevStep ==
  ASSUME Typed, Typed', SafeInv, RevInv, [Next]_vars
  PROVE  RevInv'
<1>1. ASSUME NEW d \in Devices, Step(d) PROVE RevInv'
  BY <1>1, ServePostRev, ServeGetRev, BootInfoRev, BootPushedRev, BootApplyRev, BootDoneRev, PushDoneRev DEF Step
<1>2. CASE UNCHANGED vars
  BY <1>2 DEF vars, RevInv, RevDevice, AccountOk, Full
<1> QED BY <1>1, <1>2, UserRev, FailureRev, ServeLateRev DEF Next

\* A device with nothing to send that has the server's revision has its records.
LEMMA RevSettled == ASSUME Typed, SafeInv, RevInv PROVE SettledAgrees
<1> SUFFICES ASSUME NEW d \in Devices \ blind, Idle(d), rev[d] = revision, NEW i \in Ids \ raced
             PROVE  local[d][i] = Live(records[i])
  BY DEF SettledAgrees, Settled, Agrees
<1>1. outbox[d][i] = 0 /\ ~pending[d]
  BY DEF Idle, HasPending
<1>2. /\ records[i] \in AnyRec /\ local[d][i] \in Nat /\ revision \in Nat
      /\ RevOk(i, records[i], local[d][i], outbox[d][i], op[d], rev[d], revision, d \in blind)
  BY RevFacts
<1>3. InStep(local[d][i], 0, records[i])
  BY <1>1, <1>2 DEF RevOk
<1>4. PICK K \in Kinds : IdBody(K, i)
  BY DEF SafeInv, IdInv
<1>5. Sent(i, local[d][i], records[i])
  BY <1>1, <1>4, DeviceFacts DEF HoldOk
<1>6. local[d][i] <= records[i].at
  <2>1. CASE i = Pref /\ local[d][i] = 1
    <3>1. Full(records)
      BY <1>2, RevStored DEF None, AccountOk
    <3> QED BY <1>2, <2>1, <3>1 DEF Full, AnyRec
  <2> QED BY <1>5, <2>1 DEF Sent
<1> QED BY <1>2, <1>3, <1>6 DEF InStep, AnyRec

\* The first state: no revision is stored.
LEMMA InitRev == ASSUME Init PROVE RevInv
<1> SUFFICES ASSUME NEW d \in Devices PROVE RevDevice(d)
  BY DEF RevInv
<1>1. /\ op[d] = NoOp /\ rev[d] = None /\ revision = 0
      /\ \A i \in Ids : outbox[d][i] = 0 /\ (local[d][i] = 0 \/ local[d][i] = 1)
  BY DEF Init
<1>2. NoOp.pc = "idle" /\ NoOp.kind = "none"
  BY DEF NoOp
<1>3. ASSUME NEW i \in Ids
      PROVE  RevOk(i, records[i], local[d][i], outbox[d][i], op[d], rev[d], revision, d \in blind)
  BY <1>1, <1>2 DEF RevOk, None
<1>4. AccountOk(op[d], rev[d])
  BY <1>1, <1>2 DEF AccountOk
<1> QED BY <1>3, <1>4 DEF RevDevice

\* 304 hides no change: a desktop with nothing to send whose stored revision is
\* the server's has the server's live records, however pushes of other
\* desktops, late requests and failures interleave with its own.  Excepted are
\* a revision that came from a push that wrote nothing, which is another
\* desktop's, and the records somebody acted on during a pull.
THEOREM RevisionIsState == Spec => []SettledAgrees
<1>1. Init => RevInv
  BY InitRev
<1>2. Typed /\ Typed' /\ SafeInv /\ RevInv /\ [Next]_vars => RevInv'
  BY RevStep
<1>3. Typed /\ SafeInv /\ RevInv => SettledAgrees
  BY RevSettled
<1>4. Spec => [](Typed /\ SafeInv)
  BY SafeAlways
<1> QED BY <1>1, <1>2, <1>3, <1>4, PTL DEF Spec

-----------------------------------------------------------------------------
(* The phone: types.                                                       *)

Times(n) == [PhoneIds -> 0 .. n]
Entries(n) == [op : {"none", "put", "delete"}, at : 0 .. n]
Drains(n, m) ==
  [pc : {"idle", "post", "posted"}, snap : Snaps(n), carried : SUBSET PhoneIds, wrote : BOOLEAN, ans : 0 .. m]
Syncs(n, m) ==
  [pc : {"idle", "drain", "get", "got", "refill", "refilled", "save"}, asked : 0 .. m \union {None},
   snap : Snaps(n), merged : Times(n) \union {<<>>}, ans : 0 .. m]

PhoneTyped ==
  /\ pLocal \in Times(clock) /\ pBox \in [PhoneIds -> Entries(clock)]
  /\ pRev \in 0 .. revision \union {None} /\ pSaving \in SUBSET PhoneIds
  /\ drain \in Drains(clock, revision) /\ dAgain \in BOOLEAN /\ misled \in BOOLEAN
  /\ pGone \in SUBSET PhoneIds /\ pSync \in Syncs(clock, revision)
  /\ pSync.pc = "save" => pSync.merged \in Times(clock)

\* PhoneTypeOK, spelt out, and that a merge has a result.
LEMMA PhoneTypedIsTypeOK == Typed /\ PhoneTyped => PhoneTypeOK
<1>1. Typed => TypeOK
  BY TypedIsTypeOK
<1> QED BY <1>1 DEF PhoneTyped, PhoneTypeOK, Times, Entries, Drains, Syncs, Snaps, Recs

\* The sets grow with the clock and the revision.
LEMMA PhoneTypesGrow ==
  ASSUME NEW n \in Nat, NEW n2 \in Nat, NEW m \in Nat, NEW m2 \in Nat, n <= n2, m <= m2
  PROVE  /\ Times(n) \subseteq Times(n2) /\ Entries(n) \subseteq Entries(n2)
         /\ Drains(n, m) \subseteq Drains(n2, m2) /\ Syncs(n, m) \subseteq Syncs(n2, m2)
         /\ 0 .. m \union {None} \subseteq 0 .. m2 \union {None}
<1>1. 0 .. n \subseteq 0 .. n2 /\ 0 .. m \subseteq 0 .. m2 /\ Snaps(n) \subseteq Snaps(n2)
  BY TypesGrow
<1>2. Times(n) \subseteq Times(n2) /\ Entries(n) \subseteq Entries(n2)
  BY <1>1 DEF Times, Entries
<1>3. Drains(n, m) \subseteq Drains(n2, m2)
  <2> SUFFICES ASSUME NEW q \in Drains(n, m) PROVE q \in Drains(n2, m2)
    OBVIOUS
  <2>1. q.snap \in Snaps(n2) /\ q.ans \in 0 .. m2
    BY <1>1 DEF Drains
  <2> QED BY <2>1 DEF Drains
<1>4. Syncs(n, m) \subseteq Syncs(n2, m2)
  <2> SUFFICES ASSUME NEW q \in Syncs(n, m) PROVE q \in Syncs(n2, m2)
    OBVIOUS
  <2>1. /\ q.snap \in Snaps(n2) /\ q.ans \in 0 .. m2 /\ q.asked \in 0 .. m2 \union {None}
        /\ q.merged \in Times(n2) \union {<<>>}
    BY <1>1, <1>2 DEF Syncs
  <2> QED BY <2>1 DEF Syncs
<1> QED BY <1>1, <1>2, <1>3, <1>4

\* What the phone holds stays of its type when the clock and the revision move.
LEMMA PhoneTypedGrows ==
  ASSUME Typed, Typed', PhoneTyped, clock <= clock', revision <= revision'
  PROVE  /\ pLocal \in Times(clock') /\ pBox \in [PhoneIds -> Entries(clock')]
         /\ pRev \in 0 .. revision' \union {None}
         /\ drain \in Drains(clock', revision') /\ pSync \in Syncs(clock', revision')
         /\ pSync.pc = "save" => pSync.merged \in Times(clock')
<1>1. clock \in Nat /\ clock' \in Nat /\ revision \in Nat /\ revision' \in Nat
  BY DEF Typed
<1>2. /\ Times(clock) \subseteq Times(clock') /\ Entries(clock) \subseteq Entries(clock')
      /\ Drains(clock, revision) \subseteq Drains(clock', revision')
      /\ Syncs(clock, revision) \subseteq Syncs(clock', revision')
      /\ 0 .. revision \union {None} \subseteq 0 .. revision' \union {None}
  BY <1>1, PhoneTypesGrow
<1> QED BY <1>2 DEF PhoneTyped

\* The idle drain and sync, what is sent, and a drain that starts.
LEMMA DrainingTyped ==
  ASSUME NEW n \in Nat, NEW m \in Nat, NEW loc \in Times(n), NEW box \in [PhoneIds -> Entries(n)]
  PROVE  /\ NoDrain \in Drains(n, m) /\ NoSync \in Syncs(n, m)
         /\ Payload(loc, box) \in Snaps(n) /\ Queued(box) \in SUBSET PhoneIds
         /\ Draining(loc, box) \in Drains(n, m)
<1>1. Nothing \in Snaps(n) /\ NoRec \in Recs(n) /\ 0 \in 0 .. m
  BY NoneTyped
<1>2. NoDrain \in Drains(n, m) /\ NoSync \in Syncs(n, m)
  BY <1>1 DEF NoDrain, NoSync, Drains, Syncs
<1>3. Payload(loc, box) \in Snaps(n)
  <2>1. ASSUME NEW i \in Ids
        PROVE  (CASE i = Pref -> NoRec
                  [] i # Pref /\ box[i].op = "delete" -> [at |-> box[i].at, dead |-> TRUE]
                  [] i # Pref /\ box[i].op = "put" -> [at |-> loc[i], dead |-> FALSE]
                  [] i # Pref /\ box[i].op = "none" -> NoRec) \in Recs(n)
    <3>1. CASE i = Pref
      BY <1>1, <3>1
    <3>2. CASE i # Pref
      <4>1. i \in PhoneIds
        BY <3>2 DEF PhoneIds
      <4>2. box[i].op \in {"none", "put", "delete"} /\ box[i].at \in 0 .. n /\ loc[i] \in 0 .. n
        BY <4>1 DEF Entries, Times
      <4>3. [at |-> box[i].at, dead |-> TRUE] \in Recs(n) /\ [at |-> loc[i], dead |-> FALSE] \in Recs(n)
        BY <4>2 DEF Recs
      <4> QED BY <1>1, <3>2, <4>2, <4>3
    <3> QED BY <3>1, <3>2
  <2> QED BY <2>1 DEF Payload, Snaps
<1>4. Queued(box) \in SUBSET PhoneIds
  BY DEF Queued
<1>5. ASSUME NEW s \in Snaps(n), NEW c \in SUBSET PhoneIds
      PROVE  [NoDrain EXCEPT !.pc = "post", !.snap = s, !.carried = c] \in Drains(n, m)
  BY <1>2 DEF Drains
<1> QED BY <1>2, <1>3, <1>4, <1>5 DEF Draining

\* A step of the phone leaves the desktops alone.
LEMMA DesktopsTyped ==
  ASSUME Typed, UNCHANGED desktop, clock <= clock', clock' \in 1 .. MaxClock,
         revision' \in Nat, revision <= revision',
         records' \in Snaps(clock'), latest' \in Snaps(clock'), late' \in Snaps(clock'), raced' \in SUBSET Ids,
         used' \in [fails : 0 .. MaxFails, offline : 0 .. MaxOffline, restarts : 0 .. MaxRestarts]
  PROVE  Typed'
<1>1. clock \in Nat /\ clock' \in Nat /\ revision \in Nat
  BY DEF Typed
<1>2. /\ Stamps(clock) \subseteq Stamps(clock')
      /\ Operations(clock, revision) \subseteq Operations(clock', revision')
      /\ 0 .. revision \union {None} \subseteq 0 .. revision' \union {None}
  BY <1>1, TypesGrow, PhoneTypesGrow
<1>3. /\ local \in [Devices -> Stamps(clock')] /\ outbox \in [Devices -> Stamps(clock')]
      /\ op \in [Devices -> Operations(clock', revision')]
      /\ rev \in [Devices -> 0 .. revision' \union {None}]
  BY <1>2 DEF Typed
<1> QED BY <1>3 DEF Typed, desktop

\* A new entry, and the drain it starts or sends round again.
LEMMA EnqueueTyped ==
  ASSUME NEW n \in Nat, NEW m \in Nat, NEW es, \A i \in DOMAIN es : es[i] \in Entries(n),
         pLocal' \in Times(n), pBox \in [PhoneIds -> Entries(n)], drain \in Drains(n, m), dAgain \in BOOLEAN
  PROVE  /\ Enqueued(es) \in [PhoneIds -> Entries(n)]
         /\ [drain EXCEPT !.carried = Carried(es)] \in Drains(n, m)
         /\ pBox' \in [PhoneIds -> Entries(n)] /\ Drain(es) => drain' \in Drains(n, m) /\ dAgain' \in BOOLEAN
<1>1. Enqueued(es) \in [PhoneIds -> Entries(n)]
  BY DEF Enqueued
<1>2. [drain EXCEPT !.carried = Carried(es)] \in Drains(n, m)
  <2>1. Carried(es) \in SUBSET PhoneIds
    BY DEF Carried, Drains
  <2> QED BY <2>1 DEF Drains
<1>3. ASSUME pBox' \in [PhoneIds -> Entries(n)], Drain(es) PROVE drain' \in Drains(n, m) /\ dAgain' \in BOOLEAN
  <2>1. Draining(pLocal', pBox') \in Drains(n, m)
    BY <1>3, DrainingTyped
  <2> QED BY <1>2, <1>3, <2>1 DEF Drain
<1> QED BY <1>1, <1>2, <1>3

\* The user of the phone.
LEMMA PhoneUserTyped ==
  ASSUME Typed, PhoneTyped, NEW i \in PhoneIds,
         SaveHost(i) \/ SecretSaved(i) \/ EditRecord(i) \/ DeleteHost(i)
  PROVE  Typed' /\ PhoneTyped' /\ clock <= clock'
<1>0. clock \in Nat /\ clock + 1 \in Nat /\ revision \in Nat /\ i \in Ids
  BY DEF Typed, PhoneIds
<1>1. PICK n \in Nat : n = clock'
  <2>1. clock' \in {clock, clock + 1}
    BY DEF SaveHost, SecretSaved, EditRecord, DeleteHost
  <2> QED BY <1>0, <2>1
<1>2. clock <= n /\ n \in 1 .. MaxClock
  <2>1. CASE SecretSaved(i)
    BY <1>1, <2>1 DEF SecretSaved, Typed
  <2>2. CASE ~SecretSaved(i)
    BY <1>0, <1>1, <2>2 DEF SaveHost, EditRecord, DeleteHost, Acts, Typed
  <2> QED BY <2>1, <2>2
<1>3. /\ Snaps(clock) \subseteq Snaps(n) /\ Times(clock) \subseteq Times(n) /\ Entries(clock) \subseteq Entries(n)
      /\ Drains(clock, revision) \subseteq Drains(n, revision) /\ Syncs(clock, revision) \subseteq Syncs(n, revision)
  BY <1>0, <1>2, TypesGrow, PhoneTypesGrow
<1>4. /\ records' = records /\ revision' = revision /\ late' = late /\ used' = used /\ UNCHANGED desktop
      /\ pRev' = pRev /\ pSync' = pSync /\ misled' = misled
  BY DEF SaveHost, SecretSaved, EditRecord, DeleteHost, UserRest, server
<1>5. latest' \in Snaps(n)
  <2>1. [at |-> n, dead |-> TRUE] \in Recs(n) /\ [at |-> n, dead |-> FALSE] \in Recs(n)
    BY DEF Recs
  <2>2. latest \in Snaps(n)
    BY <1>3 DEF Typed
  <2>3. \/ latest' = latest \/ latest' = [latest EXCEPT ![i] = [at |-> n, dead |-> TRUE]]
        \/ latest' = [latest EXCEPT ![i] = [at |-> n, dead |-> FALSE]]
    BY <1>1 DEF SaveHost, SecretSaved, EditRecord, DeleteHost
  <2> QED BY <1>0, <2>1, <2>2, <2>3 DEF Snaps
<1>6. Typed'
  <2>0. raced' \in SUBSET Ids
    BY <1>0 DEF SaveHost, SecretSaved, EditRecord, DeleteHost, Acts, Typed
  <2>1. /\ records \in Snaps(n) /\ late \in Snaps(n)
        /\ used \in [fails : 0 .. MaxFails, offline : 0 .. MaxOffline, restarts : 0 .. MaxRestarts]
    BY <1>3 DEF Typed
  <2>2. revision' \in Nat /\ revision <= revision'
    BY <1>0, <1>4
  <2> QED BY <1>1, <1>2, <1>4, <1>5, <2>0, <2>1, <2>2, DesktopsTyped
<1>7. pLocal' \in Times(n) /\ pSaving' \in SUBSET PhoneIds /\ pGone' \in SUBSET PhoneIds
  <2>1. pLocal \in Times(n) /\ n \in 0 .. n /\ 0 \in 0 .. n
    BY <1>3 DEF PhoneTyped
  <2>2. \/ pLocal' = pLocal \/ pLocal' = [pLocal EXCEPT ![i] = n] \/ pLocal' = [pLocal EXCEPT ![i] = 0]
    BY <1>1 DEF SaveHost, SecretSaved, EditRecord, DeleteHost
  <2>3. pLocal' \in Times(n)
    BY <2>1, <2>2 DEF Times
  <2>4. pSaving' \in SUBSET PhoneIds /\ pGone' \in SUBSET PhoneIds
    BY DEF SaveHost, SecretSaved, EditRecord, DeleteHost, PhoneTyped
  <2> QED BY <2>3, <2>4
<1>8. pBox' \in [PhoneIds -> Entries(n)] /\ drain' \in Drains(n, revision) /\ dAgain' \in BOOLEAN
  <2>0. pBox \in [PhoneIds -> Entries(n)] /\ drain \in Drains(n, revision) /\ dAgain \in BOOLEAN
    BY <1>3 DEF PhoneTyped
  <2>1. CASE SaveHost(i)
    BY <2>0, <2>1 DEF SaveHost
  <2>2. ASSUME NEW e \in Entries(n), EnqueueAndDrain([j \in {i} |-> e])
        PROVE  pBox' \in [PhoneIds -> Entries(n)] /\ drain' \in Drains(n, revision) /\ dAgain' \in BOOLEAN
    <3>1. PICK es : es = [j \in {i} |-> e]
      OBVIOUS
    <3>2. \A j \in DOMAIN es : es[j] \in Entries(n)
      BY <3>1
    <3>3. pBox' = Enqueued(es) /\ Drain(es)
      BY <2>2, <3>1 DEF EnqueueAndDrain
    <3> QED BY <1>0, <1>7, <2>0, <3>2, <3>3, EnqueueTyped
  <2>3. Put \in Entries(n) /\ Del(n) \in Entries(n)
    BY DEF Put, Del, Entries
  <2>4. \/ EnqueueAndDrain([j \in {i} |-> Put]) \/ EnqueueAndDrain([j \in {i} |-> Del(n)]) \/ SaveHost(i)
    BY <1>1 DEF SecretSaved, EditRecord, DeleteHost
  <2> QED BY <2>1, <2>2, <2>3, <2>4
<1>9. pSync \in Syncs(n, revision) /\ (pSync.pc = "save" => pSync.merged \in Times(n))
  BY <1>3 DEF PhoneTyped
<1>10. PhoneTyped'
  BY <1>1, <1>4, <1>7, <1>8, <1>9 DEF PhoneTyped
<1> QED BY <1>1, <1>2, <1>6, <1>10

\* The phone's requests on the server.
LEMMA PhoneServedTyped ==
  ASSUME Typed, PhoneTyped, NEW snap \in Snaps(clock), ApplyPush(snap), UNCHANGED <<clock, latest, raced, desktop, late, used>>
  PROVE  Typed' /\ revision <= revision' /\ revision' \in Nat /\ clock <= clock'
<1>1. /\ clock \in Nat /\ clock \in 1 .. MaxClock /\ revision \in Nat /\ records \in Snaps(clock)
      /\ latest \in Snaps(clock) /\ late \in Snaps(clock) /\ raced \in SUBSET Ids
      /\ used \in [fails : 0 .. MaxFails, offline : 0 .. MaxOffline, restarts : 0 .. MaxRestarts]
  BY DEF Typed
<1>2. records' \in Snaps(clock) /\ revision' \in Nat /\ revision <= revision'
  BY <1>1, ApplyTyped
<1>3. /\ clock' = clock /\ latest' = latest /\ late' = late /\ used' = used /\ UNCHANGED desktop
      /\ raced' = raced
  BY DEF desktop
<1>4. Typed'
  BY <1>1, <1>2, <1>3, DesktopsTyped
<1> QED BY <1>1, <1>2, <1>3, <1>4

\* The drain of the queue.
LEMMA DrainTyped ==
  ASSUME Typed, PhoneTyped, ServeDrain \/ DrainDone
  PROVE  Typed' /\ PhoneTyped' /\ clock <= clock'
<1>0. clock \in Nat /\ revision \in Nat
  BY DEF Typed
<1>1. CASE ServeDrain
  <2>1. drain.snap \in Snaps(clock)
    BY DEF PhoneTyped, Drains
  <2>2. /\ ApplyPush(drain.snap) /\ UNCHANGED <<clock, latest, raced, desktop, late, used>>
        /\ pLocal' = pLocal /\ pBox' = pBox /\ pRev' = pRev /\ pSaving' = pSaving /\ dAgain' = dAgain
        /\ pSync' = pSync /\ misled' = misled /\ pGone' = pGone
    BY <1>1 DEF ServeDrain, PhoneRest
  <2>3. Typed' /\ revision <= revision' /\ revision' \in Nat /\ clock <= clock'
    BY <2>1, <2>2, PhoneServedTyped
  <2>4. /\ pLocal \in Times(clock') /\ pBox \in [PhoneIds -> Entries(clock')]
        /\ pRev \in 0 .. revision' \union {None}
        /\ drain \in Drains(clock', revision') /\ pSync \in Syncs(clock', revision')
        /\ pSync.pc = "save" => pSync.merged \in Times(clock')
    BY <2>3, PhoneTypedGrows
  <2>5. drain' \in Drains(clock', revision')
    <3>1. ASSUME NEW w \in BOOLEAN, NEW a \in 0 .. revision'
          PROVE  [drain EXCEPT !.pc = "posted", !.wrote = w, !.ans = a] \in Drains(clock', revision')
      BY <2>4 DEF Drains
    <3>2. (Written(drain.snap) # {}) \in BOOLEAN /\ revision' \in 0 .. revision'
      BY <2>3
    <3> QED BY <1>1, <3>1, <3>2 DEF ServeDrain
  <2> QED BY <2>2, <2>3, <2>4, <2>5 DEF PhoneTyped
<1>2. CASE DrainDone
  <2>1. /\ UNCHANGED <<clock, latest, raced, desktop, late, used, server>>
        /\ pLocal' = pLocal /\ pSaving' = pSaving /\ pGone' = pGone /\ StorePushed(drain.ans, drain.wrote)
    BY <1>2 DEF DrainDone, PhoneRest
  <2>2. Typed' /\ clock' = clock /\ revision' = revision
    BY <2>1 DEF Typed, desktop, server
  <2>3. drain.ans \in 0 .. revision /\ drain.wrote \in BOOLEAN
    BY DEF PhoneTyped, Drains
  <2>4. pRev' \in 0 .. revision \union {None} /\ misled' \in BOOLEAN
    BY <2>1, <2>3 DEF StorePushed, PhoneTyped
  <2>5. pBox' \in [PhoneIds -> Entries(clock)]
    <3>1. NoEntry \in Entries(clock)
      BY <1>0 DEF NoEntry, Entries
    <3> QED BY <1>2, <3>1 DEF DrainDone, PhoneTyped
  <2>6. NoDrain \in Drains(clock, revision) /\ Draining(pLocal, pBox') \in Drains(clock, revision)
        /\ NoSync \in Syncs(clock, revision)
    BY <1>0, <2>5, DrainingTyped DEF PhoneTyped
  <2>7. drain' \in Drains(clock, revision) /\ dAgain' \in BOOLEAN
    BY <1>2, <2>6 DEF DrainDone, SettleDrain
  <2>8. pSync' = pSync \/ pSync' = [NoSync EXCEPT !.pc = "get", !.asked = pRev']
    BY <1>2 DEF DrainDone, SettleDrain
  <2>9. pSync' \in Syncs(clock, revision) /\ (pSync'.pc = "save" => pSync'.merged \in Times(clock))
    <3>1. CASE pSync' = pSync
      BY <3>1 DEF PhoneTyped
    <3>2. CASE pSync' = [NoSync EXCEPT !.pc = "get", !.asked = pRev']
      BY <2>4, <2>6, <3>2 DEF Syncs
    <3> QED BY <2>8, <3>1, <3>2
  <2> QED BY <1>0, <2>1, <2>2, <2>4, <2>5, <2>7, <2>9 DEF PhoneTyped
<1> QED BY <1>1, <1>2

\* The sync.
LEMMA SyncTyped ==
  ASSUME Typed, PhoneTyped, SyncStart \/ SyncStep
  PROVE  Typed' /\ PhoneTyped' /\ clock <= clock'
<1>0. /\ clock \in Nat /\ revision \in Nat /\ records \in Snaps(clock) /\ revision \in 0 .. revision
      /\ pLocal \in Times(clock) /\ pBox \in [PhoneIds -> Entries(clock)] /\ pRev \in 0 .. revision \union {None}
      /\ drain \in Drains(clock, revision) /\ pSync \in Syncs(clock, revision) /\ dAgain \in BOOLEAN
      /\ misled \in BOOLEAN /\ pSaving \in SUBSET PhoneIds /\ pGone \in SUBSET PhoneIds
      /\ pSync.pc = "save" => pSync.merged \in Times(clock)
  BY DEF Typed, PhoneTyped
<1>1. /\ NoDrain \in Drains(clock, revision) /\ NoSync \in Syncs(clock, revision)
      /\ Payload(pLocal, [i \in PhoneIds |-> Put]) \in Snaps(clock) /\ Nothing \in Snaps(clock)
      /\ NoSync.pc = "idle"
  <2>1. Put \in Entries(clock)
    BY <1>0 DEF Put, Entries
  <2>2. [i \in PhoneIds |-> Put] \in [PhoneIds -> Entries(clock)]
    BY <2>1
  <2>3. NoSync.pc = "idle"
    BY DEF NoSync
  <2> QED BY <1>0, <2>2, <2>3, DrainingTyped, NoneTyped
<1>2. ASSUME UNCHANGED <<clock, latest, raced, desktop, late, used, server>>
      PROVE  Typed' /\ clock' = clock /\ revision' = revision /\ clock <= clock'
  BY <1>0, <1>2 DEF Typed, desktop, server
<1>3. CASE SyncStart
  <2>1. /\ UNCHANGED <<clock, latest, raced, desktop, late, used, server>>
        /\ pLocal' = pLocal /\ pBox' = pBox /\ pRev' = pRev /\ pSaving' = pSaving /\ misled' = misled /\ pGone' = pGone
    BY <1>3 DEF SyncStart, PhoneRest
  <2>2. /\ pSync' = [NoSync EXCEPT !.pc = "get", !.asked = pRev] \/ pSync' = [NoSync EXCEPT !.pc = "drain"]
        /\ (drain' = drain /\ dAgain' = dAgain) \/ Drain(<<>>)
    BY <1>3 DEF SyncStart
  <2>3. pSync' \in Syncs(clock, revision) /\ pSync'.pc # "save"
    BY <1>0, <1>1, <2>2 DEF Syncs
  <2>4. drain' \in Drains(clock, revision) /\ dAgain' \in BOOLEAN
    <3>1. PICK es : es = <<>>
      OBVIOUS
    <3>2. \A i \in DOMAIN es : es[i] \in Entries(clock)
      BY <3>1
    <3> QED BY <1>0, <2>1, <2>2, <3>1, <3>2, EnqueueTyped
  <2>5. Typed' /\ clock' = clock /\ revision' = revision /\ clock <= clock'
    BY <1>2, <2>1
  <2> QED BY <1>0, <2>1, <2>3, <2>4, <2>5 DEF PhoneTyped
<1>4. CASE ServeSync \/ SyncRefill
  <2>1. /\ UNCHANGED <<clock, latest, raced, desktop, late, used, server, pLocal, pBox, pRev, drain, misled, pSaving, dAgain, pGone>>
    BY <1>4 DEF ServeSync, SyncRefill, SyncRest, PhoneRest
  <2>2. \/ pSync' = NoSync \/ pSync' = [pSync EXCEPT !.pc = "got", !.snap = records, !.ans = revision]
        \/ pSync' = [pSync EXCEPT !.pc = "refill", !.snap = Payload(pLocal, [i \in PhoneIds |-> Put])]
    BY <1>4 DEF ServeSync, SyncRefill
  <2>3. ASSUME NEW s \in Snaps(clock)
        PROVE  /\ [pSync EXCEPT !.pc = "refill", !.snap = s] \in Syncs(clock, revision)
               /\ [pSync EXCEPT !.pc = "got", !.snap = s, !.ans = revision] \in Syncs(clock, revision)
    BY <1>0 DEF Syncs
  <2>4. pSync' \in Syncs(clock, revision)
    BY <1>0, <1>1, <2>2, <2>3
  <2>5. pSync'.pc # "save"
    BY <1>0, <1>1, <2>2 DEF Syncs
  <2>6. Typed' /\ clock' = clock /\ revision' = revision /\ clock <= clock'
    BY <1>2, <2>1
  <2> QED BY <1>0, <2>1, <2>4, <2>5, <2>6 DEF PhoneTyped
<1>5. CASE ServeRefill
  <2>1. pSync.snap \in Snaps(clock)
    BY <1>0 DEF Syncs
  <2>2. /\ ApplyPush(pSync.snap) /\ UNCHANGED <<clock, latest, raced, desktop, late, used>>
        /\ UNCHANGED <<pLocal, pBox, pRev, drain, misled, pSaving, dAgain, pGone>>
        /\ pSync' = [pSync EXCEPT !.pc = "refilled", !.ans = revision']
    BY <1>5 DEF ServeRefill, SyncRest, PhoneRest
  <2>3. Typed' /\ revision <= revision' /\ revision' \in Nat /\ clock <= clock'
    BY <2>1, <2>2, PhoneServedTyped
  <2>4. /\ pLocal \in Times(clock') /\ pBox \in [PhoneIds -> Entries(clock')]
        /\ pRev \in 0 .. revision' \union {None}
        /\ drain \in Drains(clock', revision') /\ pSync \in Syncs(clock', revision')
    BY <2>3, PhoneTypedGrows
  <2>5. pSync' \in Syncs(clock', revision') /\ pSync'.pc # "save"
    <3>1. revision' \in 0 .. revision'
      BY <2>3
    <3> QED BY <2>2, <2>4, <3>1 DEF Syncs
  <2> QED BY <1>0, <2>2, <2>3, <2>4, <2>5 DEF PhoneTyped
<1>6. CASE SyncRefilled
  <2>1. /\ UNCHANGED <<clock, latest, raced, desktop, late, used, server, pLocal, pBox, drain, pSaving, dAgain, pGone>>
        /\ StorePushed(pSync.ans, TRUE) /\ pSync' = NoSync
    BY <1>6 DEF SyncRefilled, SyncRest, PhoneRest
  <2>2. pRev' \in 0 .. revision \union {None} /\ misled' \in BOOLEAN
    <3>1. pSync.ans \in 0 .. revision
      BY <1>0 DEF Syncs
    <3> QED BY <1>0, <2>1, <3>1 DEF StorePushed
  <2>3. Typed' /\ clock' = clock /\ revision' = revision /\ clock <= clock'
    BY <1>2, <2>1
  <2> QED BY <1>0, <1>1, <2>1, <2>2, <2>3 DEF PhoneTyped
<1>7. CASE SyncMerge
  <2>1. PICK es : es = [i \in Unpushed(pSync.snap) |-> Put]
    OBVIOUS
  <2>2. /\ UNCHANGED <<clock, latest, raced, desktop, late, used, server, pLocal, pRev, misled, pSaving, dAgain, pGone>>
        /\ pBox' = Enqueued(es) /\ drain' = [drain EXCEPT !.carried = Carried(es)]
        /\ pSync' = [pSync EXCEPT !.pc = "save", !.merged = Merged(pSync.snap), !.snap = Nothing]
    BY <1>7, <2>1 DEF SyncMerge, SyncRest, PhoneRest
  <2>3. \A i \in DOMAIN es : es[i] \in Entries(clock)
    BY <1>0, <2>1 DEF Put, Entries
  <2>4. pBox' \in [PhoneIds -> Entries(clock)] /\ drain' \in Drains(clock, revision)
    BY <1>0, <2>2, <2>3, EnqueueTyped
  <2>5. Merged(pSync.snap) \in Times(clock)
    <3>1. ASSUME NEW i \in PhoneIds
          PROVE  (IF LocalWins(i, pSync.snap) THEN pLocal[i] ELSE Live(pSync.snap[i])) \in 0 .. clock
      <4>1. pSync.snap[i] \in Recs(clock) /\ pLocal[i] \in 0 .. clock
        BY <1>0 DEF Syncs, Snaps, PhoneIds, Times
      <4> QED BY <1>0, <4>1 DEF Recs, Live
    <3> QED BY <3>1 DEF Merged, Times
  <2>6. ASSUME NEW t \in Times(clock)
        PROVE  LET q == [pSync EXCEPT !.pc = "save", !.merged = t, !.snap = Nothing]
               IN  q \in Syncs(clock, revision) /\ q.merged \in Times(clock)
    BY <1>0, <1>1 DEF Syncs
  <2>7. pSync' \in Syncs(clock, revision) /\ pSync'.merged \in Times(clock)
    BY <2>2, <2>5, <2>6
  <2>8. Typed' /\ clock' = clock /\ revision' = revision /\ clock <= clock'
    BY <1>2, <2>2
  <2> QED BY <1>0, <2>2, <2>4, <2>7, <2>8 DEF PhoneTyped
<1>8. CASE SyncApply
  <2>1. /\ UNCHANGED <<clock, latest, raced, desktop, late, used, server, pBox, drain, pSaving, dAgain, pGone>>
        /\ pLocal' = pSync.merged /\ pRev' = pSync.ans /\ misled' = FALSE /\ pSync' = NoSync /\ pSync.pc = "save"
    BY <1>8 DEF SyncApply, SyncRest, PhoneRest
  <2>2. pSync.ans \in 0 .. revision
    BY <1>0 DEF Syncs
  <2>3. Typed' /\ clock' = clock /\ revision' = revision /\ clock <= clock'
    BY <1>2, <2>1
  <2> QED BY <1>0, <1>1, <2>1, <2>2, <2>3 DEF PhoneTyped
<1> QED BY <1>3, <1>4, <1>5, <1>6, <1>7, <1>8 DEF SyncStep

\* Requests of the phone that fail, and its restarts.
LEMMA PhoneFailureTyped ==
  ASSUME Typed, PhoneTyped, DrainFails \/ SyncFails \/ PhoneRestarts
  PROVE  Typed' /\ PhoneTyped' /\ clock <= clock'
<1>0. /\ clock \in Nat /\ clock \in 1 .. MaxClock /\ revision \in Nat /\ records \in Snaps(clock) /\ latest \in Snaps(clock)
      /\ late \in Snaps(clock) /\ drain.snap \in Snaps(clock) /\ pSync.snap \in Snaps(clock)
      /\ raced \in SUBSET Ids
  BY DEF Typed, PhoneTyped, Drains, Syncs
<1>1. /\ UNCHANGED <<clock, latest, raced, desktop, server, pLocal, pBox, pGone>>
      /\ late' = late \/ late' = drain.snap \/ late' = pSync.snap
      /\ pSaving' = pSaving \/ pSaving' = {}
      /\ pRev' = pRev \/ pRev' = None
      /\ misled' = misled \/ misled' = FALSE
      /\ dAgain' = dAgain \/ dAgain' = FALSE
      /\ drain' = drain \/ drain' = NoDrain
      /\ pSync' = pSync \/ pSync' = NoSync \/ pSync' = [NoSync EXCEPT !.pc = "get", !.asked = pRev]
  BY DEF DrainFails, SyncFails, PhoneRestarts, PhoneRest, Straggles, SettleDrain, AfterFailure
<1>2. used' \in [fails : 0 .. MaxFails, offline : 0 .. MaxOffline, restarts : 0 .. MaxRestarts]
  <2>1. CASE DrainFails
    BY <2>1 DEF DrainFails, Typed
  <2>2. CASE SyncFails
    BY <2>2 DEF SyncFails, Typed
  <2>3. CASE PhoneRestarts
    BY <2>3 DEF PhoneRestarts, Typed
  <2> QED BY <2>1, <2>2, <2>3
<1>3. clock' = clock /\ latest' = latest /\ records' = records /\ revision' = revision /\ UNCHANGED desktop
      /\ late' \in Snaps(clock) /\ raced' = raced
  BY <1>0, <1>1 DEF server
<1>4. Typed' /\ clock <= clock'
  <2>1. clock <= clock' /\ revision <= revision'
    BY <1>0, <1>3
  <2> QED BY <1>0, <1>2, <1>3, <2>1, DesktopsTyped
<1>5. NoDrain \in Drains(clock, revision) /\ NoSync \in Syncs(clock, revision) /\ NoSync.pc = "idle"
  <2>1. NoSync.pc = "idle"
    BY DEF NoSync
  <2> QED BY <1>0, <2>1, DrainingTyped DEF PhoneTyped
<1>6. pSync' \in Syncs(clock, revision) /\ (pSync'.pc = "save" => pSync'.merged \in Times(clock))
  <2>1. CASE pSync' = [NoSync EXCEPT !.pc = "get", !.asked = pRev]
    BY <1>5, <2>1 DEF Syncs, PhoneTyped
  <2> QED BY <1>1, <1>5, <2>1 DEF PhoneTyped
<1>7. pRev' \in 0 .. revision \union {None} /\ misled' \in BOOLEAN /\ dAgain' \in BOOLEAN
      /\ drain' \in Drains(clock, revision) /\ pSaving' \in SUBSET PhoneIds
  BY <1>1, <1>5 DEF PhoneTyped
<1> QED BY <1>1, <1>3, <1>4, <1>6, <1>7 DEF PhoneTyped

\* The clock and the revision only move forward; records get newer, and the
\* revision moves just when one is written.
Forward ==
  /\ clock <= clock' /\ revision <= revision' /\ revision' <= revision + 1
  /\ IF revision' = revision THEN records' = records ELSE records' # Nothing
  /\ \A i \in Ids : records[i].at <= records'[i].at /\ (records[i] # NoRec => records'[i] # NoRec)

\* A push moves the server forward.
LEMMA PushForward ==
  ASSUME Typed, NEW snap \in Snaps(clock), ApplyPush(snap), clock' = clock
  PROVE  Forward
<1>1. clock \in Nat /\ records \in Snaps(clock) /\ revision \in Nat
  BY DEF Typed
<1>2. revision <= revision' /\ revision' <= revision + 1
  BY <1>1, ApplyTyped
<1>3. ASSUME NEW i \in Ids PROVE records[i].at <= records'[i].at /\ (records[i] # NoRec => records'[i] # NoRec)
  <2>1. /\ records'[i] = records[i] \/ (records'[i] = snap[i] /\ i \in Written(snap))
        /\ records[i].at <= records'[i].at
    BY <1>1, WrittenAt
  <2> QED BY <2>1 DEF Written
<1>4. ASSUME revision' = revision PROVE records' = records
  <2>1. Written(snap) = {}
    BY <1>1, <1>4 DEF ApplyPush
  <2>2. records = [i \in Ids |-> records[i]]
    BY <1>1 DEF Snaps
  <2> QED BY <2>1, <2>2 DEF ApplyPush
<1>5. ASSUME revision' # revision PROVE records' # Nothing
  <2>1. PICK i \in Ids : i \in Written(snap)
    BY <1>1, <1>5 DEF ApplyPush, Written
  <2>2. records'[i] = snap[i] /\ snap[i] # NoRec
    BY <2>1 DEF ApplyPush, Written
  <2> QED BY <2>2 DEF Nothing
<1> QED BY <1>1, <1>2, <1>3, <1>4, <1>5 DEF Forward

\* So does every step of the desktops.
LEMMA NextForward == ASSUME Typed, [Next]_vars PROVE Forward
<1>1. clock \in Nat /\ revision \in Nat /\ \A i \in Ids : records[i].at \in Nat
  BY IdTyped DEF Typed, AnyRec, Snaps, Recs
<1>2. ASSUME clock' \in {clock, clock + 1}, UNCHANGED server PROVE Forward
  BY <1>1, <1>2 DEF Forward, server
<1>3. ASSUME NEW d \in Devices, ServePost(d) PROVE Forward
  <2>1. op[d].snap \in Snaps(clock) /\ ApplyPush(op[d].snap) /\ clock' = clock
    BY <1>3 DEF ServePost, Typed, Operations
  <2> QED BY <2>1, PushForward
<1>4. CASE ServeLate
  <2>1. late \in Snaps(clock) /\ ApplyPush(late) /\ clock' = clock
    BY <1>4 DEF ServeLate, Typed
  <2> QED BY <2>1, PushForward
<1>5. ASSUME NEW d \in Devices, NEW j \in Ids, Edit(d, j) \/ Delete(d, j) PROVE Forward
  BY <1>2, <1>5 DEF Edit, Delete
<1>6. ASSUME NEW d \in Devices,
             \/ ServeGet(d) \/ BootInfo(d) \/ BootPushed(d) \/ BootRefill(d) \/ BootApply(d) \/ BootDone(d)
             \/ PushDone(d) \/ Bootstrap(d) \/ RetryFires(d) \/ RequestFails(d) \/ GoOffline(d)
             \/ GoOnline(d) \/ Stale(d) \/ Restart(d)
      PROVE  Forward
  <2>1. clock' = clock /\ UNCHANGED server
    BY <1>6 DEF ServeGet, BootInfo, BootPushed, BootRefill, BootApply, BootDone, PushDone, Bootstrap, RetryFires,
                RequestFails, GoOffline, GoOnline, Stale, Restart
  <2> QED BY <1>2, <2>1
<1>7. CASE UNCHANGED vars
  BY <1>2, <1>7 DEF vars, server
<1> QED BY <1>3, <1>4, <1>5, <1>6, <1>7 DEF Next, Step

\* Every step of the phone, the desktops and the server keeps the types.
LEMMA PhoneNextTyped == ASSUME Typed, PhoneTyped, [PhoneNext]_allVars PROVE Typed' /\ PhoneTyped'
<1>1. ASSUME [Next]_vars, UNCHANGED phone PROVE Typed' /\ PhoneTyped'
  <2>1. Typed' /\ clock <= clock' /\ revision <= revision'
    BY <1>1, NextTyped, NextForward DEF Forward
  <2>2. /\ pLocal \in Times(clock') /\ pBox \in [PhoneIds -> Entries(clock')]
        /\ pRev \in 0 .. revision' \union {None}
        /\ drain \in Drains(clock', revision') /\ pSync \in Syncs(clock', revision')
        /\ pSync.pc = "save" => pSync.merged \in Times(clock')
    BY <2>1, PhoneTypedGrows
  <2> QED BY <1>1, <2>1, <2>2 DEF PhoneTyped, phone
<1>2. CASE UNCHANGED allVars
  BY <1>1, <1>2 DEF allVars, vars, phone
<1> QED BY <1>1, <1>2, PhoneUserTyped, DrainTyped, SyncTyped, PhoneFailureTyped DEF PhoneNext, PhoneStep, DrainStep

\* A phone that has just signed in.
LEMMA PhoneInitTyped == ASSUME PhoneInit PROVE Typed /\ PhoneTyped
<1>1. Init /\ Typed /\ clock \in Nat /\ revision \in Nat
  BY InitTyped DEF PhoneInit, Typed
<1>2. pLocal \in Times(clock) /\ pBox \in [PhoneIds -> Entries(clock)]
  BY <1>1 DEF PhoneInit, Times, Entries, NoEntry
<1>3. NoDrain \in Drains(clock, revision) /\ NoSync \in Syncs(clock, revision) /\ NoSync.pc = "idle"
  <2>1. NoSync.pc = "idle"
    BY DEF NoSync
  <2> QED BY <1>1, <1>2, <2>1, DrainingTyped
<1> QED BY <1>1, <1>2, <1>3 DEF PhoneInit, PhoneTyped

\* The phone, the desktops and the server keep their types together: no
\* timestamp is ahead of the clock, no revision ahead of the server's, and a
\* sync that stores records has merged them.
THEOREM PhoneTypeCorrect == PhoneSpec => []PhoneTypeOK
<1>1. PhoneInit => Typed /\ PhoneTyped
  BY PhoneInitTyped
<1>2. Typed /\ PhoneTyped /\ [PhoneNext]_allVars => (Typed /\ PhoneTyped)'
  BY PhoneNextTyped
<1>3. Typed /\ PhoneTyped => PhoneTypeOK
  BY PhoneTypedIsTypeOK
<1> QED BY <1>1, <1>2, <1>3, PTL DEF PhoneSpec

-----------------------------------------------------------------------------
(* The phone: its records and its queue.  Of one id, `l' is the phone's    *)
(* record, `b' its entry in the queue, `g' that it was deleted on the      *)
(* phone once, `w' that its entry waits for the keychain.                  *)

HeldOk(K, t, l, b, g) ==
  /\ l <= t.at /\ l \notin K
  /\ b.op = "delete" => b.at <= t.at /\ b.at \in K /\ g
  /\ b.op = "none" => b = NoEntry

\* An entry that a drain carries and its end removes: a deletion is what the
\* drain sends; of anything else the drain sends the value or the server has a
\* newer one, unless another entry is coming.
CarriedOk(l, b, r, w, s) ==
  /\ b.op = "delete" => s = [at |-> b.at, dead |-> TRUE]
  /\ b.op # "delete" => w \/ l <= s.at \/ l <= r.at
DrainOk(K, i, t, r, l, b, w, q) ==
  /\ Fits(K, t, q.snap[i])
  /\ i \in q.carried => CarriedOk(l, b, r, w, q.snap[i])
  /\ q.pc = "posted" => q.snap[i].at <= r.at

\* A merge takes the place of a local record only for one the server has, which
\* is newer or, if the merge leaves none, for a deletion.
MergeOk(r, l, m) == m = l \/ (m <= r.at /\ (l <= m \/ l < r.at))
SyncOk(K, i, t, r, l, q) ==
  /\ Fits(K, t, q.snap[i])
  /\ q.pc = "got" => q.snap[i].at <= r.at
  /\ q.pc = "save" => q.merged[i] <= t.at /\ q.merged[i] \notin K /\ MergeOk(r, l, q.merged[i])

PhoneBody(K, i) ==
  /\ HeldOk(K, latest[i], pLocal[i], pBox[i], i \in pGone)
  /\ DrainOk(K, i, latest[i], records[i], pLocal[i], pBox[i], i \in pSaving, drain)
  /\ SyncOk(K, i, latest[i], records[i], pLocal[i], pSync)
\* The invariant of one id, on the desktops and on the phone.
BothBody(K, i) == IdBody(K, i) /\ PhoneBody(K, i)
PhoneInv == Control /\ \A i \in PhoneIds \ raced : \E K \in Kinds : BothBody(K, i)

\* What the phone's variables hold of one id.
LEMMA PhoneIdTyped ==
  ASSUME Typed, PhoneTyped, NEW i \in PhoneIds
  PROVE  /\ i \in Ids /\ i # Pref
         /\ clock \in Nat /\ revision \in Nat
         /\ latest[i] \in AnyRec /\ records[i] \in AnyRec /\ late[i] \in AnyRec
         /\ latest[i].at <= clock /\ records[i].at <= clock
         /\ pLocal[i] \in Nat /\ pLocal[i] <= clock /\ pBox[i] \in Entries(clock) /\ pBox[i].at \in Nat
         /\ drain \in Drains(clock, revision) /\ drain.snap \in Snaps(clock) /\ drain.snap[i] \in AnyRec
         /\ pSync \in Syncs(clock, revision) /\ pSync.snap \in Snaps(clock) /\ pSync.snap[i] \in AnyRec
         /\ pSync.pc = "save" => pSync.merged[i] \in Nat
         /\ pBox[i].op \in {"none", "put", "delete"} /\ pBox[i].at <= clock
         /\ drain.snap[i].at <= clock /\ pSync.snap[i].at <= clock
<1>1. i \in Ids /\ i # Pref
  BY DEF PhoneIds
<1>2. /\ clock \in Nat /\ revision \in Nat
      /\ latest[i] \in AnyRec /\ records[i] \in AnyRec /\ late[i] \in AnyRec
      /\ latest[i].at <= clock /\ records[i].at <= clock
  BY <1>1, IdTyped
<1>3. ASSUME NEW s \in Snaps(clock) PROVE s[i] \in AnyRec /\ s[i].at <= clock
  BY <1>1, <1>2 DEF Snaps, Recs, AnyRec
<1>4. ASSUME NEW s \in Times(clock) PROVE s[i] \in Nat /\ s[i] <= clock
  BY <1>2 DEF Times
<1>5. /\ drain \in Drains(clock, revision) /\ pSync \in Syncs(clock, revision)
      /\ drain.snap \in Snaps(clock) /\ pSync.snap \in Snaps(clock)
  BY DEF PhoneTyped, Drains, Syncs
<1>6. pBox[i] \in Entries(clock) /\ pBox[i].at \in Nat /\ pBox[i].op \in {"none", "put", "delete"} /\ pBox[i].at <= clock
  <2>1. pBox[i] \in Entries(clock)
    BY DEF PhoneTyped
  <2> QED BY <1>2, <2>1 DEF Entries
<1>7. pLocal \in Times(clock) /\ (pSync.pc = "save" => pSync.merged \in Times(clock))
  BY DEF PhoneTyped
<1> QED BY <1>1, <1>2, <1>3, <1>4, <1>5, <1>6, <1>7

\* A record that fits still fits when later timestamps are decided.
LEMMA FitsKeeps ==
  ASSUME NEW K \in Kinds, NEW K2 \in Kinds, NEW t \in AnyRec, NEW t2 \in AnyRec, NEW r \in AnyRec,
         t.at <= t2.at, Agree(K, K2, t.at), Fits(K, t, r)
  PROVE  Fits(K2, t2, r)
  BY DEF Fits, AnyRec, Agree

\* The phone keeps its invariant when the server gets newer records and when an
\* edit elsewhere takes a later timestamp: what it holds,
LEMMA HeldKeeps ==
  ASSUME NEW K \in Kinds, NEW K2 \in Kinds, NEW t \in AnyRec, NEW t2 \in AnyRec, NEW l \in Nat,
         NEW b, NEW g, b.at \in Nat, t.at <= t2.at, Agree(K, K2, t.at), HeldOk(K, t, l, b, g)
  PROVE  HeldOk(K2, t2, l, b, g)
  BY DEF HeldOk, AnyRec, Agree

\* what it sends,
LEMMA DrainKeeps ==
  ASSUME NEW K \in Kinds, NEW K2 \in Kinds, NEW i \in Ids, NEW t \in AnyRec, NEW t2 \in AnyRec,
         NEW r \in AnyRec, NEW r2 \in AnyRec, NEW l \in Nat, NEW b, NEW w, NEW q, q.snap[i] \in AnyRec,
         t.at <= t2.at, Agree(K, K2, t.at), r.at <= r2.at, DrainOk(K, i, t, r, l, b, w, q)
  PROVE  DrainOk(K2, i, t2, r2, l, b, w, q)
<1>1. Fits(K2, t2, q.snap[i])
  BY FitsKeeps DEF DrainOk
<1>2. q.pc = "posted" => q.snap[i].at <= r2.at
  BY DEF DrainOk, AnyRec
<1>3. CarriedOk(l, b, r, w, q.snap[i]) => CarriedOk(l, b, r2, w, q.snap[i])
  BY DEF CarriedOk, AnyRec
<1> QED BY <1>1, <1>2, <1>3 DEF DrainOk

\* and what it fetches.
LEMMA SyncKeeps ==
  ASSUME NEW K \in Kinds, NEW K2 \in Kinds, NEW i \in Ids, NEW t \in AnyRec, NEW t2 \in AnyRec,
         NEW r \in AnyRec, NEW r2 \in AnyRec, NEW l \in Nat, NEW q, q.snap[i] \in AnyRec,
         q.pc = "save" => q.merged[i] \in Nat,
         t.at <= t2.at, Agree(K, K2, t.at), r.at <= r2.at, SyncOk(K, i, t, r, l, q)
  PROVE  SyncOk(K2, i, t2, r2, l, q)
<1>1. Fits(K2, t2, q.snap[i])
  BY FitsKeeps DEF SyncOk
<1>2. q.pc = "got" => q.snap[i].at <= r2.at
  BY DEF SyncOk, AnyRec
<1>3. CASE q.pc = "save"
  <2>1. q.merged[i] \in Nat /\ q.merged[i] <= t.at /\ q.merged[i] \notin K /\ MergeOk(r, l, q.merged[i])
    BY <1>3 DEF SyncOk
  <2>2. q.merged[i] <= t2.at /\ q.merged[i] \notin K2
    BY <2>1 DEF AnyRec, Agree
  <2>3. MergeOk(r2, l, q.merged[i])
    BY <2>1 DEF MergeOk, AnyRec
  <2> QED BY <1>1, <1>3, <2>2, <2>3 DEF SyncOk
<1>4. CASE q.pc # "save"
  BY <1>1, <1>2, <1>4 DEF SyncOk
<1> QED BY <1>3, <1>4

\* The three together, when a step changes nothing of the phone.
LEMMA PhoneStill ==
  ASSUME Typed, Typed', PhoneTyped, PhoneTyped', NEW K \in Kinds, NEW K2 \in Kinds, NEW i \in PhoneIds,
         PhoneBody(K, i), Later(K, K2, i), records[i].at <= records'[i].at
  PROVE  /\ HeldOk(K2, latest'[i], pLocal[i], pBox[i], i \in pGone)
         /\ DrainOk(K2, i, latest'[i], records'[i], pLocal[i], pBox[i], i \in pSaving, drain)
         /\ SyncOk(K2, i, latest'[i], records'[i], pLocal[i], pSync)
<1>1. /\ i \in Ids /\ latest[i] \in AnyRec /\ records[i] \in AnyRec /\ pLocal[i] \in Nat /\ pBox[i].at \in Nat
      /\ drain.snap[i] \in AnyRec /\ pSync.snap[i] \in AnyRec /\ (pSync.pc = "save" => pSync.merged[i] \in Nat)
  BY PhoneIdTyped
<1>2. latest'[i] \in AnyRec /\ records'[i] \in AnyRec
  BY <1>1 DEF Typed, Snaps, Recs, AnyRec
<1>3. latest[i].at <= latest'[i].at /\ Agree(K, K2, latest[i].at)
  BY DEF Later
<1>4. HeldOk(K2, latest'[i], pLocal[i], pBox[i], i \in pGone)
  BY <1>1, <1>2, <1>3, HeldKeeps DEF PhoneBody
<1>5. DrainOk(K2, i, latest'[i], records'[i], pLocal[i], pBox[i], i \in pSaving, drain)
  BY <1>1, <1>2, <1>3, DrainKeeps DEF PhoneBody
<1>6. SyncOk(K2, i, latest'[i], records'[i], pLocal[i], pSync)
  BY <1>1, <1>2, <1>3, SyncKeeps DEF PhoneBody
<1> QED BY <1>4, <1>5, <1>6

\* A step of the phone and the desktops' side of an id.
LEMMA BodyKeeps ==
  ASSUME Typed, Typed', NEW K \in Kinds, NEW K2 \in Kinds, NEW i \in Ids, IdBody(K, i), UNCHANGED desktop,
         Later(K, K2, i), 0 \notin K2, latest'[i].dead <=> latest'[i].at \in K2,
         records[i].at <= records'[i].at, Fits(K2, latest'[i], records'[i]), Fits(K2, latest'[i], late'[i])
  PROVE  IdBody(K2, i)'
<1>1. latest'[i] \in AnyRec /\ records'[i] \in AnyRec
  BY DEF Typed, Snaps, Recs, AnyRec
<1>2. ASSUME NEW d \in Devices
      PROVE  DeviceOk(K2, i, latest'[i], records'[i], local'[d][i], outbox'[d][i], pending'[d], again'[d], op'[d])
  <2>1. /\ DeviceOk(K, i, latest[i], records[i], local[d][i], outbox[d][i], pending[d], again[d], op[d])
        /\ local' = local /\ outbox' = outbox /\ pending' = pending /\ again' = again /\ op' = op
    BY DEF IdBody, desktop
  <2>2. /\ latest[i] \in AnyRec /\ records[i] \in AnyRec /\ local[d][i] \in Nat /\ outbox[d][i] \in Nat
        /\ op[d].snap[i] \in AnyRec /\ latest[i].at <= latest'[i].at /\ Agree(K, K2, latest[i].at)
    BY IdTyped DEF Later
  <2>3. HoldOk(K2, i, latest'[i], records'[i], local[d][i], outbox[d][i], pending[d])
    BY <1>1, <2>1, <2>2, HoldKeeps DEF DeviceOk
  <2>4. PostOk(K2, i, latest'[i], records'[i], local[d][i], outbox[d][i], again[d], op[d])
    BY <1>1, <2>1, <2>2, PostKeeps DEF DeviceOk
  <2>5. PullOk(i, records'[i], local[d][i], outbox[d][i], op[d])
    BY <1>1, <2>1, <2>2, PullKeeps DEF DeviceOk
  <2> QED BY <2>1, <2>3, <2>4, <2>5 DEF DeviceOk
<1>3. IdOk(K2, latest'[i], records'[i], late'[i])
  BY DEF IdOk
<1> QED BY <1>2, <1>3 DEF IdBody

\* What a drain sends of an id.
SentAt(l, b) ==
  IF b.op = "delete" THEN [at |-> b.at, dead |-> TRUE]
  ELSE IF b.op = "put" THEN [at |-> l, dead |-> FALSE] ELSE NoRec

\* A payload, one id at a time.
LEMMA PayloadAt ==
  ASSUME NEW loc, NEW box, NEW i \in PhoneIds, box[i].op \in {"none", "put", "delete"}
  PROVE  Payload(loc, box)[i] = SentAt(loc[i], box[i])
<1>1. i \in Ids /\ i # Pref
  BY DEF PhoneIds
<1>2. Payload(loc, box)[i] = CASE i = Pref -> NoRec
                  [] i # Pref /\ box[i].op = "delete" -> [at |-> box[i].at, dead |-> TRUE]
                  [] i # Pref /\ box[i].op = "put" -> [at |-> loc[i], dead |-> FALSE]
                  [] i # Pref /\ box[i].op = "none" -> NoRec
  BY <1>1 DEF Payload
<1>3. CASE box[i].op = "delete"
  BY <1>1, <1>2, <1>3 DEF SentAt
<1>4. CASE box[i].op = "put"
  BY <1>1, <1>2, <1>4 DEF SentAt
<1>5. CASE box[i].op = "none"
  BY <1>1, <1>2, <1>5 DEF SentAt
<1> QED BY <1>3, <1>4, <1>5

\* What is sent fits, and stands for the entry it is sent for.
LEMMA SentFits ==
  ASSUME NEW K \in Kinds, NEW t \in AnyRec, NEW l \in Nat, NEW b, NEW g, b.at \in Nat,
         b.op \in {"none", "put", "delete"}, 0 \notin K, HeldOk(K, t, l, b, g)
  PROVE  /\ Fits(K, t, SentAt(l, b)) /\ SentAt(l, b) \in AnyRec
         /\ \A r, w : b # NoEntry => CarriedOk(l, b, r, w, SentAt(l, b))
<1>1. CASE b.op = "delete"
  BY <1>1 DEF SentAt, HeldOk, Fits, AnyRec, CarriedOk
<1>2. CASE b.op = "put"
  BY <1>2 DEF SentAt, HeldOk, Fits, AnyRec, CarriedOk
<1>3. CASE b.op = "none"
  BY <1>3 DEF SentAt, HeldOk, Fits, AnyRec, NoRec
<1> QED BY <1>1, <1>2, <1>3

\* The fields of a drain that starts.
LEMMA DrainingFields ==
  ASSUME NEW loc, NEW box
  PROVE  \/ Draining(loc, box) = NoDrain /\ NoDrain.snap = Nothing /\ NoDrain.carried = {}
            /\ NoDrain.pc = "idle" /\ Queued(box) = {}
         \/ LET q == Draining(loc, box)
            IN  /\ q.snap = Payload(loc, box) /\ q.carried = Queued(box) /\ q.pc = "post"
                /\ Queued(box) # {}
  BY DEF Draining, NoDrain

\* A drain that starts.
LEMMA DrainingOk ==
  ASSUME NEW K \in Kinds, NEW i \in PhoneIds, NEW t \in AnyRec, NEW r, NEW loc, NEW box, NEW w, NEW g,
         loc[i] \in Nat, box[i].at \in Nat, box[i].op \in {"none", "put", "delete"},
         0 \notin K, HeldOk(K, t, loc[i], box[i], g)
  PROVE  DrainOk(K, i, t, r, loc[i], box[i], w, Draining(loc, box))
<1>1. PICK q : q = Draining(loc, box)
  OBVIOUS
<1>2. CASE q.snap = Nothing /\ q.carried = {} /\ q.pc = "idle"
  <2>1. Nothing[i] = NoRec
    BY DEF Nothing, PhoneIds
  <2>2. Fits(K, t, NoRec)
    BY DEF Fits, NoRec, AnyRec
  <2> QED BY <1>1, <1>2, <2>1, <2>2 DEF DrainOk
<1>3. CASE q.snap = Payload(loc, box) /\ q.carried = Queued(box) /\ q.pc = "post"
  <2>1. q.snap[i] = SentAt(loc[i], box[i])
    BY <1>3, PayloadAt
  <2>2. Fits(K, t, q.snap[i]) /\ (i \in q.carried => CarriedOk(loc[i], box[i], r, w, q.snap[i]))
    BY <1>3, <2>1, SentFits DEF Queued
  <2> QED BY <1>1, <1>3, <2>2 DEF DrainOk
<1> QED BY <1>1, <1>2, <1>3, DrainingFields

\* A drain that goes on with fewer entries.
LEMMA DrainLess ==
  ASSUME NEW K, NEW i, NEW t, NEW r, NEW l, NEW b, NEW w, NEW l2, NEW b2, NEW w2, NEW n, NEW m,
         NEW q \in Drains(n, m), NEW c, DrainOk(K, i, t, r, l, b, w, q),
         i \in c => i \in q.carried /\ l2 = l /\ b2 = b /\ (w => w2)
  PROVE  DrainOk(K, i, t, r, l2, b2, w2, [q EXCEPT !.carried = c])
<1>1. PICK p : p = [q EXCEPT !.carried = c]
  OBVIOUS
<1>2. p.snap = q.snap /\ p.carried = c /\ p.pc = q.pc
  BY <1>1 DEF Drains
<1>3. CASE i \in c
  BY <1>1, <1>2, <1>3 DEF DrainOk, CarriedOk
<1>4. CASE i \notin c
  BY <1>1, <1>2, <1>4 DEF DrainOk
<1> QED BY <1>3, <1>4

\* drainSyncOutbox, for an id whose entry is new or as it was.
LEMMA DrainStepOk ==
  ASSUME NEW K \in Kinds, NEW i \in PhoneIds, NEW t \in AnyRec, NEW r, NEW w, NEW w2, NEW g, NEW es, NEW n, NEW m,
         Drain(es), drain \in Drains(n, m), pLocal'[i] \in Nat, pBox'[i].at \in Nat,
         pBox'[i].op \in {"none", "put", "delete"}, 0 \notin K, HeldOk(K, t, pLocal'[i], pBox'[i], g),
         DrainOk(K, i, t, r, pLocal[i], pBox[i], w, drain),
         i \notin DOMAIN es => pLocal'[i] = pLocal[i] /\ pBox'[i] = pBox[i] /\ (w => w2)
  PROVE  DrainOk(K, i, t, r, pLocal'[i], pBox'[i], w2, drain')
<1>1. CASE drain.pc = "idle"
  <2>1. drain' = Draining(pLocal', pBox')
    BY <1>1 DEF Drain
  <2> QED BY <2>1, DrainingOk
<1>2. CASE drain.pc # "idle"
  <2>1. drain' = [drain EXCEPT !.carried = Carried(es)]
    BY <1>2 DEF Drain
  <2>2. i \in Carried(es) => i \in drain.carried /\ i \notin DOMAIN es
    BY DEF Carried
  <2> QED BY <2>1, <2>2, DrainLess
<1> QED BY <1>1, <1>2

\* Nothing new is decided: the same deletions, and the phone as it was.
LEMMA SameKinds ==
  ASSUME Typed, Typed', PhoneTyped, PhoneTyped', NEW K \in Kinds, NEW i \in PhoneIds, BothBody(K, i),
         UNCHANGED desktop, latest'[i] = latest[i], records[i].at <= records'[i].at,
         Fits(K, latest[i], records'[i]), Fits(K, latest[i], late'[i])
  PROVE  /\ Later(K, K, i) /\ IdBody(K, i)' /\ 0 \notin K
         /\ HeldOk(K, latest'[i], pLocal[i], pBox[i], i \in pGone)
         /\ DrainOk(K, i, latest'[i], records'[i], pLocal[i], pBox[i], i \in pSaving, drain)
         /\ SyncOk(K, i, latest'[i], records'[i], pLocal[i], pSync)
<1>1. i \in Ids /\ latest[i] \in AnyRec
  BY PhoneIdTyped
<1>2. 0 \notin K /\ (latest'[i].dead <=> latest'[i].at \in K)
  BY DEF BothBody, IdBody, IdOk
<1>3. Later(K, K, i)
  BY <1>1 DEF Later, Agree, AnyRec
<1>4. IdBody(K, i)'
  BY <1>1, <1>2, <1>3, BodyKeeps DEF BothBody
<1> QED BY <1>2, <1>3, <1>4, PhoneStill DEF BothBody

\* The phone's user takes a new timestamp: an edit or a deletion of the id.
LEMMA NewKinds ==
  ASSUME Typed, Typed', PhoneTyped, PhoneTyped', NEW K \in Kinds, NEW i \in PhoneIds, BothBody(K, i),
         UNCHANGED desktop, records' = records, late' = late, NEW dead \in BOOLEAN,
         latest'[i] = [at |-> clock + 1, dead |-> dead]
  PROVE  \E K2 \in Kinds :
           /\ Later(K, K2, i) /\ IdBody(K2, i)' /\ 0 \notin K2 /\ (clock + 1 \in K2 <=> dead)
           /\ HeldOk(K2, latest'[i], pLocal[i], pBox[i], i \in pGone)
           /\ DrainOk(K2, i, latest'[i], records'[i], pLocal[i], pBox[i], i \in pSaving, drain)
           /\ SyncOk(K2, i, latest'[i], records'[i], pLocal[i], pSync)
<1>1. /\ i \in Ids /\ clock \in Nat /\ latest[i] \in AnyRec /\ latest[i].at <= clock
      /\ records[i] \in AnyRec /\ late[i] \in AnyRec
  BY PhoneIdTyped
<1>2. clock + 1 \in Nat
  BY <1>1
<1>3. PICK n \in Nat : n = clock + 1
  BY <1>2, Zenon
<1>4. n # 0 /\ latest[i].at < n /\ latest'[i].at = n /\ (latest'[i].dead <=> dead)
  BY <1>1, <1>3 DEF AnyRec
<1>5. PICK K2 \in Kinds : K2 = IF dead THEN K \union {n} ELSE K \ {n}
  BY DEF Kinds
<1>6. 0 \notin K /\ Fits(K, latest[i], records[i]) /\ Fits(K, latest[i], late[i])
  BY DEF BothBody, IdBody, IdOk
<1>7. n \in K2 <=> dead
  BY <1>5
<1>8. 0 \notin K2 /\ Agree(K, K2, latest[i].at)
  BY <1>1, <1>4, <1>5, <1>6 DEF Agree, AnyRec
<1>9. Later(K, K2, i)
  BY <1>1, <1>4, <1>8 DEF Later, AnyRec
<1>10. latest'[i] \in AnyRec
  BY <1>3 DEF AnyRec
<1>11. Fits(K2, latest'[i], records[i]) /\ Fits(K2, latest'[i], late[i])
  BY <1>1, <1>6, <1>9, <1>10, FitsKeeps DEF Later
<1>12. records[i].at <= records'[i].at
  BY <1>1 DEF AnyRec
<1>13. IdBody(K2, i)'
  BY <1>1, <1>4, <1>7, <1>8, <1>9, <1>11, <1>12, BodyKeeps DEF BothBody
<1>14. /\ HeldOk(K2, latest'[i], pLocal[i], pBox[i], i \in pGone)
       /\ DrainOk(K2, i, latest'[i], records'[i], pLocal[i], pBox[i], i \in pSaving, drain)
       /\ SyncOk(K2, i, latest'[i], records'[i], pLocal[i], pSync)
  BY <1>9, <1>12, PhoneStill DEF BothBody
<1> QED BY <1>3, <1>7, <1>8, <1>9, <1>13, <1>14

\* A sync under way and a record the user edits: it has not been merged.
LEMMA SyncElsewhere ==
  ASSUME NEW K, NEW i, NEW t, NEW r, NEW l, NEW l2, NEW q, SyncOk(K, i, t, r, l, q), q.pc # "save"
  PROVE  SyncOk(K, i, t, r, l2, q)
  BY DEF SyncOk

\* The user of the phone.
LEMMA PhoneUserId ==
  ASSUME Typed, Typed', PhoneTyped, PhoneTyped', NEW K \in Kinds, NEW i \in PhoneIds, i \notin raced',
         BothBody(K, i), NEW j \in PhoneIds, SaveHost(j) \/ SecretSaved(j) \/ EditRecord(j) \/ DeleteHost(j)
  PROVE  \E K2 \in Kinds : Later(K, K2, i) /\ BothBody(K2, i)'
<1>1. /\ UNCHANGED desktop /\ records' = records /\ late' = late /\ pSync' = pSync
  BY DEF SaveHost, SecretSaved, EditRecord, DeleteHost, UserRest, server
<1>2. /\ i \in Ids /\ clock \in Nat /\ latest[i] \in AnyRec /\ records[i] \in AnyRec
      /\ drain \in Drains(clock, revision) /\ records[i].at <= records'[i].at
      /\ pLocal \in Times(clock) /\ pBox \in [PhoneIds -> Entries(clock)] /\ latest \in Snaps(clock)
  <2>1. /\ i \in Ids /\ clock \in Nat /\ latest[i] \in AnyRec /\ records[i] \in AnyRec
        /\ drain \in Drains(clock, revision)
    BY PhoneIdTyped
  <2> QED BY <1>1, <2>1 DEF AnyRec, Typed, PhoneTyped
<1>3. /\ pLocal'[i] \in Nat /\ pBox'[i].at \in Nat /\ pBox'[i].op \in {"none", "put", "delete"}
      /\ latest'[i] \in AnyRec
  BY <1>2 DEF Typed, PhoneTyped, Times, Entries, Snaps, Recs, AnyRec
<1>4. ASSUME NEW es, EnqueueAndDrain(es), i \notin DOMAIN es PROVE pBox'[i] = pBox[i]
  BY <1>4 DEF EnqueueAndDrain, Enqueued
<1>5. ASSUME NEW e, NEW es, es = [k \in {i} |-> e], EnqueueAndDrain(es)
      PROVE  pBox'[i] = e /\ i \in DOMAIN es /\ Drain(es)
  BY <1>5 DEF EnqueueAndDrain, Enqueued
<1>6. CASE i # j
  <2>1. latest'[i] = latest[i] /\ pLocal'[i] = pLocal[i] /\ (i \in pSaving' <=> i \in pSaving)
        /\ (i \in pGone' <=> i \in pGone)
    BY <1>2, <1>6 DEF SaveHost, SecretSaved, EditRecord, DeleteHost, Times, Snaps, UserRest
  <2>2. Fits(K, latest[i], records'[i]) /\ Fits(K, latest[i], late'[i])
    BY <1>1 DEF BothBody, IdBody, IdOk
  <2>3. /\ Later(K, K, i) /\ IdBody(K, i)' /\ 0 \notin K
        /\ HeldOk(K, latest'[i], pLocal[i], pBox[i], i \in pGone)
        /\ DrainOk(K, i, latest'[i], records'[i], pLocal[i], pBox[i], i \in pSaving, drain)
        /\ SyncOk(K, i, latest'[i], records'[i], pLocal[i], pSync)
    BY <1>1, <1>2, <2>1, <2>2, SameKinds
  <2>4. CASE SaveHost(j)
    <3>1. pBox' = pBox /\ drain' = drain
      BY <2>4 DEF SaveHost
    <3>2. DrainOk(K, i, latest'[i], records'[i], pLocal'[i], pBox'[i], i \in pSaving', drain')
      BY <2>1, <2>3, <3>1 DEF DrainOk, CarriedOk
    <3>3. HeldOk(K, latest'[i], pLocal'[i], pBox'[i], i \in pGone')
      BY <2>1, <2>3, <3>1 DEF HeldOk
    <3>4. PhoneBody(K, i)'
      BY <1>1, <2>1, <2>3, <3>2, <3>3 DEF PhoneBody
    <3> QED BY <2>3, <3>4 DEF BothBody
  <2>5. CASE SecretSaved(j) \/ EditRecord(j) \/ DeleteHost(j)
    <3>1. PICK es : EnqueueAndDrain(es) /\ i \notin DOMAIN es
      BY <1>6, <2>5 DEF SecretSaved, EditRecord, DeleteHost
    <3>2. pBox'[i] = pBox[i] /\ Drain(es)
      BY <1>4, <3>1 DEF EnqueueAndDrain
    <3>3. HeldOk(K, latest'[i], pLocal'[i], pBox'[i], i \in pGone')
      BY <2>1, <2>3, <3>2 DEF HeldOk
    <3>4. DrainOk(K, i, latest'[i], records'[i], pLocal'[i], pBox'[i], i \in pSaving', drain')
      BY <1>2, <1>3, <2>1, <2>3, <3>2, <3>3, DrainStepOk
    <3>5. PhoneBody(K, i)'
      BY <1>1, <2>1, <2>3, <3>3, <3>4 DEF PhoneBody
    <3> QED BY <2>3, <3>5 DEF BothBody
  <2> QED BY <2>4, <2>5
<1>7. CASE SecretSaved(i)
  <2>1. latest' = latest /\ pLocal' = pLocal /\ pGone' = pGone
    BY <1>7 DEF SecretSaved
  <2>2. Fits(K, latest[i], records'[i]) /\ Fits(K, latest[i], late'[i])
    BY <1>1 DEF BothBody, IdBody, IdOk
  <2>3. /\ Later(K, K, i) /\ IdBody(K, i)' /\ 0 \notin K
        /\ HeldOk(K, latest'[i], pLocal[i], pBox[i], i \in pGone)
        /\ DrainOk(K, i, latest'[i], records'[i], pLocal[i], pBox[i], i \in pSaving, drain)
        /\ SyncOk(K, i, latest'[i], records'[i], pLocal[i], pSync)
    BY <1>1, <1>2, <2>1, <2>2, SameKinds
  <2>4. PICK es : es = [k \in {i} |-> Put] /\ EnqueueAndDrain(es)
    BY <1>7 DEF SecretSaved
  <2>5. pBox'[i] = Put /\ i \in DOMAIN es /\ Drain(es)
    BY <1>5, <2>4
  <2>6. HeldOk(K, latest'[i], pLocal'[i], pBox'[i], i \in pGone')
    BY <2>1, <2>3, <2>5 DEF HeldOk, Put
  <2>7. DrainOk(K, i, latest'[i], records'[i], pLocal'[i], pBox'[i], i \in pSaving', drain')
    BY <1>2, <1>3, <2>3, <2>5, <2>6, DrainStepOk
  <2>8. PhoneBody(K, i)'
    BY <1>1, <2>1, <2>3, <2>6, <2>7 DEF PhoneBody
  <2> QED BY <2>3, <2>8 DEF BothBody
<1>8. CASE SaveHost(i) \/ EditRecord(i) \/ DeleteHost(i)
  <2>1. PICK dead \in BOOLEAN : (dead <=> DeleteHost(i)) /\ latest'[i] = [at |-> clock + 1, dead |-> dead]
    <3>1. CASE SaveHost(i) \/ EditRecord(i)
      <4>1. latest'[i] = [at |-> clock + 1, dead |-> FALSE] /\ pLocal'[i] = clock + 1
        BY <1>2, <3>1 DEF SaveHost, EditRecord, Snaps, Times
      <4>2. ~DeleteHost(i)
        BY <1>2, <4>1 DEF DeleteHost, Times
      <4> QED BY <4>1, <4>2
    <3>2. CASE DeleteHost(i)
      BY <1>2, <3>2 DEF DeleteHost, Snaps
    <3> QED BY <1>8, <3>1, <3>2
  <2>2. pSync.pc # "save" /\ i \notin pSaving
    BY <1>8 DEF SaveHost, EditRecord, DeleteHost, Acts
  <2>3. PICK K2 \in Kinds :
           /\ Later(K, K2, i) /\ IdBody(K2, i)' /\ 0 \notin K2 /\ (clock + 1 \in K2 <=> dead)
           /\ HeldOk(K2, latest'[i], pLocal[i], pBox[i], i \in pGone)
           /\ DrainOk(K2, i, latest'[i], records'[i], pLocal[i], pBox[i], i \in pSaving, drain)
           /\ SyncOk(K2, i, latest'[i], records'[i], pLocal[i], pSync)
    BY <1>1, <2>1, NewKinds
  <2>4. SyncOk(K2, i, latest'[i], records'[i], pLocal'[i], pSync')
    BY <1>1, <2>2, <2>3, SyncElsewhere
  <2>5. latest'[i].at = clock + 1 /\ clock + 1 <= latest'[i].at
    BY <1>2, <2>1
  <2>6. HeldOk(K2, latest'[i], pLocal'[i], pBox'[i], i \in pGone')
    <3>1. CASE SaveHost(i)
      <4>1. pLocal'[i] = clock + 1 /\ pBox' = pBox /\ pGone' = pGone
        BY <1>2, <3>1 DEF SaveHost, Times
      <4>2. ~dead
        BY <1>2, <2>1, <4>1 DEF DeleteHost, Times
      <4> QED BY <1>2, <2>3, <2>5, <4>1, <4>2 DEF HeldOk
    <3>2. CASE EditRecord(i)
      <4>1. pLocal'[i] = clock + 1 /\ pBox'[i] = Put
        BY <1>2, <1>5, <3>2 DEF EditRecord, Times
      <4>2. ~dead
        BY <1>2, <2>1, <4>1 DEF DeleteHost, Times
      <4> QED BY <1>2, <2>3, <2>5, <4>1, <4>2 DEF HeldOk, Put
    <3>3. CASE DeleteHost(i)
      <4>1. pLocal'[i] = 0 /\ i \in pGone' /\ dead
        BY <1>2, <2>1, <3>3 DEF DeleteHost, Times
      <4>2. pBox'[i] = Del(clock + 1)
        BY <1>2, <1>5, <3>3 DEF DeleteHost
      <4> QED BY <1>2, <2>3, <2>5, <4>1, <4>2 DEF HeldOk, Del
    <3> QED BY <1>8, <3>1, <3>2, <3>3
  <2>7. DrainOk(K2, i, latest'[i], records'[i], pLocal'[i], pBox'[i], i \in pSaving', drain')
    <3>1. CASE SaveHost(i)
      <4>1. pBox' = pBox /\ drain' = drain /\ i \in pSaving'
        BY <3>1 DEF SaveHost
      <4>2. i \in drain.carried => CarriedOk(pLocal'[i], pBox[i], records'[i], i \in pSaving', drain.snap[i])
        BY <2>3, <4>1 DEF DrainOk, CarriedOk
      <4> QED BY <2>3, <4>1, <4>2 DEF DrainOk
    <3>2. CASE EditRecord(i) \/ DeleteHost(i)
      <4>1. PICK es : EnqueueAndDrain(es) /\ i \in DOMAIN es
        BY <3>2 DEF EditRecord, DeleteHost
      <4>2. Drain(es)
        BY <4>1 DEF EnqueueAndDrain
      <4> QED BY <1>2, <1>3, <2>3, <2>6, <4>1, <4>2, DrainStepOk
    <3> QED BY <1>8, <3>1, <3>2
  <2>8. PhoneBody(K2, i)'
    BY <2>4, <2>6, <2>7 DEF PhoneBody
  <2> QED BY <2>3, <2>8 DEF BothBody
<1> QED BY <1>6, <1>7, <1>8

\* No sync, and a sync that starts.
Fresh(q) ==
  \/ q = NoSync \/ q = [NoSync EXCEPT !.pc = "drain"]
  \/ \E a : q = [NoSync EXCEPT !.pc = "get", !.asked = a]

\* No drain and no sync, and a sync that starts.
LEMMA NoneOk ==
  ASSUME NEW K \in Kinds, NEW i \in PhoneIds, NEW t \in AnyRec, 0 \notin K, NEW r, NEW l, NEW b, NEW w
  PROVE  /\ Nothing[i] = NoRec /\ Fits(K, t, NoRec) /\ DrainOk(K, i, t, r, l, b, w, NoDrain)
         /\ \A q : Fresh(q) => SyncOk(K, i, t, r, l, q)
<1>1. Nothing[i] = NoRec
  BY DEF Nothing, PhoneIds
<1>2. Fits(K, t, NoRec)
  BY DEF Fits, NoRec, AnyRec
<1>3. ASSUME NEW q, Fresh(q) PROVE q.snap = Nothing /\ q.pc \in {"idle", "drain", "get"}
  <2>1. CASE q = NoSync
    BY <2>1 DEF NoSync
  <2>2. CASE q = [NoSync EXCEPT !.pc = "drain"]
    BY <2>2 DEF NoSync
  <2>3. ASSUME NEW a, q = [NoSync EXCEPT !.pc = "get", !.asked = a] PROVE q.snap = Nothing /\ q.pc = "get"
    BY <2>3 DEF NoSync
  <2> QED BY <1>3, <2>1, <2>2, <2>3 DEF Fresh
<1>4. ASSUME NEW q, Fresh(q) PROVE SyncOk(K, i, t, r, l, q)
  BY <1>1, <1>2, <1>3, <1>4 DEF SyncOk
<1>5. DrainOk(K, i, t, r, l, b, w, NoDrain)
  BY <1>1, <1>2 DEF DrainOk, NoDrain
<1> QED BY <1>1, <1>2, <1>4, <1>5

\* A request of the phone is processed.
LEMMA PushedBoth ==
  ASSUME Typed, Typed', PhoneTyped, PhoneTyped', NEW K \in Kinds, NEW i \in PhoneIds, BothBody(K, i),
         UNCHANGED desktop, latest' = latest, late' = late, NEW snap \in Snaps(clock), ApplyPush(snap),
         Fits(K, latest[i], snap[i])
  PROVE  /\ Later(K, K, i) /\ IdBody(K, i)' /\ 0 \notin K /\ snap[i].at <= records'[i].at
         /\ HeldOk(K, latest'[i], pLocal[i], pBox[i], i \in pGone)
         /\ DrainOk(K, i, latest'[i], records'[i], pLocal[i], pBox[i], i \in pSaving, drain)
         /\ SyncOk(K, i, latest'[i], records'[i], pLocal[i], pSync)
<1>1. i \in Ids
  BY DEF PhoneIds
<1>2. /\ Fits(K, latest[i], records'[i]) /\ records[i].at <= records'[i].at
      /\ snap[i].at <= records'[i].at
  BY <1>1, ServedId DEF BothBody
<1>3. Fits(K, latest[i], late'[i])
  BY DEF BothBody, IdBody, IdOk
<1> QED BY <1>2, <1>3, SameKinds

\* The drain's steps.
LEMMA DrainId ==
  ASSUME Typed, Typed', PhoneTyped, PhoneTyped', NEW K \in Kinds, NEW i \in PhoneIds,
         BothBody(K, i), ServeDrain \/ DrainDone
  PROVE  Later(K, K, i) /\ BothBody(K, i)'
<1>1. /\ UNCHANGED desktop /\ latest' = latest /\ late' = late /\ pGone' = pGone /\ pSaving' = pSaving
      /\ pLocal' = pLocal
  BY DEF ServeDrain, DrainDone, PhoneRest
<1>2. /\ i \in Ids /\ latest[i] \in AnyRec /\ records[i] \in AnyRec /\ pLocal[i] \in Nat
      /\ drain \in Drains(clock, revision) /\ drain.snap \in Snaps(clock)
  BY PhoneIdTyped
<1>3. CASE ServeDrain
  <2>1. ApplyPush(drain.snap) /\ pBox' = pBox /\ pSync' = pSync
    BY <1>3 DEF ServeDrain
  <2>2. /\ Later(K, K, i) /\ IdBody(K, i)' /\ drain.snap[i].at <= records'[i].at
        /\ HeldOk(K, latest'[i], pLocal[i], pBox[i], i \in pGone)
        /\ DrainOk(K, i, latest'[i], records'[i], pLocal[i], pBox[i], i \in pSaving, drain)
        /\ SyncOk(K, i, latest'[i], records'[i], pLocal[i], pSync)
    BY <1>1, <1>2, <2>1, PushedBoth DEF BothBody, PhoneBody, DrainOk
  <2>3. drain'.snap = drain.snap /\ drain'.carried = drain.carried
    BY <1>2, <1>3 DEF ServeDrain, Drains
  <2>4. DrainOk(K, i, latest'[i], records'[i], pLocal'[i], pBox'[i], i \in pSaving', drain')
    BY <1>1, <2>1, <2>2, <2>3 DEF DrainOk
  <2>5. PhoneBody(K, i)'
    BY <1>1, <2>1, <2>2, <2>4 DEF PhoneBody
  <2> QED BY <2>2, <2>5 DEF BothBody
<1>4. CASE DrainDone
  <2>1. records' = records
    BY <1>4 DEF DrainDone, server
  <2>2. Fits(K, latest[i], records'[i]) /\ Fits(K, latest[i], late'[i]) /\ records[i].at <= records'[i].at
    BY <1>1, <1>2, <2>1 DEF BothBody, IdBody, IdOk, AnyRec
  <2>3. /\ Later(K, K, i) /\ IdBody(K, i)' /\ 0 \notin K
        /\ HeldOk(K, latest'[i], pLocal[i], pBox[i], i \in pGone)
        /\ SyncOk(K, i, latest'[i], records'[i], pLocal[i], pSync)
    BY <1>1, <2>2, SameKinds
  <2>4. pBox'[i] = NoEntry \/ pBox'[i] = pBox[i]
    BY <1>4 DEF DrainDone
  <2>5. HeldOk(K, latest'[i], pLocal'[i], pBox'[i], i \in pGone')
    BY <1>1, <2>3, <2>4 DEF HeldOk, NoEntry
  <2>6. pBox'[i].at \in Nat /\ pBox'[i].op \in {"none", "put", "delete"}
    BY <1>2 DEF PhoneTyped, Entries, Typed
  <2>7. (drain' = Draining(pLocal, pBox') /\ pSync' = pSync) \/ SettleDrain(pRev')
    BY <1>4 DEF DrainDone
  <2>8. DrainOk(K, i, latest'[i], records'[i], pLocal'[i], pBox'[i], i \in pSaving', drain')
    <3>1. CASE drain' = NoDrain
      BY <1>1, <1>2, <2>3, <3>1, NoneOk
    <3>2. CASE drain' = Draining(pLocal', pBox')
      BY <1>1, <1>2, <2>3, <2>5, <2>6, <3>2, DrainingOk
    <3> QED BY <1>1, <2>7, <3>1, <3>2 DEF SettleDrain
  <2>9. SyncOk(K, i, latest'[i], records'[i], pLocal'[i], pSync')
    <3>1. pSync' = pSync \/ Fresh(pSync')
      BY <2>7 DEF SettleDrain, Fresh
    <3> QED BY <1>1, <1>2, <2>3, <3>1, NoneOk
  <2>10. PhoneBody(K, i)'
    BY <2>5, <2>8, <2>9 DEF PhoneBody
  <2> QED BY <2>3, <2>10 DEF BothBody
<1> QED BY <1>3, <1>4

\* The sync's steps up to the merge, of which the last replaces nothing yet.
LEMMA SyncId ==
  ASSUME Typed, Typed', PhoneTyped, PhoneTyped', NEW K \in Kinds, NEW i \in PhoneIds, BothBody(K, i),
         SyncStart \/ ServeSync \/ SyncRefill \/ SyncRefilled
  PROVE  Later(K, K, i) /\ BothBody(K, i)'
<1>1. /\ UNCHANGED desktop /\ latest' = latest /\ late' = late /\ pGone' = pGone /\ pSaving' = pSaving
      /\ pLocal' = pLocal /\ pBox' = pBox /\ records' = records
  BY DEF SyncStart, ServeSync, SyncRefill, SyncRefilled, SyncRest, PhoneRest, server
<1>2. /\ i \in Ids /\ latest[i] \in AnyRec /\ records[i] \in AnyRec /\ pLocal[i] \in Nat
      /\ pBox[i].at \in Nat /\ pBox[i].op \in {"none", "put", "delete"}
      /\ drain \in Drains(clock, revision) /\ pSync \in Syncs(clock, revision)
  BY PhoneIdTyped
<1>3. Fits(K, latest[i], records'[i]) /\ Fits(K, latest[i], late'[i]) /\ records[i].at <= records'[i].at
  BY <1>1, <1>2 DEF BothBody, IdBody, IdOk, AnyRec
<1>4. /\ Later(K, K, i) /\ IdBody(K, i)' /\ 0 \notin K
      /\ HeldOk(K, latest'[i], pLocal[i], pBox[i], i \in pGone)
      /\ DrainOk(K, i, latest'[i], records'[i], pLocal[i], pBox[i], i \in pSaving, drain)
      /\ SyncOk(K, i, latest'[i], records'[i], pLocal[i], pSync)
  BY <1>1, <1>3, SameKinds
<1>5. DrainOk(K, i, latest'[i], records'[i], pLocal'[i], pBox'[i], i \in pSaving', drain')
  <2>1. CASE drain' = drain
    BY <1>1, <1>4, <2>1
  <2>2. CASE Drain(<<>>)
    BY <1>1, <1>2, <1>4, <2>2, DrainStepOk
  <2> QED BY <2>1, <2>2 DEF SyncStart, ServeSync, SyncRefill, SyncRefilled
<1>6. SyncOk(K, i, latest'[i], records'[i], pLocal'[i], pSync')
  <2>1. CASE SyncStart \/ SyncRefilled
    <3>1. Fresh(pSync')
      BY <2>1 DEF SyncStart, SyncRefilled, Fresh
    <3> QED BY <1>1, <1>2, <1>4, <3>1, NoneOk
  <2>2. CASE ServeSync
    <3>1. pSync' = NoSync \/ pSync' = [pSync EXCEPT !.pc = "got", !.snap = records, !.ans = revision]
      BY <2>2 DEF ServeSync
    <3>2. CASE pSync' = [pSync EXCEPT !.pc = "got", !.snap = records, !.ans = revision]
      <4>1. pSync'.pc = "got" /\ pSync'.snap = records
        BY <1>2, <3>2 DEF Syncs
      <4> QED BY <1>1, <1>3, <4>1 DEF SyncOk
    <3>3. CASE pSync' = NoSync
      <4>1. Fresh(pSync')
        BY <3>3 DEF Fresh
      <4> QED BY <1>1, <1>2, <1>4, <4>1, NoneOk
    <3> QED BY <3>1, <3>2, <3>3
  <2>3. CASE SyncRefill
    <3>1. pSync'.pc = "refill" /\ pSync'.snap = Payload(pLocal, [k \in PhoneIds |-> Put])
      BY <1>2, <2>3 DEF SyncRefill, Syncs
    <3>2. pSync'.snap[i] = [at |-> pLocal[i], dead |-> FALSE]
      <4>1. PICK box : box = [k \in PhoneIds |-> Put]
        OBVIOUS
      <4>2. box[i] = Put /\ Put.op = "put"
        BY <4>1 DEF Put
      <4>3. Payload(pLocal, box)[i] = SentAt(pLocal[i], Put)
        BY <4>2, PayloadAt
      <4> QED BY <3>1, <4>1, <4>2, <4>3 DEF SentAt
    <3>3. Fits(K, latest'[i], pSync'.snap[i])
      BY <1>4, <3>2 DEF HeldOk, Fits
    <3> QED BY <3>1, <3>3 DEF SyncOk
  <2> QED BY <2>1, <2>2, <2>3
<1>7. PhoneBody(K, i)'
  BY <1>1, <1>4, <1>5, <1>6 DEF PhoneBody
<1> QED BY <1>4, <1>7 DEF BothBody

\* An empty account is filled, and a snapshot merged and stored.
LEMMA MergeId ==
  ASSUME Typed, Typed', PhoneTyped, PhoneTyped', NEW K \in Kinds, NEW i \in PhoneIds, BothBody(K, i),
         ServeRefill \/ SyncMerge \/ SyncApply
  PROVE  Later(K, K, i) /\ BothBody(K, i)'
<1>1. UNCHANGED desktop /\ latest' = latest /\ late' = late /\ pGone' = pGone /\ pSaving' = pSaving
  BY DEF ServeRefill, SyncMerge, SyncApply, SyncRest, PhoneRest
<1>2. /\ i \in Ids /\ latest[i] \in AnyRec /\ records[i] \in AnyRec /\ pLocal[i] \in Nat
      /\ drain \in Drains(clock, revision) /\ pSync \in Syncs(clock, revision)
      /\ pSync.snap \in Snaps(clock) /\ pSync.snap[i] \in AnyRec /\ drain.snap[i] \in AnyRec
      /\ pSync.pc = "save" => pSync.merged[i] \in Nat
  BY PhoneIdTyped
<1>3. CASE ServeRefill
  <2>1. ApplyPush(pSync.snap) /\ pBox' = pBox /\ drain' = drain /\ pLocal' = pLocal
    BY <1>3 DEF ServeRefill
  <2>2. /\ Later(K, K, i) /\ IdBody(K, i)'
        /\ HeldOk(K, latest'[i], pLocal[i], pBox[i], i \in pGone)
        /\ DrainOk(K, i, latest'[i], records'[i], pLocal[i], pBox[i], i \in pSaving, drain)
        /\ SyncOk(K, i, latest'[i], records'[i], pLocal[i], pSync)
    BY <1>1, <1>2, <2>1, PushedBoth DEF BothBody, PhoneBody, SyncOk
  <2>3. pSync'.snap = pSync.snap /\ pSync'.pc = "refilled"
    BY <1>2, <1>3 DEF ServeRefill, Syncs
  <2>4. SyncOk(K, i, latest'[i], records'[i], pLocal'[i], pSync')
    BY <2>2, <2>3 DEF SyncOk
  <2>5. PhoneBody(K, i)'
    BY <1>1, <2>1, <2>2, <2>4 DEF PhoneBody
  <2> QED BY <2>2, <2>5 DEF BothBody
<1>4. ASSUME records' = records
      PROVE  /\ Later(K, K, i) /\ IdBody(K, i)' /\ 0 \notin K
             /\ HeldOk(K, latest'[i], pLocal[i], pBox[i], i \in pGone)
             /\ DrainOk(K, i, latest'[i], records'[i], pLocal[i], pBox[i], i \in pSaving, drain)
             /\ SyncOk(K, i, latest'[i], records'[i], pLocal[i], pSync)
  <2>1. Fits(K, latest[i], records'[i]) /\ Fits(K, latest[i], late'[i]) /\ records[i].at <= records'[i].at
    BY <1>1, <1>2, <1>4 DEF BothBody, IdBody, IdOk, AnyRec
  <2> QED BY <1>1, <2>1, SameKinds
<1>5. CASE SyncMerge
  <2>0. records' = records /\ pLocal' = pLocal /\ pSync.pc = "got"
    BY <1>5 DEF SyncMerge, server
  <2>1. PICK es : /\ es = [k \in Unpushed(pSync.snap) |-> Put] /\ pBox' = Enqueued(es)
                  /\ drain' = [drain EXCEPT !.carried = Carried(es)]
    BY <1>5 DEF SyncMerge
  <2>2. (i \in DOMAIN es => pBox'[i] = Put) /\ (i \notin DOMAIN es => pBox'[i] = pBox[i])
    BY <2>1 DEF Enqueued
  <2>3. i \in Carried(es) => i \in drain.carried /\ i \notin DOMAIN es
    BY DEF Carried
  <2>4. HeldOk(K, latest'[i], pLocal'[i], pBox'[i], i \in pGone')
    BY <1>1, <1>4, <2>0, <2>2 DEF HeldOk, Put
  <2>5. DrainOk(K, i, latest'[i], records'[i], pLocal'[i], pBox'[i], i \in pSaving', drain')
    BY <1>1, <1>2, <1>4, <2>0, <2>1, <2>2, <2>3, DrainLess
  <2>6. pSync'.pc = "save" /\ pSync'.snap = Nothing /\ pSync'.merged = Merged(pSync.snap)
    BY <1>2, <1>5 DEF SyncMerge, Syncs
  <2>7. pSync'.merged[i] = IF pLocal[i] > pSync.snap[i].at THEN pLocal[i] ELSE Live(pSync.snap[i])
    BY <2>6 DEF Merged, LocalWins
  <2>8. Fits(K, latest'[i], pSync.snap[i]) /\ pSync.snap[i].at <= records'[i].at
    BY <1>4, <2>0 DEF SyncOk
  <2>9. pLocal[i] <= latest'[i].at /\ pLocal[i] \notin K /\ 0 \notin K
    BY <1>4, <2>0 DEF HeldOk
  <2>10. LET m == pSync'.merged[i] IN m <= latest'[i].at /\ m \notin K /\ MergeOk(records'[i], pLocal[i], m)
    <3>1. CASE pLocal[i] > pSync.snap[i].at
      BY <2>7, <2>9, <3>1 DEF MergeOk
    <3>2. CASE ~(pLocal[i] > pSync.snap[i].at)
      BY <1>1, <1>2, <2>0, <2>7, <2>8, <2>9, <3>2 DEF MergeOk, Live, Fits, AnyRec
    <3> QED BY <3>1, <3>2
  <2>11. SyncOk(K, i, latest'[i], records'[i], pLocal'[i], pSync')
    BY <1>1, <1>2, <1>4, <2>0, <2>6, <2>10, NoneOk DEF SyncOk
  <2>12. PhoneBody(K, i)'
    BY <2>4, <2>5, <2>11 DEF PhoneBody
  <2> QED BY <1>4, <2>0, <2>12 DEF BothBody
<1>6. CASE SyncApply
  <2>0. /\ records' = records /\ pBox' = pBox /\ drain' = drain /\ pSync' = NoSync /\ pSync.pc = "save"
        /\ pLocal' = pSync.merged
    BY <1>6 DEF SyncApply, server
  <2>1. PICK m \in Nat : m = pLocal'[i]
    BY <1>2, <2>0
  <2>2. m <= latest'[i].at /\ m \notin K /\ MergeOk(records'[i], pLocal[i], m)
    BY <1>4, <2>0, <2>1 DEF SyncOk
  <2>3. HeldOk(K, latest'[i], pLocal'[i], pBox'[i], i \in pGone')
    BY <1>1, <1>4, <2>0, <2>1, <2>2 DEF HeldOk
  <2>4. DrainOk(K, i, latest'[i], records'[i], pLocal'[i], pBox'[i], i \in pSaving', drain')
    <3>1. DrainOk(K, i, latest'[i], records'[i], pLocal[i], pBox[i], i \in pSaving, drain)
      BY <1>4, <2>0
    <3>2. ASSUME CarriedOk(pLocal[i], pBox[i], records'[i], i \in pSaving, drain.snap[i])
          PROVE  CarriedOk(m, pBox[i], records'[i], i \in pSaving, drain.snap[i])
      BY <2>2, <3>2 DEF CarriedOk, MergeOk
    <3> QED BY <1>1, <2>0, <2>1, <3>1, <3>2 DEF DrainOk
  <2>5. SyncOk(K, i, latest'[i], records'[i], pLocal'[i], pSync')
    BY <1>1, <1>2, <1>4, <2>0, NoneOk DEF Fresh
  <2>6. PhoneBody(K, i)'
    BY <2>3, <2>4, <2>5 DEF PhoneBody
  <2> QED BY <1>4, <2>0, <2>6 DEF BothBody
<1> QED BY <1>3, <1>5, <1>6

\* Failures: a request given up may be processed later.
LEMMA PhoneFailureId ==
  ASSUME Typed, Typed', PhoneTyped, PhoneTyped', NEW K \in Kinds, NEW i \in PhoneIds, BothBody(K, i),
         DrainFails \/ SyncFails \/ PhoneRestarts
  PROVE  Later(K, K, i) /\ BothBody(K, i)'
<1>1. /\ UNCHANGED desktop /\ latest' = latest /\ pGone' = pGone
      /\ pLocal' = pLocal /\ pBox' = pBox /\ records' = records
  BY DEF DrainFails, SyncFails, PhoneRestarts, PhoneRest, server
<1>2. i \in Ids /\ latest[i] \in AnyRec /\ records[i] \in AnyRec
  BY PhoneIdTyped
<1>3. late' = late \/ late' = drain.snap \/ late' = pSync.snap
  BY DEF DrainFails, SyncFails, PhoneRestarts, Straggles
<1>4. Fits(K, latest[i], late[i]) /\ Fits(K, latest[i], drain.snap[i]) /\ Fits(K, latest[i], pSync.snap[i])
  BY DEF BothBody, IdBody, IdOk, PhoneBody, DrainOk, SyncOk
<1>5. Fits(K, latest[i], late'[i])
  BY <1>3, <1>4
<1>6. Fits(K, latest[i], records'[i]) /\ records[i].at <= records'[i].at
  BY <1>1, <1>2 DEF BothBody, IdBody, IdOk, AnyRec
<1>7. /\ Later(K, K, i) /\ IdBody(K, i)' /\ 0 \notin K
      /\ HeldOk(K, latest'[i], pLocal[i], pBox[i], i \in pGone)
      /\ DrainOk(K, i, latest'[i], records'[i], pLocal[i], pBox[i], i \in pSaving, drain)
      /\ SyncOk(K, i, latest'[i], records'[i], pLocal[i], pSync)
  BY <1>1, <1>5, <1>6, SameKinds
<1>8. drain' = NoDrain \/ (drain' = drain /\ pSaving' = pSaving)
  BY DEF DrainFails, SyncFails, PhoneRestarts, SettleDrain
<1>9. DrainOk(K, i, latest'[i], records'[i], pLocal'[i], pBox'[i], i \in pSaving', drain')
  BY <1>1, <1>2, <1>7, <1>8, NoneOk
<1>10. pSync' = pSync \/ Fresh(pSync')
  BY DEF DrainFails, SyncFails, PhoneRestarts, SettleDrain, AfterFailure, Fresh
<1>11. SyncOk(K, i, latest'[i], records'[i], pLocal'[i], pSync')
  BY <1>1, <1>2, <1>7, <1>10, NoneOk
<1>12. PhoneBody(K, i)'
  BY <1>1, <1>7, <1>9, <1>11 DEF PhoneBody
<1> QED BY <1>7, <1>12 DEF BothBody

\* One id, whatever the phone, the desktops and the server do.
LEMMA BothStep ==
  ASSUME Typed, Typed', PhoneTyped, PhoneTyped', Control,
         NEW K \in Kinds, NEW i \in PhoneIds, i \notin raced', BothBody(K, i), [PhoneNext]_allVars
  PROVE  \E K2 \in Kinds : Later(K, K2, i) /\ BothBody(K2, i)'
<1>1. ASSUME [Next]_vars, UNCHANGED phone PROVE \E K2 \in Kinds : Later(K, K2, i) /\ BothBody(K2, i)'
  <2>1. i \in Ids /\ i # Pref
    BY DEF PhoneIds
  <2>2. PICK K2 \in Kinds : Later(K, K2, i) /\ IdBody(K2, i)'
    BY <1>1, <2>1, NextBody DEF BothBody
  <2>3. records[i].at <= records'[i].at
    BY <1>1, <2>1, NextForward DEF Forward
  <2>4. /\ HeldOk(K2, latest'[i], pLocal[i], pBox[i], i \in pGone)
        /\ DrainOk(K2, i, latest'[i], records'[i], pLocal[i], pBox[i], i \in pSaving, drain)
        /\ SyncOk(K2, i, latest'[i], records'[i], pLocal[i], pSync)
    BY <2>2, <2>3, PhoneStill DEF BothBody
  <2>5. PhoneBody(K2, i)'
    BY <1>1, <2>4 DEF PhoneBody, phone
  <2> QED BY <2>2, <2>5 DEF BothBody
<1>2. CASE UNCHANGED allVars
  BY <1>1, <1>2 DEF allVars, vars, phone
<1>3. ASSUME NEW j \in PhoneIds, SaveHost(j) \/ SecretSaved(j) \/ EditRecord(j) \/ DeleteHost(j)
      PROVE  \E K2 \in Kinds : Later(K, K2, i) /\ BothBody(K2, i)'
  BY <1>3, PhoneUserId
<1>4. CASE SyncStart \/ PhoneStep
  <2>1. Later(K, K, i) /\ BothBody(K, i)'
    BY <1>4, DrainId, SyncId, MergeId DEF PhoneStep, DrainStep, SyncStep
  <2> QED BY <2>1
<1>5. CASE DrainFails \/ SyncFails \/ PhoneRestarts
  <2>1. Later(K, K, i) /\ BothBody(K, i)'
    BY <1>5, PhoneFailureId
  <2> QED BY <2>1
<1> QED BY <1>1, <1>2, <1>3, <1>4, <1>5 DEF PhoneNext

\* The steps of the phone are not the desktops'.
LEMMA PhoneFrame ==
  ASSUME [PhoneNext]_allVars
  PROVE  ([Next]_vars /\ UNCHANGED phone) \/ UNCHANGED desktop
<1>1. CASE UNCHANGED allVars
  BY <1>1 DEF allVars, vars, phone, desktop
<1>2. ASSUME NEW j \in PhoneIds, SaveHost(j) \/ SecretSaved(j) \/ EditRecord(j) \/ DeleteHost(j)
      PROVE  UNCHANGED desktop
  BY <1>2 DEF SaveHost, SecretSaved, EditRecord, DeleteHost, UserRest
<1>3. CASE SyncStart \/ PhoneStep
  BY <1>3 DEF SyncStart, PhoneStep, DrainStep, SyncStep, ServeDrain, DrainDone, ServeSync, SyncRefill,
              ServeRefill, SyncRefilled, SyncMerge, SyncApply, SyncRest, PhoneRest
<1>4. CASE DrainFails \/ SyncFails \/ PhoneRestarts
  BY <1>4 DEF DrainFails, SyncFails, PhoneRestarts, PhoneRest
<1> QED BY <1>1, <1>2, <1>3, <1>4 DEF PhoneNext

\* What somebody acted on while it was being replaced is never taken back.
LEMMA PhoneRacedGrows == ASSUME [PhoneNext]_allVars PROVE raced \subseteq raced'
<1>1. CASE UNCHANGED allVars
  BY <1>1 DEF allVars, vars
<1>2. ASSUME NEW j \in PhoneIds, SaveHost(j) \/ SecretSaved(j) \/ EditRecord(j) \/ DeleteHost(j)
      PROVE  raced \subseteq raced'
  BY <1>2 DEF SaveHost, SecretSaved, EditRecord, DeleteHost, Acts
<1>3. CASE SyncStart \/ PhoneStep
  BY <1>3 DEF SyncStart, PhoneStep, DrainStep, SyncStep, ServeDrain, DrainDone, ServeSync, SyncRefill,
              ServeRefill, SyncRefilled, SyncMerge, SyncApply, SyncRest, PhoneRest
<1>4. CASE DrainFails \/ SyncFails \/ PhoneRestarts
  BY <1>4 DEF DrainFails, SyncFails, PhoneRestarts, PhoneRest
<1> QED BY <1>1, <1>2, <1>3, <1>4, RacedGrows DEF PhoneNext

\* The invariant of the phone and the desktops, step by step,
LEMMA PhoneInvStep ==
  ASSUME Typed, Typed', PhoneTyped, PhoneTyped', PhoneInv,
         [PhoneNext]_allVars
  PROVE  PhoneInv'
<1>1. Control'
  <2>1. CASE UNCHANGED desktop
    BY <2>1 DEF PhoneInv, Control, desktop
  <2> QED BY <2>1, PhoneFrame, ControlStep DEF PhoneInv
<1>2. ASSUME NEW i \in PhoneIds \ raced' PROVE \E K \in Kinds : BothBody(K, i)'
  <2>1. i \in PhoneIds /\ i \notin raced
    BY PhoneRacedGrows
  <2>2. PICK K \in Kinds : BothBody(K, i)
    BY <2>1 DEF PhoneInv
  <2> QED BY <2>1, <2>2, BothStep DEF PhoneInv
<1> QED BY <1>1, <1>2 DEF PhoneInv

\* in the first state,
LEMMA PhoneInvInit == ASSUME PhoneInit PROVE PhoneInv
<1>1. Init /\ Typed /\ SafeInv
  BY InitTyped, InitSafe DEF PhoneInit
<1>2. ASSUME NEW i \in PhoneIds \ raced PROVE \E K \in Kinds : BothBody(K, i)
  <2>1. i \in Ids \ raced /\ i # Pref
    BY DEF PhoneIds
  <2>2. PICK K \in Kinds : IdBody(K, i)
    BY <1>1, <2>1 DEF SafeInv, IdInv
  <2>3. 0 \notin K /\ latest[i] \in AnyRec
    BY <1>1, <2>1, <2>2, IdTyped DEF IdBody, IdOk
  <2>4. /\ pLocal[i] = 0 /\ pBox[i] = NoEntry /\ drain = NoDrain /\ Fresh(pSync)
    BY DEF PhoneInit, Fresh
  <2>5. HeldOk(K, latest[i], pLocal[i], pBox[i], i \in pGone)
    BY <2>3, <2>4 DEF HeldOk, NoEntry, AnyRec
  <2>6. /\ DrainOk(K, i, latest[i], records[i], pLocal[i], pBox[i], i \in pSaving, drain)
        /\ SyncOk(K, i, latest[i], records[i], pLocal[i], pSync)
    BY <2>3, <2>4, NoneOk
  <2> QED BY <2>2, <2>5, <2>6 DEF BothBody, PhoneBody
<1> QED BY <1>1, <1>2 DEF PhoneInv, SafeInv

\* and of every behaviour.
LEMMA PhoneAlways ==
  PhoneSpec => [](Typed /\ PhoneTyped /\ PhoneInv)
<1>1. PhoneInit => Typed /\ PhoneTyped /\ PhoneInv
  BY PhoneInitTyped, PhoneInvInit
<1>2. Typed /\ PhoneTyped /\ PhoneInv /\ [PhoneNext]_allVars => (Typed /\ PhoneTyped /\ PhoneInv)'
  BY PhoneNextTyped, PhoneInvStep
<1> QED BY <1>1, <1>2, PTL DEF PhoneSpec

\* What the phone's own steps do to the latest edit of an id.
LEMMA PhoneLatest ==
  ASSUME Typed, PhoneTyped, NEW K \in Kinds, NEW i \in PhoneIds, BothBody(K, i), UNCHANGED desktop,
         \/ \E j \in PhoneIds : SaveHost(j) \/ SecretSaved(j) \/ EditRecord(j) \/ DeleteHost(j)
         \/ SyncStart \/ PhoneStep \/ DrainFails \/ SyncFails \/ PhoneRestarts
  PROVE  \/ latest'[i].dead \/ pLocal'[i] = latest'[i].at
         \/ /\ latest'[i] = latest[i] /\ (records[i] = latest[i] => records'[i] = latest[i])
            /\ pLocal[i] = latest[i].at => pLocal'[i] = latest[i].at \/ records'[i] = latest[i]
<1>1. /\ i \in Ids /\ latest[i] \in AnyRec /\ records[i] \in AnyRec /\ pLocal[i] \in Nat
      /\ latest \in Snaps(clock) /\ pLocal \in Times(clock)
      /\ drain.snap \in Snaps(clock) /\ pSync.snap \in Snaps(clock)
      /\ pSync.pc = "save" => pSync.merged[i] \in Nat
  BY PhoneIdTyped DEF Typed, PhoneTyped
<1>2. ASSUME NEW j \in PhoneIds, SaveHost(j) \/ EditRecord(j)
      PROVE  \/ j = i /\ pLocal'[i] = latest'[i].at
             \/ j # i /\ latest'[i] = latest[i] /\ pLocal'[i] = pLocal[i] /\ records' = records
  <2>1. CASE j = i
    BY <1>1, <1>2, <2>1 DEF SaveHost, EditRecord, Snaps, Times
  <2>2. CASE j # i
    BY <1>1, <1>2, <2>2 DEF SaveHost, EditRecord, Snaps, Times, UserRest, server
  <2> QED BY <2>1, <2>2
<1>3. ASSUME NEW j \in PhoneIds, DeleteHost(j)
      PROVE  latest'[i].dead \/ (latest'[i] = latest[i] /\ pLocal'[i] = pLocal[i] /\ records' = records)
  <2>1. CASE j = i
    BY <1>1, <1>3, <2>1 DEF DeleteHost, Snaps
  <2>2. CASE j # i
    BY <1>1, <1>3, <2>2 DEF DeleteHost, Snaps, Times, UserRest, server
  <2> QED BY <2>1, <2>2
<1>4. ASSUME NEW snap \in Snaps(clock), ApplyPush(snap), Fits(K, latest[i], snap[i]), records[i] = latest[i]
      PROVE  records'[i] = latest[i]
  BY <1>1, <1>4, LatestServed DEF BothBody
<1>5. CASE ServeDrain
  <2>1. ApplyPush(drain.snap) /\ latest' = latest /\ pLocal' = pLocal /\ Fits(K, latest[i], drain.snap[i])
    BY <1>5 DEF ServeDrain, PhoneRest, BothBody, PhoneBody, DrainOk
  <2> QED BY <1>1, <1>4, <2>1
<1>6. CASE ServeRefill
  <2>1. ApplyPush(pSync.snap) /\ latest' = latest /\ pLocal' = pLocal /\ Fits(K, latest[i], pSync.snap[i])
    BY <1>6 DEF ServeRefill, SyncRest, PhoneRest, BothBody, PhoneBody, SyncOk
  <2> QED BY <1>1, <1>4, <2>1
<1>7. CASE SyncApply
  <2>1. latest' = latest /\ records' = records /\ pLocal' = pSync.merged /\ pSync.pc = "save"
    BY <1>7 DEF SyncApply, SyncRest, PhoneRest, server
  <2>2. MergeOk(records[i], pLocal[i], pLocal'[i])
    BY <2>1 DEF BothBody, PhoneBody, SyncOk
  <2>3. ASSUME pLocal[i] = latest[i].at, pLocal[i] <= records[i].at PROVE records[i] = latest[i]
    <3>1. Fits(K, latest[i], records[i]) /\ (latest[i].dead <=> latest[i].at \in K)
      BY DEF BothBody, IdBody, IdOk
    <3> QED BY <1>1, <2>3, <3>1, SameRec
  <2>4. pLocal'[i] = pLocal[i] \/ pLocal[i] <= records[i].at
    BY <1>1, <2>1, <2>2 DEF MergeOk, AnyRec
  <2> QED BY <2>1, <2>3, <2>4
<1>8. ASSUME \/ \E j \in PhoneIds : SecretSaved(j)
             \/ SyncStart \/ DrainDone \/ ServeSync \/ SyncRefill \/ SyncRefilled \/ SyncMerge
             \/ DrainFails \/ SyncFails \/ PhoneRestarts
      PROVE  latest' = latest /\ records' = records /\ pLocal' = pLocal
  <2>1. CASE \E j \in PhoneIds : SecretSaved(j)
    BY <2>1 DEF SecretSaved, UserRest, server
  <2>2. CASE SyncStart \/ DrainDone \/ ServeSync \/ SyncRefill \/ SyncRefilled \/ SyncMerge
    BY <2>2 DEF SyncStart, DrainDone, ServeSync, SyncRefill, SyncRefilled, SyncMerge, SyncRest, PhoneRest, server
  <2>3. CASE DrainFails \/ SyncFails \/ PhoneRestarts
    BY <2>3 DEF DrainFails, SyncFails, PhoneRestarts, PhoneRest, server
  <2> QED BY <1>8, <2>1, <2>2, <2>3
<1> QED BY <1>2, <1>3, <1>5, <1>6, <1>7, <1>8 DEF PhoneStep, DrainStep, SyncStep

\* No edit is lost on an account with a phone and any number of desktops,
\* although the phone's drain, its sync and its user interleave at every
\* await, and whatever fails, restarts or arrives late: the latest edit of a
\* record is on the server, on the phone or on a desktop, unless somebody
\* acted on that record while a bootstrap or a merge was replacing it or while
\* its secret was being stored.
THEOREM PhoneEditsKept == PhoneSpec => []EditKept
<1>1. PhoneInit => EditKept
  BY DEF PhoneInit, Init, EditKept, EditThere, EditHeld, PhoneIds, Nothing
<1>2. Typed /\ PhoneTyped /\ Typed' /\ PhoneTyped' /\ PhoneInv /\ EditKept /\ [PhoneNext]_allVars => EditKept'
  <2> SUFFICES ASSUME Typed, PhoneTyped, Typed', PhoneTyped', PhoneInv, EditKept, [PhoneNext]_allVars,
                      NEW i \in PhoneIds, i \notin raced'
               PROVE  \/ latest'[i].dead \/ records'[i] = latest'[i] \/ pLocal'[i] = latest'[i].at
                      \/ \E d \in Devices : local'[d][i] = latest'[i].at
    BY DEF EditKept, EditThere, EditHeld
  <2>0. i \notin raced
    BY PhoneRacedGrows
  <2>1. PICK K \in Kinds : BothBody(K, i)
    BY <2>0 DEF PhoneInv
  <2>2. i \in Ids /\ i # Pref /\ Control
    BY DEF PhoneIds, PhoneInv
  <2>3. \/ latest[i].dead \/ records[i] = latest[i] \/ pLocal[i] = latest[i].at
        \/ \E d \in Devices : local[d][i] = latest[i].at
    BY <2>0 DEF EditKept, EditThere, EditHeld
  <2>4. CASE [Next]_vars /\ UNCHANGED phone
    <3>1. IdInv(i)
      BY <2>1 DEF IdInv, BothBody
    <3>2. latest'[i].dead \/ (\E d \in Devices : local'[d][i] = latest'[i].at) \/ LatestStays(i)
      BY <2>2, <2>4, <3>1, LatestStep
    <3>3. CASE LatestStays(i)
      BY <2>3, <2>4, <3>3 DEF LatestStays, phone
    <3> QED BY <3>2, <3>3
  <2>5. CASE UNCHANGED allVars
    <3>1. [Next]_vars /\ UNCHANGED phone
      BY <2>5 DEF allVars, vars, phone
    <3> QED BY <2>4, <3>1
  <2>6. CASE \/ \E j \in PhoneIds : SaveHost(j) \/ SecretSaved(j) \/ EditRecord(j) \/ DeleteHost(j)
             \/ SyncStart \/ PhoneStep \/ DrainFails \/ SyncFails \/ PhoneRestarts
    <3>1. CASE [Next]_vars /\ UNCHANGED phone
      BY <2>4, <3>1
    <3>2. CASE UNCHANGED desktop
      <4>1. \/ latest'[i].dead \/ pLocal'[i] = latest'[i].at
            \/ /\ latest'[i] = latest[i] /\ (records[i] = latest[i] => records'[i] = latest[i])
               /\ pLocal[i] = latest[i].at => pLocal'[i] = latest[i].at \/ records'[i] = latest[i]
        BY <2>1, <2>6, <3>2, PhoneLatest
      <4>2. local' = local
        BY <3>2 DEF desktop
      <4> QED BY <2>3, <4>1, <4>2
    <3> QED BY <3>1, <3>2, PhoneFrame
  <2> QED BY <2>4, <2>5, <2>6 DEF PhoneNext
<1>3. PhoneSpec => [](Typed /\ PhoneTyped /\ PhoneInv)
  BY PhoneAlways
<1> QED BY <1>1, <1>2, <1>3, PTL DEF PhoneSpec

\* The phone's queue: an entry leaves it only when the server has what the
\* entry stands for, also when the record was edited or deleted again while
\* the drain was under way and when a merge queued it anew, unless somebody
\* acted on that record while it was being replaced or its secret stored.
THEOREM PhoneQueueKept == PhoneSpec => QueueKept
<1>1. Typed /\ PhoneTyped /\ PhoneInv /\ [PhoneNext]_allVars
      => \A i \in PhoneIds \ raced :
            pBox[i] # NoEntry /\ pBox'[i] = NoEntry /\ i \notin pSaving =>
              records[i].at >= (IF pBox[i].op = "delete" THEN pBox[i].at ELSE pLocal[i])
  <2> SUFFICES ASSUME Typed, PhoneTyped, PhoneInv, [PhoneNext]_allVars, NEW i \in PhoneIds, i \notin raced,
                      pBox[i] # NoEntry, pBox'[i] = NoEntry, i \notin pSaving
               PROVE  records[i].at >= (IF pBox[i].op = "delete" THEN pBox[i].at ELSE pLocal[i])
    OBVIOUS
  <2>1. NoEntry # Put /\ \A n : NoEntry # Del(n)
    BY DEF NoEntry, Put, Del
  <2>2. ASSUME NEW es, \A k \in DOMAIN es : es[k] = Put \/ \E n : es[k] = Del(n), pBox' = Enqueued(es) PROVE FALSE
    <3>1. pBox'[i] = IF i \in DOMAIN es THEN es[i] ELSE pBox[i]
      BY <2>2 DEF Enqueued
    <3> QED BY <2>1, <2>2, <3>1
  <2>3. ASSUME NEW j \in PhoneIds, SaveHost(j) \/ SecretSaved(j) \/ EditRecord(j) \/ DeleteHost(j) PROVE FALSE
    <3>1. CASE SaveHost(j)
      BY <3>1 DEF SaveHost
    <3>2. CASE SecretSaved(j) \/ EditRecord(j)
      <4>1. PICK es : es = [k \in {j} |-> Put] /\ pBox' = Enqueued(es)
        BY <3>2 DEF SecretSaved, EditRecord, EnqueueAndDrain
      <4> QED BY <2>2, <4>1
    <3>3. CASE DeleteHost(j)
      <4>1. PICK es : es = [k \in {j} |-> Del(clock')] /\ pBox' = Enqueued(es)
        BY <3>3 DEF DeleteHost, EnqueueAndDrain
      <4> QED BY <2>2, <4>1
    <3> QED BY <2>3, <3>1, <3>2, <3>3
  <2>4. CASE SyncMerge
    <3>1. PICK es : es = [k \in Unpushed(pSync.snap) |-> Put] /\ pBox' = Enqueued(es)
      BY <2>4 DEF SyncMerge
    <3> QED BY <2>2, <3>1
  <2>5. ASSUME pBox' = pBox PROVE FALSE
    BY <2>5
  <2>6. CASE UNCHANGED phone \/ SyncStart \/ ServeDrain \/ ServeSync \/ SyncRefill \/ ServeRefill
             \/ SyncRefilled \/ SyncApply \/ DrainFails \/ SyncFails \/ PhoneRestarts
    BY <2>5, <2>6 DEF phone, SyncStart, ServeDrain, ServeSync, SyncRefill, ServeRefill, SyncRefilled, SyncApply,
                      DrainFails, SyncFails, PhoneRestarts
  <2>7. CASE DrainDone
    <3>1. i \in drain.carried /\ drain.pc = "posted"
      BY <2>5, <2>7 DEF DrainDone
    <3>2. PICK K \in Kinds : BothBody(K, i)
      BY DEF PhoneInv
    <3>3. /\ records[i] \in AnyRec /\ drain.snap[i] \in AnyRec /\ pLocal[i] \in Nat /\ pBox[i].at \in Nat
      BY PhoneIdTyped
    <3>4. /\ CarriedOk(pLocal[i], pBox[i], records[i], i \in pSaving, drain.snap[i])
          /\ drain.snap[i].at <= records[i].at
      BY <3>1, <3>2 DEF BothBody, PhoneBody, DrainOk
    <3> QED BY <3>3, <3>4 DEF CarriedOk, AnyRec
  <2>8. CASE UNCHANGED allVars
    BY <2>6, <2>8 DEF allVars, phone
  <2> QED BY <2>3, <2>4, <2>6, <2>7, <2>8 DEF PhoneNext, PhoneStep, DrainStep, SyncStep
<1>2. PhoneSpec => [](Typed /\ PhoneTyped /\ PhoneInv)
  BY PhoneAlways
<1> QED BY <1>1, <1>2, PTL DEF PhoneSpec, QueueKept

-----------------------------------------------------------------------------
(* The phone: its stored revision.                                         *)

\* The phone has what the server has of an id, or something newer that it
\* will send, or a record deleted on the phone that a sync brought back.
Steady(l, b, r, g) ==
  l = Live(r) \/ (g /\ l # 0) \/ l > r.at \/ (l = 0 /\ b.op = "delete" /\ b.at > r.at)

\* What a drain under way sends of an id, against what the phone has by now;
\* `x' says that no sync is between its request and its end.
Matches(s, l, b, r, g, x) ==
  s # NoRec =>
    \/ l = s.at /\ ~s.dead
    \/ l > s.at \/ r.at > s.at
    \/ s.dead /\ g
    \/ l = 0 /\ b.op = "delete" /\ b.at > s.at
    \/ g /\ l # 0 /\ x
DrainMatches(i) ==
  drain.pc # "idle" =>
    Matches(drain.snap[i], pLocal[i], pBox[i], records[i], i \in pGone, pSync.pc \in {"idle", "drain"})

\* What is newer than the server's is in the queue, or will be.
Newer(l, b, r, w) == l > r.at => w \/ b.op = "put"
NewerOk(i) ==
  /\ pRev # None => Newer(pLocal[i], pBox[i], records[i], i \in pSaving)
  /\ pSync.pc = "save" => Newer(pSync.merged[i], pBox[i], records[i], i \in pSaving)
  /\ i \in pSaving /\ pBox[i].op = "delete" => pBox[i].at < pLocal[i] \/ pBox[i].at <= records[i].at

\* The drain's answer is the server's revision, and its own.
DrainLast == drain.pc = "posted" /\ drain.wrote /\ drain.ans = revision

\* The stored revision, and the one the drain's answer will make it: the phone
\* has what the server has.
StoredOk(i) ==
  ~misled /\ (pRev = revision \/ (DrainLast /\ pRev # None /\ drain.ans <= pRev + 1))
    => Steady(pLocal[i], pBox[i], records[i], i \in pGone)

\* The same of the revision that comes with a snapshot: nobody has written
\* since, or only the drain.
Written1(p, s, r) == r = p \/ (r = s /\ s # NoRec /\ p.at <= r.at)
FetchedOk(i) ==
  /\ pSync.pc = "got" /\ pSync.ans = revision => pSync.snap[i] = records[i]
  /\ pSync.pc = "got" /\ pSync.ans + 1 = revision /\ DrainLast
       => Written1(pSync.snap[i], drain.snap[i], records[i])
  /\ pSync.pc = "save" /\ pSync.ans = revision
       => pSync.merged[i] = Live(records[i]) \/ pSync.merged[i] > records[i].at
  /\ pSync.pc = "save" /\ pSync.ans + 1 = revision /\ DrainLast
       => Steady(pSync.merged[i], pBox[i], records[i], i \in pGone)

\* A sync asks with the stored revision; only one without a revision finds the
\* account empty.
Asking == {"get", "got", "refill", "refilled", "save"}
PhoneControl ==
  /\ drain.pc = "idle" => drain = NoDrain
  /\ pSync.pc = "idle" => pSync = NoSync
  /\ pSync.pc \in Asking => (pSync.asked = None <=> pRev = None)
  /\ pSync.pc \in {"refill", "refilled"} => pSync.asked = None
  /\ pSync.pc = "got" /\ pSync.snap = Nothing => pSync.asked = None
  /\ records = Nothing => revision = 0
PhoneRevOk(i) == DrainMatches(i) /\ NewerOk(i) /\ StoredOk(i) /\ FetchedOk(i)
PhoneRevInv == PhoneControl /\ \A i \in PhoneIds \ raced : PhoneRevOk(i)

\* The server takes what the drain sent: the phone has it, or a newer record,
LEMMA SettledServed ==
  ASSUME NEW s \in AnyRec, NEW r \in AnyRec, NEW l \in Nat, NEW b, NEW g, NEW x, b.at \in Nat,
         s # NoRec, r.at <= s.at, Matches(s, l, b, r, g, x)
  PROVE  Steady(l, b, s, g)
  BY DEF Matches, Steady, Live, AnyRec

\* also when a merge is about to be stored.
LEMMA SettledSaved ==
  ASSUME NEW s \in AnyRec, NEW r \in AnyRec, NEW l \in Nat, NEW m \in Nat, NEW b, NEW g, b.at \in Nat,
         s # NoRec, r.at <= s.at, Matches(s, l, b, r, g, FALSE), MergeOk(r, l, m), b.op = "delete" => g
  PROVE  Steady(m, b, s, g)
<1>1. CASE l = s.at /\ ~s.dead
  BY <1>1 DEF MergeOk, Steady, Live, AnyRec
<1>2. CASE l > s.at
  BY <1>2 DEF MergeOk, Steady, Live, AnyRec
<1>3. CASE s.dead /\ g
  BY <1>3 DEF Steady, Live, AnyRec
<1>4. CASE l = 0 /\ b.op = "delete" /\ b.at > s.at
  BY <1>4 DEF Steady, Live, AnyRec
<1> QED BY <1>1, <1>2, <1>3, <1>4 DEF Matches, AnyRec

\* A merge after the drain has written: what the phone will have.
LEMMA SettledMerged ==
  ASSUME NEW s \in AnyRec, NEW p \in AnyRec, NEW l \in Nat, NEW m \in Nat, NEW b, NEW b2, NEW g, b.at \in Nat,
         s # NoRec, p.at <= s.at, p.at = s.at => p = s, Matches(s, l, b, s, g, FALSE), b.op = "delete" => g,
         m = IF l > p.at THEN l ELSE Live(p), l <= p.at => b2 = b
  PROVE  Steady(m, b2, s, g)
<1>1. CASE l = s.at /\ ~s.dead
  BY <1>1 DEF Steady, Live, AnyRec
<1>2. CASE l > s.at
  BY <1>2 DEF Steady, Live, AnyRec
<1>3. CASE s.dead /\ g
  BY <1>3 DEF Steady, Live, AnyRec
<1>4. CASE l = 0 /\ b.op = "delete" /\ b.at > s.at
  <2>1. l <= p.at
    BY <1>4 DEF AnyRec
  <2> QED BY <1>4, <2>1 DEF Steady, Live, AnyRec
<1> QED BY <1>1, <1>2, <1>3, <1>4 DEF Matches, AnyRec

\* A merge is stored while a drain is under way.
LEMMA MatchesStored ==
  ASSUME NEW s \in AnyRec, NEW r \in AnyRec, NEW l \in Nat, NEW m \in Nat, NEW b, NEW g, b.at \in Nat,
         Matches(s, l, b, r, g, FALSE), MergeOk(r, l, m), b.op = "delete" => g
  PROVE  Matches(s, m, b, r, g, TRUE)
<1>0. SUFFICES ASSUME s # NoRec PROVE Matches(s, m, b, r, g, TRUE)
  BY DEF Matches
<1>1. CASE l = s.at /\ ~s.dead
  BY <1>1 DEF MergeOk, Matches, AnyRec
<1>2. CASE l > s.at
  BY <1>2 DEF MergeOk, Matches, AnyRec
<1>3. CASE (s.dead /\ g) \/ r.at > s.at
  BY <1>3 DEF Matches, AnyRec
<1>4. CASE l = 0 /\ b.op = "delete" /\ b.at > s.at
  BY <1>4 DEF Matches, AnyRec
<1> QED BY <1>0, <1>1, <1>2, <1>3, <1>4 DEF Matches, AnyRec

\* What a drain that starts sends is what the phone has.
LEMMA MatchesSent ==
  ASSUME NEW l \in Nat, NEW b, NEW r, NEW g, NEW x, b.op \in {"none", "put", "delete"}, b.op = "delete" => g
  PROVE  Matches(SentAt(l, b), l, b, r, g, x)
<1>1. CASE b.op = "delete"
  BY <1>1 DEF SentAt, Matches
<1>2. CASE b.op = "put"
  BY <1>2 DEF SentAt, Matches
<1>3. CASE b.op = "none"
  BY <1>3 DEF SentAt, Matches
<1> QED BY <1>1, <1>2, <1>3

\* What the first invariant says of an id.
LEMMA PhoneFacts ==
  ASSUME Typed, PhoneTyped, PhoneInv, NEW i \in PhoneIds, i \notin raced
  PROVE  /\ pBox[i].op = "delete" => i \in pGone /\ pBox[i].at <= latest[i].at
         /\ drain.snap[i].at = records[i].at => drain.snap[i] = records[i]
         /\ pSync.snap[i].at = records[i].at => pSync.snap[i] = records[i]
         /\ drain.snap[i].at <= latest[i].at /\ records[i].at <= latest[i].at
         /\ i \in drain.carried => CarriedOk(pLocal[i], pBox[i], records[i], i \in pSaving, drain.snap[i])
         /\ drain.pc = "posted" => drain.snap[i].at <= records[i].at
         /\ pSync.pc = "got" => pSync.snap[i].at <= records[i].at
         /\ pSync.pc = "save" => MergeOk(records[i], pLocal[i], pSync.merged[i])
<1>1. PICK K \in Kinds : BothBody(K, i)
  BY DEF PhoneInv
<1>2. /\ latest[i] \in AnyRec /\ records[i] \in AnyRec /\ drain.snap[i] \in AnyRec /\ pSync.snap[i] \in AnyRec
  BY PhoneIdTyped
<1>3. Fits(K, latest[i], records[i])
  BY <1>1 DEF BothBody, IdBody, IdOk
<1>4. /\ HeldOk(K, latest[i], pLocal[i], pBox[i], i \in pGone)
      /\ DrainOk(K, i, latest[i], records[i], pLocal[i], pBox[i], i \in pSaving, drain)
      /\ SyncOk(K, i, latest[i], records[i], pLocal[i], pSync)
  BY <1>1 DEF BothBody, PhoneBody
<1>5. ASSUME NEW s \in AnyRec, Fits(K, latest[i], s), s.at = records[i].at PROVE s = records[i]
  <2>1. Fits(K, records[i], s) /\ (records[i].dead <=> records[i].at \in K) /\ records[i].at <= s.at
    BY <1>2, <1>3, <1>5 DEF Fits, AnyRec
  <2> QED BY <1>2, <2>1, SameRec
<1>6. pBox[i].op = "delete" => i \in pGone /\ pBox[i].at <= latest[i].at
  BY <1>4 DEF HeldOk
<1>7. Fits(K, latest[i], drain.snap[i]) /\ Fits(K, latest[i], pSync.snap[i])
  BY <1>4 DEF DrainOk, SyncOk
<1>8. drain.snap[i].at <= latest[i].at /\ records[i].at <= latest[i].at
  BY <1>3, <1>7 DEF Fits
<1> QED BY <1>2, <1>4, <1>5, <1>6, <1>7, <1>8 DEF DrainOk, SyncOk

\* The server gets newer records: what the invariant says stays true.
LEMMA RecordsGrow ==
  ASSUME NEW s \in AnyRec, NEW r \in AnyRec, NEW r2 \in AnyRec, NEW l \in Nat, NEW b, NEW g, NEW w, NEW x,
         r.at <= r2.at
  PROVE  /\ Matches(s, l, b, r, g, x) => Matches(s, l, b, r2, g, x)
         /\ Newer(l, b, r, w) => Newer(l, b, r2, w)
<1>1. Matches(s, l, b, r, g, x) => Matches(s, l, b, r2, g, x)
  BY DEF Matches, AnyRec
<1>2. Newer(l, b, r, w) => Newer(l, b, r2, w)
  BY DEF Newer, AnyRec
<1> QED BY <1>1, <1>2

\* The fields of the phone's drain and sync.
LEMMA PhoneFields ==
  ASSUME Typed, PhoneTyped
  PROVE  /\ revision \in Nat /\ pRev \in 0 .. revision \union {None}
         /\ drain \in Drains(clock, revision) /\ pSync \in Syncs(clock, revision)
         /\ drain.ans \in 0 .. revision /\ pSync.ans \in 0 .. revision
         /\ pSync.asked \in 0 .. revision \union {None}
  BY DEF Typed, PhoneTyped, Drains, Syncs

\* Somebody else writes: the revision is nobody's any more.
LEMMA OutdatedRev ==
  ASSUME Typed, Typed', PhoneTyped, NEW i \in PhoneIds, PhoneRevOk(i), Forward, revision' # revision,
         UNCHANGED phone
  PROVE  PhoneRevOk(i)'
<1>1. /\ revision \in Nat /\ pRev \in 0 .. revision \union {None}
      /\ drain.ans \in 0 .. revision /\ pSync.ans \in 0 .. revision /\ revision' > revision
  <2>1. revision' \in Nat
    BY DEF Typed
  <2> QED BY <2>1, PhoneFields DEF Forward
<1>2. /\ i \in Ids /\ records[i] \in AnyRec /\ drain.snap[i] \in AnyRec /\ pLocal[i] \in Nat /\ pBox[i].at \in Nat
      /\ pSync.pc = "save" => pSync.merged[i] \in Nat
  BY PhoneIdTyped
<1>3. records'[i] \in AnyRec /\ records[i].at <= records'[i].at
  BY <1>2 DEF Typed, Snaps, Recs, AnyRec, Forward
<1>4. /\ pLocal' = pLocal /\ pBox' = pBox /\ pRev' = pRev /\ pSaving' = pSaving /\ drain' = drain
      /\ pSync' = pSync /\ pGone' = pGone
  BY DEF phone
<1>5. DrainMatches(i)'
  BY <1>2, <1>3, <1>4, RecordsGrow DEF PhoneRevOk, DrainMatches
<1>6. NewerOk(i)'
  <2>1. pRev # None => Newer(pLocal[i], pBox[i], records'[i], i \in pSaving)
    BY <1>2, <1>3, RecordsGrow DEF PhoneRevOk, NewerOk
  <2>2. pSync.pc = "save" => Newer(pSync.merged[i], pBox[i], records'[i], i \in pSaving)
    BY <1>2, <1>3, RecordsGrow DEF PhoneRevOk, NewerOk
  <2>3. i \in pSaving /\ pBox[i].op = "delete" => pBox[i].at < pLocal[i] \/ pBox[i].at <= records'[i].at
    BY <1>2, <1>3 DEF PhoneRevOk, NewerOk, AnyRec
  <2> QED BY <1>4, <2>1, <2>2, <2>3 DEF NewerOk
<1>7. ~DrainLast'
  BY <1>1, <1>4 DEF DrainLast
<1>8. pRev' # revision' /\ pSync'.ans # revision'
  BY <1>1, <1>4 DEF None
<1>9. StoredOk(i)' /\ FetchedOk(i)'
  BY <1>7, <1>8 DEF StoredOk, FetchedOk
<1> QED BY <1>5, <1>6, <1>9 DEF PhoneRevOk

\* The desktops and the server.
LEMMA DesktopsRev ==
  ASSUME Typed, Typed', PhoneTyped, PhoneRevInv, [Next]_vars, UNCHANGED phone
  PROVE  PhoneRevInv'
<1>1. Forward
  BY NextForward
<1>2. CASE revision' = revision
  <2>1. records' = records
    BY <1>1, <1>2 DEF Forward
  <2>2. PhoneControl' /\ \A i \in PhoneIds \ raced : PhoneRevOk(i)'
    BY <1>2, <2>1 DEF PhoneRevInv, PhoneControl, PhoneRevOk, DrainMatches, NewerOk, StoredOk, FetchedOk,
                      DrainLast, phone
  <2> QED BY <2>2, RacedGrows DEF PhoneRevInv
<1>3. CASE revision' # revision
  <2>1. PhoneControl'
    BY <1>1, <1>3 DEF PhoneRevInv, PhoneControl, phone, Forward
  <2>2. \A i \in PhoneIds \ raced : PhoneRevOk(i)'
    BY <1>1, <1>3, OutdatedRev DEF PhoneRevInv
  <2> QED BY <2>1, <2>2, RacedGrows DEF PhoneRevInv
<1> QED BY <1>2, <1>3

\* What a step does to the drain: nothing but to its entries, or it starts one.
SameDrain ==
  drain'.pc = drain.pc /\ drain'.snap = drain.snap /\ drain'.ans = drain.ans /\ drain'.wrote = drain.wrote
NewDrain == drain' = Draining(pLocal', pBox')

\* A drain that is asked for while one runs only adds to its entries.
LEMMA DrainKind ==
  ASSUME PhoneTyped, NEW es, Drain(es) PROVE SameDrain \/ NewDrain
<1>1. CASE drain.pc = "idle"
  BY <1>1 DEF Drain, NewDrain
<1>2. CASE drain.pc # "idle"
  BY <1>2 DEF Drain, SameDrain, PhoneTyped, Drains
<1> QED BY <1>1, <1>2

\* An idle drain is none.
LEMMA DrainIdle ==
  ASSUME PhoneTyped, PhoneControl, NEW es, Drain(es), drain'.pc = "idle" PROVE drain' = NoDrain
<1>1. CASE drain.pc = "idle"
  <2>1. drain' = Draining(pLocal', pBox')
    BY <1>1 DEF Drain
  <2> QED BY <2>1, DrainingFields
<1>2. CASE drain.pc # "idle"
  <2>1. drain'.pc = drain.pc
    BY <1>2 DEF Drain, PhoneTyped, Drains
  <2> QED BY <1>2, <2>1
<1> QED BY <1>1, <1>2

\* A deletion in the queue is one of the phone's.
LEMMA QueuedGone ==
  ASSUME PhoneInv', NEW i \in PhoneIds, i \notin raced', pBox'[i].op = "delete" PROVE i \in pGone'
<1>1. PICK K \in Kinds : BothBody(K, i)'
  BY DEF PhoneInv
<1> QED BY <1>1 DEF BothBody, PhoneBody, HeldOk

\* A drain that starts, or none.
LEMMA NewDrainOk ==
  ASSUME Typed', PhoneTyped', PhoneInv', NEW i \in PhoneIds, i \notin raced', NewDrain \/ drain' = NoDrain
  PROVE  DrainMatches(i)' /\ ~DrainLast'
<1>1. pLocal'[i] \in Nat /\ pBox'[i].op \in {"none", "put", "delete"}
  BY DEF Typed, PhoneTyped, Times, Entries
<1>2. CASE drain'.pc = "idle"
  BY <1>2 DEF DrainMatches, DrainLast
<1>3. CASE drain'.snap = Payload(pLocal', pBox') /\ drain'.pc = "post"
  <2>1. drain'.snap[i] = SentAt(pLocal'[i], pBox'[i])
    BY <1>1, <1>3, PayloadAt
  <2>2. DrainMatches(i)'
    <3>1. PICK g : g = (i \in pGone')
      OBVIOUS
    <3>2. PICK x : x = (pSync'.pc \in {"idle", "drain"})
      OBVIOUS
    <3>3. pBox'[i].op = "delete" => g
      BY <3>1, QueuedGone
    <3>4. Matches(SentAt(pLocal'[i], pBox'[i]), pLocal'[i], pBox'[i], records'[i], g, x)
      BY <1>1, <3>3, MatchesSent
    <3> QED BY <2>1, <3>1, <3>2, <3>4 DEF DrainMatches
  <2> QED BY <1>3, <2>2 DEF DrainLast
<1>4. NoDrain.pc = "idle"
  BY DEF NoDrain
<1> QED BY <1>2, <1>3, <1>4, DrainingFields DEF NewDrain

\* The user of the phone, of one id: what it has to be shown.
LEMMA UserKeeps ==
  ASSUME Typed', PhoneTyped', PhoneInv', NEW i \in PhoneIds, i \notin raced', PhoneRevOk(i),
         revision' = revision, records' = records, pRev' = pRev, misled' = misled, pSync' = pSync,
         SameDrain \/ NewDrain,
         \A x : Matches(drain.snap[i], pLocal[i], pBox[i], records[i], i \in pGone, x)
                  => Matches(drain.snap[i], pLocal'[i], pBox'[i], records[i], i \in pGone', x),
         Steady(pLocal[i], pBox[i], records[i], i \in pGone)
           => Steady(pLocal'[i], pBox'[i], records[i], i \in pGone'),
         pRev # None => Newer(pLocal'[i], pBox'[i], records[i], i \in pSaving'),
         pSync.pc = "save" => Newer(pSync.merged[i], pBox'[i], records[i], i \in pSaving'),
         pSync.pc = "save" /\ Steady(pSync.merged[i], pBox[i], records[i], i \in pGone)
           => Steady(pSync.merged[i], pBox'[i], records[i], i \in pGone'),
         i \in pSaving' /\ pBox'[i].op = "delete"
           => pBox'[i].at < pLocal'[i] \/ pBox'[i].at <= records[i].at
  PROVE  PhoneRevOk(i)'
<1>1. NewerOk(i)'
  BY DEF NewerOk
<1>2. CASE SameDrain
  <2>1. DrainLast' <=> DrainLast
    BY <1>2 DEF DrainLast, SameDrain
  <2>2. DrainMatches(i)'
    <3>1. CASE drain.pc = "idle"
      BY <1>2, <3>1 DEF DrainMatches, SameDrain
    <3>2. CASE drain.pc # "idle"
      <4>1. PICK x : x = (pSync.pc \in {"idle", "drain"})
        OBVIOUS
      <4>2. Matches(drain.snap[i], pLocal'[i], pBox'[i], records[i], i \in pGone', x)
        BY <3>2, <4>1 DEF PhoneRevOk, DrainMatches
      <4> QED BY <1>2, <4>1, <4>2 DEF DrainMatches, SameDrain
    <3> QED BY <3>1, <3>2
  <2>3. StoredOk(i)'
    BY <1>2, <2>1 DEF PhoneRevOk, StoredOk, SameDrain
  <2>4. FetchedOk(i)'
    BY <1>2, <2>1 DEF PhoneRevOk, FetchedOk, SameDrain
  <2> QED BY <1>1, <2>2, <2>3, <2>4 DEF PhoneRevOk
<1>3. CASE NewDrain
  <2>1. DrainMatches(i)' /\ ~DrainLast'
    BY <1>3, NewDrainOk
  <2>2. StoredOk(i)' /\ FetchedOk(i)'
    BY <2>1 DEF PhoneRevOk, StoredOk, FetchedOk
  <2> QED BY <1>1, <2>1, <2>2 DEF PhoneRevOk
<1> QED BY <1>2, <1>3

\* The user of the phone.
LEMMA PhoneUserRev ==
  ASSUME Typed, Typed', PhoneTyped, PhoneTyped', PhoneInv, PhoneInv', NEW i \in PhoneIds,
         i \notin raced, i \notin raced', PhoneRevOk(i), NEW j \in PhoneIds, SaveHost(j) \/ SecretSaved(j) \/ EditRecord(j) \/ DeleteHost(j)
  PROVE  PhoneRevOk(i)'
<1>1. /\ revision' = revision /\ records' = records /\ pRev' = pRev /\ misled' = misled /\ pSync' = pSync
  BY DEF SaveHost, SecretSaved, EditRecord, DeleteHost, UserRest, server
<1>2. /\ i \in Ids /\ clock \in Nat /\ records[i] \in AnyRec /\ drain.snap[i] \in AnyRec
      /\ pLocal[i] \in Nat /\ pBox[i].at \in Nat /\ latest[i].at \in Nat /\ latest[i].at <= clock
      /\ pLocal \in Times(clock) /\ (pSync.pc = "save" => pSync.merged[i] \in Nat)
  BY PhoneIdTyped DEF PhoneTyped, AnyRec
<1>3. /\ pBox[i].op = "delete" => i \in pGone /\ pBox[i].at <= latest[i].at
      /\ drain.snap[i].at <= latest[i].at /\ records[i].at <= latest[i].at
      /\ pSync.pc = "save" => MergeOk(records[i], pLocal[i], pSync.merged[i])
  BY PhoneFacts
<1>4. SameDrain \/ NewDrain
  <2>1. CASE SaveHost(j)
    BY <2>1 DEF SaveHost, SameDrain
  <2>2. CASE SecretSaved(j) \/ EditRecord(j) \/ DeleteHost(j)
    BY <2>2, DrainKind DEF SecretSaved, EditRecord, DeleteHost, EnqueueAndDrain
  <2> QED BY <2>1, <2>2
<1>5. NewerOk(i)
  BY DEF PhoneRevOk
<1>6. ASSUME NEW e, NEW es, es = [k \in {i} |-> e], EnqueueAndDrain(es) PROVE pBox'[i] = e
  BY <1>6 DEF EnqueueAndDrain, Enqueued
<1>7. CASE j # i
  <2>1. pLocal'[i] = pLocal[i] /\ (i \in pSaving' <=> i \in pSaving) /\ (i \in pGone' <=> i \in pGone)
    BY <1>2, <1>7 DEF SaveHost, SecretSaved, EditRecord, DeleteHost, Times
  <2>2. pBox'[i] = pBox[i]
    <3>1. CASE SaveHost(j)
      BY <3>1 DEF SaveHost
    <3>2. CASE SecretSaved(j) \/ EditRecord(j) \/ DeleteHost(j)
      <4>1. PICK es : EnqueueAndDrain(es) /\ i \notin DOMAIN es
        BY <1>7, <3>2 DEF SecretSaved, EditRecord, DeleteHost
      <4> QED BY <4>1 DEF EnqueueAndDrain, Enqueued
    <3> QED BY <3>1, <3>2
  <2>3. ASSUME NEW x, Matches(drain.snap[i], pLocal[i], pBox[i], records[i], i \in pGone, x)
        PROVE  Matches(drain.snap[i], pLocal'[i], pBox'[i], records[i], i \in pGone', x)
    BY <2>1, <2>2, <2>3 DEF Matches
  <2>4. ASSUME NEW l, Steady(l, pBox[i], records[i], i \in pGone)
        PROVE  Steady(l, pBox'[i], records[i], i \in pGone')
    BY <2>1, <2>2, <2>4 DEF Steady
  <2>5. ASSUME NEW l, Newer(l, pBox[i], records[i], i \in pSaving)
        PROVE  Newer(l, pBox'[i], records[i], i \in pSaving')
    BY <2>1, <2>2, <2>5 DEF Newer
  <2>6. /\ pRev # None => Newer(pLocal'[i], pBox'[i], records[i], i \in pSaving')
        /\ pSync.pc = "save" => Newer(pSync.merged[i], pBox'[i], records[i], i \in pSaving')
        /\ i \in pSaving' /\ pBox'[i].op = "delete"
             => pBox'[i].at < pLocal'[i] \/ pBox'[i].at <= records[i].at
    BY <1>5, <2>1, <2>2, <2>5 DEF NewerOk
  <2> QED BY <1>1, <1>4, <2>1, <2>3, <2>4, <2>6, UserKeeps
<1>8. CASE SecretSaved(i)
  <2>1. /\ pLocal' = pLocal /\ pGone' = pGone /\ i \in pSaving /\ i \notin pSaving' /\ pBox'[i] = Put
    BY <1>6, <1>8 DEF SecretSaved
  <2>2. pBox'[i].op = "put"
    BY <2>1 DEF Put
  <2>3. pBox[i].op = "delete" => pBox[i].at < pLocal[i] \/ pBox[i].at <= records[i].at
    BY <1>5, <2>1 DEF NewerOk
  <2>4. ASSUME NEW x, Matches(drain.snap[i], pLocal[i], pBox[i], records[i], i \in pGone, x)
        PROVE  Matches(drain.snap[i], pLocal'[i], pBox'[i], records[i], i \in pGone', x)
    BY <1>2, <2>1, <2>3, <2>4 DEF Matches, AnyRec
  <2>5. ASSUME Steady(pLocal[i], pBox[i], records[i], i \in pGone)
        PROVE  Steady(pLocal'[i], pBox'[i], records[i], i \in pGone')
    BY <1>2, <2>1, <2>3, <2>5 DEF Steady, AnyRec
  <2>6. ASSUME pSync.pc = "save", Steady(pSync.merged[i], pBox[i], records[i], i \in pGone)
        PROVE  Steady(pSync.merged[i], pBox'[i], records[i], i \in pGone')
    <3>1. MergeOk(records[i], pLocal[i], pSync.merged[i]) /\ pSync.merged[i] \in Nat
      BY <1>2, <1>3, <2>6
    <3>2. ~(pSync.merged[i] = 0 /\ pBox[i].op = "delete" /\ pBox[i].at > records[i].at)
      BY <1>2, <2>3, <3>1 DEF MergeOk, AnyRec
    <3> QED BY <2>1, <2>6, <3>2 DEF Steady
  <2>7. \A l : Newer(l, pBox'[i], records[i], i \in pSaving')
    BY <2>2 DEF Newer
  <2> QED BY <1>1, <1>4, <2>1, <2>4, <2>5, <2>6, <2>7, UserKeeps
<1>9. CASE SaveHost(i) \/ EditRecord(i) \/ DeleteHost(i)
  <2>1. pSync.pc # "save" /\ i \notin pSaving
    BY <1>9 DEF SaveHost, EditRecord, DeleteHost, Acts
  <2>2. CASE SaveHost(i) \/ EditRecord(i)
    <3>1. pLocal'[i] = clock + 1
      BY <1>2, <2>2 DEF SaveHost, EditRecord, Times
    <3>2. (i \in pSaving' /\ pBox' = pBox) \/ pBox'[i].op = "put"
      <4>1. CASE SaveHost(i)
        BY <4>1 DEF SaveHost
      <4>2. CASE EditRecord(i)
        <5>1. pBox'[i] = Put
          BY <1>6, <4>2 DEF EditRecord
        <5> QED BY <5>1 DEF Put
      <4> QED BY <2>2, <4>1, <4>2
    <3>3. \A x : Matches(drain.snap[i], pLocal'[i], pBox'[i], records[i], i \in pGone', x)
      BY <1>2, <1>3, <3>1 DEF Matches, AnyRec
    <3>4. Steady(pLocal'[i], pBox'[i], records[i], i \in pGone')
      BY <1>2, <1>3, <3>1 DEF Steady, AnyRec
    <3>5. Newer(pLocal'[i], pBox'[i], records[i], i \in pSaving')
      BY <3>2 DEF Newer
    <3>6. i \in pSaving' /\ pBox'[i].op = "delete" => pBox'[i].at < pLocal'[i] \/ pBox'[i].at <= records[i].at
      BY <1>2, <1>3, <3>1, <3>2
    <3> QED BY <1>1, <1>4, <2>1, <3>3, <3>4, <3>5, <3>6, UserKeeps
  <2>3. CASE DeleteHost(i)
    <3>1. pLocal'[i] = 0 /\ i \notin pSaving' /\ i \in pGone'
      BY <1>2, <2>1, <2>3 DEF DeleteHost, Times
    <3>2. pBox'[i] = Del(clock + 1)
      <4>1. EnqueueAndDrain([k \in {i} |-> Del(clock')]) /\ clock' = clock + 1
        BY <2>3 DEF DeleteHost
      <4> QED BY <1>6, <4>1, SMTT(40)
    <3>3. pBox'[i].op = "delete" /\ pBox'[i].at = clock + 1
      BY <3>2 DEF Del
    <3>4. \A x : Matches(drain.snap[i], pLocal'[i], pBox'[i], records[i], i \in pGone', x)
      BY <1>2, <1>3, <3>1, <3>3 DEF Matches, AnyRec
    <3>5. Steady(pLocal'[i], pBox'[i], records[i], i \in pGone')
      BY <1>2, <1>3, <3>1, <3>3 DEF Steady, AnyRec
    <3>6. Newer(pLocal'[i], pBox'[i], records[i], i \in pSaving')
      BY <1>2, <3>1 DEF Newer, AnyRec
    <3> QED BY <1>1, <1>4, <2>1, <3>1, <3>4, <3>5, <3>6, UserKeeps
  <2> QED BY <1>9, <2>2, <2>3
<1> QED BY <1>7, <1>8, <1>9

\* The control of the drain and the sync, when the user acts.
LEMMA PhoneUserControl ==
  ASSUME PhoneTyped, PhoneControl, NEW j \in PhoneIds,
         SaveHost(j) \/ SecretSaved(j) \/ EditRecord(j) \/ DeleteHost(j)
  PROVE  PhoneControl'
<1>1. /\ revision' = revision /\ records' = records /\ pRev' = pRev /\ pSync' = pSync
  BY DEF SaveHost, SecretSaved, EditRecord, DeleteHost, UserRest, server
<1>2. drain'.pc = "idle" => drain' = NoDrain
  <2>1. CASE SaveHost(j)
    BY <2>1 DEF SaveHost, PhoneControl
  <2>2. CASE SecretSaved(j) \/ EditRecord(j) \/ DeleteHost(j)
    BY <2>2, DrainIdle DEF SecretSaved, EditRecord, DeleteHost, EnqueueAndDrain
  <2> QED BY <2>1, <2>2
<1> QED BY <1>1, <1>2 DEF PhoneControl

\* The server takes what the drain sends.
LEMMA ServeDrainRev ==
  ASSUME Typed, Typed', PhoneTyped, PhoneInv, NEW i \in PhoneIds, i \notin raced, PhoneRevOk(i), ServeDrain
  PROVE  PhoneRevOk(i)'
<1>1. /\ pLocal' = pLocal /\ pBox' = pBox /\ pRev' = pRev /\ pSaving' = pSaving /\ pSync' = pSync
      /\ pGone' = pGone /\ misled' = misled /\ drain.pc = "post" /\ ApplyPush(drain.snap) /\ clock' = clock
  BY DEF ServeDrain, PhoneRest
<1>2. /\ i \in Ids /\ clock \in Nat /\ records[i] \in AnyRec /\ drain.snap[i] \in AnyRec
      /\ drain.snap \in Snaps(clock) /\ pLocal[i] \in Nat /\ pBox[i].at \in Nat
      /\ pSync.pc = "save" => pSync.merged[i] \in Nat
  BY PhoneIdTyped
<1>3. /\ revision \in Nat /\ pRev \in 0 .. revision \union {None} /\ drain \in Drains(clock, revision)
      /\ drain.ans \in 0 .. revision /\ pSync.ans \in 0 .. revision
  BY PhoneFields
<1>4. /\ drain'.pc = "posted" /\ drain'.snap = drain.snap /\ drain'.ans = revision'
      /\ (drain'.wrote <=> Written(drain.snap) # {})
  BY <1>3 DEF ServeDrain, Drains
<1>5. /\ records'[i] = records[i] \/ (records'[i] = drain.snap[i] /\ i \in Written(drain.snap))
      /\ records[i].at <= records'[i].at
  BY <1>1, <1>2, WrittenAt DEF Typed
<1>6. records'[i] \in AnyRec
  BY <1>2, <1>5
<1>7. i \in Written(drain.snap) => drain.snap[i] # NoRec /\ records[i].at <= drain.snap[i].at
  BY DEF Written
<1>8. DrainMatches(i)'
  <2>1. PICK x : x = (pSync.pc \in {"idle", "drain"})
    OBVIOUS
  <2>2. PICK g : g = (i \in pGone)
    OBVIOUS
  <2>3. Matches(drain.snap[i], pLocal[i], pBox[i], records[i], g, x)
    BY <1>1, <2>1, <2>2 DEF PhoneRevOk, DrainMatches
  <2>4. Matches(drain.snap[i], pLocal[i], pBox[i], records'[i], g, x)
    BY <1>2, <1>5, <1>6, <2>3, RecordsGrow
  <2> QED BY <1>1, <1>4, <2>1, <2>2, <2>4 DEF DrainMatches
<1>9. NewerOk(i)'
  <2>1. pRev # None => Newer(pLocal[i], pBox[i], records'[i], i \in pSaving)
    BY <1>2, <1>5, <1>6, RecordsGrow DEF PhoneRevOk, NewerOk
  <2>2. pSync.pc = "save" => Newer(pSync.merged[i], pBox[i], records'[i], i \in pSaving)
    BY <1>2, <1>5, <1>6, RecordsGrow DEF PhoneRevOk, NewerOk
  <2>3. i \in pSaving /\ pBox[i].op = "delete" => pBox[i].at < pLocal[i] \/ pBox[i].at <= records'[i].at
    BY <1>2, <1>5, <1>6 DEF PhoneRevOk, NewerOk, AnyRec
  <2> QED BY <1>1, <2>1, <2>2, <2>3 DEF NewerOk
<1>10. CASE Written(drain.snap) = {}
  <2>1. revision' = revision /\ records'[i] = records[i] /\ ~DrainLast'
    BY <1>4, <1>5, <1>10 DEF ApplyPush, DrainLast, ServeDrain
  <2>2. StoredOk(i)' /\ FetchedOk(i)'
    BY <1>1, <2>1 DEF PhoneRevOk, StoredOk, FetchedOk
  <2> QED BY <1>8, <1>9, <2>2 DEF PhoneRevOk
<1>11. CASE Written(drain.snap) # {}
  <2>1. revision' = revision + 1
    BY <1>1, <1>11 DEF ApplyPush
  <2>2. /\ pRev # revision' /\ pSync.ans # revision'
        /\ pRev # None /\ revision' <= pRev + 1 => pRev = revision
        /\ pSync.ans + 1 = revision' => pSync.ans = revision
    BY <1>3, <2>1 DEF None
  <2>3. PICK x : x = (pSync.pc \in {"idle", "drain"})
    OBVIOUS
  <2>4. PICK g : g = (i \in pGone)
    OBVIOUS
  <2>5. Matches(drain.snap[i], pLocal[i], pBox[i], records[i], g, x)
    BY <1>1, <2>3, <2>4 DEF PhoneRevOk, DrainMatches
  <2>6. Steady(pLocal[i], pBox[i], records[i], g) => Steady(pLocal[i], pBox[i], records'[i], g)
    BY <1>2, <1>5, <1>7, <2>5, SettledServed
  <2>7. StoredOk(i)'
    BY <1>1, <1>4, <2>2, <2>4, <2>6 DEF PhoneRevOk, StoredOk
  <2>8. ASSUME pSync.pc = "save", pSync.ans = revision
        PROVE  Steady(pSync.merged[i], pBox[i], records'[i], g)
    <3>1. PICK m \in Nat : m = pSync.merged[i]
      BY <1>2, <2>8
    <3>2. MergeOk(records[i], pLocal[i], m) /\ (pBox[i].op = "delete" => g)
      BY <2>4, <2>8, <3>1, PhoneFacts
    <3>3. CASE records'[i] = records[i]
      BY <2>8, <3>3 DEF PhoneRevOk, FetchedOk, Steady
    <3>4. CASE records'[i] = drain.snap[i] /\ i \in Written(drain.snap)
      <4>1. Matches(drain.snap[i], pLocal[i], pBox[i], records[i], g, FALSE)
        BY <2>3, <2>5, <2>8 DEF Matches
      <4> QED BY <1>2, <1>7, <3>1, <3>2, <3>4, <4>1, SettledSaved
    <3> QED BY <1>5, <3>3, <3>4
  <2>9. ASSUME pSync.pc = "got", pSync.ans = revision
        PROVE  Written1(pSync.snap[i], drain.snap[i], records'[i])
    BY <1>5, <1>7, <2>9 DEF PhoneRevOk, FetchedOk, Written1
  <2>10. FetchedOk(i)'
    BY <1>1, <1>4, <2>2, <2>4, <2>8, <2>9 DEF FetchedOk
  <2> QED BY <1>8, <1>9, <2>7, <2>10 DEF PhoneRevOk
<1> QED BY <1>10, <1>11

\* What was sent leaves the queue, and the answer's revision is stored.
LEMMA DrainDoneRev ==
  ASSUME Typed, Typed', PhoneTyped, PhoneTyped', PhoneInv, PhoneInv', NEW i \in PhoneIds,
         i \notin raced, i \notin raced', PhoneRevOk(i), DrainDone
  PROVE  PhoneRevOk(i)'
<1>1. /\ pLocal' = pLocal /\ pSaving' = pSaving /\ pGone' = pGone /\ records' = records /\ revision' = revision
      /\ drain.pc = "posted" /\ StorePushed(drain.ans, drain.wrote)
  BY DEF DrainDone, PhoneRest, server
<1>2. /\ i \in Ids /\ records[i] \in AnyRec /\ drain.snap[i] \in AnyRec /\ pLocal[i] \in Nat /\ pBox[i].at \in Nat
      /\ pSync.pc = "save" => pSync.merged[i] \in Nat
  BY PhoneIdTyped
<1>3. /\ revision \in Nat /\ pRev \in 0 .. revision \union {None} /\ drain.ans \in 0 .. revision
  BY PhoneFields
<1>4. drain' = NoDrain \/ NewDrain
  BY <1>1 DEF DrainDone, SettleDrain, NewDrain
<1>5. DrainMatches(i)' /\ ~DrainLast'
  BY <1>4, NewDrainOk
<1>6. pSync' = pSync \/ (pSync'.pc = "get" /\ pSync.pc = "drain")
  <2>1. [NoSync EXCEPT !.pc = "get", !.asked = pRev'].pc = "get"
    BY DEF NoSync
  <2> QED BY <2>1 DEF DrainDone, SettleDrain
<1>7. pBox'[i] = pBox[i] \/ (i \in drain.carried /\ pBox'[i] = NoEntry)
  BY DEF DrainDone
<1>8. pRev' # None => pRev # None
  BY <1>1 DEF StorePushed, Follows
<1>9. /\ i \in drain.carried => CarriedOk(pLocal[i], pBox[i], records[i], i \in pSaving, drain.snap[i])
      /\ drain.snap[i].at <= records[i].at
      /\ pSync.pc = "save" => MergeOk(records[i], pLocal[i], pSync.merged[i])
  BY <1>1, PhoneFacts
<1>10. NewerOk(i)'
  <2>1. ASSUME NEW l \in Nat, MergeOk(records[i], pLocal[i], l), Newer(l, pBox[i], records[i], i \in pSaving)
        PROVE  Newer(l, pBox'[i], records[i], i \in pSaving)
    BY <1>2, <1>7, <1>9, <2>1 DEF Newer, MergeOk, CarriedOk, AnyRec
  <2>2. pRev' # None => Newer(pLocal[i], pBox'[i], records[i], i \in pSaving)
    BY <1>2, <1>8, <2>1 DEF PhoneRevOk, NewerOk, MergeOk
  <2>3. pSync'.pc = "save" => Newer(pSync'.merged[i], pBox'[i], records[i], i \in pSaving)
    BY <1>2, <1>6, <1>9, <2>1 DEF PhoneRevOk, NewerOk
  <2>4. i \in pSaving /\ pBox'[i].op = "delete" => pBox'[i].at < pLocal[i] \/ pBox'[i].at <= records[i].at
    BY <1>7 DEF PhoneRevOk, NewerOk, NoEntry
  <2> QED BY <1>1, <2>2, <2>3, <2>4 DEF NewerOk
<1>11. StoredOk(i)'
  <2> SUFFICES ASSUME ~misled', pRev' = revision
               PROVE  Steady(pLocal[i], pBox'[i], records[i], i \in pGone)
    BY <1>1, <1>5 DEF StoredOk
  <2>1. ~misled /\ (pRev = revision \/ (DrainLast /\ pRev # None /\ drain.ans <= pRev + 1))
    BY <1>1 DEF StorePushed, Follows, DrainLast
  <2>2. Steady(pLocal[i], pBox[i], records[i], i \in pGone)
    BY <2>1 DEF PhoneRevOk, StoredOk
  <2> QED BY <1>2, <1>7, <1>9, <2>2 DEF Steady, CarriedOk, AnyRec
<1>12. FetchedOk(i)'
  BY <1>1, <1>5, <1>6 DEF PhoneRevOk, FetchedOk
<1> QED BY <1>5, <1>10, <1>11, <1>12 DEF PhoneRevOk

\* The control, in the drain's steps.
LEMMA DrainControl ==
  ASSUME Typed, PhoneTyped, PhoneControl, ServeDrain \/ DrainDone
  PROVE  PhoneControl'
<1>1. drain \in Drains(clock, revision) /\ pSync \in Syncs(clock, revision) /\ revision \in Nat
      /\ drain.ans \in 0 .. revision
  BY PhoneFields
<1>2. CASE ServeDrain
  <2>1. /\ drain'.pc = "posted" /\ pSync' = pSync /\ pRev' = pRev /\ ApplyPush(drain.snap) /\ clock' = clock
        /\ drain.snap \in Snaps(clock)
    BY <1>1, <1>2 DEF ServeDrain, Drains, PhoneRest
  <2>2. Forward
    BY <2>1, PushForward
  <2>3. records' = Nothing => revision' = 0
    BY <2>2 DEF PhoneControl, Forward
  <2> QED BY <2>1, <2>3 DEF PhoneControl
<1>3. CASE DrainDone
  <2>1. records' = records /\ revision' = revision /\ StorePushed(drain.ans, drain.wrote)
    BY <1>3 DEF DrainDone, server
  <2>2. pRev' = None <=> pRev = None
    BY <1>1, <2>1 DEF StorePushed, Follows, None
  <2>3. drain'.pc = "idle" => drain' = NoDrain
    <3>1. drain' = NoDrain \/ drain' = Draining(pLocal, pBox')
      BY <1>3 DEF DrainDone, SettleDrain
    <3> QED BY <3>1, DrainingFields
  <2>4. CASE pSync' = pSync
    BY <2>1, <2>2, <2>3, <2>4 DEF PhoneControl
  <2>5. CASE pSync' = [NoSync EXCEPT !.pc = "get", !.asked = pRev']
    <3>1. pSync'.pc = "get" /\ pSync'.asked = pRev'
      BY <2>5 DEF NoSync
    <3> QED BY <2>1, <2>3, <3>1 DEF PhoneControl
  <2> QED BY <1>3, <2>4, <2>5 DEF DrainDone, SettleDrain
<1> QED BY <1>2, <1>3

\* A step of the sync that leaves the phone's records and queue alone: what has
\* to be shown is the revision's.
LEMMA SyncQuiet ==
  ASSUME NEW i \in PhoneIds, PhoneRevOk(i), UNCHANGED <<pLocal, pBox, pRev, pSaving, pGone, misled, records, revision>>,
         drain' = drain \/ drain' = NoDrain \/ SameDrain, pSync'.pc # "save",
         drain'.pc # "idle" /\ pSync.pc \in {"idle", "drain"} => pSync'.pc \in {"idle", "drain"},
         FetchedOk(i)'
  PROVE  PhoneRevOk(i)'
<1>1. NewerOk(i)'
  BY DEF PhoneRevOk, NewerOk
<1>2. CASE SameDrain
  <2>1. DrainLast' <=> DrainLast
    BY <1>2 DEF DrainLast, SameDrain
  <2>2. StoredOk(i)'
    BY <1>2, <2>1 DEF PhoneRevOk, StoredOk, SameDrain
  <2>3. DrainMatches(i)'
    BY <1>2 DEF PhoneRevOk, DrainMatches, SameDrain, Matches
  <2> QED BY <1>1, <2>2, <2>3 DEF PhoneRevOk
<1>3. CASE drain' = NoDrain
  <2>1. drain'.pc = "idle" /\ ~DrainLast'
    BY <1>3 DEF NoDrain, DrainLast
  <2>2. StoredOk(i)' /\ DrainMatches(i)'
    BY <2>1 DEF PhoneRevOk, StoredOk, DrainMatches
  <2> QED BY <1>1, <2>2 DEF PhoneRevOk
<1>4. drain' = drain => SameDrain
  BY DEF SameDrain
<1> QED BY <1>2, <1>3, <1>4

\* A fresh sync has fetched nothing.
LEMMA FreshRev ==
  ASSUME Fresh(pSync')
  PROVE  /\ pSync'.pc \in {"idle", "drain", "get"} /\ \A i \in PhoneIds : FetchedOk(i)'
         /\ pSync'.pc = "idle" => pSync' = NoSync
<1>1. CASE pSync' = NoSync
  BY <1>1 DEF NoSync, FetchedOk
<1>2. CASE pSync' = [NoSync EXCEPT !.pc = "drain"]
  <2>1. pSync'.pc = "drain"
    BY <1>2 DEF NoSync
  <2> QED BY <2>1 DEF FetchedOk
<1>3. ASSUME NEW a, pSync' = [NoSync EXCEPT !.pc = "get", !.asked = a]
      PROVE  pSync'.pc = "get" /\ \A i \in PhoneIds : FetchedOk(i)'
  <2>1. pSync'.pc = "get"
    BY <1>3 DEF NoSync
  <2> QED BY <2>1 DEF FetchedOk
<1> QED BY <1>1, <1>2, <1>3 DEF Fresh

\* A sync starts.
LEMMA SyncStartRev ==
  ASSUME Typed, Typed', PhoneTyped, PhoneTyped', PhoneInv', NEW i \in PhoneIds, i \notin raced', PhoneRevOk(i), SyncStart
  PROVE  PhoneRevOk(i)'
<1>1. UNCHANGED <<pLocal, pBox, pRev, pSaving, pGone, misled, records, revision>>
  BY DEF SyncStart, PhoneRest, server
<1>2. CASE drain.pc = "idle" /\ Queued(pBox) = {}
  <2>1. pSync' = [NoSync EXCEPT !.pc = "get", !.asked = pRev] /\ drain' = drain
    BY <1>2 DEF SyncStart
  <2>2. Fresh(pSync')
    BY <2>1 DEF Fresh
  <2>3. FetchedOk(i)' /\ pSync'.pc # "save"
    BY <2>2, FreshRev
  <2> QED BY <1>1, <1>2, <2>1, <2>3, SyncQuiet
<1>3. CASE ~(drain.pc = "idle" /\ Queued(pBox) = {})
  <2>1. pSync' = [NoSync EXCEPT !.pc = "drain"] /\ Drain(<<>>)
    BY <1>3 DEF SyncStart
  <2>2. Fresh(pSync') /\ pSync'.pc = "drain"
    BY <2>1 DEF Fresh, NoSync
  <2>3. FetchedOk(i)'
    BY <2>2, FreshRev
  <2>4. CASE SameDrain
    BY <1>1, <2>2, <2>3, <2>4, SyncQuiet
  <2>5. CASE NewDrain
    <3>1. DrainMatches(i)' /\ ~DrainLast'
      BY <2>5, NewDrainOk
    <3>2. StoredOk(i)' /\ NewerOk(i)'
      BY <1>1, <2>2, <3>1 DEF PhoneRevOk, StoredOk, NewerOk
    <3> QED BY <2>3, <3>1, <3>2 DEF PhoneRevOk
  <2> QED BY <2>1, <2>4, <2>5, DrainKind
<1> QED BY <1>2, <1>3

\* The server answers a sync, and an empty account is about to be filled.
LEMMA SyncGotRev ==
  ASSUME Typed, PhoneTyped, NEW i \in PhoneIds, PhoneRevOk(i), ServeSync \/ SyncRefill
  PROVE  PhoneRevOk(i)'
<1>1. UNCHANGED <<pLocal, pBox, pRev, pSaving, pGone, misled, records, revision>> /\ drain' = drain
  BY DEF ServeSync, SyncRefill, SyncRest, PhoneRest, server
<1>2. /\ pSync \in Syncs(clock, revision) /\ revision \in Nat /\ pSync.ans \in 0 .. revision
      /\ pSync.asked \in 0 .. revision \union {None}
  BY PhoneFields
<1>3. CASE SyncRefill
  <2>1. pSync'.pc = "refill" /\ pSync.pc = "got"
    BY <1>2, <1>3 DEF SyncRefill, Syncs
  <2>2. FetchedOk(i)'
    BY <2>1 DEF FetchedOk
  <2> QED BY <1>1, <2>1, <2>2, SyncQuiet
<1>4. CASE ServeSync /\ pSync.asked = revision
  <2>1. pSync' = NoSync /\ pSync.pc = "get"
    BY <1>4 DEF ServeSync
  <2>2. Fresh(pSync') /\ pSync'.pc = "idle"
    BY <2>1 DEF Fresh, NoSync
  <2>3. FetchedOk(i)'
    BY <2>2, FreshRev
  <2> QED BY <1>1, <2>1, <2>2, <2>3, SyncQuiet
<1>5. CASE ServeSync /\ pSync.asked # revision
  <2>1. pSync.pc = "get" /\ pSync'.pc = "got" /\ pSync'.snap = records /\ pSync'.ans = revision
    BY <1>2, <1>5 DEF ServeSync, Syncs
  <2>2. FetchedOk(i)'
    <3>1. pSync'.ans + 1 # revision'
      BY <1>1, <1>2, <2>1
    <3> QED BY <1>1, <2>1, <3>1 DEF FetchedOk
  <2> QED BY <1>1, <2>1, <2>2, SyncQuiet
<1> QED BY <1>3, <1>4, <1>5

\* An empty account is filled, by a phone that has no revision yet.
LEMMA RefillRev ==
  ASSUME Typed, Typed', PhoneTyped, PhoneControl, NEW i \in PhoneIds, PhoneRevOk(i), ServeRefill \/ SyncRefilled
  PROVE  PhoneRevOk(i)'
<1>1. /\ revision \in Nat /\ pSync \in Syncs(clock, revision) /\ pSync.ans \in 0 .. revision
      /\ drain.ans \in 0 .. revision
  BY PhoneFields
<1>2. pRev = None
  <2>1. pSync.pc \in {"refill", "refilled"}
    BY DEF ServeRefill, SyncRefilled
  <2> QED BY <2>1 DEF PhoneControl, Asking
<1>3. CASE ServeRefill
  <2>1. /\ UNCHANGED <<pLocal, pBox, pRev, pSaving, pGone, misled, drain>> /\ clock' = clock
        /\ ApplyPush(pSync.snap) /\ pSync'.pc = "refilled" /\ pSync.pc = "refill" /\ pSync.snap \in Snaps(clock)
    BY <1>1, <1>3 DEF ServeRefill, SyncRest, PhoneRest, Syncs
  <2>2. Forward
    BY <2>1, PushForward
  <2>3. /\ i \in Ids /\ records[i] \in AnyRec /\ drain.snap[i] \in AnyRec /\ pLocal[i] \in Nat /\ pBox[i].at \in Nat
    BY PhoneIdTyped
  <2>4. records'[i] \in AnyRec /\ records[i].at <= records'[i].at /\ revision' \in Nat
    BY <2>2, <2>3 DEF Typed, Snaps, Recs, AnyRec, Forward
  <2>5. DrainMatches(i)'
    <3>1. CASE drain.pc = "idle"
      BY <2>1, <3>1 DEF DrainMatches
    <3>2. CASE drain.pc # "idle"
      <4>1. PICK g : g = (i \in pGone)
        OBVIOUS
      <4>2. Matches(drain.snap[i], pLocal[i], pBox[i], records[i], g, FALSE)
        BY <2>1, <3>2, <4>1 DEF PhoneRevOk, DrainMatches, Matches
      <4>3. Matches(drain.snap[i], pLocal[i], pBox[i], records'[i], g, FALSE)
        BY <2>3, <2>4, <4>2, RecordsGrow
      <4> QED BY <2>1, <4>1, <4>3 DEF DrainMatches, Matches
    <3> QED BY <3>1, <3>2
  <2>6. NewerOk(i)'
    BY <1>2, <2>1, <2>3, <2>4 DEF PhoneRevOk, NewerOk, AnyRec
  <2>7. StoredOk(i)' /\ FetchedOk(i)'
    BY <1>2, <2>1, <2>4 DEF StoredOk, FetchedOk, None
  <2> QED BY <2>5, <2>6, <2>7 DEF PhoneRevOk
<1>4. CASE SyncRefilled
  <2>1. /\ UNCHANGED <<pLocal, pBox, pSaving, pGone, records, revision>> /\ drain' = drain
        /\ pSync' = NoSync /\ pSync.pc = "refilled" /\ StorePushed(pSync.ans, TRUE)
    BY <1>4 DEF SyncRefilled, SyncRest, PhoneRest, server
  <2>2. Fresh(pSync') /\ pSync'.pc = "idle"
    BY <2>1 DEF Fresh, NoSync
  <2>3. pRev' = pRev /\ misled' = misled
    BY <1>2, <2>1 DEF StorePushed, Follows, PhoneTyped
  <2>4. FetchedOk(i)'
    BY <2>2, FreshRev
  <2> QED BY <2>1, <2>2, <2>3, <2>4, SyncQuiet
<1> QED BY <1>3, <1>4

\* A snapshot is merged,
LEMMA MergeRev ==
  ASSUME Typed, Typed', PhoneTyped, PhoneTyped', PhoneInv, NEW i \in PhoneIds, i \notin raced, PhoneRevOk(i), SyncMerge
  PROVE  PhoneRevOk(i)'
<1>1. /\ UNCHANGED <<pLocal, pRev, pSaving, pGone, misled, records, revision>> /\ pSync.pc = "got"
  BY DEF SyncMerge, SyncRest, PhoneRest, server
<1>2. /\ i \in Ids /\ records[i] \in AnyRec /\ drain.snap[i] \in AnyRec /\ pSync.snap[i] \in AnyRec
      /\ pLocal[i] \in Nat /\ pBox[i].at \in Nat
      /\ drain \in Drains(clock, revision) /\ pSync \in Syncs(clock, revision)
  BY PhoneIdTyped
<1>3. PICK es : /\ es = [k \in Unpushed(pSync.snap) |-> Put] /\ pBox' = Enqueued(es)
                /\ drain' = [drain EXCEPT !.carried = Carried(es)]
  BY DEF SyncMerge
<1>4. SameDrain /\ (DrainLast' <=> DrainLast)
  <2>1. SameDrain
    BY <1>2, <1>3 DEF SameDrain, Drains
  <2> QED BY <1>1, <2>1 DEF SameDrain, DrainLast
<1>5. PICK p \in AnyRec : p = pSync.snap[i]
  BY <1>2
<1>6. /\ pLocal[i] > p.at => pBox'[i] = Put
      /\ pLocal[i] <= p.at => pBox'[i] = pBox[i]
  BY <1>2, <1>3, <1>5 DEF Enqueued, Unpushed, LocalWins, AnyRec
<1>7. pSync'.pc = "save" /\ pSync'.merged = Merged(pSync.snap) /\ pSync'.ans = pSync.ans
  BY <1>2 DEF SyncMerge, Syncs
<1>8. pSync'.merged[i] = IF pLocal[i] > p.at THEN pLocal[i] ELSE Live(p)
  BY <1>5, <1>7 DEF Merged, LocalWins
<1>9. pSync'.merged[i] \in Nat
  BY <1>2, <1>8 DEF Live, AnyRec
<1>10. PICK m \in Nat : m = pSync'.merged[i]
  BY <1>9, Zenon
<1>11. PICK g : g = (i \in pGone)
  OBVIOUS
<1>12. /\ pBox[i].op = "delete" => g
       /\ p.at <= records[i].at /\ (p.at = records[i].at => p = records[i])
  BY <1>1, <1>5, <1>11, PhoneFacts
<1>13. drain.pc # "idle" => Matches(drain.snap[i], pLocal[i], pBox[i], records[i], g, FALSE)
  BY <1>1, <1>11 DEF PhoneRevOk, DrainMatches, Matches
<1>14. Put.op = "put"
  BY DEF Put
<1>15. DrainMatches(i)'
  <2>1. ASSUME Matches(drain.snap[i], pLocal[i], pBox[i], records[i], g, FALSE)
        PROVE  Matches(drain.snap[i], pLocal[i], pBox'[i], records[i], g, FALSE)
    BY <1>2, <1>6, <2>1 DEF Matches, AnyRec
  <2> QED BY <1>1, <1>4, <1>7, <1>11, <1>13, <2>1 DEF DrainMatches, SameDrain, Matches
<1>16. NewerOk(i)'
  <2>1. ASSUME Newer(pLocal[i], pBox[i], records[i], i \in pSaving)
        PROVE  Newer(pLocal[i], pBox'[i], records[i], i \in pSaving)
    BY <1>2, <1>6, <1>14, <2>1 DEF Newer, AnyRec
  <2>2. Newer(m, pBox'[i], records[i], i \in pSaving)
    BY <1>2, <1>6, <1>8, <1>10, <1>12, <1>14 DEF Newer, Live, AnyRec
  <2>3. pBox'[i].op = "delete" => pBox'[i] = pBox[i]
    BY <1>2, <1>6, <1>14 DEF AnyRec
  <2> QED BY <1>1, <1>10, <2>1, <2>2, <2>3 DEF PhoneRevOk, NewerOk
<1>17. StoredOk(i)'
  <2>1. ASSUME Steady(pLocal[i], pBox[i], records[i], g)
        PROVE  Steady(pLocal[i], pBox'[i], records[i], g)
    BY <1>2, <1>6, <2>1 DEF Steady, AnyRec
  <2> QED BY <1>1, <1>4, <1>11, <2>1 DEF PhoneRevOk, StoredOk, SameDrain
<1>18. ASSUME pSync.ans = revision PROVE m = Live(records[i]) \/ m > records[i].at
  <2>1. p = records[i]
    BY <1>1, <1>5, <1>18 DEF PhoneRevOk, FetchedOk
  <2> QED BY <1>8, <1>10, <2>1
<1>19. ASSUME pSync.ans + 1 = revision, DrainLast PROVE Steady(m, pBox'[i], records[i], g)
  <2>1. Written1(p, drain.snap[i], records[i])
    BY <1>1, <1>5, <1>19 DEF PhoneRevOk, FetchedOk
  <2>2. CASE records[i] = p
    BY <1>8, <1>10, <2>2 DEF Steady
  <2>3. CASE records[i] = drain.snap[i] /\ drain.snap[i] # NoRec
    <3>1. Matches(drain.snap[i], pLocal[i], pBox[i], drain.snap[i], g, FALSE)
      BY <1>13, <1>19, <2>3 DEF DrainLast
    <3>2. m = IF pLocal[i] > p.at THEN pLocal[i] ELSE Live(p)
      BY <1>8, <1>10
    <3> QED BY <1>2, <1>6, <1>12, <2>3, <3>1, <3>2, SettledMerged
  <2> QED BY <2>1, <2>2, <2>3 DEF Written1
<1>20. FetchedOk(i)'
  BY <1>1, <1>4, <1>7, <1>10, <1>11, <1>18, <1>19 DEF FetchedOk
<1> QED BY <1>15, <1>16, <1>17, <1>20 DEF PhoneRevOk

\* and stored with its revision.
LEMMA ApplyRev ==
  ASSUME Typed, PhoneTyped, PhoneInv, NEW i \in PhoneIds, i \notin raced, PhoneRevOk(i), SyncApply
  PROVE  PhoneRevOk(i)'
<1>1. /\ UNCHANGED <<pBox, pSaving, pGone, records, revision, drain>> /\ pSync.pc = "save"
      /\ pLocal' = pSync.merged /\ pRev' = pSync.ans /\ ~misled' /\ pSync' = NoSync
  BY DEF SyncApply, SyncRest, PhoneRest, server
<1>2. /\ i \in Ids /\ records[i] \in AnyRec /\ drain.snap[i] \in AnyRec /\ pLocal[i] \in Nat /\ pBox[i].at \in Nat
      /\ pSync.merged[i] \in Nat
  BY <1>1, PhoneIdTyped
<1>3. /\ revision \in Nat /\ pSync.ans \in 0 .. revision /\ drain.ans \in 0 .. revision
  BY PhoneFields
<1>4. Fresh(pSync') /\ pSync'.pc = "idle"
  BY <1>1 DEF Fresh, NoSync
<1>5. FetchedOk(i)'
  BY <1>4, FreshRev
<1>6. PICK m \in Nat : m = pSync.merged[i]
  BY <1>2
<1>7. PICK g : g = (i \in pGone)
  OBVIOUS
<1>8. MergeOk(records[i], pLocal[i], m) /\ (pBox[i].op = "delete" => g)
  BY <1>1, <1>6, <1>7, PhoneFacts
<1>9. DrainMatches(i)'
  <2>1. drain.pc # "idle" => Matches(drain.snap[i], pLocal[i], pBox[i], records[i], g, FALSE)
    BY <1>1, <1>7 DEF PhoneRevOk, DrainMatches, Matches
  <2>2. drain.pc # "idle" => Matches(drain.snap[i], m, pBox[i], records[i], g, TRUE)
    BY <1>2, <1>8, <2>1, MatchesStored
  <2> QED BY <1>1, <1>4, <1>6, <1>7, <2>2 DEF DrainMatches
<1>10. NewerOk(i)'
  <2>1. Newer(m, pBox[i], records[i], i \in pSaving)
    BY <1>1, <1>6 DEF PhoneRevOk, NewerOk
  <2>2. i \in pSaving /\ pBox[i].op = "delete" => pBox[i].at < m \/ pBox[i].at <= records[i].at
    BY <1>2, <1>8 DEF PhoneRevOk, NewerOk, MergeOk, AnyRec
  <2> QED BY <1>1, <1>4, <1>6, <2>1, <2>2 DEF NewerOk
<1>11. StoredOk(i)'
  <2>1. DrainLast' <=> DrainLast
    BY <1>1 DEF DrainLast
  <2>2. CASE pSync.ans = revision
    <3>1. m = Live(records[i]) \/ m > records[i].at
      BY <1>1, <1>6, <2>2 DEF PhoneRevOk, FetchedOk
    <3> QED BY <1>1, <1>6, <3>1 DEF StoredOk, Steady
  <2>3. CASE pSync.ans + 1 = revision /\ DrainLast
    <3>1. Steady(m, pBox[i], records[i], i \in pGone)
      BY <1>1, <1>6, <2>3 DEF PhoneRevOk, FetchedOk
    <3> QED BY <1>1, <1>6, <3>1 DEF StoredOk
  <2>4. CASE pSync.ans # revision /\ ~(pSync.ans + 1 = revision /\ DrainLast)
    <3>1. ~(pRev' = revision' \/ (DrainLast' /\ pRev' # None /\ drain'.ans <= pRev' + 1))
      BY <1>1, <1>3, <2>1, <2>4 DEF DrainLast
    <3> QED BY <3>1 DEF StoredOk
  <2> QED BY <2>2, <2>3, <2>4
<1> QED BY <1>5, <1>9, <1>10, <1>11 DEF PhoneRevOk

\* The control, in the sync's steps.
LEMMA SyncControl ==
  ASSUME Typed, PhoneTyped, PhoneControl, SyncStart \/ SyncStep
  PROVE  PhoneControl'
<1>1. /\ revision \in Nat /\ drain \in Drains(clock, revision) /\ pSync \in Syncs(clock, revision)
      /\ pSync.asked \in 0 .. revision \union {None} /\ pSync.ans \in 0 .. revision
  BY PhoneFields
<1>2. NoSync.pc = "idle"
  BY DEF NoSync
<1>3. CASE SyncStart
  <2>1. UNCHANGED <<pRev, records, revision>>
    BY <1>3 DEF SyncStart, PhoneRest, server
  <2>2. drain' = drain \/ Drain(<<>>)
    BY <1>3 DEF SyncStart
  <2>3. drain'.pc = "idle" => drain' = NoDrain
    BY <2>2, DrainIdle DEF PhoneControl
  <2>4. (pSync'.pc = "get" /\ pSync'.asked = pRev) \/ pSync'.pc = "drain"
    <3>1. pSync' = [NoSync EXCEPT !.pc = "get", !.asked = pRev] \/ pSync' = [NoSync EXCEPT !.pc = "drain"]
      BY <1>3 DEF SyncStart
    <3> QED BY <3>1 DEF NoSync
  <2> QED BY <2>1, <2>3, <2>4 DEF PhoneControl, Asking
<1>4. CASE ServeSync
  <2>1. UNCHANGED <<pRev, records, revision, drain>> /\ pSync.pc = "get"
    BY <1>4 DEF ServeSync, server
  <2>2. CASE pSync' = NoSync
    BY <1>2, <2>1, <2>2 DEF PhoneControl, Asking
  <2>3. CASE pSync.asked # revision
    <3>1. pSync'.pc = "got" /\ pSync'.snap = records /\ pSync'.asked = pSync.asked
      BY <1>1, <1>4, <2>3 DEF ServeSync, Syncs
    <3>2. records = Nothing => pSync.asked = None
      BY <1>1, <2>3 DEF PhoneControl
    <3> QED BY <2>1, <3>1, <3>2 DEF PhoneControl, Asking
  <2> QED BY <1>4, <2>2, <2>3 DEF ServeSync
<1>5. CASE SyncRefill
  <2>1. UNCHANGED <<pRev, records, revision, drain>> /\ pSync.pc = "got" /\ pSync.snap = Nothing
        /\ pSync'.pc = "refill" /\ pSync'.asked = pSync.asked
    BY <1>1, <1>5 DEF SyncRefill, server, Syncs
  <2> QED BY <2>1 DEF PhoneControl, Asking
<1>6. CASE ServeRefill
  <2>1. /\ UNCHANGED <<pRev, drain>> /\ pSync.pc = "refill" /\ pSync'.pc = "refilled" /\ pSync'.asked = pSync.asked
        /\ ApplyPush(pSync.snap) /\ clock' = clock /\ pSync.snap \in Snaps(clock)
    BY <1>1, <1>6 DEF ServeRefill, SyncRest, PhoneRest, Syncs
  <2>2. Forward
    BY <2>1, PushForward
  <2>3. records' = Nothing => revision' = 0
    BY <2>2 DEF PhoneControl, Forward
  <2> QED BY <2>1, <2>3 DEF PhoneControl, Asking
<1>7. CASE SyncRefilled \/ SyncApply
  <2>1. UNCHANGED <<records, revision, drain>> /\ pSync' = NoSync
    BY <1>7 DEF SyncRefilled, SyncApply, server
  <2> QED BY <1>2, <2>1 DEF PhoneControl, Asking
<1>8. CASE SyncMerge
  <2>1. UNCHANGED <<pRev, records, revision>> /\ pSync.pc = "got"
        /\ pSync'.pc = "save" /\ pSync'.asked = pSync.asked
    BY <1>1, <1>8 DEF SyncMerge, server, Syncs
  <2>2. PICK c : drain' = [drain EXCEPT !.carried = c]
    BY <1>8 DEF SyncMerge
  <2>3. drain'.pc = drain.pc /\ (drain.pc = "idle" => drain.carried = {})
    BY <1>1, <2>2 DEF Drains, PhoneControl, NoDrain
  <2>4. drain'.pc = "idle" => drain' = NoDrain
    <3>1. CASE drain.pc = "idle"
      <4>1. drain = NoDrain /\ drain' = [drain EXCEPT !.carried = Carried([k \in Unpushed(pSync.snap) |-> Put])]
        BY <1>8, <3>1 DEF SyncMerge, PhoneControl
      <4>2. drain' = [drain EXCEPT !.carried = {}]
        BY <2>3, <3>1, <4>1 DEF Carried
      <4> QED BY <4>1, <4>2 DEF NoDrain
    <3> QED BY <2>3, <3>1
  <2> QED BY <2>1, <2>4 DEF PhoneControl, Asking
<1> QED BY <1>3, <1>4, <1>5, <1>6, <1>7, <1>8 DEF SyncStep

\* Failures and restarts.
LEMMA PhoneFailureRev ==
  ASSUME Typed, PhoneTyped, NEW i \in PhoneIds, PhoneRevOk(i), DrainFails \/ SyncFails \/ PhoneRestarts
  PROVE  PhoneRevOk(i)'
<1>1. UNCHANGED <<pLocal, pBox, pGone, records, revision>> /\ revision \in Nat
  BY PhoneFields DEF DrainFails, SyncFails, PhoneRestarts, PhoneRest, server
<1>2. NoDrain.pc = "idle" /\ NoSync.pc = "idle"
  BY DEF NoDrain, NoSync
<1>3. CASE DrainFails
  <2>1. UNCHANGED <<pRev, pSaving, misled>> /\ drain' = NoDrain
    BY <1>3 DEF DrainFails, SettleDrain
  <2>2. DrainMatches(i)' /\ ~DrainLast'
    BY <1>2, <2>1 DEF DrainMatches, DrainLast
  <2>3. pSync' = pSync \/ pSync' = [NoSync EXCEPT !.pc = "get", !.asked = pRev]
    BY <1>3 DEF DrainFails, SettleDrain
  <2>4. pSync' = pSync \/ pSync'.pc = "get"
    BY <2>3 DEF NoSync
  <2>5. StoredOk(i)' /\ NewerOk(i)' /\ FetchedOk(i)'
    BY <1>1, <2>1, <2>2, <2>4 DEF PhoneRevOk, StoredOk, NewerOk, FetchedOk
  <2> QED BY <2>2, <2>5 DEF PhoneRevOk
<1>4. CASE SyncFails
  <2>1. UNCHANGED <<pRev, pSaving, misled>> /\ drain' = drain /\ pSync' = NoSync
    BY <1>4 DEF SyncFails, AfterFailure
  <2>2. Fresh(pSync') /\ pSync'.pc = "idle"
    BY <1>2, <2>1 DEF Fresh
  <2>3. FetchedOk(i)'
    BY <2>2, FreshRev
  <2> QED BY <1>1, <2>1, <2>2, <2>3, SyncQuiet
<1>5. CASE PhoneRestarts
  <2>1. pRev' = None /\ pSaving' = {} /\ drain' = NoDrain /\ pSync' = NoSync
    BY <1>5 DEF PhoneRestarts
  <2>2. DrainMatches(i)' /\ ~DrainLast'
    BY <1>2, <2>1 DEF DrainMatches, DrainLast
  <2>3. NewerOk(i)' /\ FetchedOk(i)'
    BY <1>2, <2>1 DEF NewerOk, FetchedOk
  <2>4. StoredOk(i)'
    BY <1>1, <2>1, <2>2 DEF StoredOk, None
  <2> QED BY <2>2, <2>3, <2>4 DEF PhoneRevOk
<1> QED BY <1>3, <1>4, <1>5

\* The control, in failures.
LEMMA PhoneFailureControl ==
  ASSUME PhoneControl, DrainFails \/ SyncFails \/ PhoneRestarts
  PROVE  PhoneControl'
<1>1. UNCHANGED <<records, revision>> /\ NoSync.pc = "idle"
  BY DEF DrainFails, SyncFails, PhoneRestarts, PhoneRest, server, NoSync
<1>2. drain' = NoDrain \/ drain' = drain
  BY DEF DrainFails, SyncFails, PhoneRestarts, SettleDrain
<1>3. CASE pSync' = NoSync
  BY <1>1, <1>2, <1>3 DEF PhoneControl, Asking
<1>4. CASE DrainFails
  <2>1. pRev' = pRev
    BY <1>4 DEF DrainFails
  <2>2. pSync' = pSync \/ pSync' = [NoSync EXCEPT !.pc = "get", !.asked = pRev]
    BY <1>4 DEF DrainFails, SettleDrain
  <2>3. pSync' = pSync \/ (pSync'.pc = "get" /\ pSync'.asked = pRev)
    BY <2>2 DEF NoSync
  <2> QED BY <1>1, <1>2, <2>1, <2>3 DEF PhoneControl, Asking
<1> QED BY <1>3, <1>4 DEF SyncFails, PhoneRestarts, AfterFailure

\* Every step keeps the invariant of the stored revision.
LEMMA PhoneRevStep ==
  ASSUME Typed, Typed', PhoneTyped, PhoneTyped', PhoneInv, PhoneInv', PhoneRevInv,
         [PhoneNext]_allVars
  PROVE  PhoneRevInv'
<1>1. PhoneControl /\ \A i \in PhoneIds \ raced' : i \in PhoneIds /\ i \notin raced /\ PhoneRevOk(i)
  BY PhoneRacedGrows DEF PhoneRevInv
<1>2. CASE [Next]_vars /\ UNCHANGED phone
  BY <1>2, DesktopsRev
<1>3. CASE UNCHANGED allVars
  BY <1>2, <1>3 DEF allVars, vars, phone
<1>4. ASSUME NEW j \in PhoneIds, SaveHost(j) \/ SecretSaved(j) \/ EditRecord(j) \/ DeleteHost(j)
      PROVE  PhoneRevInv'
  <2>1. PhoneControl'
    BY <1>1, <1>4, PhoneUserControl
  <2>2. ASSUME NEW i \in PhoneIds \ raced' PROVE PhoneRevOk(i)'
    <3>1. i \in PhoneIds /\ i \notin raced /\ i \notin raced' /\ PhoneRevOk(i)
      BY <1>1, <2>2
    <3> QED BY <1>4, <3>1, PhoneUserRev
  <2> QED BY <2>1, <2>2 DEF PhoneRevInv
<1>5. CASE ServeDrain \/ DrainDone
  <2>1. PhoneControl'
    BY <1>1, <1>5, DrainControl
  <2>2. ASSUME NEW i \in PhoneIds \ raced' PROVE PhoneRevOk(i)'
    <3>1. i \in PhoneIds /\ i \notin raced /\ i \notin raced' /\ PhoneRevOk(i)
      BY <1>1, <2>2
    <3> QED BY <1>5, <3>1, ServeDrainRev, DrainDoneRev
  <2> QED BY <2>1, <2>2 DEF PhoneRevInv
<1>6. CASE SyncStart \/ SyncStep
  <2>1. PhoneControl'
    BY <1>1, <1>6, SyncControl
  <2>2. ASSUME NEW i \in PhoneIds \ raced' PROVE PhoneRevOk(i)'
    <3>1. i \in PhoneIds /\ i \notin raced /\ i \notin raced' /\ PhoneRevOk(i)
      BY <1>1, <2>2
    <3> QED BY <1>1, <1>6, <3>1, SyncStartRev, SyncGotRev, RefillRev, MergeRev, ApplyRev DEF SyncStep
  <2> QED BY <2>1, <2>2 DEF PhoneRevInv
<1>7. CASE DrainFails \/ SyncFails \/ PhoneRestarts
  <2>1. PhoneControl'
    BY <1>1, <1>7, PhoneFailureControl
  <2>2. \A i \in PhoneIds \ raced' : PhoneRevOk(i)'
    BY <1>1, <1>7, PhoneFailureRev
  <2> QED BY <2>1, <2>2 DEF PhoneRevInv
<1> QED BY <1>2, <1>3, <1>4, <1>5, <1>6, <1>7 DEF PhoneNext, PhoneStep, DrainStep

\* The first state.
LEMMA PhoneRevInit == ASSUME PhoneInit PROVE PhoneRevInv
<1>1. /\ revision = 0 /\ pRev = None /\ pSaving = {} /\ drain = NoDrain /\ pSync = NoSync
  BY DEF PhoneInit, Init
<1>2. drain.pc = "idle" /\ pSync.pc = "idle"
  BY <1>1 DEF NoDrain, NoSync
<1>3. PhoneControl
  BY <1>1, <1>2 DEF PhoneControl, Asking
<1>4. ASSUME NEW i \in PhoneIds PROVE PhoneRevOk(i)
  BY <1>1, <1>2 DEF PhoneRevOk, DrainMatches, NewerOk, StoredOk, FetchedOk, DrainLast, None
<1> QED BY <1>3, <1>4 DEF PhoneRevInv

\* The phone's stored revision stands for its records: a phone with nothing to
\* send whose revision is the server's, and which therefore gets 304, has the
\* server's records, although its drains move the revision while a sync is
\* between its request and its end; but for the ways out that are
\* findings (a push that wrote nothing, a deletion a sync brings back, and a
\* record somebody acted on while it was being replaced).
THEOREM PhoneRevisionIsState == PhoneSpec => []PhoneSettledAgrees
<1>1. PhoneInit => PhoneRevInv
  BY PhoneRevInit
<1>2. (Typed /\ PhoneTyped /\ PhoneInv) /\ (Typed /\ PhoneTyped /\ PhoneInv)' /\ PhoneRevInv /\ [PhoneNext]_allVars
        => PhoneRevInv'
  BY PhoneRevStep
<1>3. Typed /\ PhoneTyped /\ PhoneRevInv => PhoneSettledAgrees
  <2> SUFFICES ASSUME Typed, PhoneTyped, PhoneRevInv, PhoneIdle, pRev = revision, ~misled,
                      NEW i \in PhoneIds, i \notin Revived, i \notin raced
               PROVE  pLocal[i] = Live(records[i])
    BY DEF PhoneSettledAgrees, PhoneAgrees
  <2>1. /\ revision \in Nat /\ pLocal[i] \in Nat
    BY PhoneIdTyped
  <2>2. pBox[i] = NoEntry /\ i \notin pSaving
    BY DEF PhoneIdle, Queued
  <2>3. pBox[i].op = "none"
    BY <2>2 DEF NoEntry
  <2>4. Steady(pLocal[i], pBox[i], records[i], i \in pGone)
    BY DEF PhoneRevInv, PhoneRevOk, StoredOk
  <2>5. ~(pLocal[i] > records[i].at)
    BY <2>1, <2>2, <2>3 DEF PhoneRevInv, PhoneRevOk, NewerOk, Newer, None
  <2>6. ~(i \in pGone /\ pLocal[i] # 0)
    BY DEF Revived
  <2> QED BY <2>3, <2>4, <2>5, <2>6 DEF Steady
<1>4. PhoneSpec => [](Typed /\ PhoneTyped /\ PhoneInv)
  BY PhoneAlways
<1> QED BY <1>1, <1>2, <1>3, <1>4, PTL DEF PhoneSpec

=============================================================================
