------------------------- MODULE SyncWatchHubProofs -------------------------
(***************************************************************************)
(* The safety of the watch hub for any number of handlers, accounts and    *)
(* commits.                                                                *)
(***************************************************************************)
EXTENDS SyncWatchHub, FiniteSetTheorems, TLAPS

\* A handler holds a subscription exactly while it waits.
SubShape ==
    \A h \in Handlers : /\ pc[h] = "wait" => sub[h] # NoSub
                        /\ pc[h] # "wait" => sub[h] = NoSub

\* Revisions only grow, and an entry's is the oldest of its waiters'.
SinceOrder ==
    \A h \in Handlers :
        /\ since[h] <= revision[User[h]]
        /\ sub[h] = entry[User[h]].id /\ Present(User[h])
               => entry[User[h]].since <= since[h]

\* The records the table holds.
Entry == [id : Nat, waiters : Nat, since : Nat]

\* What Release does to the types.
LEMMA ReleaseType ==
    ASSUME TypeOK, NEW h \in Handlers, Release(h)
    PROVE  /\ entry' \in [Users -> Entry]
           /\ \A u \in Users : entry'[u] # NoEntry =>
                  entry'[u].id \in 1..made /\ entry'[u].waiters > 0
           /\ sub' = [sub EXCEPT ![h] = NoSub]
           /\ made' = made /\ signalled' = signalled
<1>1. User[h] \in Users
  BY HubAssumption
<1>2. entry[User[h]] \in Entry
  BY <1>1 DEF TypeOK, Entry
<1>3. Left(h) \in Entry
  BY <1>2 DEF Left, Entry, NoEntry
<1>4. Left(h) # NoEntry => Left(h).id \in 1..made /\ Left(h).waiters > 0
  BY <1>1, <1>2 DEF Left, Entry, NoEntry, TypeOK, Present
<1>5. QED
  BY <1>1, <1>3, <1>4 DEF Release, TypeOK, Entry, Present

\* Every variable of the hub, its handlers and its checking goroutine keeps its
\* type, whatever the interleaving.
THEOREM TypeCorrect == Spec => []TypeOK
<1>1. Init => TypeOK
  <2> SUFFICES ASSUME Init PROVE TypeOK
    OBVIOUS
  <2>1. NoEntry \in [id : Nat, waiters : Nat, since : Nat]
    BY DEF NoEntry
  <2>2. entry \in [Users -> [id : Nat, waiters : Nat, since : Nat]]
    BY <2>1 DEF Init
  <2>3. \A u \in Users : ~ Present(u)
    BY DEF Init, Present
  <2>4. sub \in [Handlers -> Int] /\ \A h \in Handlers : sub[h] = NoSub
    BY DEF Init, NoSub
  <2>5. waiting \in [Users -> Nat \union {None}]
    BY DEF Init
  <2>6. QED
    BY <2>2, <2>3, <2>4, <2>5 DEF Init, TypeOK
<1>2. TypeOK /\ [Next]_vars => TypeOK'
  <2> SUFFICES ASSUME TypeOK, [Next]_vars PROVE TypeOK'
    OBVIOUS
  <2> USE DEF TypeOK, Present
  <2>1. ASSUME NEW h \in Handlers, Arrive(h) PROVE TypeOK'
    <3>1. User[h] \in Users
      BY HubAssumption
    <3>2. /\ pc' \in [Handlers -> {"idle", "gated", "wait", "reread", "done"}]
          /\ since' \in [Handlers -> Nat]
      BY <2>1, <3>1 DEF Arrive
    <3>3. UNCHANGED <<revision, exists, owed, entry, signalled, made, checking, loop,
                      waiting, due, closed, sub>>
      BY <2>1 DEF Arrive, database, table, checker
    <3>4. QED
      BY <3>2, <3>3
  <2>2. ASSUME NEW h \in Handlers, Subscribe(h) PROVE TypeOK'
    <3>1. User[h] \in Users /\ entry[User[h]] \in [id : Nat, waiters : Nat, since : Nat]
      BY HubAssumption
    <3>2. CASE closed
      <4>1. /\ pc' = [pc EXCEPT ![h] = "wait"] /\ sub' = [sub EXCEPT ![h] = ClosedCh]
            /\ UNCHANGED <<revision, exists, owed, entry, signalled, made, checking,
                            loop, waiting, due, closed, since>>
        BY <2>2, <3>2 DEF Subscribe, database, table, checker
      <4>2. /\ sub' \in [Handlers -> Int]
            /\ \A k \in Handlers : sub'[k] \in (1..made) \union {NoSub, ClosedCh}
        BY <4>1 DEF ClosedCh
      <4>3. QED
        BY <4>1, <4>2
    <3>3. CASE ~ closed /\ Present(User[h])
      <4>1. Joined(User[h], since[h]) \in [id : Nat, waiters : Nat, since : Nat]
        BY <3>1 DEF Joined, Older
      <4>2. /\ Joined(User[h], since[h]).id = entry[User[h]].id
            /\ Joined(User[h], since[h]).waiters > 0
        BY <3>1 DEF Joined
      <4>3. entry[User[h]].id \in 1..made
        BY <3>1, <3>3
      <4> HIDE DEF Joined
      <4>4. /\ entry' = [entry EXCEPT ![User[h]] = Joined(User[h], since[h])]
            /\ made' = made /\ signalled' = signalled
            /\ sub' = [sub EXCEPT ![h] = entry'[User[h]].id]
            /\ loop' \in {loop, "tick"} /\ checking' = TRUE
            /\ pc' = [pc EXCEPT ![h] = "wait"]
            /\ UNCHANGED <<revision, exists, owed, waiting, due, closed, since>>
        BY <2>2, <3>3 DEF Subscribe, database
      <4>5. entry' \in [Users -> [id : Nat, waiters : Nat, since : Nat]]
        BY <4>1, <4>4
      <4>6. \A u \in Users : entry'[u] # NoEntry =>
                entry'[u].id \in 1..made /\ entry'[u].waiters > 0
        BY <3>1, <4>2, <4>3, <4>4
      <4>7. entry'[User[h]].id \in 1..made
        BY <3>1, <4>2, <4>3, <4>4
      <4>8. sub' \in [Handlers -> Int] /\ \A k \in Handlers :
                sub'[k] \in (1..made) \union {NoSub, ClosedCh}
        BY <4>4, <4>7
      <4>9. QED
        BY <4>4, <4>5, <4>6, <4>8
    <3>4. CASE ~ closed /\ ~ Present(User[h])
      <4> DEFINE new == [id |-> made + 1, waiters |-> 1, since |-> since[h]]
      <4>1. new \in [id : Nat, waiters : Nat, since : Nat] /\ new.id = made + 1
                /\ new.waiters = 1
        OBVIOUS
      <4>2. /\ entry' = [entry EXCEPT ![User[h]] = new]
            /\ made' = made + 1 /\ signalled' = signalled
            /\ sub' = [sub EXCEPT ![h] = entry'[User[h]].id]
            /\ loop' \in {loop, "tick"} /\ checking' = TRUE
            /\ pc' = [pc EXCEPT ![h] = "wait"]
            /\ UNCHANGED <<revision, exists, owed, waiting, due, closed, since>>
        BY <2>2, <3>4 DEF Subscribe, database
      <4> HIDE DEF new
      <4>3. entry' \in [Users -> [id : Nat, waiters : Nat, since : Nat]]
        BY <4>1, <4>2
      <4>4. \A u \in Users : entry'[u] # NoEntry =>
                entry'[u].id \in 1..(made + 1) /\ entry'[u].waiters > 0
        BY <3>1, <4>1, <4>2
      <4>5. sub' \in [Handlers -> Int] /\ \A k \in Handlers :
                sub'[k] \in (1..(made + 1)) \union {NoSub, ClosedCh}
        BY <3>1, <4>1, <4>2
      <4>6. QED
        BY <4>2, <4>3, <4>4, <4>5
    <3>5. QED
      BY <3>2, <3>3, <3>4
  <2>3. ASSUME NEW h \in Handlers, Wake(h) \/ Expire(h) \/ Shutdown(h) PROVE TypeOK'
    <3>1. Release(h) /\ pc' \in [Handlers -> {"idle", "gated", "wait", "reread", "done"}]
          /\ UNCHANGED <<revision, exists, owed, checking, loop, waiting, due, closed, since>>
      BY <2>3 DEF Wake, Expire, Shutdown, database, checker
    <3>2. QED
      <4>1. /\ entry' \in [Users -> [id : Nat, waiters : Nat, since : Nat]]
            /\ \A u \in Users : entry'[u] # NoEntry =>
                   entry'[u].id \in 1..made /\ entry'[u].waiters > 0
            /\ sub' = [sub EXCEPT ![h] = NoSub]
            /\ made' = made /\ signalled' = signalled
        BY <3>1, ReleaseType DEF Entry
      <4>2. /\ sub' \in [Handlers -> Int]
            /\ \A k \in Handlers : sub'[k] \in (1..made) \union {NoSub, ClosedCh}
        BY <4>1 DEF NoSub
      <4>3. QED
        BY <3>1, <4>1, <4>2
  <2>4. ASSUME NEW h \in Handlers, Reread(h) \/ RereadFails(h) PROVE TypeOK'
    <3>1. pc' \in [Handlers -> {"idle", "gated", "wait", "reread", "done"}]
      BY <2>4 DEF Reread, RereadFails
    <3>2. UNCHANGED <<revision, exists, owed, entry, signalled, made, checking, loop,
                      waiting, due, closed, since, sub>>
      BY <2>4 DEF Reread, RereadFails, database, table, checker
    <3>3. QED
      BY <3>1, <3>2
  <2>5. CASE CheckTick
    <3>1. UNCHANGED <<revision, exists, owed, entry, signalled, made, closed, pc, since, sub>>
      BY <2>5 DEF CheckTick, database, table, handler
    <3>2. CASE CopyWaiting
      BY <3>1, <3>2 DEF CopyWaiting
    <3>3. CASE NobodyWaits
      BY <3>1, <3>3 DEF NobodyWaits
    <3>4. QED
      BY <2>5, <3>2, <3>3 DEF CheckTick
  <2>6. CASE CheckClosed
    BY <2>6 DEF CheckClosed, database, table, handler
  <2>7. CASE CheckRead
    BY <2>7 DEF CheckRead, database, table, handler
  <2>8. CASE CheckReadFails
    BY <2>8 DEF CheckReadFails, database, table, handler
  <2>9. ASSUME NEW u \in Users, Notify(u)
        PROVE  /\ entry' \in [Users -> [id : Nat, waiters : Nat, since : Nat]]
               /\ made' = made /\ signalled' \subseteq 1..made
               /\ \A v \in Users : entry'[v] # NoEntry =>
                      entry'[v].id \in 1..made /\ entry'[v].waiters > 0
    <3>1. entry[u].id = 0 \/ entry[u].id \in 1..made
      BY DEF NoEntry
    <3>2. QED
      BY <2>9, <3>1 DEF Notify, NoEntry
  <2>10. CASE CheckWake
    <3>1. CASE \E u \in due : Notify(u) /\ due' = due \ {u} /\ UNCHANGED loop
      BY <2>9, <2>10, <3>1 DEF CheckWake, database, handler
    <3>2. CASE due = {} /\ loop' = "tick" /\ UNCHANGED <<table, due>>
      BY <2>10, <3>2 DEF CheckWake, database, table, handler
    <3>3. QED
      BY <2>10, <3>1, <3>2 DEF CheckWake
  <2>11. ASSUME NEW u \in Users, Commit(u) PROVE TypeOK'
    BY <2>11 DEF Commit, table, checker, handler
  <2>12. ASSUME NEW u \in Users, NotifyCommitted(u) PROVE TypeOK'
    BY <2>9, <2>12 DEF NotifyCommitted, checker, handler
  <2>13. ASSUME NEW u \in Users, CommitElsewhere(u) PROVE TypeOK'
    BY <2>13 DEF CommitElsewhere, table, checker, handler
  <2>14. ASSUME NEW u \in Users, DeleteAccount(u) PROVE TypeOK'
    BY <2>14 DEF DeleteAccount, table, checker, handler
  <2>15. CASE Close
    BY <2>15 DEF Close, database, table, checker, handler
  <2>16. CASE UNCHANGED vars
    BY <2>16 DEF vars
  <2>17. QED
    BY <2>1, <2>2, <2>3, <2>4, <2>5, <2>6, <2>7, <2>8, <2>10, <2>11, <2>12, <2>13,
       <2>14, <2>15, <2>16 DEF Next, Serve, Check
<1>3. QED
  BY <1>1, <1>2, PTL DEF Spec

-----------------------------------------------------------------------------
(* Counting waiters and reaching them.                                     *)

\* Why both are needed at once: an entry goes when its count says that the last
\* waiter left, which strands nobody only if the count is exact.
WaitInv == TypeOK /\ SubShape /\ WaitersExact /\ NoOrphan

\* Two waiters count two.
LEMMA TwoCounted ==
    ASSUME NEW S, IsFiniteSet(S), NEW a \in S, NEW b \in S, a # b
    PROVE  Cardinality(S) \in Nat /\ Cardinality(S) > 1
<1>1. IsFiniteSet(S \ {a}) /\ Cardinality(S \ {a}) = Cardinality(S) - 1
  BY FS_RemoveElement
<1>2. Cardinality(S \ {a}) # 0
  BY <1>1, FS_EmptySet, b \in S \ {a}
<1>3. Cardinality(S) \in Nat /\ Cardinality(S \ {a}) \in Nat
  BY <1>1, FS_CardinalityType
<1>4. QED
  BY <1>1, <1>2, <1>3

\* The handlers on an entry are finitely many.
LEMMA HoldingFinite ==
    ASSUME NEW u \in Users
    PROVE  IsFiniteSet(Holding(u)) /\ Cardinality(Holding(u)) \in Nat
<1>1. Holding(u) \subseteq Handlers
  BY DEF Holding
<1>2. QED
  BY <1>1, HubAssumption, FS_Subset, FS_CardinalityType

\* Subscribing is counted, and the handler can be reached.
LEMMA SubscribeCounted ==
    ASSUME WaitInv, TypeOK', NEW h \in Handlers, Subscribe(h)
    PROVE  WaitersExact' /\ NoOrphan'
<1> DEFINE u == User[h]
<1>1. u \in Users /\ sub[h] = NoSub /\ signalled' = signalled
  BY HubAssumption DEF Subscribe, WaitInv, SubShape, table
<1>2. pc' = [pc EXCEPT ![h] = "wait"]
  BY DEF Subscribe
<1>3. \A v \in Users : Present(v) => entry[v].id \in 1..made
  BY DEF WaitInv, TypeOK
<1>4. made \in Nat /\ \A k \in Handlers : sub[k] \in (1..made) \union {0, -1}
  BY DEF WaitInv, TypeOK, NoSub, ClosedCh
<1>5. CASE closed
  <2>1. entry' = entry /\ sub' = [sub EXCEPT ![h] = -1]
    BY <1>5 DEF Subscribe, table, ClosedCh
  <2>2. \A v \in Users : Present(v) => Holding(v)' = Holding(v)
    BY <1>1, <1>3, <2>1 DEF Holding, WaitInv, TypeOK, NoSub
  <2>3. WaitersExact'
    BY <2>1, <2>2 DEF WaitersExact, WaitInv, Present
  <2>4. NoOrphan'
    BY <1>1, <1>2, <2>1 DEF NoOrphan, WaitInv, TypeOK, ClosedCh
  <2>5. QED
    BY <2>3, <2>4
<1>6. CASE ~ closed /\ Present(u)
  <2>1. /\ entry' = [entry EXCEPT ![u] = Joined(u, since[h])]
        /\ sub' = [sub EXCEPT ![h] = entry[u].id]
    BY <1>1, <1>6 DEF Subscribe, Joined, WaitInv, TypeOK
  <2>2. /\ entry'[u].id = entry[u].id /\ entry'[u].waiters = entry[u].waiters + 1
        /\ \A v \in Users \ {u} : entry'[v] = entry[v]
    BY <1>1, <2>1 DEF Joined, WaitInv, TypeOK
  <2>3. entry[u].id # 0
    BY <1>1, <1>3, <1>4, <1>6
  <2>4. Holding(u)' = Holding(u) \union {h} /\ h \notin Holding(u)
    BY <1>1, <2>1, <2>2, <2>3 DEF Holding, WaitInv, TypeOK, NoSub
  <2>5. Cardinality(Holding(u)') = entry[u].waiters + 1
    BY <1>1, <1>6, <2>4, HoldingFinite, FS_AddElement DEF WaitInv, WaitersExact
  <2>6. \A v \in Users \ {u} : Holding(v)' = Holding(v)
    BY <1>1, <2>1, <2>2 DEF Holding, WaitInv, TypeOK
  <2>7. WaitersExact'
    BY <2>2, <2>5, <2>6 DEF WaitersExact, WaitInv, Present
  <2>8. NoOrphan'
    BY <1>1, <1>2, <2>1, <2>2, HubAssumption DEF NoOrphan, WaitInv, TypeOK
  <2>9. QED
    BY <2>7, <2>8
<1>7. CASE ~ closed /\ ~ Present(u)
  <2> DEFINE new == [id |-> made + 1, waiters |-> 1, since |-> since[h]]
  <2>1. entry' = [entry EXCEPT ![u] = new] /\ sub' = [sub EXCEPT ![h] = made + 1]
    BY <1>1, <1>7 DEF Subscribe, WaitInv, TypeOK
  <2>2. /\ entry'[u].id = made + 1 /\ entry'[u].waiters = 1
        /\ \A v \in Users \ {u} : entry'[v] = entry[v]
    BY <1>1, <2>1 DEF WaitInv, TypeOK
  <2> HIDE DEF new
  <2>3. Holding(u)' = {h}
    <3>1. sub'[h] = made + 1 /\ User[h] = u
      BY <2>1 DEF WaitInv, TypeOK
    <3>2. \A k \in Handlers \ {h} : sub'[k] = sub[k]
      BY <2>1 DEF WaitInv, TypeOK
    <3>3. \A k \in Handlers : sub[k] # made + 1
      BY <1>4
    <3>4. Holding(u)' = {k \in Handlers : User[k] = u /\ sub'[k] = made + 1}
      BY <2>2 DEF Holding
    <3>5. QED
      BY <3>1, <3>2, <3>3, <3>4
  <2>4. Cardinality(Holding(u)') = 1
    BY <2>3, FS_Singleton
  <2>5. \A v \in Users \ {u} : Holding(v)' = Holding(v)
    BY <1>1, <2>1, <2>2 DEF Holding, WaitInv, TypeOK
  <2>6. WaitersExact'
    BY <2>2, <2>4, <2>5 DEF WaitersExact, WaitInv, Present
  <2>7. \A k \in Handlers \ {h} :
            pc[k] = "wait" /\ sub[k] # ClosedCh /\ sub[k] \notin signalled => User[k] # u
    <3>1. entry[u].id = 0
      BY <1>7 DEF Present, NoEntry
    <3>2. QED
      BY <3>1 DEF WaitInv, NoOrphan, SubShape, NoSub
  <2>8. NoOrphan'
    BY <1>1, <1>2, <2>1, <2>2, <2>7, HubAssumption DEF NoOrphan, WaitInv, TypeOK
  <2>9. QED
    BY <2>6, <2>8
<1>8. QED
  BY <1>5, <1>6, <1>7

\* Leaving is counted, and strands nobody: whoever is left on the entry makes
\* its count at least two.
LEMMA ReleaseCounted ==
    ASSUME WaitInv, NEW h \in Handlers, pc[h] = "wait", Release(h),
           NEW at, at # "wait", pc' = [pc EXCEPT ![h] = at]
    PROVE  WaitersExact' /\ NoOrphan'
<1> DEFINE u == User[h]
<1>1. u \in Users /\ sub[h] # 0 /\ signalled' = signalled /\ sub' = [sub EXCEPT ![h] = 0]
  BY HubAssumption DEF Release, WaitInv, SubShape, NoSub
<1>2. \A v \in Users : Present(v) => entry[v].id \in 1..made
  BY DEF WaitInv, TypeOK
<1>3. made \in Nat /\ \A k \in Handlers : sub[k] \in (1..made) \union {0, -1}
  BY DEF WaitInv, TypeOK, NoSub, ClosedCh
<1>4. /\ \A k \in Handlers \ {h} : sub'[k] = sub[k] /\ pc'[k] = pc[k]
      /\ sub'[h] = 0 /\ pc'[h] # "wait"
  BY <1>1 DEF WaitInv, TypeOK
<1>5. \A v \in Users \ {u} : Present(v) /\ entry'[v] = entry[v] => Holding(v)' = Holding(v)
  BY <1>4, HubAssumption DEF Holding
<1>6. CASE entry' = entry /\ (Present(u) => entry[u].id # sub[h])
  <2>1. Present(u) => Holding(u)' = Holding(u)
    BY <1>1, <1>2, <1>3, <1>4, <1>6 DEF Holding
  <2>2. \A v \in Users : Present(v) => Holding(v)' = Holding(v)
    BY <1>5, <1>6, <2>1
  <2>3. WaitersExact'
    BY <1>6, <2>2 DEF WaitersExact, WaitInv, Present
  <2>4. NoOrphan'
    BY <1>1, <1>4, <1>6 DEF NoOrphan, WaitInv
  <2>5. QED
    BY <2>3, <2>4
<1>7. CASE sub[h] # ClosedCh /\ entry[u].id = sub[h]
  <2>1. entry' = [entry EXCEPT ![u] = Left(h)]
    BY <1>7 DEF Release
  <2>2. entry'[u] = Left(h) /\ \A v \in Users \ {u} : entry'[v] = entry[v]
    BY <1>1, <2>1 DEF WaitInv, TypeOK
  <2>3. Present(u)
    BY <1>1, <1>7 DEF Present, NoEntry
  <2>4. h \in Holding(u) /\ entry[u].waiters = Cardinality(Holding(u))
    BY <1>1, <1>7, <2>3 DEF Holding, WaitInv, WaitersExact
  <2>5. IsFiniteSet(Holding(u)) /\ Cardinality(Holding(u)) \in Nat
    BY <1>1, HoldingFinite
  <2>6. \A v \in Users \ {u} : entry'[v] # NoEntry =>
            entry'[v].waiters = Cardinality(Holding(v)')
    BY <1>5, <2>2 DEF WaitInv, WaitersExact, Present
  <2>7. ASSUME NEW k \in Handlers, pc'[k] = "wait", sub'[k] # ClosedCh,
               sub'[k] \notin signalled'
        PROVE  k # h /\ entry[User[k]].id = sub'[k] /\ User[k] \in Users
    BY <1>1, <1>4, <2>7, HubAssumption DEF WaitInv, NoOrphan
  <2>8. CASE entry[u].waiters <= 1
    <3>1. entry'[u] = NoEntry
      BY <1>7, <2>2, <2>8 DEF Left
    <3>2. WaitersExact'
      BY <2>6, <3>1 DEF WaitersExact, Present
    <3>3. ASSUME NEW k \in Handlers, pc'[k] = "wait", sub'[k] # ClosedCh,
                 sub'[k] \notin signalled'
          PROVE  entry'[User[k]].id = sub'[k]
      <4>1. User[k] # u
        <5> SUFFICES ASSUME User[k] = u PROVE FALSE
          OBVIOUS
        <5>1. k # h /\ entry[User[k]].id = sub'[k]
          BY <2>7, <3>3
        <5>2. k \in Holding(u)
          BY <1>4, <5>1 DEF Holding
        <5>3. Cardinality(Holding(u)) > 1
          BY <2>4, <2>5, <5>1, <5>2, TwoCounted
        <5>4. QED
          BY <2>4, <2>5, <2>8, <5>3
      <4>2. QED
        BY <2>2, <2>7, <3>3, <4>1
    <3>4. QED
      BY <3>2, <3>3 DEF NoOrphan
  <2>9. CASE ~ (entry[u].waiters <= 1)
    <3>1. entry'[u].id = entry[u].id /\ entry'[u].waiters = entry[u].waiters - 1
      BY <1>7, <2>2, <2>9 DEF Left
    <3>2. Holding(u)' = Holding(u) \ {h}
      <4>1. entry[u].id # 0
        BY <1>1, <1>7
      <4>2. Holding(u)' = {k \in Handlers : User[k] = u /\ sub'[k] = entry[u].id}
        BY <3>1 DEF Holding
      <4>3. QED
        BY <1>4, <4>1, <4>2 DEF Holding
    <3>3. entry'[u].waiters = Cardinality(Holding(u)')
      BY <2>4, <2>5, <3>1, <3>2, FS_RemoveElement
    <3>4. WaitersExact'
      BY <2>6, <3>3 DEF WaitersExact, Present
    <3>5. NoOrphan'
      BY <2>2, <2>7, <3>1 DEF NoOrphan
    <3>6. QED
      BY <3>4, <3>5
  <2>10. QED
    BY <2>8, <2>9
<1>8. QED
  <2>1. sub[h] = ClosedCh => entry' = entry
    BY DEF Release
  <2>2. sub[h] = ClosedCh /\ Present(u) => entry[u].id # sub[h]
    BY <1>1, <1>2, <1>3 DEF ClosedCh
  <2>3. sub[h] # ClosedCh /\ entry[u].id # sub[h] => entry' = entry
    BY <1>1 DEF Release, Left, WaitInv, TypeOK
  <2>4. QED
    BY <1>6, <1>7, <2>1, <2>2, <2>3

\* Notifying takes the entry from the table only together with closing the
\* channel of everybody on it.
LEMMA NotifyCounted ==
    ASSUME WaitInv, NEW u \in Users, Notify(u), UNCHANGED <<pc, sub>>
    PROVE  WaitersExact' /\ NoOrphan'
<1>1. entry'[u] = NoEntry /\ \A v \in Users \ {u} : entry'[v] = entry[v]
  BY DEF Notify, WaitInv, TypeOK
<1>2. signalled' = signalled \union ({entry[u].id} \ {0})
  BY DEF Notify, NoEntry
<1>3. \A v \in Users \ {u} : Holding(v)' = Holding(v)
  BY <1>1 DEF Holding
<1>4. WaitersExact'
  BY <1>1, <1>3 DEF WaitersExact, WaitInv, Present
<1>5. ASSUME NEW k \in Handlers, pc'[k] = "wait", sub'[k] # ClosedCh,
             sub'[k] \notin signalled'
      PROVE  entry'[User[k]].id = sub'[k]
  <2>1. pc[k] = "wait" /\ sub[k] = sub'[k] /\ sub[k] # 0
    BY <1>5 DEF WaitInv, SubShape, NoSub
  <2>2. entry[User[k]].id = sub[k]
    BY <1>2, <1>5, <2>1 DEF WaitInv, NoOrphan
  <2>3. User[k] # u
    BY <1>2, <1>5, <2>1, <2>2
  <2>4. QED
    BY <1>1, <2>1, <2>2, <2>3, HubAssumption
<1>6. QED
  BY <1>4, <1>5 DEF NoOrphan

\* The invariant behind WaitersExact and NoOrphan.
THEOREM Waiting == Spec => []WaitInv
<1>1. Init => SubShape /\ WaitersExact /\ NoOrphan
  BY DEF Init, SubShape, WaitersExact, NoOrphan, Present
<1>2. WaitInv /\ TypeOK' /\ [Next]_vars => WaitInv'
  <2> SUFFICES ASSUME WaitInv, TypeOK', [Next]_vars
               PROVE  SubShape' /\ WaitersExact' /\ NoOrphan'
    BY DEF WaitInv
  <2>0. pc \in [Handlers -> {"idle", "gated", "wait", "reread", "done"}]
        /\ sub \in [Handlers -> Int] /\ SubShape
    BY DEF WaitInv, TypeOK
  \* Steps that leave the table and the subscriptions alone.
  <2>1. ASSUME UNCHANGED <<entry, signalled, sub>>,
               \A k \in Handlers : pc'[k] = "wait" <=> pc[k] = "wait"
        PROVE  SubShape' /\ WaitersExact' /\ NoOrphan'
    <3>1. SubShape'
      BY <2>0, <2>1 DEF SubShape
    <3>2. \A u \in Users : Holding(u)' = Holding(u)
      BY <2>1 DEF Holding
    <3>3. WaitersExact'
      BY <2>1, <3>2 DEF WaitersExact, WaitInv, Present
    <3>4. NoOrphan'
      BY <2>1 DEF NoOrphan, WaitInv
    <3>5. QED
      BY <3>1, <3>3, <3>4
  <2>2. ASSUME NEW h \in Handlers, Arrive(h) \/ Reread(h) \/ RereadFails(h)
        PROVE  SubShape' /\ WaitersExact' /\ NoOrphan'
    <3>1. /\ UNCHANGED <<entry, signalled, sub>>
          /\ pc[h] # "wait"
          /\ \E at : at # "wait" /\ pc' = [pc EXCEPT ![h] = at]
      BY <2>2 DEF Arrive, Reread, RereadFails, table
    <3>2. QED
      BY <2>0, <2>1, <3>1
  <2>3. ASSUME NEW h \in Handlers, Subscribe(h)
        PROVE  SubShape' /\ WaitersExact' /\ NoOrphan'
    <3>1. WaitersExact' /\ NoOrphan'
      BY <2>3, SubscribeCounted
    <3>2. pc' = [pc EXCEPT ![h] = "wait"]
      BY <2>3 DEF Subscribe
    <3>3. sub'[h] # 0 /\ \A k \in Handlers \ {h} : sub'[k] = sub[k]
      <4>1. CASE closed
        BY <2>0, <2>3, <4>1 DEF Subscribe, ClosedCh
      <4>2. CASE ~ closed
        <5>1. sub' = [sub EXCEPT ![h] = entry'[User[h]].id] /\ User[h] \in Users
          BY <2>3, <4>2, HubAssumption DEF Subscribe
        <5>2. entry'[User[h]].waiters > 0
          BY <2>3, <4>2, <5>1 DEF Subscribe, Joined, WaitInv, TypeOK, Present
        <5>3. entry'[User[h]] # NoEntry
          BY <5>2 DEF NoEntry
        <5>4. entry'[User[h]].id \in 1..(made') /\ made' \in Nat
          BY <5>1, <5>3 DEF TypeOK, Present
        <5>5. QED
          BY <2>0, <5>1, <5>4
      <4>3. QED
        BY <4>1, <4>2
    <3>4. SubShape'
      BY <2>0, <3>2, <3>3 DEF SubShape, NoSub
    <3>5. QED
      BY <3>1, <3>4
  <2>4. ASSUME NEW h \in Handlers, Wake(h) \/ Expire(h) \/ Shutdown(h)
        PROVE  SubShape' /\ WaitersExact' /\ NoOrphan'
    <3>1. PICK at : at # "wait" /\ pc' = [pc EXCEPT ![h] = at]
      BY <2>4 DEF Wake, Expire, Shutdown
    <3>2. pc[h] = "wait" /\ Release(h)
      BY <2>4 DEF Wake, Expire, Shutdown
    <3>3. WaitersExact' /\ NoOrphan'
      BY <3>1, <3>2, ReleaseCounted
    <3>4. sub' = [sub EXCEPT ![h] = NoSub]
      BY <3>2 DEF Release
    <3>5. SubShape'
      BY <2>0, <3>1, <3>4 DEF SubShape
    <3>6. QED
      BY <3>3, <3>5
  <2>5. CASE Check \/ CheckReadFails
    <3>1. CASE \E u \in Users : Notify(u) /\ UNCHANGED <<pc, sub>>
      BY <2>0, <3>1, NotifyCounted DEF SubShape
    <3>2. CASE UNCHANGED <<entry, signalled, pc, sub>>
      BY <2>1, <3>2
    <3>3. due \subseteq Users
      BY DEF WaitInv, TypeOK
    <3>4. QED
      BY <2>5, <3>1, <3>2, <3>3
         DEF Check, CheckTick, CheckClosed, CheckRead, CheckReadFails, CheckWake, table, handler
  <2>6. ASSUME NEW u \in Users, NotifyCommitted(u)
        PROVE  SubShape' /\ WaitersExact' /\ NoOrphan'
    BY <2>0, <2>6, NotifyCounted DEF NotifyCommitted, SubShape, handler
  <2>7. ASSUME NEW u \in Users, Commit(u) \/ CommitElsewhere(u) \/ DeleteAccount(u)
        PROVE  SubShape' /\ WaitersExact' /\ NoOrphan'
    BY <2>1, <2>7 DEF Commit, CommitElsewhere, DeleteAccount, table, handler
  <2>8. CASE Close \/ UNCHANGED vars
    BY <2>1, <2>8 DEF Close, vars, table, handler
  <2>9. QED
    BY <2>2, <2>3, <2>4, <2>5, <2>6, <2>7, <2>8 DEF Next, Serve
<1>3. QED
  BY <1>1, <1>2, TypeCorrect, PTL DEF Spec, WaitInv

\* An entry's count is exact, so the last handler to leave an entry removes it
\* and no earlier one does (release's decision).
THEOREM CountsExact == Spec => []WaitersExact
BY Waiting, PTL DEF WaitInv

\* No handler waits on an open channel that notify cannot find any more.
THEOREM NobodyStranded == Spec => []NoOrphan
BY Waiting, PTL DEF WaitInv

-----------------------------------------------------------------------------
(* What the check compares.                                                *)

\* No handler waits at a revision the account has not reached, and the entry
\* keeps the oldest of its waiters': subscribing lowers it, nothing raises it.
THEOREM OldestKept == Spec => []SinceOrder
<1>1. Init => SinceOrder
  BY HubAssumption DEF Init, SinceOrder, Present
<1>2. WaitInv /\ TypeOK' /\ SinceOrder /\ [Next]_vars => SinceOrder'
  <2> SUFFICES ASSUME WaitInv, TypeOK', SinceOrder, [Next]_vars PROVE SinceOrder'
    OBVIOUS
  <2>0. /\ revision \in [Users -> Nat] /\ since \in [Handlers -> Nat] /\ made \in Nat
        /\ sub \in [Handlers -> Int] /\ entry \in [Users -> Entry]
        /\ pc \in [Handlers -> {"idle", "gated", "wait", "reread", "done"}]
        /\ \A u \in Users : Present(u) => entry[u].id \in 1..made
        /\ \A h \in Handlers : User[h] \in Users /\ sub[h] \in (1..made) \union {0, -1}
    BY HubAssumption DEF WaitInv, TypeOK, Entry, NoSub, ClosedCh
  \* Steps that only take entries or subscriptions away, or raise a revision.
  <2>1. ASSUME since' = since, \A u \in Users : revision'[u] >= revision[u],
               revision' \in [Users -> Nat],
               \A h \in Handlers : sub'[h] = sub[h] \/ sub'[h] = 0,
               \A u \in Users : Present(u)' =>
                   /\ entry'[u].id = entry[u].id /\ entry'[u].since = entry[u].since
                   /\ Present(u)
        PROVE  SinceOrder'
    <3> SUFFICES ASSUME NEW h \in Handlers
                 PROVE  /\ since'[h] <= revision'[User[h]]
                        /\ sub'[h] = entry'[User[h]].id /\ Present(User[h])'
                               => entry'[User[h]].since <= since'[h]
      BY HubAssumption DEF SinceOrder
    <3>1. since'[h] <= revision'[User[h]]
      BY <2>0, <2>1 DEF SinceOrder
    <3>2. ASSUME sub'[h] = entry'[User[h]].id, Present(User[h])'
          PROVE  entry'[User[h]].since <= since'[h]
      <4>1. Present(User[h]) /\ entry[User[h]].id \in 1..made
        BY <2>0, <2>1, <3>2
      <4>2. sub[h] = entry[User[h]].id
        BY <2>0, <2>1, <3>2, <4>1
      <4>3. QED
        BY <2>0, <2>1, <3>2, <4>1, <4>2 DEF SinceOrder
    <3>3. QED
      BY <3>1, <3>2
  <2>2. ASSUME NEW h \in Handlers, Arrive(h) PROVE SinceOrder'
    <3>1. UNCHANGED <<revision, entry, sub>> /\ sub[h] = 0
      BY <2>2 DEF Arrive, database, table, WaitInv, SubShape, NoSub
    <3>2. /\ \A k \in Handlers \ {h} : since'[k] = since[k]
          /\ since'[h] = since[h] \/ since'[h] = revision[User[h]]
      BY <2>0, <2>2 DEF Arrive
    <3>3. QED
      BY <2>0, <3>1, <3>2 DEF SinceOrder, Present
  <2>3. ASSUME NEW h \in Handlers, Subscribe(h) PROVE SinceOrder'
    <3>0. UNCHANGED <<revision, since>> /\ sub[h] = 0
      BY <2>3 DEF Subscribe, database, WaitInv, SubShape, NoSub
    <3>1. CASE closed
      <4>1. entry' = entry /\ sub' = [sub EXCEPT ![h] = -1]
        BY <2>3, <3>1 DEF Subscribe, table, ClosedCh
      <4>2. QED
        BY <2>0, <3>0, <4>1 DEF SinceOrder, Present
    <3>2. CASE ~ closed /\ Present(User[h])
      <4>1. entry' = [entry EXCEPT ![User[h]] = Joined(User[h], since[h])]
        BY <2>3, <3>2 DEF Subscribe
      <4>2. /\ entry'[User[h]].id = entry[User[h]].id
            /\ entry'[User[h]].since = Older(User[h], since[h])
            /\ \A v \in Users \ {User[h]} : entry'[v] = entry[v]
        BY <2>0, <4>1 DEF Joined
      <4>3. sub' = [sub EXCEPT ![h] = entry[User[h]].id]
        BY <2>3, <3>2, <4>2 DEF Subscribe
      <4>4. /\ Older(User[h], since[h]) <= since[h]
            /\ Older(User[h], since[h]) <= entry[User[h]].since
            /\ Older(User[h], since[h]) \in Nat
        BY <2>0 DEF Older, Entry
      <4>5. ASSUME NEW k \in Handlers, sub'[k] = entry'[User[k]].id, Present(User[k])'
            PROVE  entry'[User[k]].since <= since[k]
        <5>1. CASE k = h
          BY <4>2, <4>4, <5>1
        <5>2. CASE k # h /\ User[k] = User[h]
          <6>1. entry[User[h]].since <= since[k]
            BY <2>0, <3>2, <4>2, <4>3, <4>5, <5>2 DEF SinceOrder
          <6>2. entry[User[h]].since \in Nat /\ since[k] \in Nat
            BY <2>0 DEF Entry
          <6>3. QED
            BY <4>2, <4>4, <5>2, <6>1, <6>2
        <5>3. CASE User[k] # User[h]
          BY <2>0, <4>2, <4>3, <4>5, <5>3 DEF SinceOrder, Present
        <5>4. QED
          BY <5>1, <5>2, <5>3
      <4>6. QED
        BY <3>0, <4>5 DEF SinceOrder
    <3>3. CASE ~ closed /\ ~ Present(User[h])
      <4> DEFINE new == [id |-> made + 1, waiters |-> 1, since |-> since[h]]
      <4>1. entry' = [entry EXCEPT ![User[h]] = new]
        BY <2>3, <3>3 DEF Subscribe
      <4>2. /\ entry'[User[h]].id = made + 1 /\ entry'[User[h]].since = since[h]
            /\ \A v \in Users \ {User[h]} : entry'[v] = entry[v]
        BY <2>0, <4>1
      <4>3. sub' = [sub EXCEPT ![h] = made + 1]
        BY <2>3, <3>3, <4>2 DEF Subscribe
      <4> HIDE DEF new
      <4>4. ASSUME NEW k \in Handlers, sub'[k] = entry'[User[k]].id, Present(User[k])'
            PROVE  entry'[User[k]].since <= since[k]
        <5>1. CASE k = h
          BY <2>0, <4>2, <5>1
        <5>2. CASE k # h /\ User[k] = User[h]
          <6>1. sub[k] = made + 1
            BY <2>0, <4>2, <4>3, <4>4, <5>2
          <6>2. QED
            BY <2>0, <6>1
        <5>3. CASE User[k] # User[h]
          BY <2>0, <4>2, <4>3, <4>4, <5>3 DEF SinceOrder, Present
        <5>4. QED
          BY <5>1, <5>2, <5>3
      <4>5. QED
        BY <3>0, <4>4 DEF SinceOrder
    <3>4. QED
      BY <3>1, <3>2, <3>3
  <2>4. ASSUME NEW h \in Handlers, Wake(h) \/ Expire(h) \/ Shutdown(h) PROVE SinceOrder'
    <3>1. Release(h) /\ UNCHANGED <<revision, since>>
      BY <2>4 DEF Wake, Expire, Shutdown, database
    <3>2. \A k \in Handlers : sub'[k] = sub[k] \/ sub'[k] = 0
      BY <2>0, <3>1 DEF Release, NoSub
    <3>3. \A u \in Users : Present(u)' =>
              /\ entry'[u].id = entry[u].id /\ entry'[u].since = entry[u].since
              /\ Present(u)
      <4>1. Left(h) # NoEntry => /\ Left(h).id = entry[User[h]].id
                                 /\ Left(h).since = entry[User[h]].since
                                 /\ entry[User[h]] # NoEntry
        BY <2>0 DEF Left, NoEntry
      <4>2. QED
        BY <2>0, <3>1, <4>1 DEF Release, Present
    <3>4. QED
      BY <2>0, <2>1, <3>1, <3>2, <3>3
  <2>5. ASSUME NEW u \in Users, Notify(u), UNCHANGED <<revision, since, sub>>
        PROVE  SinceOrder'
    <3>1. \A v \in Users : Present(v)' => entry'[v] = entry[v] /\ Present(v)
      BY <2>0, <2>5 DEF Notify, Present
    <3>2. QED
      BY <2>0, <2>1, <2>5, <3>1
  <2>6. ASSUME UNCHANGED <<entry, sub, since>>, revision' \in [Users -> Nat],
               \A u \in Users : revision'[u] >= revision[u]
        PROVE  SinceOrder'
    BY <2>1, <2>6 DEF Present
  <2>7. CASE Check \/ CheckReadFails
    <3>1. due \subseteq Users /\ revision' = revision
      BY <2>7 DEF WaitInv, TypeOK, Check, CheckTick, CheckClosed, CheckRead, CheckWake,
                  CheckReadFails, database
    <3>2. CASE \E u \in due : Notify(u) /\ UNCHANGED <<since, sub>>
      BY <2>5, <3>1, <3>2
    <3>3. CASE UNCHANGED <<entry, sub, since>>
      BY <2>0, <2>6, <3>1, <3>3
    <3>4. QED
      BY <2>7, <3>2, <3>3 DEF Check, CheckTick, CheckClosed, CheckRead, CheckWake,
                              CheckReadFails, table, handler
  <2>8. ASSUME NEW u \in Users, Commit(u) \/ CommitElsewhere(u) \/ DeleteAccount(u)
        PROVE  SinceOrder'
    <3>1. UNCHANGED <<entry, sub, since>>
      BY <2>8 DEF Commit, CommitElsewhere, DeleteAccount, table, handler
    <3>2. revision' \in [Users -> Nat] /\ \A v \in Users : revision'[v] >= revision[v]
      BY <2>0, <2>8 DEF Commit, CommitElsewhere, DeleteAccount
    <3>3. QED
      BY <2>6, <3>1, <3>2
  <2>9. ASSUME NEW u \in Users, NotifyCommitted(u) PROVE SinceOrder'
    BY <2>5, <2>9 DEF NotifyCommitted, handler
  <2>10. ASSUME NEW h \in Handlers, Reread(h) \/ RereadFails(h) PROVE SinceOrder'
    BY <2>0, <2>6, <2>10 DEF Reread, RereadFails, database, table
  <2>11. CASE Close \/ UNCHANGED vars
    BY <2>0, <2>6, <2>11 DEF Close, vars, database, table, handler
  <2>12. QED
    BY <2>2, <2>3, <2>4, <2>7, <2>8, <2>9, <2>10, <2>11 DEF Next, Serve
<1>3. QED
  BY <1>1, <1>2, TypeCorrect, Waiting, PTL DEF Spec

\* One revision per account is enough: whenever some waiter's account has moved
\* on, checkOnce finds it different from the entry's.
THEOREM ChecksSuffice == Spec => []CheckSees
<1>1. TypeOK /\ SinceOrder => CheckSees
  <2> SUFFICES ASSUME TypeOK, SinceOrder, NEW h \in Handlers,
                      sub[h] = entry[User[h]].id, Present(User[h]),
                      since[h] # revision[User[h]]
               PROVE  entry[User[h]].since # revision[User[h]]
    BY DEF CheckSees
  <2>1. User[h] \in Users
    BY HubAssumption
  <2>2. entry[User[h]].since \in Nat /\ since[h] \in Nat /\ revision[User[h]] \in Nat
    BY <2>1 DEF TypeOK
  <2>3. entry[User[h]].since <= since[h] /\ since[h] <= revision[User[h]]
    BY DEF SinceOrder
  <2>4. QED
    BY <2>2, <2>3
<1>2. QED
  BY <1>1, TypeCorrect, OldestKept, PTL

-----------------------------------------------------------------------------
(* The checking goroutine.                                                 *)

\* The flag subscribe goes by tells whether a goroutine checks, and one does as
\* long as the open hub has waiters: it ends only under the lock that
\* subscribers need, and only when it finds the table empty.
THEOREM SomebodyChecks == Spec => []CheckerRuns
<1>1. Init => CheckerRuns
  BY DEF Init, CheckerRuns, Present
<1>2. TypeOK /\ CheckerRuns /\ [Next]_vars => CheckerRuns'
  <2> SUFFICES ASSUME TypeOK, CheckerRuns, [Next]_vars PROVE CheckerRuns'
    OBVIOUS
  <2>0. entry \in [Users -> Entry] /\ \A h \in Handlers : User[h] \in Users
    BY HubAssumption DEF TypeOK, Entry
  \* Steps that bring no waiter.
  <2>1. ASSUME UNCHANGED <<checking, loop>>, closed => closed',
               \A u \in Users : Present(u)' => Present(u)
        PROVE  CheckerRuns'
    BY <2>1 DEF CheckerRuns
  <2>2. ASSUME NEW h \in Handlers, Subscribe(h) PROVE CheckerRuns'
    <3>1. CASE closed
      BY <2>1, <2>2, <3>1 DEF Subscribe, table, checker, Present
    <3>2. CASE ~ closed
      <4>1. checking' = TRUE /\ loop' = IF checking THEN loop ELSE "tick"
        BY <2>2, <3>2 DEF Subscribe
      <4>2. QED
        BY <4>1 DEF CheckerRuns
    <3>3. QED
      BY <3>1, <3>2
  <2>3. ASSUME NEW h \in Handlers, Wake(h) \/ Expire(h) \/ Shutdown(h) PROVE CheckerRuns'
    <3>1. Release(h) /\ UNCHANGED <<checking, loop, closed>>
      BY <2>3 DEF Wake, Expire, Shutdown, checker
    <3>2. Left(h) # NoEntry => entry[User[h]] # NoEntry
      BY DEF Left, NoEntry
    <3>3. \A u \in Users : Present(u)' => Present(u)
      BY <2>0, <3>1, <3>2 DEF Release, Present
    <3>4. QED
      BY <2>1, <3>1, <3>3
  <2>4. ASSUME NEW u \in Users, Notify(u), UNCHANGED <<checking, loop, closed>>
        PROVE  CheckerRuns'
    BY <2>0, <2>1, <2>4 DEF Notify, Present
  <2>5. CASE CheckTick
    <3>1. UNCHANGED <<entry, closed>>
      BY <2>5 DEF CheckTick, table
    <3>2. CASE CopyWaiting
      BY <2>5, <3>1, <3>2 DEF CheckTick, CopyWaiting, CheckerRuns, Present
    <3>3. CASE NobodyWaits /\ ~ \E u \in Users : Present(u)
      BY <3>1, <3>3 DEF NobodyWaits, CheckerRuns, Present
    <3>4. QED
      BY <2>5, <3>2, <3>3 DEF CheckTick
  <2>6. CASE CheckClosed
    BY <2>6 DEF CheckClosed, CheckerRuns
  <2>7. CASE CheckRead \/ CheckReadFails
    BY <2>7 DEF CheckRead, CheckReadFails, CheckerRuns, Present, table
  <2>8. CASE CheckWake
    <3>1. CASE \E u \in due : Notify(u) /\ UNCHANGED <<checking, loop, closed>>
      BY <2>4, <3>1 DEF TypeOK
    <3>2. CASE loop = "wake" /\ loop' = "tick" /\ UNCHANGED <<entry, checking, closed>>
      BY <3>2 DEF CheckerRuns, Present
    <3>3. QED
      BY <2>8, <3>1, <3>2 DEF CheckWake, table
  <2>9. ASSUME NEW u \in Users, NotifyCommitted(u) PROVE CheckerRuns'
    BY <2>4, <2>9 DEF NotifyCommitted, checker
  <2>10. ASSUME UNCHANGED <<entry, checking, loop>>, closed => closed' PROVE CheckerRuns'
    BY <2>1, <2>10 DEF Present
  <2>11. ASSUME NEW u \in Users, Commit(u) \/ CommitElsewhere(u) \/ DeleteAccount(u)
         PROVE  CheckerRuns'
    BY <2>10, <2>11 DEF Commit, CommitElsewhere, DeleteAccount, table, checker
  <2>12. ASSUME NEW h \in Handlers, Arrive(h) \/ Reread(h) \/ RereadFails(h)
         PROVE  CheckerRuns'
    BY <2>10, <2>12 DEF Arrive, Reread, RereadFails, table, checker
  <2>13. CASE Close \/ UNCHANGED vars
    BY <2>10, <2>13 DEF Close, vars, table, checker
  <2>14. QED
    BY <2>2, <2>3, <2>5, <2>6, <2>7, <2>8, <2>9, <2>11, <2>12, <2>13
       DEF Next, Serve, Check
<1>3. QED
  BY <1>1, <1>2, TypeCorrect, PTL DEF Spec

=============================================================================
