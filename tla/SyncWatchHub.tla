---------------------------- MODULE SyncWatchHub ----------------------------
(***************************************************************************)
(* GET /sync/watch: the handlers that wait for a change of an account, the *)
(* hub that keeps them per user (SyncWatchHub), its checking goroutine and *)
(* the commits of this and of other servers.                               *)
(*                                                                         *)
(* An entry of the hub is its number; its channel is closed when the       *)
(* number is in signalled.  An entry out of the table is reached by nobody *)
(* but the handlers that still hold it.                                    *)
(***************************************************************************)
EXTENDS Integers, FiniteSets

CONSTANTS
    Handlers,    \* watch requests, each served once
    Users,       \* accounts
    User,        \* the account of each handler
    MaxRevision  \* bound: commits per account

ASSUME HubAssumption ==
    /\ IsFiniteSet(Handlers)
    /\ User \in [Handlers -> Users]
    /\ MaxRevision \in Nat

VARIABLES
    revision,   \* users.sync_revision in the database, of every account
    exists,     \* the account's row is there
    owed,       \* commits on this server whose handler has yet to call notify
    entry,      \* h.users: the account's entry, or NoEntry
    signalled,  \* the entries whose channel is closed
    made,       \* how many entries were made
    checking,   \* h.checking
    closed,     \* h.closed, and closedCh is closed
    loop,       \* checkLoop: "off", "tick", "read" or "wake"
    waiting,    \* the copy waitingSince made, None for users not in it
    due,        \* the users checkOnce has yet to notify
    pc,         \* where each handler is
    since,      \* its revision
    sub         \* the entry it is subscribed to, NoSub or ClosedCh

database == <<revision, exists, owed>>
table    == <<entry, signalled, made>>
checker  == <<checking, loop, waiting, due>>
handler  == <<pc, since, sub>>
vars     == <<revision, exists, owed, entry, signalled, made, checking, closed,
              loop, waiting, due, pc, since, sub>>

None     == -1
NoSub    == 0
ClosedCh == -1
NoEntry  == [id |-> 0, waiters |-> 0, since |-> 0]

Present(u) == entry[u] # NoEntry

-----------------------------------------------------------------------------
(* The table.                                                              *)

\* Mutant: the entry keeps the revision of its first waiter.
OlderKept(u, r) == entry[u].since

\* The revision an entry is checked against: its waiters' oldest.
Older(u, r) == IF r < entry[u].since THEN r ELSE entry[u].since

\* Mutant: a second waiter is not counted.
JoinedUncounted(u, r) == [entry[u] EXCEPT !.since = Older(u, r)]

\* subscribe, when the account has waiters already.
Joined(u, r) == [id |-> entry[u].id, waiters |-> entry[u].waiters + 1,
                 since |-> Older(u, r)]

\* subscribe: join or make the account's entry, and see to it that somebody
\* checks.  A closed hub hands out a channel that is closed already.
Subscribe(h) ==
    /\ pc[h] = "gated"
    /\ IF closed
       THEN /\ sub' = [sub EXCEPT ![h] = ClosedCh]
            /\ UNCHANGED <<table, checker>>
       ELSE /\ IF Present(User[h])
               THEN /\ entry' = [entry EXCEPT ![User[h]] = Joined(User[h], since[h])]
                    /\ UNCHANGED made
               ELSE /\ made' = made + 1
                    /\ entry' = [entry EXCEPT ![User[h]] =
                                    [id |-> made + 1, waiters |-> 1, since |-> since[h]]]
            /\ sub' = [sub EXCEPT ![h] = entry'[User[h]].id]
            /\ loop' = IF checking THEN loop ELSE "tick"
            /\ checking' = TRUE
            /\ UNCHANGED <<signalled, waiting, due>>
    /\ pc' = [pc EXCEPT ![h] = "wait"]
    /\ UNCHANGED <<database, closed, since>>

\* Mutant: release removes whatever entry the account has by now.
LeftAny(h) ==
    LET e == entry[User[h]] IN
    IF e.waiters <= 1 \/ e.id # sub[h] THEN NoEntry ELSE [e EXCEPT !.waiters = @ - 1]

\* The account's entry once the handler has left the one it holds: the last
\* one out removes it, unless the account has another by now.
Left(h) ==
    LET e == entry[User[h]] IN
    IF e.id # sub[h] THEN e
    ELSE IF e.waiters <= 1 THEN NoEntry
    ELSE [id |-> e.id, waiters |-> e.waiters - 1, since |-> e.since]

\* release; the one of a closed hub does nothing.
Release(h) ==
    /\ entry' = IF sub[h] = ClosedCh THEN entry
                ELSE [entry EXCEPT ![User[h]] = Left(h)]
    /\ sub' = [sub EXCEPT ![h] = NoSub]
    /\ UNCHANGED <<signalled, made>>

\* notify: close the channel and take the entry out.
Notify(u) ==
    /\ signalled' = signalled \union ({entry[u].id} \ {NoEntry.id})
    /\ entry' = [entry EXCEPT ![u] = NoEntry]
    /\ UNCHANGED made

-----------------------------------------------------------------------------
(* A handler of GET /sync/watch.                                           *)

\* The gate reads the account's row.  A client that sends another revision, or
\* none, is answered at once, and so is one whose account is gone.
Arrive(h) ==
    /\ pc[h] = "idle"
    /\ \/ /\ exists[User[h]]
          /\ since' = [since EXCEPT ![h] = revision[User[h]]]
          /\ pc' = [pc EXCEPT ![h] = "gated"]
       \/ /\ pc' = [pc EXCEPT ![h] = "done"]
          /\ UNCHANGED since
    /\ UNCHANGED <<database, table, checker, closed, sub>>

\* The channel was closed: leave the entry and look at the row again.
Wake(h) ==
    /\ pc[h] = "wait"
    /\ sub[h] = ClosedCh \/ sub[h] \in signalled
    /\ Release(h)
    /\ pc' = [pc EXCEPT ![h] = "reread"]
    /\ UNCHANGED <<database, checker, closed, since>>

\* Deadline or lost client: 304.
Expire(h) ==
    /\ pc[h] = "wait"
    /\ Release(h)
    /\ pc' = [pc EXCEPT ![h] = "done"]
    /\ UNCHANGED <<database, checker, closed, since>>

\* The hub was closed: 304.
Shutdown(h) ==
    /\ closed
    /\ pc[h] = "wait"
    /\ Release(h)
    /\ pc' = [pc EXCEPT ![h] = "done"]
    /\ UNCHANGED <<database, checker, closed, since>>

\* The row after waking up: wait on if nothing changed for this client.
Reread(h) ==
    /\ pc[h] = "reread"
    /\ pc' = [pc EXCEPT ![h] =
                 IF exists[User[h]] /\ revision[User[h]] = since[h] THEN "gated" ELSE "done"]
    /\ UNCHANGED <<database, table, checker, closed, since, sub>>

\* The row cannot be read: 500.
RereadFails(h) ==
    /\ pc[h] = "reread"
    /\ pc' = [pc EXCEPT ![h] = "done"]
    /\ UNCHANGED <<database, table, checker, closed, since, sub>>

-----------------------------------------------------------------------------
(* The checking goroutine.                                                 *)

\* Mutant: the goroutine ends without clearing the flag.
NobodyWaitsUnmarked ==
    /\ loop' = "off"
    /\ UNCHANGED <<checking, waiting, due>>

\* waitingSince finds nobody: the goroutine ends.
NobodyWaits ==
    /\ loop' = "off" /\ checking' = FALSE
    /\ UNCHANGED <<waiting, due>>

\* waitingSince copies the table.
CopyWaiting ==
    /\ waiting' = [u \in Users |-> IF Present(u) THEN entry[u].since ELSE None]
    /\ loop' = "read"
    /\ UNCHANGED <<checking, due>>

CheckTick ==
    /\ loop = "tick"
    /\ IF \E u \in Users : Present(u) THEN CopyWaiting ELSE NobodyWaits
    /\ UNCHANGED <<database, table, closed, handler>>

CheckClosed ==
    /\ loop = "tick" /\ closed
    /\ loop' = "off" /\ checking' = FALSE
    /\ UNCHANGED <<database, table, closed, waiting, due, handler>>

\* Mutant: an account that has no row any more is passed over.
CheckReadListed ==
    /\ loop = "read"
    /\ due' = {u \in Users : waiting[u] # None /\ exists[u] /\ revision[u] # waiting[u]}
    /\ loop' = "wake"
    /\ waiting' = [u \in Users |-> None]
    /\ UNCHANGED <<database, table, checking, closed, handler>>

\* checkOnce: GetSyncRevisions reads all rows at once.
CheckRead ==
    /\ loop = "read"
    /\ due' = {u \in Users : /\ waiting[u] # None
                             /\ ~ exists[u] \/ revision[u] # waiting[u]}
    /\ loop' = "wake"
    /\ waiting' = [u \in Users |-> None]
    /\ UNCHANGED <<database, table, checking, closed, handler>>

CheckReadFails ==
    /\ loop = "read"
    /\ loop' = "tick"
    /\ waiting' = [u \in Users |-> None]
    /\ UNCHANGED <<database, table, checking, closed, due, handler>>

\* The users found changed are notified one after the other.
CheckWake ==
    /\ loop = "wake"
    /\ \/ \E u \in due : /\ Notify(u)
                         /\ due' = due \ {u}
                         /\ UNCHANGED loop
       \/ /\ due = {} /\ loop' = "tick"
          /\ UNCHANGED <<table, due>>
    /\ UNCHANGED <<database, checking, closed, waiting, handler>>

-----------------------------------------------------------------------------
(* Changes of the account.                                                 *)

\* A push or a vault operation commits on this server, and notifies after it.
Commit(u) ==
    /\ exists[u] /\ revision[u] < MaxRevision
    /\ revision' = [revision EXCEPT ![u] = @ + 1]
    /\ owed' = [owed EXCEPT ![u] = @ + 1]
    /\ UNCHANGED <<exists, table, checker, closed, handler>>

NotifyCommitted(u) ==
    /\ owed[u] > 0
    /\ owed' = [owed EXCEPT ![u] = @ - 1]
    /\ Notify(u)
    /\ UNCHANGED <<revision, exists, checker, closed, handler>>

\* Another server, or a path that does not notify.
CommitElsewhere(u) ==
    /\ exists[u] /\ revision[u] < MaxRevision
    /\ revision' = [revision EXCEPT ![u] = @ + 1]
    /\ UNCHANGED <<exists, owed, table, checker, closed, handler>>

\* The account is deleted, on this server or on another.
DeleteAccount(u) ==
    /\ exists[u]
    /\ exists' = [exists EXCEPT ![u] = FALSE]
    /\ \/ owed' = [owed EXCEPT ![u] = @ + 1]
       \/ UNCHANGED owed
    /\ UNCHANGED <<revision, table, checker, closed, handler>>

Close ==
    /\ ~ closed /\ closed' = TRUE
    /\ UNCHANGED <<database, table, checker, handler>>

-----------------------------------------------------------------------------
Init ==
    /\ revision = [u \in Users |-> 0]
    /\ exists = [u \in Users |-> TRUE]
    /\ owed = [u \in Users |-> 0]
    /\ entry = [u \in Users |-> NoEntry]
    /\ signalled = {} /\ made = 0
    /\ checking = FALSE /\ closed = FALSE
    /\ loop = "off"
    /\ waiting = [u \in Users |-> None]
    /\ due = {}
    /\ pc = [h \in Handlers |-> "idle"]
    /\ since = [h \in Handlers |-> 0]
    /\ sub = [h \in Handlers |-> NoSub]

Serve(h) == Subscribe(h) \/ Wake(h) \/ Reread(h)

Check == CheckTick \/ CheckClosed \/ CheckRead \/ CheckWake

Next ==
    \/ \E h \in Handlers : Arrive(h) \/ Serve(h) \/ RereadFails(h) \/ Expire(h) \/ Shutdown(h)
    \/ Check \/ CheckReadFails
    \/ \E u \in Users : \/ Commit(u) \/ NotifyCommitted(u) \/ CommitElsewhere(u)
                        \/ DeleteAccount(u)
    \/ Close

Spec == Init /\ [][Next]_vars

\* Handlers and the checking goroutine run, and reading the rows does not fail
\* for ever.  A select with two ready channels picks each in the end: a handler
\* of a closed hub does not take the entry's channel for ever.  No fairness for
\* deadlines, and none for notify: the checks are the safety net for both.
LiveSpec ==
    /\ Spec
    /\ \A h \in Handlers : WF_vars(Serve(h)) /\ SF_vars(Shutdown(h))
    /\ WF_vars(Check) /\ SF_vars(CheckRead)

-----------------------------------------------------------------------------
(* Properties.                                                             *)

\* The variables have their types; an entry in the table has a number that was
\* given out, a waiter, and a revision the account has had.
TypeOK ==
    /\ revision \in [Users -> Nat] /\ exists \in [Users -> BOOLEAN]
    /\ owed \in [Users -> Nat]
    /\ made \in Nat /\ signalled \subseteq 1..made
    /\ entry \in [Users -> [id : Nat, waiters : Nat, since : Nat]]
    /\ \A u \in Users : Present(u) => entry[u].id \in 1..made /\ entry[u].waiters > 0
    /\ checking \in BOOLEAN /\ closed \in BOOLEAN
    /\ loop \in {"off", "tick", "read", "wake"}
    /\ waiting \in [Users -> Nat \union {None}] /\ due \subseteq Users
    /\ pc \in [Handlers -> {"idle", "gated", "wait", "reread", "done"}]
    /\ since \in [Handlers -> Nat]
    /\ sub \in [Handlers -> Int]
    /\ \A h \in Handlers : sub[h] \in (1..made) \union {NoSub, ClosedCh}

\* The handlers that hold the account's entry.
Holding(u) == {h \in Handlers : User[h] = u /\ sub[h] = entry[u].id}

\* An entry counts the handlers that hold it: the last to leave removes it, and
\* no earlier one does.
WaitersExact ==
    \A u \in Users : Present(u) => entry[u].waiters = Cardinality(Holding(u))

\* A waiting handler can be woken: its channel is closed already, or its entry
\* is the one notify will find.
NoOrphan ==
    \A h \in Handlers :
        pc[h] = "wait" /\ sub[h] # ClosedCh /\ sub[h] \notin signalled
            => entry[User[h]].id = sub[h]

\* The check sees every change a waiter has not seen, although it compares one
\* revision per account and waiters came at different ones.
CheckSees ==
    \A h \in Handlers :
        LET u == User[h] IN
        sub[h] = entry[u].id /\ Present(u) /\ since[h] # revision[u]
            => entry[u].since # revision[u]

\* As long as somebody waits, exactly one goroutine checks.
CheckerRuns ==
    /\ checking <=> loop # "off"
    /\ (\E u \in Users : Present(u)) /\ ~ closed => checking

\* A handler whose account changed or was deleted while it waited answers, even
\* if nobody notifies and its deadline never comes.
ChangeIsAnswered ==
    \A h \in Handlers :
        pc[h] = "wait" /\ (since[h] # revision[User[h]] \/ ~ exists[User[h]])
            ~> pc[h] = "done"

=============================================================================
