---------------------------- MODULE DesktopSync ----------------------------
(***************************************************************************)
(* The desktop's synchronisation with one account of the sync server: the  *)
(* server's records and their revision (gorm_store.go, router.go), and the *)
(* operation queue, the stored revision and the outbox of every device     *)
(* (sync-service.ts).                                                      *)
(*                                                                         *)
(* A record is its timestamp: edits take distinct timestamps, so two       *)
(* records with the same one have the same plaintext.  Every upload        *)
(* encrypts a live record anew under a random IV; a tombstone carries an   *)
(* empty payload.  Vault generations are left out: every device holds the  *)
(* key of the account.                                                     *)
(***************************************************************************)
EXTENDS Integers, FiniteSets

CONSTANTS
    Devices,      \* desktop installations signed in to the account
    Ids,          \* record ids, of every kind together
    Pref,         \* the preferences record: every device always has one
    Edits,        \* the <<device, id>> pairs users edit in this instance
    Deletable,    \* the ids users delete in this instance
    MaxClock,     \* bound: timestamps
    MaxFails,     \* bound: requests that fail
    MaxOffline,   \* bound: times a session goes offline
    MaxRestarts,  \* bound: restarts of the application
    MaxMishaps    \* bound: the three together

ASSUME InstanceAssumption ==
    /\ Pref \in Ids /\ Pref \notin Deletable /\ Deletable \subseteq Ids
    /\ Edits \subseteq Devices \X Ids
    /\ MaxClock \in Nat \ {0} /\ MaxFails \in Nat
    /\ MaxOffline \in Nat /\ MaxRestarts \in Nat /\ MaxMishaps \in Nat

VARIABLES
    revision,   \* server: users.sync_revision
    records,    \* server: sync_records of the account
    clock,      \* the latest timestamp handed out
    latest,     \* history: the latest edit of every id, by any device
    raced,      \* history: the ids somebody acted on while a pull was under way
    blind,      \* history: the devices whose revision came from a push that wrote nothing
    local,      \* device, persisted: the timestamp of each live record, or 0
    outbox,     \* device, persisted: the timestamp of each tombstone, or 0
    pending,    \* device, persisted: pendingPush
    rev,        \* device, in memory: lastSyncRevision, or None
    op,         \* device: the operation at the head of operationTail
    queued,     \* device: the kind of the operation behind it, or "none"
    again,      \* device: queuedPushGeneration is the current generation
    timer,      \* device: pushTimer is armed
    online,     \* device: the session is authenticated, not offline-authenticated
    late,       \* a given-up POST the server may still process, or Nothing
    used        \* how often each of the three bounded mishaps happened

server == <<revision, records>>
users  == <<clock, latest, raced>>
store  == <<local, outbox>>
known  == <<rev, blind>>
tasks  == <<op, queued, again>>
vars   == <<revision, records, clock, latest, raced, blind, local, outbox, pending, rev,
            op, queued, again, timer, online, late, used>>

None    == -1
NoRec   == [at |-> 0, dead |-> FALSE]
Nothing == [i \in Ids |-> NoRec]
NoOp    == [kind |-> "none", pc |-> "idle", had |-> FALSE, refill |-> FALSE,
            snap |-> Nothing, wrote |-> FALSE, ans |-> 0]

Live(r) == IF r.dead THEN 0 ELSE r.at

\* hasPendingLocalChanges, given the flag and the outbox
HasPending(flag, out) == flag \/ \E i \in Ids : out[i] # 0

-----------------------------------------------------------------------------
(* The server: one transaction per request.                                *)

\* upsertSyncRecordsTx: an older record is skipped; an equal one is skipped
\* only when its payload is equal too, which a fresh IV leaves to tombstones.
Written(snap) ==
    {i \in Ids : /\ snap[i] # NoRec
                 /\ records[i].at <= snap[i].at
                 /\ ~ (records[i] = snap[i] /\ snap[i].dead)}

\* ApplyPushRecords: the revision moves only when a record was written.
ApplyPush(snap) ==
    /\ records' = [i \in Ids |-> IF i \in Written(snap) THEN snap[i] ELSE records[i]]
    /\ revision' = IF Written(snap) = {} THEN revision ELSE revision + 1

ServePost(d) ==
    /\ op[d].pc = "post"
    /\ ApplyPush(op[d].snap)
    /\ op' = [op EXCEPT ![d].pc = "posted", ![d].wrote = Written(op[d].snap) # {},
                        ![d].ans = revision']
    /\ UNCHANGED <<users, store, pending, known, queued, again, timer, late,
                   online, used>>

\* A POST whose sender gave up is processed all the same.
ServeLate ==
    /\ late # Nothing
    /\ ApplyPush(late)
    /\ late' = Nothing
    /\ UNCHANGED <<users, store, pending, known, tasks, timer, online, used>>

\* GET /sync: 304 when If-None-Match is the account's revision, else the
\* snapshot and the revision of one read transaction.
ServeGet(d) ==
    /\ op[d].pc = "get"
    /\ op' = [op EXCEPT ![d] =
                 IF rev[d] = revision
                 THEN [@ EXCEPT !.pc = "same"]
                 ELSE [@ EXCEPT !.pc = "got", !.snap = records, !.ans = revision]]
    /\ UNCHANGED <<server, users, store, pending, known, queued, again, timer,
                   late, online, used>>

-----------------------------------------------------------------------------
(* The device: operations run one after the other.                         *)

\* buildEncryptedSnapshotResult: every live record, then the tombstones.
Snapshot(loc, out) ==
    [i \in Ids |-> IF out[i] > loc[i] THEN [at |-> out[i], dead |-> TRUE]
                                      ELSE [at |-> loc[i], dead |-> FALSE]]

\* What the head of the queue is once an operation of this kind starts.
Started(kind, loc, out, flag) ==
    CASE kind = "push" -> [NoOp EXCEPT !.kind = "push", !.pc = "post",
                                       !.snap = Snapshot(loc, out)]
      [] kind = "boot" -> [NoOp EXCEPT !.kind = "boot", !.pc = "info",
                                       !.had = HasPending(flag, out)]
      [] kind = "none" -> NoOp

\* The server may still process a POST its sender gave up.
MayBeLate(d) ==
    \/ late' = late
    \/ op[d].pc = "post" /\ late = Nothing /\ late' = op[d].snap

\* The operations of the device are dropped.
Drop(d) ==
    /\ MayBeLate(d)
    /\ op' = [op EXCEPT ![d] = NoOp]
    /\ queued' = [queued EXCEPT ![d] = "none"]
    /\ again' = [again EXCEPT ![d] = FALSE]

\* pushDirty, online: join the push under way, or enqueue one.
JoinOrEnqueue(d) ==
    /\ IF "push" \in {op[d].kind, queued[d]}
       THEN /\ again' = [again EXCEPT ![d] = TRUE]
            /\ UNCHANGED <<op, queued>>
       ELSE /\ IF op[d].kind = "none"
               THEN /\ op' = [op EXCEPT ![d] =
                                 Started("push", local'[d], outbox'[d], TRUE)]
                    /\ UNCHANGED queued
               ELSE /\ queued' = [queued EXCEPT ![d] = "push"]
                    /\ UNCHANGED op
            /\ UNCHANGED again
    /\ UNCHANGED late

\* pushDirty: offline it only pauses, which ends the generation.
PushDirty(d) ==
    /\ pending' = [pending EXCEPT ![d] = TRUE]
    /\ timer' = [timer EXCEPT ![d] = FALSE]
    /\ IF online[d] THEN JoinOrEnqueue(d) ELSE Drop(d)

\* The head of the queue is over: the one behind it starts at once.  A push
\* sets pendingPush again as it starts; a bootstrap sets it to what it found.
RunNext(d, flag) ==
    /\ op' = [op EXCEPT ![d] = Started(queued[d], local'[d], outbox'[d], flag)]
    /\ queued' = [queued EXCEPT ![d] = "none"]
    /\ pending' = [pending EXCEPT ![d] =
                      CASE queued[d] = "push" -> TRUE
                        [] queued[d] = "boot" -> HasPending(flag, outbox'[d])
                        [] queued[d] = "none" -> flag]

\* History: a bootstrap has decided what it sends, and what a user does now is
\* not part of it.
Pulling(d) == op[d].kind = "boot" /\ ~ (op[d].pc = "info" /\ op[d].had)
Act(d, i) == raced' = IF Pulling(d) THEN raced \union {i} ELSE raced

\* A user creates or changes a record; the handler saves it and queues a push.
Edit(d, i) ==
    /\ clock < MaxClock
    /\ <<d, i>> \in Edits
    /\ local[d][i] # 0 \/ latest[i] = NoRec
    /\ clock' = clock + 1
    /\ local' = [local EXCEPT ![d][i] = clock']
    /\ latest' = [latest EXCEPT ![i] = [at |-> clock', dead |-> FALSE]]
    /\ UNCHANGED outbox
    /\ Act(d, i) /\ PushDirty(d)
    /\ UNCHANGED <<server, known, online, used>>

\* upsertDeletion: a tombstone carries the time of the deletion.
DeletedAt == clock + 1

\* A user deletes a record: markDeleted leaves a tombstone.
Delete(d, i) ==
    /\ clock < MaxClock
    /\ <<d, i>> \in Edits /\ i \in Deletable
    /\ local[d][i] # 0
    /\ clock' = clock + 1
    /\ local' = [local EXCEPT ![d][i] = 0]
    /\ outbox' = [outbox EXCEPT ![d][i] = DeletedAt]
    /\ latest' = [latest EXCEPT ![i] = [at |-> clock', dead |-> TRUE]]
    /\ Act(d, i) /\ PushDirty(d)
    /\ UNCHANGED <<server, known, online, used>>

\* scheduleRetry's timer.
RetryFires(d) ==
    /\ timer[d]
    /\ UNCHANGED store
    /\ PushDirty(d)
    /\ UNCHANGED <<server, users, known, online, used>>

\* bootstrap: a second call joins the one under way.
Bootstrap(d) ==
    /\ online[d] /\ "boot" \notin {op[d].kind, queued[d]}
    /\ IF op[d].kind = "none"
       THEN /\ op' = [op EXCEPT ![d] = Started("boot", local[d], outbox[d], pending[d])]
            /\ pending' = [pending EXCEPT ![d] = HasPending(pending[d], outbox[d])]
            /\ UNCHANGED queued
       ELSE /\ queued' = [queued EXCEPT ![d] = "boot"]
            /\ UNCHANGED <<op, pending>>
    /\ UNCHANGED <<server, users, store, known, again, timer, late,
                   online, used>>

\* /api/info is back: what was pending when the bootstrap started goes up first.
BootInfo(d) ==
    /\ online[d] /\ op[d].pc = "info"
    /\ op' = [op EXCEPT ![d] =
                 IF op[d].had
                 THEN [@ EXCEPT !.pc = "post", !.snap = Snapshot(local[d], outbox[d])]
                 ELSE [@ EXCEPT !.pc = "get"]]
    /\ UNCHANGED <<server, users, store, pending, known, queued, again, timer,
                   late, online, used>>

\* History: the device takes over a revision it did not make.
Blinded(d, takes) ==
    blind' = IF takes /\ op[d].ans # rev[d] /\ ~ op[d].wrote THEN blind \union {d} ELSE blind

\* Mutant: pushSnapshot stores whatever revision the server answers.
StoreRevisionAlways(d) == rev' = [rev EXCEPT ![d] = op[d].ans] /\ Blinded(d, TRUE)

\* The end of pushSnapshot: the answer's revision is stored when it is at most
\* one above the revision of the last pull.
StoreRevision(d) ==
    LET takes == rev[d] # None /\ op[d].ans <= rev[d] + 1
    IN  /\ rev' = [rev EXCEPT ![d] = IF takes THEN op[d].ans ELSE rev[d]]
        /\ Blinded(d, takes)

BootPushed(d) ==
    /\ online[d] /\ op[d].kind = "boot" /\ op[d].pc = "posted"
    /\ StoreRevision(d)
    /\ op' = [op EXCEPT ![d] = [@ EXCEPT !.pc = "get", !.snap = Nothing,
                                         !.wrote = FALSE, !.ans = 0]]
    /\ UNCHANGED <<server, users, store, pending, queued, again, timer, late,
                   online, used>>

\* Mutant: the tombstones cleared are those of the outbox when the push ends.
UnsentClearsAll(d) == [i \in Ids |-> 0]

\* The tombstones a push leaves in the outbox: the ones it did not carry.
Unsent(d) == [i \in Ids |-> IF /\ op[d].snap[i].dead
                               /\ op[d].snap[i].at = outbox[d][i]
                            THEN 0 ELSE outbox[d][i]]

\* One turn of pushDirty's loop is over.
PushDone(d) ==
    /\ online[d] /\ op[d].kind = "push" /\ op[d].pc = "posted"
    /\ StoreRevision(d)
    /\ outbox' = [outbox EXCEPT ![d] = Unsent(d)]
    /\ UNCHANGED local
    /\ again' = [again EXCEPT ![d] = FALSE]
    /\ IF again[d] \/ HasPending(FALSE, outbox'[d])
       THEN /\ op' = [op EXCEPT ![d] = Started("push", local[d], outbox'[d], TRUE)]
            /\ pending' = [pending EXCEPT ![d] = TRUE]
            /\ UNCHANGED queued
       ELSE RunNext(d, FALSE)
    /\ UNCHANGED <<server, users, timer, late, online, used>>

\* An empty account is filled from the device, once.
BootRefill(d) ==
    /\ online[d] /\ op[d].pc = "got" /\ op[d].snap = Nothing /\ ~ op[d].refill
    /\ op' = [op EXCEPT ![d] = [@ EXCEPT !.pc = "post", !.refill = TRUE,
                                         !.snap = Snapshot(local[d], outbox[d])]]
    /\ UNCHANGED <<server, users, store, pending, known, queued, again, timer,
                   late, online, used>>

\* applyRemoteSnapshotAtomically: the snapshot replaces the local records; an
\* account without preferences leaves the default ones, dated now.
Replaced(snap) == [i \in Ids |-> IF i = Pref /\ snap[i] = NoRec THEN clock ELSE Live(snap[i])]
BootApply(d) ==
    /\ online[d] /\ op[d].pc = "got" /\ (op[d].snap # Nothing \/ op[d].refill)
    /\ local' = [local EXCEPT ![d] = Replaced(op[d].snap)]
    /\ op' = [op EXCEPT ![d] = [@ EXCEPT !.pc = "applied", !.snap = Nothing]]
    /\ UNCHANGED <<server, users, outbox, pending, known, queued, again, timer,
                   late, online, used>>

\* The end of runBootstrap: the revision is stored if a snapshot was applied,
\* the outbox is cleared and nothing is pending.
BootDone(d) ==
    /\ online[d] /\ op[d].pc \in {"applied", "same"}
    /\ rev' = [rev EXCEPT ![d] = IF op[d].pc = "applied" THEN op[d].ans ELSE rev[d]]
    /\ blind' = IF op[d].pc = "applied" THEN blind \ {d} ELSE blind
    /\ outbox' = [outbox EXCEPT ![d] = [i \in Ids |-> 0]]
    /\ UNCHANGED local
    /\ RunNext(d, FALSE)
    /\ again' = [again EXCEPT ![d] = FALSE]
    /\ UNCHANGED <<server, users, timer, late, online, used>>

-----------------------------------------------------------------------------
(* Failures.                                                               *)

MayHappen == used.fails + used.offline + used.restarts < MaxMishaps

\* A request fails or its answer is lost.  A push tries again by timer, a
\* bootstrap leaves pendingPush for the next one.
RequestFails(d) ==
    /\ online[d] /\ used.fails < MaxFails /\ MayHappen
    /\ op[d].pc \in {"post", "posted", "get", "got", "same"}
    /\ MayBeLate(d)
    /\ UNCHANGED store
    /\ RunNext(d, TRUE)
    /\ again' = [again EXCEPT ![d] = FALSE]
    /\ timer' = [timer EXCEPT ![d] = timer[d] \/ op[d].kind = "push"]
    /\ used' = [used EXCEPT !.fails = @ + 1]
    /\ UNCHANGED <<server, users, known, online>>

\* A token refresh fails or succeeds: the session goes offline or comes back.
GoOffline(d) ==
    /\ online[d] /\ used.offline < MaxOffline /\ MayHappen
    /\ online' = [online EXCEPT ![d] = FALSE]
    /\ used' = [used EXCEPT !.offline = @ + 1]
    /\ UNCHANGED <<server, users, store, pending, known, tasks, timer, late>>

GoOnline(d) ==
    /\ ~ online[d]
    /\ online' = [online EXCEPT ![d] = TRUE]
    /\ UNCHANGED <<server, users, store, pending, known, tasks, timer, late, used>>

\* Offline no lease is active: an operation under way throws at its next check
\* and leaves everything as it is.
Stale(d) ==
    /\ ~ online[d] /\ op[d] # NoOp
    /\ Drop(d)
    /\ UNCHANGED <<server, users, store, pending, known, timer, online, used>>

\* The application restarts: the stored revision was in memory only.
Restart(d) ==
    /\ used.restarts < MaxRestarts /\ MayHappen
    /\ Drop(d)
    /\ timer' = [timer EXCEPT ![d] = FALSE]
    /\ online' = [online EXCEPT ![d] = TRUE]
    /\ rev' = [rev EXCEPT ![d] = None] /\ blind' = blind \ {d}
    /\ used' = [used EXCEPT !.restarts = @ + 1]
    /\ UNCHANGED <<server, users, store, pending>>

-----------------------------------------------------------------------------
\* A new account on devices that were used without one: each has its own
\* preferences and nothing else.
Init ==
    /\ revision = 0 /\ records = Nothing
    /\ clock = 1
    /\ latest = [i \in Ids |-> IF i = Pref THEN [at |-> 1, dead |-> FALSE] ELSE NoRec]
    /\ raced = {} /\ blind = {}
    /\ local = [d \in Devices |-> [i \in Ids |-> IF i = Pref THEN 1 ELSE 0]]
    /\ outbox = [d \in Devices |-> [i \in Ids |-> 0]]
    /\ pending = [d \in Devices |-> FALSE]
    /\ rev = [d \in Devices |-> None]
    /\ op = [d \in Devices |-> NoOp]
    /\ queued = [d \in Devices |-> "none"]
    /\ again = [d \in Devices |-> FALSE]
    /\ timer = [d \in Devices |-> FALSE]
    /\ late = Nothing
    /\ online = [d \in Devices |-> TRUE]
    /\ used = [fails |-> 0, offline |-> 0, restarts |-> 0]

Step(d) ==
    \/ ServePost(d) \/ ServeGet(d)
    \/ BootInfo(d) \/ BootPushed(d) \/ BootRefill(d) \/ BootApply(d) \/ BootDone(d)
    \/ PushDone(d)

Next ==
    \/ \E d \in Devices : Step(d)
    \/ \E d \in Devices, i \in Ids : Edit(d, i) \/ Delete(d, i)
    \/ \E d \in Devices : Bootstrap(d) \/ RetryFires(d)
    \/ \E d \in Devices : RequestFails(d) \/ GoOffline(d) \/ GoOnline(d)
                       \/ Stale(d) \/ Restart(d)
    \/ ServeLate

Spec == Init /\ [][Next]_vars

\* The change-watching loop: the server answers the watch when its revision is
\* not the device's, and the renderer then calls bootstrap.
Watch(d) == rev[d] # revision /\ Bootstrap(d)

-----------------------------------------------------------------------------
(* Properties.                                                             *)

\* The variables have their types; no timestamp is ahead of the clock and no
\* revision ahead of the server's.
TypeOK ==
    LET Rec == [at : 0..clock, dead : BOOLEAN]
    IN  /\ revision \in Nat /\ records \in [Ids -> Rec] /\ clock \in 1..MaxClock
        /\ latest \in [Ids -> Rec] /\ raced \subseteq Ids /\ blind \subseteq Devices
        /\ local \in [Devices -> [Ids -> 0..clock]]
        /\ outbox \in [Devices -> [Ids -> 0..clock]]
        /\ pending \in [Devices -> BOOLEAN]
        /\ rev \in [Devices -> 0..revision \union {None}]
        /\ op \in [Devices -> [kind : {"none", "boot", "push"},
                               pc : {"idle", "info", "post", "posted", "get", "got",
                                     "same", "applied"},
                               had : BOOLEAN, refill : BOOLEAN,
                               snap : [Ids -> Rec], wrote : BOOLEAN, ans : 0..revision]]
        /\ queued \in [Devices -> {"none", "boot", "push"}]
        /\ again \in [Devices -> BOOLEAN] /\ timer \in [Devices -> BOOLEAN]
        /\ late \in [Ids -> Rec]
        /\ online \in [Devices -> BOOLEAN]
        /\ used \in [fails : 0..MaxFails, offline : 0..MaxOffline,
                     restarts : 0..MaxRestarts]

Idle(d) == op[d] = NoOp /\ ~ pending[d] /\ ~ HasPending(FALSE, outbox[d])

\* A device with nothing to send whose revision is the server's gets 304.
Settled(d) == Idle(d) /\ rev[d] = revision
\* (The default preferences of a device stand until the account has some.)
Agrees(d, i) == local[d][i] = Live(records[i]) \/ (i = Pref /\ records[i] = NoRec)

\* 304 hides nothing: a device that gets it has the server's live records,
\* however pushes, late requests, retries and restarts interleave.  Two ways
\* out are findings: a revision that came from a push that wrote nothing, and a
\* record somebody acted on during a bootstrap.
SettledAgrees ==
    \A d \in Devices \ blind : Settled(d) => \A i \in Ids \ raced : Agrees(d, i)

\* "The stored revision is the state actually applied" (the comment in
\* runBootstrap), for every record nobody acted on during a bootstrap.  The
\* code does not keep this: the answer to a push that wrote nothing is another
\* device's revision.
RevisionApplied == \A d \in Devices : Settled(d) => \A i \in Ids \ raced : Agrees(d, i)

\* The latest edit of a record is on the server or still on a device.
EditHeld(i) ==
    \/ latest[i].dead
    \/ records[i] = latest[i]
    \/ \E d \in Devices : local[d][i] = latest[i].at

\* Pushing before pulling, retries, restarts and late requests lose no edit of
\* a record nobody acted on during a bootstrap.
NoEditLost == \A i \in Ids \ raced : EditHeld(i)

\* A tombstone leaves the outbox only when the server has it or something
\* newer, for every record nobody acted on during a bootstrap.
TombstoneKept ==
    [][\A d \in Devices, i \in Ids \ raced :
          outbox[d][i] # 0 /\ outbox'[d][i] = 0 => records[i].at >= outbox[d][i]]_vars

\* "Local is not overwritten with the server's" (the comment in pushDirty, on
\* the mark that makes a bootstrap push first) and "keeps tombstones added
\* during an in-flight push" (a test's title), whenever users act: the latest
\* edit is still somewhere, the latest deletion on the server or in an outbox.
\* The code does not keep this: a bootstrap looks at the mark when it starts,
\* and replaces the records and clears the outbox as they are when it ends.
ActSurvives ==
    \A i \in Ids :
        /\ EditHeld(i)
        /\ latest[i].dead => \/ records[i] = latest[i]
                             \/ \E d \in Devices : outbox[d][i] = latest[i].at

=============================================================================
