----------------------------- MODULE PhoneSync -----------------------------
(***************************************************************************)
(* The phone's synchronisation, next to the desktops of DesktopSync on the *)
(* same account (apps/mobile/src/store/useMobileAppStore.ts, lib/          *)
(* sync-outbox.ts, lib/sync-merge.ts, shared-core/src/sync-watch.ts).      *)
(*                                                                         *)
(* The phone knows some kinds of records only, sends what it changed from  *)
(* a queue that names records without their values, and merges a snapshot  *)
(* into its records instead of replacing them.  Unlike the desktop it has  *)
(* no operation queue: a drain of the queue, a sync and the user's edits   *)
(* interleave at every await.                                              *)
(***************************************************************************)
EXTENDS DesktopSync

VARIABLES
    pLocal,    \* persisted: the timestamp of each live record, or 0
    pBox,      \* persisted: syncOutbox, one entry per id
    pRev,      \* in memory: lastSyncRevision, or None
    pSaving,   \* ids saved whose entry waits for the keychain
    drain,     \* the drain under way
    dAgain,    \* syncOutboxDrainAgain
    pSync,     \* the sync under way (syncPromise)
    misled,    \* history: pRev came from a push that wrote nothing
    pGone      \* history: the ids deleted on the phone

phone == <<pLocal, pBox, pRev, pSaving, drain, dAgain, pSync, misled, pGone>>
desktop == <<local, outbox, pending, rev, blind, op, queued, again, timer, online>>
allVars == <<vars, phone>>

PhoneIds == Ids \ {Pref}
NoEntry == [op |-> "none", at |-> 0]
Put == [op |-> "put", at |-> 0]
Del(t) == [op |-> "delete", at |-> t]
NoDrain == [pc |-> "idle", snap |-> Nothing, carried |-> {}, wrote |-> FALSE, ans |-> 0]
NoSync == [pc |-> "idle", asked |-> None, snap |-> Nothing, merged |-> <<>>, ans |-> 0]

-----------------------------------------------------------------------------
(* The queue.                                                              *)

\* buildSyncOutboxPayload: the values are those of the moment; an entry whose
\* record is gone is carried without one.
Payload(loc, box) ==
    [i \in Ids |->
        CASE i = Pref -> NoRec
          [] i # Pref /\ box[i].op = "delete" -> [at |-> box[i].at, dead |-> TRUE]
          [] i # Pref /\ box[i].op = "put" -> [at |-> loc[i], dead |-> FALSE]
          [] i # Pref /\ box[i].op = "none" -> NoRec]
Queued(box) == {i \in PhoneIds : box[i] # NoEntry}

\* runSyncOutboxDrain up to its request; with an empty queue it is skipped.
Draining(loc, box) ==
    IF Queued(box) = {} THEN NoDrain
    ELSE [NoDrain EXCEPT !.pc = "post", !.snap = Payload(loc, box), !.carried = Queued(box)]

\* enqueueSyncOutbox: a new entry takes the place of the old one, also of one
\* that is being sent, which the end of that drain then must not remove.
Enqueued(es) == [i \in PhoneIds |-> IF i \in DOMAIN es THEN es[i] ELSE pBox[i]]
Carried_byKey(es) == drain.carried
Carried(es) == drain.carried \ DOMAIN es

\* drainSyncOutbox: one drain at a time, asked to go round once more.
Drain(es) ==
    IF drain.pc = "idle"
    THEN drain' = Draining(pLocal', pBox') /\ UNCHANGED dAgain
    ELSE drain' = [drain EXCEPT !.carried = Carried(es)] /\ dAgain' = TRUE
EnqueueAndDrain(es) == pBox' = Enqueued(es) /\ Drain(es)

-----------------------------------------------------------------------------
(* The user.  A record is saved first; an entry may wait for the keychain. *)

\* History: a merge has decided what it stores, or the keychain still stores the
\* record's secret, and what the user does now is not part of it.
Acts(i) ==
    /\ clock < MaxClock
    /\ raced' = IF pSync.pc = "save" \/ i \in pSaving THEN raced \union {i} ELSE raced
UserRest == UNCHANGED <<server, desktop, late, used, pRev, pSync, misled>>

\* persistHostAndSecret: the host is set, its entry comes after the secret.
SaveHost(i) ==
    /\ Acts(i) /\ i \notin pSaving
    /\ pLocal[i] # 0 \/ latest[i] = NoRec
    /\ clock' = clock + 1
    /\ latest' = [latest EXCEPT ![i] = [at |-> clock', dead |-> FALSE]]
    /\ pLocal' = [pLocal EXCEPT ![i] = clock']
    /\ pSaving' = pSaving \cup {i}
    /\ UserRest /\ UNCHANGED <<pBox, drain, dAgain, pGone>>
SecretSaved(i) ==
    /\ i \in pSaving /\ pSaving' = pSaving \ {i}
    /\ UNCHANGED pLocal
    /\ EnqueueAndDrain([j \in {i} |-> Put])
    /\ UserRest /\ UNCHANGED <<users, pGone>>

\* A record without a secret (a favourite, a group, a known host) in one step.
EditRecord(i) ==
    /\ Acts(i) /\ i \notin pSaving
    /\ pLocal[i] # 0 \/ latest[i] = NoRec
    /\ clock' = clock + 1
    /\ latest' = [latest EXCEPT ![i] = [at |-> clock', dead |-> FALSE]]
    /\ pLocal' = [pLocal EXCEPT ![i] = clock']
    /\ EnqueueAndDrain([j \in {i} |-> Put])
    /\ UserRest /\ UNCHANGED <<pSaving, pGone>>

DeleteHost(i) ==
    /\ Acts(i) /\ i \in Deletable
    /\ pLocal[i] # 0
    /\ clock' = clock + 1
    /\ latest' = [latest EXCEPT ![i] = [at |-> clock', dead |-> TRUE]]
    /\ pLocal' = [pLocal EXCEPT ![i] = 0]
    /\ EnqueueAndDrain([j \in {i} |-> Del(clock')])
    /\ pGone' = pGone \cup {i}
    /\ UserRest /\ UNCHANGED pSaving

-----------------------------------------------------------------------------
(* The drain.                                                              *)

PhoneRest == UNCHANGED <<users, desktop, pGone>>

ServeDrain ==
    /\ drain.pc = "post"
    /\ ApplyPush(drain.snap)
    /\ drain' = [drain EXCEPT !.pc = "posted", !.wrote = Written(drain.snap) # {},
                              !.ans = revision']
    /\ PhoneRest
    /\ UNCHANGED <<late, used, pLocal, pBox, pRev, pSaving, dAgain, pSync, misled>>

\* storePushedRevision: at most one above the revision of the last pull.
Follows_any(ans) == TRUE
Follows(ans) == pRev # None /\ ans <= pRev + 1
StorePushed(ans, wrote) ==
    /\ pRev' = IF Follows(ans) THEN ans ELSE pRev
    /\ misled' = (misled \/ (Follows(ans) /\ ans # pRev /\ ~ wrote))

\* The drain's promise settles: a sync that waits for it sends its request.
SettleDrain(r) ==
    /\ drain' = NoDrain /\ dAgain' = FALSE
    /\ pSync' = IF pSync.pc = "drain" THEN [NoSync EXCEPT !.pc = "get", !.asked = r] ELSE pSync

\* What was sent leaves the queue; the loop goes round if it was asked to.
DrainDone ==
    /\ drain.pc = "posted"
    /\ StorePushed(drain.ans, drain.wrote)
    /\ pBox' = [i \in PhoneIds |-> IF i \in drain.carried THEN NoEntry ELSE pBox[i]]
    /\ IF dAgain /\ Queued(pBox') # {}
       THEN drain' = Draining(pLocal, pBox') /\ dAgain' = FALSE /\ UNCHANGED pSync
       ELSE SettleDrain(pRev')
    /\ PhoneRest /\ UNCHANGED <<server, late, used, pLocal, pSaving>>

-----------------------------------------------------------------------------
(* The sync.                                                               *)

\* syncWithSession: a second call joins the first; the queue goes first.
SyncStart ==
    /\ pSync.pc = "idle"
    /\ IF drain.pc = "idle" /\ Queued(pBox) = {}
       THEN /\ pSync' = [NoSync EXCEPT !.pc = "get", !.asked = pRev]
            /\ UNCHANGED <<drain, dAgain>>
       ELSE /\ pSync' = [NoSync EXCEPT !.pc = "drain"]
            /\ UNCHANGED <<pLocal, pBox>> /\ Drain(<<>>)
    /\ PhoneRest /\ UNCHANGED <<server, late, used, pLocal, pBox, pRev, pSaving, misled>>

SyncRest == PhoneRest /\ UNCHANGED <<late, used, pSaving, dAgain>>

ServeSync ==
    /\ pSync.pc = "get"
    /\ pSync' = IF pSync.asked = revision THEN NoSync
                ELSE [pSync EXCEPT !.pc = "got", !.snap = records, !.ans = revision]
    /\ SyncRest /\ UNCHANGED <<server, pLocal, pBox, pRev, drain, misled>>

\* An empty account is filled from the phone's records.
HasLocalData == \E i \in PhoneIds : pLocal[i] # 0
SyncRefill ==
    /\ pSync.pc = "got" /\ pSync.snap = Nothing /\ HasLocalData
    /\ pSync' = [pSync EXCEPT !.pc = "refill",
                              !.snap = Payload(pLocal, [i \in PhoneIds |-> Put])]
    /\ SyncRest /\ UNCHANGED <<server, pLocal, pBox, pRev, drain, misled>>
ServeRefill ==
    /\ pSync.pc = "refill"
    /\ ApplyPush(pSync.snap)
    /\ pSync' = [pSync EXCEPT !.pc = "refilled", !.ans = revision']
    /\ SyncRest /\ UNCHANGED <<pLocal, pBox, pRev, drain, misled>>
SyncRefilled ==
    /\ pSync.pc = "refilled"
    /\ StorePushed(pSync.ans, TRUE)
    /\ pSync' = NoSync
    /\ SyncRest /\ UNCHANGED <<server, pLocal, pBox, drain>>

\* mergeSyncedRecords: the newer of the two; a tombstone counts unless the
\* phone's record is newer; a record only the phone has is kept.
LocalWins(i, snap) == pLocal[i] > snap[i].at
Merged_remote(snap) == [i \in PhoneIds |-> IF snap[i] = NoRec THEN pLocal[i] ELSE Live(snap[i])]
Merged(snap) == [i \in PhoneIds |-> IF LocalWins(i, snap) THEN pLocal[i] ELSE Live(snap[i])]
Unpushed(snap) == {i \in PhoneIds : LocalWins(i, snap)}

\* What the server does not have is queued again, but not sent yet; then the
\* secrets, the AWS profiles and the tailnets are stored, one await each.
SyncMerge ==
    LET es == [i \in Unpushed(pSync.snap) |-> Put]
    IN  /\ pSync.pc = "got" /\ ~ (pSync.snap = Nothing /\ HasLocalData)
        /\ pSync' = [pSync EXCEPT !.pc = "save", !.merged = Merged(pSync.snap), !.snap = Nothing]
        /\ pBox' = Enqueued(es)
        /\ drain' = [drain EXCEPT !.carried = Carried(es)]
        /\ SyncRest /\ UNCHANGED <<server, pLocal, pRev, misled>>

\* Only then the records are set and the revision is stored.
SyncApply ==
    /\ pSync.pc = "save"
    /\ pLocal' = pSync.merged
    /\ pRev' = pSync.ans /\ misled' = FALSE
    /\ pSync' = NoSync
    /\ SyncRest /\ UNCHANGED <<server, pBox, drain>>

-----------------------------------------------------------------------------
(* Failures.                                                               *)

\* A given-up POST may reach the server later.
Straggles(req, waiting) == late' = late \/ (waiting /\ late = Nothing /\ late' = req)

DrainFails ==
    /\ drain.pc \in {"post", "posted"} /\ used.fails < MaxFails /\ MayHappen
    /\ Straggles(drain.snap, drain.pc = "post")
    /\ SettleDrain(pRev)
    /\ used' = [used EXCEPT !.fails = @ + 1]
    /\ PhoneRest /\ UNCHANGED <<server, pLocal, pBox, pRev, pSaving, misled>>

\* However a sync ends, the next call starts a new one.
AfterFailure_held == [NoSync EXCEPT !.pc = "held"]
AfterFailure == NoSync
SyncFails ==
    /\ pSync.pc \in {"get", "got", "refill", "refilled", "save"}
    /\ used.fails < MaxFails /\ MayHappen
    /\ Straggles(pSync.snap, pSync.pc = "refill")
    /\ pSync' = AfterFailure
    /\ used' = [used EXCEPT !.fails = @ + 1]
    /\ PhoneRest /\ UNCHANGED <<server, pLocal, pBox, pRev, pSaving, drain, dAgain, misled>>

\* The application ends; records and queue are restored, the revision is not.
PhoneRestarts ==
    /\ used.restarts < MaxRestarts /\ MayHappen
    /\ \/ Straggles(drain.snap, drain.pc = "post")
       \/ pSync.pc = "refill" /\ Straggles(pSync.snap, TRUE)
    /\ drain' = NoDrain /\ dAgain' = FALSE /\ pSync' = NoSync /\ pSaving' = {}
    /\ pRev' = None /\ misled' = FALSE
    /\ used' = [used EXCEPT !.restarts = @ + 1]
    /\ PhoneRest /\ UNCHANGED <<server, pLocal, pBox>>

-----------------------------------------------------------------------------
\* A phone that has just signed in.
PhoneInit ==
    /\ Init
    /\ pLocal = [i \in PhoneIds |-> 0] /\ pBox = [i \in PhoneIds |-> NoEntry]
    /\ pRev = None /\ pSaving = {}
    /\ drain = NoDrain /\ dAgain = FALSE /\ pSync = NoSync
    /\ misled = FALSE /\ pGone = {}

DrainStep == ServeDrain \/ DrainDone
SyncStep ==
    \/ ServeSync \/ SyncRefill \/ ServeRefill \/ SyncRefilled \/ SyncMerge \/ SyncApply
PhoneStep == DrainStep \/ SyncStep

PhoneNext ==
    \/ Next /\ UNCHANGED phone
    \/ \E i \in PhoneIds : SaveHost(i) \/ SecretSaved(i) \/ EditRecord(i) \/ DeleteHost(i)
    \/ SyncStart \/ PhoneStep
    \/ DrainFails \/ SyncFails \/ PhoneRestarts

PhoneSpec == PhoneInit /\ [][PhoneNext]_allVars

\* Requests are answered and awaits return.  The watching loop asks again for
\* ever and its access token runs out within minutes, which it reports as a
\* change, so that the phone syncs for ever; so do the desktops while the
\* server's revision is not theirs.
PhoneFairness ==
    /\ WF_allVars(DrainStep) /\ WF_allVars(SyncStep) /\ WF_allVars(SyncStart)
    /\ \A i \in PhoneIds : WF_allVars(SecretSaved(i))
    /\ \A d \in Devices : /\ WF_allVars(Step(d) /\ UNCHANGED phone)
                          /\ WF_allVars(RetryFires(d) /\ UNCHANGED phone)
                          /\ WF_allVars(Watch(d) /\ UNCHANGED phone)
PhoneLiveSpec == PhoneSpec /\ PhoneFairness

-----------------------------------------------------------------------------
(* Properties.                                                             *)

\* The variables have their types.
PhoneTypeOK ==
    LET Rec == [at : 0..clock, dead : BOOLEAN]
    IN  /\ TypeOK
        /\ pLocal \in [PhoneIds -> 0..clock]
        /\ pBox \in [PhoneIds -> [op : {"none", "put", "delete"}, at : 0..clock]]
        /\ pRev \in 0..revision \union {None} /\ pSaving \subseteq PhoneIds
        /\ drain \in [pc : {"idle", "post", "posted"}, snap : [Ids -> Rec],
                      carried : SUBSET PhoneIds, wrote : BOOLEAN, ans : 0..revision]
        /\ dAgain \in BOOLEAN /\ misled \in BOOLEAN /\ pGone \subseteq PhoneIds
        /\ pSync \in [pc : {"idle", "drain", "get", "got", "refill", "refilled", "save"},
                      asked : 0..revision \union {None}, snap : [Ids -> Rec],
                      merged : [PhoneIds -> 0..clock] \union {<<>>}, ans : 0..revision]

PhoneIdle == pSync = NoSync /\ drain = NoDrain /\ pSaving = {} /\ Queued(pBox) = {}

\* What the user deleted on the phone and a sync brought back.
Revived == {i \in pGone : pLocal[i] # 0}
PhoneAgrees == \A i \in PhoneIds \ (Revived \union raced) : pLocal[i] = Live(records[i])

\* A phone with nothing to send that gets 304 has the server's records,
\* although drains move its revision while a sync is under way.  (The ways out
\* are findings: a push that wrote nothing, StaysDeleted, and a record somebody
\* acted on while it was being replaced.)
PhoneSettledAgrees == PhoneIdle /\ pRev = revision /\ ~ misled => PhoneAgrees

\* A deletion that could not be sent before a pull is kept through it (the
\* comment in syncWithSession): the phone never ends up with nothing to send,
\* nothing to fetch and the deleted record on its screen.  The code does not
\* do this: the merge does not look at the queue.
StaysDeleted == PhoneIdle /\ pRev = revision => Revived \subseteq raced

\* The latest edit of a record, a phone's or a desktop's, is on the server or
\* on one of them.
EditThere(i) == EditHeld(i) \/ pLocal[i] = latest[i].at

\* Merging and queueing again lose no edit of a record nobody acted on while a
\* bootstrap or a merge was replacing it.
EditKept == \A i \in PhoneIds \ raced : EditThere(i)

\* "A local change that is not sent yet survives by itself" (the comment on the
\* merge), whenever the edit is made.  The code does not keep this: the records
\* are merged before the awaits that store them and set after.
EditOutlivesMerge == \A i \in PhoneIds : EditThere(i)

\* An entry leaves the queue only when the server has what it stands for: an
\* edit made while an older one is sent stays queued.  (An edit whose secret is
\* still being stored has its entry coming; one made while the record was being
\* replaced is left out.)
QueueKept ==
    [][\A i \in PhoneIds \ raced :
          pBox[i] # NoEntry /\ pBox'[i] = NoEntry /\ i \notin pSaving =>
              records[i].at >= (IF pBox[i].op = "delete" THEN pBox[i].at ELSE pLocal[i])]_allVars

\* Once users stop editing, the phone and the desktops have the server's
\* records for good.  (An offline spell is left out: what is edited in it waits
\* for the next edit or bootstrap.)
AllConverge ==
    <>[](\/ misled \/ used.offline > 0
         \/ PhoneAgrees /\ \A d \in Devices \ blind, i \in Ids \ raced : Agrees(d, i))

=============================================================================
