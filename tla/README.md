# A TLA+ verification of Dolgate

Dolgate is an SSH, SFTP and remote-desktop client with a desktop application (Electron), a mobile
application (React Native), a Go process that does the connections (`services/ssh-core`, linked into the
mobile application through gomobile) and a Go server that synchronises accounts (`services/sync-api`).

This directory models the parts of it in which goroutines, devices or servers meet: where order, loss,
crashes, late timers and stale values decide whether the program is right. Every definition is translated
from the source; `PROJECT.json` names the lines of each one, the runs, the hazards they are aimed at and,
for each property, a mutation of the code that the property detects.

Contents: [1 Inventory](#1-inventory) · [2 Modules and the code](#2-modules-and-the-code) ·
[3 Runs](#3-runs) · [4 Fairness](#4-fairness) · [5 Proofs](#5-proofs) ·
[6 Findings and observations](#6-findings-and-observations) · [7 Not modelled](#7-what-is-not-modelled) ·
[8 Plan](#8-plan)

To repeat a run: `tlc -config MCFlowControl.cfg MCFlowControl`; a proof: `tlapm OutputFeedProofs.tla`.

## 1. Inventory

### SSH core (`services/ssh-core`)

| component | state | operations | interacts with | what is hard | correct when |
|---|---|---|---|---|---|
| output ring (`mobile/ringbuf/ring.go`, `subscription.go`) | retained chunks, head/next numbers, registered feeds | Append, Subscribe, Subscription.Close, Ring.Close, reads at a cursor | two pumps and the shell-integration writers append; followers receive | a chunk is numbered under the lock and delivered after it; feeds are bounded and may be closed in between | numbers are contiguous, the handover from history to live is exact, no send on a closed channel |
| followers and fan (`follower.go`, `outputfan.go`) | the follower's expected number and batch, the table of followers | replay read, Follow, Stop, stopFollowers | ring; a listener in the app | overtaken deliveries, full feeds, evictions between read and follow, Stop against a running callback | each byte once and in order or reported missing; Stop returns |
| flow control (`internal/flowcontrol`) | a gate per session: unacknowledged bytes, paused, hidden, disabled, stall timer | Start, StartObserved, Stop, Sent, Ack, SetHidden, Wait, the stall check | stdout and stderr readers, tmux panes, the renderer's acknowledgements | channels replaced while somebody waits on them; timers that already fired; callbacks outside the lock | no lost wake-up, a bounded backlog, a vanished renderer stops nobody |
| frame router (`cmd/ssh-core/router.go`, `main.go`), in-flight registry, dial questions | lanes (tail, depth), barrier; cancellable attempts; pending questions | route, claim, release; Begin, Cancel; ask, answer, dismiss | one reader of frames, one goroutine per frame, one per dial | order rests on a chain of channels whose map entry is deleted; cancels overtake the lane | order per target, the barrier, what dials can be cut, stops hold |
| SSM data channel (`internal/ssmdatachannel`) | sequence numbers, outbound and inbound buffers, resend attempts | WriteMsg, resend loop, HandleMsg, Close | writers, the AWS agent behind a lossy path | loss, repetition, reordering; full buffers; Close against waiting writers | no input lost while it is up, output once and in order, nothing acknowledged is dropped |
| tailnet registry (`internal/tailnet/registry.go`) | an entry per tailnet: node, generation, references, retirement, idle timer, teardown | Acquire, Release, Retire, Disconnect, Reset, Discard, Replace…, Forget, Close | sessions, forwards, the tailnet service, timers | teardowns outside the lock, leases of earlier generations, late timers | exact counts, no leased node closed unasked, unused ones go, one node per state directory |
| SSH connections and sessions, stall guard, SFTP, forwarding, command workers, tmux/local/serial/mosh, containers, SSM forwards, tailnet service, mobile bindings | see `PROJECT.json` | | | | not modelled (section 7) |

### Desktop application (`apps/desktop`)

| component | state | operations | interacts with | what is hard | correct when |
|---|---|---|---|---|---|
| sync service (`main/sync-service.ts`) | records, deletion outbox, `pendingPush` (persisted); stored revision, operation queue, retry timer (memory) | bootstrap, pushDirty, retries, going offline | IPC handlers that edit, the record store of the server, the watching loop | edits at every `await`, requests given up and processed late, restarts | no edit or tombstone is lost, 304 hides nothing, devices converge |
| vault and session (`main/auth-service.ts`, `shared-core/src/vault.ts`) | vault state, key in the keychain, session in memory and in the offline cache | set-up, unlock, reset, migration, passphrase change, session refresh, offline restore, sign-out, leases for pushes | the account's row on the server, other devices, clients from before the vault | decisions taken from an answer that is stale by now, requests that commit after they were given up, restarts without a network | records stay readable, keys of two generations are never mixed, a late answer undoes nothing and a fresh one is believed |
| core manager, storage, AWS, sharing, RDP/VNC managers, importers, assistant, updates, renderer | | | | | not modelled |

### Mobile application (`apps/mobile`)

| component | state | operations | interacts with | what is hard | correct when |
|---|---|---|---|---|---|
| store and sync (`store/useMobileAppStore.ts`, `lib/sync-outbox.ts`, `lib/sync-merge.ts`) | records and queue of changes (persisted), stored revision, the drain and the sync under way | edits and deletions, enqueue and drain, sync with its merge and refill | the record store, the watching loop, the user | no operation queue: drain, sync and edits interleave at every `await`; the queue names records and holds no values | no edit leaves the queue unsent, 304 hides nothing, phone and desktops converge |
| screens, native views, bindings | | | | | not modelled |

### Sync server (`services/sync-api`)

| component | state | operations | interacts with | what is hard | correct when |
|---|---|---|---|---|---|
| record store (`internal/store/gorm_store.go`) | records and revision of each account | push, snapshot | devices | last writer wins by timestamp, against late requests | part of the sync properties |
| watch hub (`internal/http/sync_watch_hub.go`, `router.go`) | an entry per account with waiters: channel, count, oldest revision; the checking goroutine | subscribe, release, notify, check, Close | handlers, pushes on this server, commits on other servers | entries replaced while handlers hold the old one; check decides to end while somebody comes | counts exact, nobody stranded, every change answered without notify |
| vault rows and push fence (`gorm_store.go`, `router.go`, `auth/service.go`) | version, epoch, floor, revision, wrapped key and verifier | create, update, reset under the row lock; gates of a push, then the fence in its transaction | devices | a push is admitted before its transaction | part of the vault properties |
| accounts and tokens, rate limit, share hub, AWS session hub | | | | | not modelled |

## 2. Modules and the code

```
OutputRing <-EXTENDS- OutputFeed <- MCOutputFeed          SsmStream <-INSTANCE- SsmChannel <- MCSsmChannel
FlowControl     <- MCFlowControl                          DesktopSync <- MCDesktopSync
FrameRouter     <- MCFrameRouter                               ^
TailnetRegistry <- MCTailnetRegistry                      PhoneSync   <- MCPhoneSync
VaultFence      <- MCVaultFence                           SyncWatchHub <- MCSyncWatchHub
```

The theorems about a module `X` are in `XProofs`, which extends it: `FlowControlProofs`, `FrameRouterProofs`,
`SsmChannelProofs`, `TailnetRegistryProofs`, `VaultFenceProofs`, `SyncWatchHubProofs`. `OutputFeedProofs` has those
of the ring and of the feeds, `SyncProofs` those of `DesktopSync` and `PhoneSync`.

An action is one critical section, one `await`-free stretch, or one transaction; what the code does after an
unlock is an action of its own. Bytes are counted and not represented. An operator named `X_something`, or
preceded by "Mutant:", is a wrong variant of `X` used only to show that a property detects it.

**OutputRing** – `chunks`, `usedBytes`, `headSeq`, `tailSeq`, `nextSeq` and `subs` are the fields of `Ring`;
`app[a]` is an `Append` call: bytes still to be split, the chunk in hand and the feeds it has yet to reach.
`AppendChunk` is the locked part of `appendChunk` with the whole of `evictLocked`; `Deliver` is one call of
`deliver`. `Unregister` and `CloseFeed` are the two locks `Subscription.Close` takes; `Close` and `CloseSub`
those of `Ring.Close`. Cursors are resolved as `resolveCursorLocked` does; a time cursor carries how many
retained chunks are older. `since`, `taken` and `discarded` are history.

**OutputFeed** extends it with the consumers: the app's replay read and its `NextSeq`, `Follower.run` (replay,
first chunk, merging in a coalescing window, `admit`), the fan's table, and `Stop` in its steps. `heard` and
`reported` are what the listener was told.

**FlowControl** – the gate of one session and everything that acts on it. Methods of `Registry` hold its
mutex throughout and are one action each; the pause and resume callbacks come after the unlock (`owes`).
`Wait` is one action per turn of its loop. Timers are countdowns; a timer that has fired and not yet got the
lock is in `fired`; `whose` says whether the gate it watches is still the session's. Everything the core emits
is counted (`runtime.go:236`), not only what a read loop forwards: `held` is what the handshake filter holds
back, `FlushHeld` its release by a timer or a failed injection, `Insert` the sequences the core writes itself;
neither of the two waits at the gate.

**FrameRouter** – one reading goroutine (`reader`), one goroutine per frame (`lane`), one per attempt to
connect (`task`). *Sessions* dial in a goroutine their handler leaves behind, *Forwards* inside the handler.
A dial may ask for a one-time password; the answer is looked up under the lock and sent after it, as in
`RespondChallenge`. A stop is the sequence of its four locked parts.

**SsmChannel** – `WriteMsg` in its locked part, its wait for room and its write; the resend loop's tick and
write; the reading goroutine with the four cases of output; `Close` in three steps. Two sets of frames under
way lose, repeat (a frame may be sent again) and reorder. **SsmStream** is what the inbound direction
promises: what was sent, once and in order, until the channel loses its buffers.

**TailnetRegistry** – one tailnet; the entry with its generation, reference count, retirement and timer, the
leases given out, and `jobs`, the teardowns at work outside the lock with the steps they have left. `overlap`
records that a teardown began while another one of the same entry ran.

**DesktopSync** – the server's records and revision and, per device, the persisted and the volatile state of
the sync service. `op` is the head of `operationTail` with the point it has reached; every `await` is a
point. A record is its timestamp (edits take distinct ones), a live record is encrypted anew at each upload,
so equal timestamps do not mean equal payloads, except for tombstones. `late` is a POST the device gave up
and the server processes all the same. A snapshot without preferences leaves a device with the default ones,
dated now, as `applyRemoteSnapshotAtomically` does. Users edit and delete at every moment. Two history variables
mark the cases that are findings: `raced`, the records somebody acted on while a bootstrap that had already
decided what it sends was under way, and `blind`, the devices whose stored revision came from a push that wrote
nothing, until their next pull.

**PhoneSync** extends DesktopSync: the phone is one more client of the same records. `pBox` is the queue, one
entry per id (`enqueueSyncOutbox` replaces); `drain` is the run of `runSyncOutboxDrain` with the entries it
carries – by identity, so that an entry that was replaced meanwhile is not among them; `pSync` is the
`syncPromise` with the point it has reached. `SaveHost` and `SecretSaved` are `persistHostAndSecret` before
and after the keychain; `EditRecord` is an edit without a secret; `SyncMerge` computes the merge and queues
what the server lacks, `SyncApply` is the `set` after the four awaits that follow. Users act at
every moment; a record they act on while a merge or its secret is being stored joins `raced`. `misled` (the phone's
`blind`) and `pGone` are history.

**VaultFence** – one account's vault. A data key is a number, a wrapper a key under somebody's passphrase, a
verifier the key itself; wrappers and keys are made fresh. `acct` is the user's and the vault's row; its
four transactions are `OldSignIn`, `CreateUserVaultV2`, `UpdateUserVaultV2` and `ResetUserVault`. A device has
`vault` (memory), `cache` (keychain) and `session` (memory and offline cache), one vault operation and one
session request under way, and a push with the lease it was built from. A change of the passphrase is three
steps: after the first derivation (`ChangeOpen`) the wrapper is checked, after the second (`ChangeSend`) the
request names whatever epoch and revision the device has by then. `ResolveVaultState` is
`resolveVaultStateForSession`, `IsOlder` and `DecideVaultAccess` are `decideVaultAccess`. A push is checked
(`PushCheck`) and applied (`ApplyPushRecords`) in two steps, between which the row may change.

**SyncWatchHub** – the table, the handlers of `GET /sync/watch` from the gate to the answer, the checking
goroutine, commits and deletions on this server (which notify later: `owed`) and on others (which do not).

## 3. Runs

All passing runs end with no error on the bounds below. Deadlock is checked in the runs of the two clients'
synchronisation; elsewhere it is off because the system may stop: sessions end, rings and hubs are closed,
and the bounded number of frames, messages, numbers or keys is used up.

| run | instance | shows |
|---|---|---|
| `output` | two appenders (stdout, stderr) of one-byte chunks and 3 numbers, or one appender of payloads of 1 and 3 bytes split at 2 and 4 numbers; one follower at all kinds of cursor, ring of 3 bytes, reads of 2, feed of 1 | `Contiguous`, `HandoverExact`, `NoSilentGap`, `ReplayThenFollowExact`, `NoSendAfterClose`, `StopReturns` |
| `flow` | two readers or a pane; High 2, Low 1, stall 2 ticks, reads of up to 2, acks of up to 3, one byte held back, one inserted | `NoLostWakeup`, `BacklogBounded`, `PausesEnd` |
| `router` | 3 frames: every command of one forward and the global lane, or connects and disconnects of one session | `RunsInOrder`, `DialCanBeCut`, `StoppedForwardIsGone`, `NoSendOnClosed`, `EveryFrameRuns` |
| `ssm` | two writers, 4 messages, buffer of 2, one retry; or three output messages, reorder buffer of 1 | `NoInputLost`, `WriterReturns`, `AckedIsKept`, `ImplementsStream` |
| `tailnet` | two consumers and the observer, two generations, every operation, late timers | `RefsExact`, `LeasedStays`, `NodeAlone`, `ForgottenIsPurged`, `IdleGoes` |
| `vault` | two desktops and an old client; accounts without a vault, with a v1 vault, with a v2 vault from before verifiers; two keys or wrappers made, one reset, one fault | `RecordsReadable`, `KeysAgree`, `RestartKeeps`, `NeverBack`, `BelievesFresh` |
| `sync` | a phone and a desktop, preferences and a host record: two edits or deletions at any moment, or one with an offline spell, or one with a failed request and a restart | `SettledAgrees`, `PhoneSettledAgrees`, `EditKept`, `TombstoneKept`, `QueueKept`, `AllConverge` |
| `sync_skipped` | two desktops, preferences and a host record, a failed request | violation of `RevisionApplied` (section 6) |
| `sync_lost` | two desktops, a host record | violation of `ActSurvives` (section 6) |
| `phone_lost` | the edits are the phone's | violation of `EditOutlivesMerge` (section 6) |
| `phone_back` | a phone and a desktop, one host record | violation of `StaysDeleted` (section 6) |
| `watch` | two handlers of one account, two commits, a deletion | `WaitersExact`, `NoOrphan`, `CheckSees`, `CheckerRuns`, `ChangeIsAnswered` |

Why the bounds are enough:

- *ring and feeds*: the ring holds one byte less than is appended, so that chunks are evicted, and one byte more
  than a read hands out, as the shipped ring holds more than 512 KiB; a feed of one chunk
  is full after the first. Two appenders are needed for an overtaken delivery and two suffice, since a
  delivery is compared with the one before it. Chunks of different sizes, needed for evictions of several
  fronts, come from one appender: sizes and races are two shapes of one run, since together they multiply.
- *flow*: reads of two bytes jump over both watermarks; acks of three exceed what was sent; two ticks of
  stall leave room for a timer that is half over when the window is hidden and shown. A read
  and a byte held back can go out together. Nothing is sent from `MaxUnacked` = 8 on, and 10 could be reached,
  more than `BacklogBounded` allows.
- *router*: three frames are the least with a frame before and one after a release or a barrier. The dials of
  a session run outside its lane and multiply with everything else, so a run has frames of sessions or of
  the rest, and a third frame of a session goes with dials that ask nothing.
- *SSM*: four messages and a buffer of two make both writers wait; three inbound messages overflow a buffer
  of one. The two directions share only the socket and the closing, so a run has traffic in one of them.
- *tailnet*: two generations are needed for leases and teardowns that outlive their node; with two consumers
  a count can be wrong in either direction.
- *sync*: the two kinds of client are the two sides of every conflict: each meets the other's edit, deletion and
  revision. Two edits after the initial one (clock 3) meet without a mishap; an edit goes through two mishaps at
  any moment, failed request and restart, or through an offline spell (`InBounds`). The product of all is out of
  reach; the proofs bound neither the edits, the mishaps nor the desktops. Preferences and a host suffice, since
  nothing but the order of a queue relates two records.
- *vault*: two keys let a set-up follow a reset, or a change of the passphrase a set-up; one reset is enough
  for leases, caches and answers of an older generation; the account may start in each of the states an
  update can leave it in. One push and one session request are on the wire at a time (`OneAtATime`): they
  share only the row, which vault operations alone move.
- *watch*: two handlers share an entry and come at different revisions; `made` grows with each
  re-subscription and is bounded by the commits.

Every module has a type invariant; section 5 has the proof of each.

## 4. Fairness

Fairness is asked only of what the Go scheduler, the timer wheel or the event loop guarantees:

- *OutputFeed*: appenders finish the call they are in, followers run, whoever called `Stop` or `Close` goes
  on. Users' calls are never forced.
- *FlowControl*: time passes, timers run, waiting readers go on, callbacks are made. Nothing of the renderer:
  `PausesEnd` is about one that has fallen silent.
- *FrameRouter*: the goroutines of frames and dials go on. A dial ends because its TCP part has a timeout and
  its handshake a stall guard, a question because it has a budget (`humanwait.go`).
- *SsmChannel*: a writer that was woken takes the lock, and a `Close` that has begun goes on. Nothing of the
  network or the agent, and nothing of the goroutine that reads and would close: it makes tracked writes itself
  and may be blocked in one. `WriterReturns` therefore says that no wake-up is missed, not that every writer
  returns: with a full buffer, an agent that acknowledges nothing and nobody to call `Close`, it waits.
- *TailnetRegistry*: timers expire and teardowns end: closing a node returns.
- *PhoneSync* (and the desktops in it): requests are answered, awaits return, retry timers fire. A desktop
  bootstraps while its revision is not the server's, which is what the watching loop waits for. The phone
  syncs for ever: its watch asks again and again, and its access token, valid for 15 minutes (`config.go:108`),
  runs out, which the loop answers with a sync. Failed requests and restarts are bounded by `MaxMishaps`.
- *SyncWatchHub*: handlers and the checking goroutine run. Strong fairness of `CheckRead`: the database does
  not fail for ever. Strong fairness of `Shutdown`: a select with two ready channels picks each of them in
  the end. No fairness for `notify` and for deadlines: the checks must suffice.

## 5. Proofs

`tlapm` checks eight modules, for every value of the constants that the named assumptions allow. These say
that sizes, limits and bounds are naturals; that a chunk fits the ring and a read (`RingAssumption`: the code's
16 KiB, 2 MiB and 512 KiB); that the low-water mark is below the high one and a session has finitely many
readers (`FlowAssumption`); that the kinds of targets are disjoint (`RouterAssumption`); that a tailnet has
finitely many consumers and the hub finitely many handlers. The bounds that make the runs finite (`MaxSeq`,
`MaxFrames`, `MaxOut`, generations, resets, faults) are arbitrary naturals in the proofs. One
theorem assumes more: `EditsKept` has `Devices # {}`, since without a device nobody holds what was edited. The
cases in which the code does not keep what it says (section 6) are left out of the properties by history
variables of the model (`fits`, `raced`, `blind`, `misled`), never by an assumption on what users do.

**OutputFeedProofs, the ring.** `TypeCorrect` is inductive as it is. `RetainedContiguous` (`Contiguous`) needs types:
appending puts `nextSeq` at the end, and dropping `k` fronts moves `headSeq` to the number after the last one
dropped, which is the first of the rest because the old numbers were contiguous – for every `k`, so the proof
does not depend on how many fronts `evictLocked` drops, nor on sizes. Everything else leaves the six ring
variables alone (`RingMoves`). `NeverSendsOnClosed` (`NoSendAfterClose`) is an action property: of the
actions only `Deliver` and `Receive` touch a feed, the first checks that it is open, the second shortens it.
`HandoverIsExact` (`HandoverExact`) is inductive with `Registered` (a feed that is not registered yet has
nothing anywhere, a registered one is open): a chunk moves from an appender's hands to the buffer, to the
discarded ones or to nobody, and from the buffer to the consumer (`MoveFromHand`, `MoveToGot`), and a new
number enters every registered feed's share at once. `RingWithinBudget` (`Budget`): what is counted is what is
retained, within the budget, and the chunk just stored is never evicted. It rests on `BytesAddUp`: the bytes of
a window are the difference of two partial sums. `Bytes` is a recursive function, and what it computes is shown
by the least index at which it would be wrong (`Least`), since a theorem of induction cannot be instantiated.

**OutputFeedProofs, the feeds.** `FeedUsesRing`: the consumers call the ring only through its operations, so
`FeedSpec` implements the ring's specification (`FeedStepIsRingStep`: each step is a step of the ring or
leaves it alone), and the ring's theorems hold as it is used (`FeedContiguous`, `FeedHandover`).
`ListenersAreTold` (`NoSilentGap`) rests on `FolInv`: each follower's listener was told of exactly the numbers
from its first to the one it expects, in order, as a chunk or as dropped (`Told`); replay and debt exist only
while the replay is handed over and a batch only while merging; and the cursor of a replay read is at most
`nextSeq`. Two lemmas say how what was told may grow: `TellGap` by numbers reported as dropped, `TellMore` by
chunks that continue where it ended. `Follow` needs the ring's theorems: the cursor is resolved to a position
in the ring (`ResolvedInRing`; for a tail of bytes by a least position), a read there carries on
from it (`ReadIsExact`, by `Contiguous`, and by `Budget` because a read that hands out nothing must be at the
end), and a cursor below `headSeq` means that the ring is not empty (`Budget`), so that what was evicted is
really owed. `admit` is `TellChunk`: the gap before a chunk, then the chunk, after what is pending.
`ReplayHandsOver` (`ReplayThenFollowExact`) is inductive as `ResumeInv`: what a listener that goes on from a read is
told was dropped, or is still owed, was evicted before the follow or numbered after it, if what the ring held from
the cursor on fitted one read at the follow (`fits`). Its one interesting step is `Follow`: then the read ends at
`nextSeq` (`ReadsToTheEnd`, by `Budget` and the partial sums), which is where the feed begins. Nothing is assumed of
the sizes of ring and read.

**FlowControlProofs.** `FlowInv == TypeOK /\ Kinds /\ Opened /\ NoLostWakeup /\ Budget`. `ReadersAreWoken`
(`NoLostWakeup`) needs `Kinds`: a blocking session has readers and no stall timers, an observed one the
reverse. `BacklogBounded` alone is not inductive, since a reader that passed the gate sends later:
`Budget` charges one read to each reader that was let through and counts what the filter holds back as sent
already, so that a flush outside the read loops spends what is charged; what the core inserts is on top, counted
since a reader last found the gate open (`inserted`). `Opened` says that a gate the safety net opened has stalled,
which the bound exempts.

**FrameRouterProofs.** `RouterInv == Typed /\ LanesInv /\ DialsInv`. For `RunsInOrder`, `TailsOk`, `BarrierOk`
and `WaitsOk` say that the one predecessor and the one barrier a frame waits for are the last of those that
precede it, so waiting for the two is waiting for all. `StoppedForwardIsGone` needs that a forward's task is
over before its frame is (`TaskOk`), which carries the order of the lane over to dials, and that a stop past its
drop leaves nothing behind (`StopOk`). `NoSendOnClosed` needs that the channel a disconnect closes is a
session's (`TookOk`), and that a forward's question, registered or in the reader's hand, has an open one
(`QuestionOk`, `ReaderOk`). `DialCanBeCut` is kept together with these.
`DepthsAreExact`: the depth counter equals the number of frames queued, so the map entry is removed when the
last one leaves.

**SsmChannelProofs.** `SsmInv == TypeOK /\ FramesOK /\ OutInv /\ InInv`. `NoInputLost` needs that numbers are
held by one writer each (`HoldersOK`), that a number sent is tracked or has arrived although `Remove` may run
between the two (`SentIsTracked`), that an acknowledgement means arrival (`AcksAreTrue`), and that the buffer is
ascending (`OrderedBuffer`, also stated as `OldestIsLowest`: the resend loop looks at the front only, while a
writer that waited for room is inserted behind those that overtook it). `AckedIsKept` needs `OnlySent`.
`ChannelImplementsStream` (`ImplementsStream`) follows from `DeliveredExact`: what was handed on is always the
numbers below `inSeqNum`, in order.

**TailnetRegistryProofs.** `TailInv` has `RefsExact` and `LeasedStays` with `Numbered` (nothing is of a later
generation than the entry), `TornDown` (an unforced teardown has no users and gets none), `Closes`, `Single`
(without overlap there is at most one teardown, of the last node, and it purges what is condemned) and
`Retired` (a retired node is still in use). `RefsExact` goes through cardinalities of the holders with one
consumer more or less; `NodeAlone` and `ForgottenIsPurged` follow from `Single`.

**VaultFenceProofs.** `VaultInv == Typed /\ Safe`. `Safe` says what anybody may know: no row the
server ever held is of a later epoch than the account's, rows of one epoch have one key, and there is one key of
version 1; every session, cache, request, late request and answer names an epoch of some row together with
that row's key; a push carries the key of the epoch its header names, and its fence, once checked, is that epoch.
`RecordsReadable`, `KeysAgree` and `RestartKeeps` follow, and
`FreshAnswersAreBelieved` (`BelievesFresh`) is an action property under it. `NeverGoesBack` (`NeverBack`) needs more:
the answer to a set-up, a change or a reset overwrites whatever the device holds by then, and a session answer may
have brought it a newer key meanwhile. `KeyInv` says that there is a function from keys to the epoch each was made
for, which agrees with every row and every create request on the wire, and that the key in a device's keychain
was made for no later epoch than the accepted answer the device still waits for. A key that is made extends the
function (`KeyMade`); the server gives an accepted request the epoch its key was made for (`CommitKeys`); and a
session answer leaves in the keychain what was there, nothing, or the v1 key (`ResolveKeys`).

**SyncProofs, the desktops.** `TypeCorrect` is inductive as it is. `SafeInv == Control /\ PrefInv /\ \A i \in Ids \ raced : IdInv(i)`
is, for each id nobody acted on during a bootstrap, the statement `NoEditLost` and `TombstoneKept` lack. There is a set `K` of the timestamps at
which the record was deleted, so that equal timestamps mean equal records (`Fits`); a device without `pendingPush`
holds nothing the server has not (`HoldOk`); a push under way sends what the device has, or a joined push will
(`PostOk`); and what a pull is about to replace or clear has reached the server (`PullOk`) – this is what pushing
before pulling is for. `Control` gives the steps of each operation. `PrefInv` is about the preferences, of which
each desktop has a record: they are in everything it sends, so an account with records is recognised as such and
a refill is not repeated. `EditsKept` and `TombstonesKept` follow, the second as an action property.
`RevisionIsState` (`SettledAgrees`) is inductive as `RevInv`, on top of `SafeInv`: if the stored revision is the
server's, the device has the server's record or a newer one it will send (`InStep`), and so it is of the revision
an answer under way would store, where that answer is the last one (`RevOk`). A push that
wrote something moved the revision itself, so that "at most one more than pulled" does mean that nobody else
wrote; a device that took over the answer to one that wrote nothing is in `blind` and exempt until its next pull.

**SyncProofs, the phone.** `PhoneInv` has for each id outside `raced` the desktops' body and, for the same `K`, the phone's
(`BothBody`): records and queue (`HeldOk`), an entry carried by a drain is what the drain sends, or the server has
something newer, or another entry is coming (`CarriedOk`), and a merge under way replaces a record only by one the
server has or by a deletion that is newer (`MergeOk`). `PhoneEditsKept` and `PhoneQueueKept` follow.
`PhoneRevisionIsState` (`PhoneSettledAgrees`) is harder than the desktop's, since a drain may move the stored
revision while a sync is between its request and its end. `PhoneRevInv` says of the drain that what it sends is
what the phone has, or is older than what the phone or the server has (`DrainMatches`); that whatever is newer than
the server's is queued or about to be (`NewerOk`); that the phone agrees with the server at its stored revision and
at the one the drain's answer would make it (`StoredOk`); and that a snapshot under way is the server's state, or
that state before the drain wrote (`FetchedOk`).

**SyncWatchHubProofs.** `WaitersExact` and `NoOrphan` are inductive only together: a count one too low
removes an entry somebody waits at, and a stranded handler would be discounted from another entry. The
invariant is `WaitInv == TypeOK /\ SubShape /\ WaitersExact /\ NoOrphan`, where `SubShape` says that a handler
holds a subscription exactly while it waits. `SubscribeCounted`, `ReleaseCounted` and `NotifyCounted` are
its cases; they use the cardinality of the set of holders with one element more or less. `ChecksSuffice`
(`CheckSees`) follows from `SinceOrder` (`OldestKept`): no waiter's revision is below its entry's, and none
above the account's; so if an entry's revision equals the account's, every waiter has seen it.
`SomebodyChecks` (`CheckerRuns`) is inductive with the types.

Only model-checked: the liveness properties `StopReturns`, `PausesEnd`, `EveryFrameRuns`, `WriterReturns`, `IdleGoes`,
`ChangeIsAnswered` and `AllConverge`: fairness is outside what this version of the proof system handles.

Every safety invariant and action property of the passing runs, and the refinement of `SsmStream`, is stated by a
theorem. `EditsKept` has no run of its own: it is `EditKept` for desktops alone, of which run `sync` has one beside
the phone. The properties of the violation runs (`RevisionApplied`, `ActSurvives`, `EditOutlivesMerge`,
`StaysDeleted`) are false of the code and have none.

## 6. Findings and observations

**A revision that was never applied is stored** (run `sync_skipped`). After a push the desktop stores the
server's revision if it is at most one above the last pulled one (`sync-service.ts:1173`), taking the
increase for its own. A push of which every record is older than the server's is answered with the unchanged
revision; if another device moved it by one since the last pull, that device's revision is stored although
its changes were never applied. The next GET is answered 304 and the changes stay hidden until the revision
moves again. The comment at `sync-service.ts:673` says that the stored revision is the state that was really
applied. `SettledAgrees` exempts exactly these devices, until they pull again (`blind`).

The phone does the same (`storePushedRevision`, `useMobileAppStore.ts:3396`); `PhoneSettledAgrees` and
`AllConverge` therefore exclude a revision that came from a push which wrote nothing (`misled`).

**What the user does during a bootstrap is lost** (run `sync_lost`). `runBootstrap` looks at the mark of pending
changes once, when it starts. An IPC handler that saves a record at one of the awaits after that has its record
replaced by the snapshot (`sync-service.ts:1424`), `pendingPush` is cleared (`:689`), and the push it queued sends
the old value. A deletion goes the same way: at its end `runBootstrap` clears the outbox as it is by then (`:678`),
not what its push carried; also after a 304. The comment at `:859-862` says of the mark that `runBootstrap` pushes
first and local is not overwritten with the server's, `ipc/tailnet.test.ts:102-107` gives telling the
synchronisation as what keeps a record from the next pull, and `sync-service.test.ts:768` promises that tombstones
added during "an in-flight push" are kept, which `pushDirty` does (`:905`). `ActSurvives` states both promises; the
shortest counterexample is the edit's. `NoEditLost`, `TombstoneKept` and `SettledAgrees` are about the records
nobody acted on in that time (outside `raced`).

**An edit on the phone during a sync is overwritten** (run `phone_lost`). `syncWithSession` merges the
snapshot with the records it finds at `useMobileAppStore.ts:7564`, then awaits the keychain, the AWS profiles
and the tailnets, and sets the merged records at `:7663` without looking at the store again. What the user
created or edited in between is gone; its entry is still in the queue and then sends the old value, or
nothing. `sync-merge.ts:18` says that a local change which was not sent survives by itself. Apart
from records users acted on during these awaits (`raced`) no edit is lost, through failures and restarts (`EditKept`).

**A deleted host comes back** (run `phone_back`). The merge does not look at the queue. A host deleted on
the phone whose tombstone has not been sent – the drain before the pull failed, or the deletion came while
the sync was under way – is taken from the snapshot again. The tombstone then goes out, its answer is one
above the last pulled revision and is stored, and 304 keeps the host on the phone although it is gone
everywhere else. The comment at `useMobileAppStore.ts:7227` says that what could not be pushed is put back
on top and kept. `PhoneAgrees` leaves out what was brought back in this way (`Revived`).

Observed while modelling. These are read from the code and from counterexamples met on the way; no run
keeps them. The properties are stated so as to hold of the code, and where a condition was needed it is named.

- A pane can stay held back after `Stop`. The pause and resume callbacks of a gate run after the unlock; a sender
  that has set the gate paused may be overtaken by `Stop`, which drops the gate and resumes. The pause then arrives
  last (`flowcontrol.go:161`) and no gate is left that could resume the pane, where `flowcontrol.go:114` says that
  `Stop` makes it send again. `PausesEnd` is therefore about the gate and the readers, not about the pane.
- `NextSeq` does not always hand over exactly. The replay of a follow is one read of at most 512 KiB
  (`subscription.go:40`, `ring.go:32`) of a ring of 2 MiB, 1 MiB for SSM. With more than that retained from `NextSeq`
  on, the live feed begins behind the rest, which is reported as dropped although it is there; `bind.go:911-913`
  calls the handover exact. `ReplayThenFollowExact` is therefore about the follows at which the rest fitted one
  read (`fits`).
- A delivery overtaken by the other appender's is reported as dropped although it was neither evicted nor
  discarded (`ring.go:200`; `follower.go:21` gives these two as the only reasons). Therefore
  `ReplayThenFollowExact` is about the chunks numbered before the follow.
- What a full feed turned away at the very end of a stream is reported to nobody, since a gap is noticed at
  the next chunk (`ring.go:34` says that it is reported).
- The disconnect of a session that arrives before its connect has reached `Begin` finds nothing to cancel
  (`main.go:193`, `router.go:88`, `:93`, `:95`); the connection then outlives the disconnect.
  `StoppedForwardIsGone` is therefore about forwards, which dial inside their lane.
- An answer to a session's question may find its channel closed by `closeSession` (`sshdial.go:315`, `:335`);
  `NoSendOnClosed` is about forwards.
- The SSM number is taken under one lock and written under another (`data_channel.go:445`, `:526`): numbers
  may go out in another order; the agent reorders.
- A lease that comes back to a node whose forced teardown runs, or an idle timer that runs late, begins a
  second teardown of the same node (`registry.go:494`, `:587`); the first to end lets a new node in.
  `NodeAlone` and `ForgottenIsPurged` hold as long as that does not happen (`~overlap`).
- A push that changes nothing still moves the revision, because a live record is encrypted under a new IV
  each time; the comparison of payloads at `gorm_store.go:1439` is meant to prevent it.
- An edit made offline is not sent when the session comes back, but with the next edit or bootstrap
  (`sync-service.ts:870`), where `docs/desktop.md:199` speaks of a retry in the background. `AllConverge`
  therefore claims nothing once there was an offline spell.
- A phone that fills an empty account before a desktop's first bootstrap makes the desktop replace its
  preferences by the default ones (`sync-service.ts:1472`), since the phone has none to send.
- What a failed drain leaves in the phone's queue waits for the next sync, which comes with the next edit, a
  change on the server, the return to the foreground, or the end of the access token.
- `sync-outbox.ts:45` says that a deletion wins over an edit of the same record; the code keeps the later of
  the two entries. A host deleted while its secret is still being stored is queued as an edit again, finds no
  record, and the deletion is never sent (the record is then in `raced`).
- The comment in `syncWithSession` that the server does not compare timestamps (`useMobileAppStore.ts:7608`)
  is not what `upsertSyncRecordsTx` does.
- `changeVaultPassphrase` sends the verifier it computed itself as the expected one (`auth-service.ts:1786`),
  so the server answers 409 for a vault from before verifiers (`gorm_store.go:1118`), which the comment at
  `auth-service.ts:1769` says is back-filled on this occasion. The back-fill after an unlock does work; only a
  vault whose back-fill was lost is concerned.
- After a reset on another device, an answer that was made before it leaves a device `locked` with the old
  wrapper until its next refresh; nothing is stored under the old key meanwhile (`RecordsReadable`).
- A session answer that arrives after a sign-out signs the device in again.

## 7. What is not modelled

`PROJECT.json` lists every component. Left out for good: user interfaces, parsers, formatters and importers
(no state over time), wrappers around libraries (updater, AWS SDK, tsnet, codecs), cryptography, the RDP and
VNC cores (protocol decoding in Rust), the web site. Left out within modelled components: wording of events
and errors; the content of SSM handshake messages; hops, banners and host keys of a dial; status reports of
tailnets; in the sync service the vault fence's 409 answers, AWS profile back-fill, name conflicts and the
re-basing of workspace groups; in the vault several accounts in one keychain, the slot older versions share,
a change of server, the deletion of the account and answers cut short; on the phone the secret, which
is a queued record of its own (`useMobileAppStore.ts:3646`) and is folded into its host here: its map is captured
before the keychain's await and set after it (`:2737-2747`, `:3636-3641`), so that a merge in between (`:7629`)
is overwritten or overwrites it, which the model does not show; the late restore of secrets from the keychain, vault generations, sign-in and sign-out, and the records it only receives
(tailnets, AWS profiles, snippets). The watching loop is only the caller of syncs; its back-off and its count
of fruitless pulls are not there.

## 8. Plan

Done, in this order: the output path (OutputRing, OutputFeed, FlowControl), the command path (FrameRouter),
transports (SsmChannel, TailnetRegistry), synchronisation (DesktopSync, SyncWatchHub), the vault (VaultFence),
the phone beside the desktop (PhoneSync); then the proofs of every safety property of every module.

Next, in order of importance:

1. **The watch loop** (`sync-watch.ts`) with its back-off, composed with SyncWatchHub and PhoneSync.
2. **Share hub** (`session_share_hub.go`): viewers that join, lag and are dropped while the owner streams.
3. **Forwarding and command workers**: accept loops against stop, the worker pool's claim and retirement,
   the SSM forward above SsmChannel, the stall guard of connections.
4. **Accounts**: refresh against logout, the rate limit's windows.

Runs stay one per question: when a module arrives, runs whose properties have been proved are the first to be
merged or dropped.
