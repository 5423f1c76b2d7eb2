----------------------------- MODULE VaultFence -----------------------------
\* The encrypted vault of one account: its row on the sync API
\* (services/sync-api/internal/store/gorm_store.go, internal/http/router.go,
\* internal/auth/service.go), the desktops that set it up, unlock, re-wrap and
\* reset it (apps/desktop/src/main/auth-service.ts) and decide from every
\* session answer what their cached key is worth
\* (packages/shared-core/src/vault.ts), and a client that predates the vault.
\*
\* A data key (DEK) is a number; `wrap' is a DEK under somebody's passphrase,
\* [dek, by], and the DEK's verifier is the DEK itself.  A v1 vault's key lies
\* in the clear in wrap.  A session's descriptor is the account's row when the
\* answer was made.  Keychain reads and writes are synchronous in the desktop,
\* so what a device does between two network answers is one step; a passphrase
\* is derived in the background, which is a step of its own.
EXTENDS Naturals, FiniteSets

CONSTANTS
  Devices,      \* desktops signed in to the account
  Old,          \* the client that knows nothing of E2EE, and its push
  MaxMade,      \* bound: keys and wrappers made
  MaxResets,    \* bound: resets of the vault
  MaxFaults     \* bound: failed requests, restarts and sign-outs together

ASSUME ConstantsAssumption ==
  /\ Old \notin Devices
  /\ MaxMade \in Nat /\ MaxResets \in Nat /\ MaxFaults \in Nat

None == 0                          \* no key, no verifier, no epoch header
NoWrap == [dek |-> None, by |-> 0]

VARIABLES
  acct,      \* [ver, epoch, floor, rev, wrap, verifier]: the user's and the vault's row
  records,   \* the keys under which the account's sync records are encrypted
  status,    \* device -> "authenticated", "offline", "loading", "out"
  vault,     \* device -> vaultState
  cache,     \* device -> the keychain's DEK entry
  session,   \* device -> the session's descriptor, in memory and in the offline cache
  refresh,   \* device -> the session request under way and its answer
  op,        \* device -> the vault operation under way
  late,      \* vault requests their senders have given up, still on the wire
  push,      \* device or Old -> the push on the wire
  oldKey,    \* the v1 key the old client was given
  made, resets, faults,   \* bounded counters
  rows       \* every row the account has had (history)

server == <<acct, records, rows>>
local == <<status, vault, cache, session>>
counters == <<made, resets, faults>>
vars == <<server, local, refresh, op, late, push, oldKey, counters>>

-----------------------------------------------------------------------------
(* The account's row.  A request carries what its sender expects to find.    *)

CreateOk(a, r) ==
  a.epoch = r.epoch /\ a.ver # 2 /\ (a.ver = 1 => a.wrap.dek = r.wrap.dek)
UpdateOk(a, r) ==
  /\ a.epoch = r.epoch /\ a.ver = 2 /\ a.rev = r.rev /\ a.verifier = r.verifier
  /\ a.verifier # None => a.verifier = r.wrap.dek
ResetOk(a, r) == a.epoch = r.epoch
Accepts(a, r) ==
  \/ r.kind = "create" /\ CreateOk(a, r)
  \/ r.kind = "update" /\ UpdateOk(a, r)
  \/ r.kind = "reset" /\ ResetOk(a, r)

CreateUserVaultV2(a, r) ==
  [ver |-> 2, epoch |-> a.epoch + 1, floor |-> 2, rev |-> 1,
   wrap |-> r.wrap, verifier |-> r.wrap.dek]
UpdateUserVaultV2(a, r) ==
  [a EXCEPT !.wrap = r.wrap, !.rev = IF a.wrap = r.wrap THEN @ ELSE @ + 1,
            !.verifier = r.wrap.dek]
ResetUserVault(a, r) ==
  [ver |-> 0, epoch |-> a.epoch + 1, floor |-> 2, rev |-> 0,
   wrap |-> NoWrap, verifier |-> None]

NewRow(r) ==
  IF ~Accepts(acct, r) THEN acct ELSE
  CASE r.kind = "create" -> CreateUserVaultV2(acct, r)
    [] r.kind = "update" -> UpdateUserVaultV2(acct, r)
    [] r.kind = "reset" -> ResetUserVault(acct, r)

\* One transaction under the user's row lock; a reset deletes the records.
Commit(r) ==
  /\ acct' = NewRow(r)
  /\ records' = IF Accepts(acct, r) /\ r.kind = "reset" THEN {} ELSE records
  /\ rows' = rows \cup {acct'}

-----------------------------------------------------------------------------
(* What a device makes of a descriptor.                                      *)

NoVault == [st |-> "none", dek |-> None, epoch |-> 0, rev |-> 0, wrap |-> NoWrap,
            verifier |-> None, must |-> FALSE]
Setup(e) == [NoVault EXCEPT !.st = "setup", !.epoch = e]
Legacy(b) == [NoVault EXCEPT !.st = "legacy", !.epoch = b.epoch, !.must = b.floor = 2]
Locked(b) == [NoVault EXCEPT !.st = "locked", !.epoch = b.epoch, !.rev = b.rev,
                             !.wrap = b.wrap, !.verifier = b.verifier]
Unlocked(k, e, r, w) ==
  [st |-> "unlocked", dek |-> k, epoch |-> e, rev |-> r, wrap |-> w,
   verifier |-> IF w = NoWrap THEN None ELSE k, must |-> FALSE]

NoCache == [dek |-> None, epoch |-> 0, rev |-> 0, wrap |-> NoWrap]
CacheOf(v) == [dek |-> v.dek, epoch |-> v.epoch, rev |-> v.rev, wrap |-> v.wrap]
FromCache(c) == Unlocked(c.dek, c.epoch, c.rev, c.wrap)

\* The epoch rules: older than what the device holds is an answer that was late.
IsOlder_whole(b, c) == c.dek # None /\ b.epoch <= c.epoch
IsOlder(b, c) == c.dek # None /\ (b.epoch < c.epoch \/ (b.epoch = c.epoch /\ b.rev < c.rev))
DecideVaultAccess_unproven(b, c) ==
  IF c.dek = None THEN "locked" ELSE IF IsOlder(b, c) THEN "ignore" ELSE "unlocked"
DecideVaultAccess(b, c) ==
  CASE c.dek = None -> "locked"
    [] IsOlder(b, c) -> "ignore"
    [] ~IsOlder(b, c) /\ c.dek # None ->
         IF b.verifier = None \/ b.verifier = c.dek THEN "unlocked" ELSE "locked"

\* A descriptor without a wrapper is ignored only by its epoch.
ResolveBare_trusting(b, c, kept) ==
  IF b.ver = 1
  THEN [vault |-> Legacy(b), cache |-> [NoCache EXCEPT !.dek = b.wrap.dek, !.epoch = b.epoch]]
  ELSE [vault |-> Setup(b.epoch), cache |-> NoCache]
ResolveBare(b, c, kept) ==
  CASE c.dek # None /\ b.epoch < c.epoch -> [vault |-> FromCache(c), cache |-> kept]
    [] ~(c.dek # None /\ b.epoch < c.epoch) ->
         IF b.ver = 1
         THEN [vault |-> Legacy(b),
               cache |-> [NoCache EXCEPT !.dek = b.wrap.dek, !.epoch = b.epoch]]
         ELSE [vault |-> Setup(b.epoch), cache |-> NoCache]

ResolveE2ee(b, v, c, kept) ==
  CASE DecideVaultAccess(b, c) = "ignore" ->
         [vault |-> IF v.st = "unlocked" THEN v ELSE FromCache(c), cache |-> kept]
    [] DecideVaultAccess(b, c) = "locked" -> [vault |-> Locked(b), cache |-> NoCache]
    [] DecideVaultAccess(b, c) = "unlocked" ->
         LET u == Unlocked(c.dek, b.epoch, b.rev, b.wrap)
         IN  [vault |-> u, cache |-> CacheOf(u)]

\* The key in memory comes before the key in the keychain.
ResolveVaultState(b, v, kept) ==
  LET c == IF v.st = "unlocked" THEN CacheOf(v) ELSE kept
  IN  IF b.ver = 2 THEN ResolveE2ee(b, v, c, kept) ELSE ResolveBare(b, c, kept)

HasCoherentDescriptor(v) == v.st = "unlocked" /\ v.wrap # NoWrap
DescriptorOf(v) == [ver |-> 2, epoch |-> v.epoch, floor |-> 2, rev |-> v.rev,
                    wrap |-> v.wrap, verifier |-> v.dek]
ApplyVaultEpochFloor(b, v) ==
  IF HasCoherentDescriptor(v) /\ IsOlder(b, CacheOf(v)) THEN DescriptorOf(v) ELSE b

-----------------------------------------------------------------------------
NoRow == [ver |-> 0, epoch |-> 0, floor |-> 1, rev |-> 0, wrap |-> NoWrap, verifier |-> None]
NoRefresh == [pc |-> "none", answer |-> NoRow]
Asked == [NoRefresh EXCEPT !.pc = "asked"]
NoRequest == [kind |-> "none", epoch |-> 0, rev |-> 0, verifier |-> None, wrap |-> NoWrap]
NoOp == [pc |-> "none", kind |-> "none", wrap |-> NoWrap, req |-> NoRequest,
         ok |-> FALSE, epoch |-> 0, rev |-> 0]
NoPush == [pc |-> "none", dek |-> None, header |-> None, epoch |-> 0, ver |-> 0]

\* refreshSession: whoever asks meanwhile joins the request under way.
AskRefresh(d) == refresh' = [refresh EXCEPT ![d] = IF @.pc = "none" THEN Asked ELSE @]

\* An account without a vault, with a v1 vault, or with a v2 vault from before
\* verifiers; every device has just signed in for the first time.
InitRows ==
  {NoRow,
   [NoRow EXCEPT !.ver = 1, !.wrap = [dek |-> 1, by |-> 0]],
   [NoRow EXCEPT !.ver = 2, !.epoch = 1, !.floor = 2, !.wrap = [dek |-> 1, by |-> 1]]}

Init ==
  /\ acct \in InitRows /\ rows = {acct}
  /\ records \in SUBSET ({acct.wrap.dek} \ {None})
  /\ status = [d \in Devices |-> "authenticated"]
  /\ session = [d \in Devices |-> acct]
  /\ vault = [d \in Devices |-> ResolveVaultState(acct, NoVault, NoCache).vault]
  /\ cache = [d \in Devices |-> ResolveVaultState(acct, NoVault, NoCache).cache]
  /\ refresh = [d \in Devices |-> NoRefresh] /\ op = [d \in Devices |-> NoOp]
  /\ late = {} /\ push = [p \in Devices \cup {Old} |-> NoPush]
  /\ oldKey = None
  /\ made = 1 /\ resets = 0 /\ faults = 0

-----------------------------------------------------------------------------
(* Vault operations of a device.  One is under way at a time.                *)

Fresh == made + 1
MayStart(d) == status[d] = "authenticated" /\ op[d].pc = "none"
Send(d, kind, r) == op' = [op EXCEPT ![d] = [NoOp EXCEPT !.pc = "sent", !.kind = kind, !.req = r,
                                                         !.wrap = r.wrap]]
OpRest == UNCHANGED <<server, local, refresh, late, push, oldKey>>

\* setupVault and migrateVault keep the epoch they started from.
SetupVault(d) ==
  /\ MayStart(d) /\ vault[d].st = "setup" /\ made <= MaxMade
  /\ Send(d, "setup", [NoRequest EXCEPT !.kind = "create", !.epoch = vault[d].epoch,
                                        !.wrap = [dek |-> Fresh, by |-> Fresh]])
  /\ made' = made + 1
  /\ OpRest /\ UNCHANGED <<resets, faults>>

MigrateVault(d) ==
  /\ MayStart(d) /\ vault[d].st = "legacy" /\ made <= MaxMade
  /\ Send(d, "setup", [NoRequest EXCEPT !.kind = "create", !.epoch = vault[d].epoch,
                                        !.wrap = [dek |-> session[d].wrap.dek, by |-> Fresh]])
  /\ made' = made + 1
  /\ OpRest /\ UNCHANGED <<resets, faults>>

ResetVault(d) ==
  /\ MayStart(d) /\ resets < MaxResets
  /\ Send(d, "reset", [NoRequest EXCEPT !.kind = "reset", !.epoch = vault[d].epoch])
  /\ resets' = resets + 1
  /\ OpRest /\ UNCHANGED <<made, faults>>

\* A passphrase being derived opens the wrapper it was derived for.
Derive(d, kind) ==
  op' = [op EXCEPT ![d] = [NoOp EXCEPT !.pc = "derive", !.kind = kind, !.wrap = vault[d].wrap]]
UnlockStart(d) ==
  /\ MayStart(d) /\ vault[d].st = "locked" /\ Derive(d, "unlock")
  /\ OpRest /\ UNCHANGED counters
ChangeStart(d) ==
  /\ MayStart(d) /\ HasCoherentDescriptor(vault[d]) /\ made <= MaxMade /\ Derive(d, "change")
  /\ OpRest /\ UNCHANGED counters

\* What is read of vaultState after the derivations is what it is by then.  (A
\* wrapper that opens to another key than its row's verifier does not occur.)
UnlockFinish(d) ==
  LET v == vault[d]
      u == Unlocked(v.wrap.dek, v.epoch, v.rev, v.wrap)
      opened == status[d] = "authenticated" /\ v.wrap = op[d].wrap
  IN  /\ op[d].pc = "derive" /\ op[d].kind = "unlock"
      /\ IF opened
         THEN /\ vault' = [vault EXCEPT ![d] = u]
              /\ cache' = [cache EXCEPT ![d] = CacheOf(u)]
              /\ IF v.verifier = None      \* the verifier is sent in the background
                 THEN Send(d, "backfill", [kind |-> "update", epoch |-> v.epoch, rev |-> v.rev,
                                           verifier |-> None, wrap |-> v.wrap])
                 ELSE op' = [op EXCEPT ![d] = NoOp]
         ELSE op' = [op EXCEPT ![d] = NoOp] /\ UNCHANGED <<vault, cache>>
      /\ UNCHANGED <<server, status, session, refresh, late, push, oldKey, counters>>

\* A change derives twice: the present passphrase, whose wrapper must still be
\* there, and the next one, after which the request names what is there by then.
ChangeOpen(d) ==
  LET v == vault[d]
      opened == status[d] = "authenticated" /\ v.st = "unlocked" /\ v.wrap = op[d].wrap
  IN  /\ op[d].pc = "derive" /\ op[d].kind = "change"
      /\ op' = [op EXCEPT ![d] = IF opened THEN [@ EXCEPT !.pc = "rewrap"] ELSE NoOp]
      /\ OpRest /\ UNCHANGED counters
ChangeSend(d) ==
  LET v == vault[d]
  IN  /\ op[d].pc = "rewrap" /\ made <= MaxMade
      /\ IF status[d] = "authenticated" /\ v.st = "unlocked"
         THEN /\ Send(d, "change", [kind |-> "update", epoch |-> v.epoch, rev |-> v.rev,
                                    verifier |-> v.verifier, wrap |-> [dek |-> v.dek, by |-> Fresh]])
              /\ made' = made + 1
         ELSE op' = [op EXCEPT ![d] = NoOp] /\ UNCHANGED made
      /\ OpRest /\ UNCHANGED <<resets, faults>>

\* The server's side, and the answer on its way back.
Serve(d) ==
  LET r == op[d].req
      row == NewRow(r)
  IN  /\ op[d].pc = "sent"
      /\ Commit(r)
      /\ op' = [op EXCEPT ![d].pc = "answered", ![d].ok = Accepts(acct, r),
                          ![d].epoch = row.epoch, ![d].rev = row.rev]
      /\ UNCHANGED <<local, refresh, late, push, oldKey, counters>>

ServeLate(r) ==
  /\ r \in late /\ late' = late \ {r}
  /\ Commit(r)
  /\ UNCHANGED <<local, refresh, op, push, oldKey, counters>>

\* The request is lost or times out; the server may yet see it.
GiveUp(d) ==
  /\ op[d].pc \in {"sent", "answered"} /\ faults < MaxFaults /\ faults' = faults + 1
  /\ op' = [op EXCEPT ![d] = NoOp]
  /\ late' = IF op[d].pc = "sent" THEN late \cup {op[d].req} ELSE late
  /\ UNCHANGED <<server, local, refresh, push, oldKey, made, resets>>

\* The keychain, vaultState and the synthesized descriptor, then a refresh.
Adopt_uncached(d, u) ==
  /\ vault' = [vault EXCEPT ![d] = u] /\ UNCHANGED cache
  /\ session' = [session EXCEPT ![d] = DescriptorOf(u)]
Adopt(d, u) ==
  /\ vault' = [vault EXCEPT ![d] = u]
  /\ cache' = [cache EXCEPT ![d] = CacheOf(u)]
  /\ session' = [session EXCEPT ![d] = DescriptorOf(u)]
Answer(d, kinds) ==
  /\ op[d].pc = "answered" /\ op[d].kind \in kinds
  /\ op' = [op EXCEPT ![d] = NoOp]
  /\ UNCHANGED <<server, status, late, push, oldKey, counters>>
Valid(d) == op[d].ok /\ status[d] = "authenticated"    \* assertVaultOperationContext

SetupFinish(d) ==
  /\ Answer(d, {"setup"}) /\ Valid(d)
  /\ Adopt(d, Unlocked(op[d].wrap.dek, op[d].epoch, op[d].rev, op[d].wrap))
  /\ AskRefresh(d)

ChangeFinish(d) ==
  /\ Answer(d, {"change"}) /\ Valid(d) /\ vault[d].st = "unlocked"
  /\ Adopt(d, Unlocked(vault[d].dek, op[d].epoch, op[d].rev, op[d].wrap))
  /\ UNCHANGED refresh

ResetFinish(d) ==
  /\ Answer(d, {"reset"}) /\ Valid(d)
  /\ vault' = [vault EXCEPT ![d] = Setup(op[d].epoch)]
  /\ cache' = [cache EXCEPT ![d] = NoCache]
  /\ session' = [session EXCEPT ![d] = ResetUserVault([epoch |-> op[d].epoch - 1], NoRequest)]
  /\ UNCHANGED refresh

\* Refused: the session is refreshed to see what the account has become.  An
\* answer to the back-fill, or after the session went, changes nothing.
FinishRefused(d) ==
  /\ Answer(d, {"setup", "change", "reset"}) /\ ~op[d].ok
  /\ IF status[d] = "authenticated" THEN AskRefresh(d) ELSE UNCHANGED refresh
  /\ UNCHANGED <<vault, cache, session>>
FinishIdle(d) ==
  /\ Answer(d, {"setup", "change", "reset", "backfill"})
  /\ \/ op[d].kind = "backfill"
     \/ op[d].ok /\ status[d] # "authenticated"
     \/ op[d].ok /\ op[d].kind = "change" /\ vault[d].st # "unlocked"
  /\ UNCHANGED <<vault, cache, session, refresh>>

-----------------------------------------------------------------------------
(* Sessions.                                                                 *)

SessionRest == UNCHANGED <<server, op, late, push, oldKey, made, resets>>

\* The timer before the token ends, the retries while offline, a refused push.
RefreshSession(d) ==
  /\ status[d] \in {"authenticated", "offline"} /\ refresh[d].pc = "none"
  /\ AskRefresh(d) /\ SessionRest /\ UNCHANGED <<local, faults>>

ResolveVaultBootstrap(d) ==
  /\ refresh[d].pc = "asked"
  /\ refresh' = [refresh EXCEPT ![d] = [pc |-> "answered", answer |-> acct]]
  /\ SessionRest /\ UNCHANGED <<local, faults>>

\* Resolve first, then store what is not older than the result.
PersistSession(d) ==
  LET b == refresh[d].answer
      now == ResolveVaultState(b, vault[d], cache[d])
  IN  /\ refresh[d].pc = "answered"
      /\ vault' = [vault EXCEPT ![d] = now.vault]
      /\ cache' = [cache EXCEPT ![d] = now.cache]
      /\ session' = [session EXCEPT ![d] = ApplyVaultEpochFloor(b, now.vault)]
      /\ status' = [status EXCEPT ![d] = "authenticated"]
      /\ refresh' = [refresh EXCEPT ![d] = NoRefresh]
      /\ SessionRest /\ UNCHANGED faults

\* restoreOfflineSession; without a stored session there is nothing to restore.
RefreshFails(d) ==
  LET now == ResolveVaultState(session[d], vault[d], cache[d])
  IN  /\ refresh[d].pc # "none" /\ faults < MaxFaults /\ faults' = faults + 1
      /\ refresh' = [refresh EXCEPT ![d] = NoRefresh]
      /\ IF status[d] = "out" THEN UNCHANGED <<vault, cache, status>>
         ELSE /\ vault' = [vault EXCEPT ![d] = now.vault]
              /\ cache' = [cache EXCEPT ![d] = now.cache]
              /\ status' = [status EXCEPT ![d] = "offline"]
      /\ SessionRest /\ UNCHANGED session

\* clearSession: the keychain keeps the key for the next sign-in.
Logout(d) ==
  /\ status[d] \in {"authenticated", "offline"} /\ faults < MaxFaults /\ faults' = faults + 1
  /\ vault' = [vault EXCEPT ![d] = NoVault]
  /\ status' = [status EXCEPT ![d] = "out"]
  /\ session' = [session EXCEPT ![d] = NoRow]
  /\ SessionRest /\ UNCHANGED <<cache, refresh>>

SignIn(d) ==
  /\ status[d] = "out" /\ refresh[d].pc = "none"
  /\ AskRefresh(d) /\ SessionRest /\ UNCHANGED <<local, faults>>

\* The process ends; bootstrap asks for the session again.
Restart(d) ==
  /\ status[d] \in {"authenticated", "offline"} /\ faults < MaxFaults /\ faults' = faults + 1
  /\ vault' = [vault EXCEPT ![d] = NoVault]
  /\ status' = [status EXCEPT ![d] = "loading"]
  /\ refresh' = [refresh EXCEPT ![d] = Asked]
  /\ op' = [op EXCEPT ![d] = NoOp]
  /\ late' = IF op[d].pc = "sent" THEN late \cup {op[d].req} ELSE late
  /\ UNCHANGED <<server, cache, session, push, oldKey, made, resets>>

-----------------------------------------------------------------------------
(* Pushes of records.                                                        *)

PushRest == UNCHANGED <<local, op, late, counters>>
IsVaultReadyForSync(d) ==
  vault[d].st = "unlocked" \/ (vault[d].st = "legacy" /\ ~vault[d].must)
VaultKey(d) == IF vault[d].st = "unlocked" THEN vault[d].dek ELSE session[d].wrap.dek
\* The lease's key and epoch; a legacy key goes without an epoch.
Lease(d) == [NoPush EXCEPT !.pc = "sent", !.dek = VaultKey(d),
                           !.header = IF vault[d].st = "unlocked" THEN vault[d].epoch ELSE None]
CaptureSyncContext(d) ==
  /\ status[d] = "authenticated" /\ IsVaultReadyForSync(d) /\ push[d].pc = "none"
  /\ push' = [push EXCEPT ![d] = Lease(d)]
  /\ PushRest /\ UNCHANGED <<server, refresh, oldKey>>

\* A sign-in of the old client creates a v1 vault where the floor allows one.
OldSignIn ==
  /\ acct.floor = 1 /\ oldKey = None
  /\ \/ acct.ver = 1 /\ UNCHANGED <<server, made>> /\ oldKey' = acct.wrap.dek
     \/ /\ acct.ver = 0 /\ made <= MaxMade /\ made' = made + 1
        /\ acct' = [acct EXCEPT !.ver = 1, !.wrap = [dek |-> Fresh, by |-> 0]]
        /\ rows' = rows \cup {acct'} /\ oldKey' = Fresh /\ UNCHANGED records
  /\ UNCHANGED <<local, refresh, op, late, push, resets, faults>>
OldPush ==
  /\ oldKey # None /\ push[Old].pc = "none"
  /\ push' = [push EXCEPT ![Old] = [NoPush EXCEPT !.pc = "sent", !.dek = oldKey]]
  /\ PushRest /\ UNCHANGED <<server, refresh, oldKey>>

\* What POST /sync looks at before the transaction.
PushAdmitted(p) ==
  /\ acct.floor = 2 => push[p].header # None \/ p # Old
  /\ acct.ver # 0 /\ ~(acct.floor = 2 /\ acct.ver = 1)
  /\ IF acct.ver = 2 THEN push[p].header # None ELSE push[p].header = None
PushFence_current(p) ==
  [push[p] EXCEPT !.pc = "checked", !.ver = acct.ver, !.epoch = acct.epoch]
PushFence(p) ==
  [push[p] EXCEPT !.pc = "checked", !.ver = acct.ver,
                  !.epoch = IF acct.ver = 2 THEN push[p].header ELSE acct.epoch]
\* 409: a lease that still holds has its device look again.
Refused(p) ==
  /\ push' = [push EXCEPT ![p] = NoPush]
  /\ IF /\ p # Old /\ status[p] = "authenticated" /\ IsVaultReadyForSync(p)
        /\ Lease(p).dek = push[p].dek /\ Lease(p).header = push[p].header
     THEN AskRefresh(p) ELSE UNCHANGED refresh
PushCheck(p) ==
  /\ push[p].pc = "sent"
  /\ IF PushAdmitted(p) THEN push' = [push EXCEPT ![p] = PushFence(p)] /\ UNCHANGED refresh
     ELSE Refused(p)
  /\ PushRest /\ UNCHANGED <<server, oldKey>>

\* The fence is compared again under the row lock.
FenceHolds(p) == acct.epoch = push[p].epoch /\ acct.ver = push[p].ver
ApplyPushRecords(p) ==
  /\ push[p].pc = "checked"
  /\ IF FenceHolds(p)
     THEN /\ records' = records \cup {push[p].dek}
          /\ push' = [push EXCEPT ![p] = NoPush] /\ UNCHANGED refresh
     ELSE UNCHANGED records /\ Refused(p)
  /\ PushRest /\ UNCHANGED <<acct, rows, oldKey>>

-----------------------------------------------------------------------------
Finish(d) ==
  SetupFinish(d) \/ ChangeFinish(d) \/ ResetFinish(d) \/ FinishRefused(d) \/ FinishIdle(d)
OpStep(d) == UnlockFinish(d) \/ ChangeOpen(d) \/ ChangeSend(d) \/ Serve(d) \/ Finish(d)
Start(d) ==
  SetupVault(d) \/ MigrateVault(d) \/ ResetVault(d) \/ UnlockStart(d) \/ ChangeStart(d)
SessionStep(d) == ResolveVaultBootstrap(d) \/ PersistSession(d)
Fault(d) == GiveUp(d) \/ RefreshFails(d) \/ Logout(d) \/ Restart(d)
PushStep(p) == PushCheck(p) \/ ApplyPushRecords(p)

Next ==
  \/ \E d \in Devices : \/ Start(d) \/ OpStep(d) \/ Fault(d)
                        \/ RefreshSession(d) \/ SessionStep(d) \/ SignIn(d)
                        \/ CaptureSyncContext(d)
  \/ \E r \in late : ServeLate(r)
  \/ OldSignIn \/ OldPush
  \/ \E p \in Devices \cup {Old} : PushStep(p)
Spec == Init /\ [][Next]_vars

-----------------------------------------------------------------------------
Wraps == [dek : Nat, by : Nat]
Rows == [ver : 0 .. 2, epoch : Nat, floor : 1 .. 2, rev : Nat, wrap : Wraps, verifier : Nat]
Requests == [kind : {"none", "create", "update", "reset"}, epoch : Nat, rev : Nat,
             verifier : Nat, wrap : Wraps]
TypeOK ==
  /\ acct \in Rows /\ records \subseteq Nat /\ rows \subseteq Rows
  /\ status \in [Devices -> {"authenticated", "offline", "loading", "out"}]
  /\ vault \in [Devices -> [st : {"none", "setup", "legacy", "locked", "unlocked"}, dek : Nat,
                            epoch : Nat, rev : Nat, wrap : Wraps, verifier : Nat, must : BOOLEAN]]
  /\ cache \in [Devices -> [dek : Nat, epoch : Nat, rev : Nat, wrap : Wraps]]
  /\ session \in [Devices -> Rows]
  /\ refresh \in [Devices -> [pc : {"none", "asked", "answered"}, answer : Rows]]
  /\ op \in [Devices -> [pc : {"none", "derive", "rewrap", "sent", "answered"},
                         kind : {"none", "setup", "unlock", "change", "reset", "backfill"},
                         wrap : Wraps, req : Requests, ok : BOOLEAN, epoch : Nat, rev : Nat]]
  /\ late \subseteq Requests
  /\ push \in [Devices \cup {Old} -> [pc : {"none", "sent", "checked"}, dek : Nat,
                                       header : Nat, epoch : Nat, ver : 0 .. 2]]
  /\ oldKey \in Nat /\ made \in Nat /\ resets \in Nat /\ faults \in Nat

(* Whatever lies on the server is encrypted under the vault's present key,    *)
(* whichever pushes with an older lease were on the wire while the vault was  *)
(* migrated, reset or set up (validateVaultPushFenceTx's purpose).            *)
RecordsReadable == records \subseteq IF acct.ver = 0 THEN {} ELSE {acct.wrap.dek}

(* A key a device uses is the key of the vault generation it is labelled with *)
(* and so is the wrapper next to it: no two generations are ever mixed        *)
(* (captureSyncContext's and persistSession's comments), in memory, in the    *)
(* keychain and in the stored session alike.                                  *)
Holds(c) == \E a \in rows : a.ver = 2 /\ a.epoch = c.epoch /\ a.rev = c.rev
                              /\ a.wrap = c.wrap /\ a.wrap.dek = c.dek
KeysAgree ==
  \A d \in Devices :
    /\ vault[d].st = "unlocked" => Holds(CacheOf(vault[d]))
    /\ cache[d].wrap # NoWrap => Holds(cache[d])
    /\ session[d].ver = 2 => \E a \in rows : a.ver = 2 /\ a.epoch = session[d].epoch
                                           /\ a.wrap = session[d].wrap

(* A device that is unlocked and is restarted without a network is unlocked   *)
(* again with the same key and wrapper (persistSynthesizedVaultDescriptor).   *)
RestartKeeps ==
  \A d \in Devices : vault[d].st = "unlocked" =>
    CacheOf(ResolveVaultState(session[d], NoVault, cache[d]).vault) = CacheOf(vault[d])

(* No answer takes an unlocked device back to an older vault: a session made  *)
(* before a set-up, however late it comes, does not undo it.                  *)
NeverBack ==
  [][\A d \in Devices : vault[d].st = "unlocked" /\ vault'[d].st # "none" =>
       vault'[d].epoch >= vault[d].epoch]_vars

(* A device always believes an answer that tells it what the account is: none *)
(* of the rules that ignore late answers can leave it on a vault of its own,  *)
(* whatever it has in memory, in the keychain and in the stored session.      *)
Knows(d) ==
  /\ vault[d].epoch = acct.epoch
  /\ acct.ver = 0 => vault[d].st = "setup"
  /\ acct.ver = 1 => vault[d].st = "legacy"
  /\ acct.ver = 2 => /\ vault[d].st \in {"locked", "unlocked"}
                     /\ vault[d].rev = acct.rev /\ vault[d].wrap = acct.wrap
BelievesFresh ==
  [][\A d \in Devices :
       (refresh[d] = [pc |-> "answered", answer |-> acct] /\ refresh'[d].pc = "none"
          /\ status'[d] = "authenticated" /\ acct' = acct) => Knows(d)']_vars

=============================================================================
