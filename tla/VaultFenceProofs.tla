-------------------------- MODULE VaultFenceProofs --------------------------
(***************************************************************************)
(* The safety of the vault for any number of devices, keys, resets and     *)
(* faults.                                                                 *)
(***************************************************************************)
EXTENDS VaultFence, TLAPS

USE ConstantsAssumption

\* The sets the variables range over.
Vaults == [st : {"none", "setup", "legacy", "locked", "unlocked"}, dek : Nat, epoch : Nat,
           rev : Nat, wrap : Wraps, verifier : Nat, must : BOOLEAN]
Caches == [dek : Nat, epoch : Nat, rev : Nat, wrap : Wraps]
Ops == [pc : {"none", "derive", "rewrap", "sent", "answered"},
        kind : {"none", "setup", "unlock", "change", "reset", "backfill"},
        wrap : Wraps, req : Requests, ok : BOOLEAN, epoch : Nat, rev : Nat]
Refreshes == [pc : {"none", "asked", "answered"}, answer : Rows]
Pushes == [pc : {"none", "sent", "checked"}, dek : Nat, header : Nat, epoch : Nat, ver : 0 .. 2]

\* The type invariant, with names for those sets.
Typed ==
  /\ acct \in Rows /\ records \subseteq Nat /\ rows \subseteq Rows
  /\ status \in [Devices -> {"authenticated", "offline", "loading", "out"}]
  /\ vault \in [Devices -> Vaults] /\ cache \in [Devices -> Caches]
  /\ session \in [Devices -> Rows] /\ refresh \in [Devices -> Refreshes]
  /\ op \in [Devices -> Ops] /\ late \subseteq Requests
  /\ push \in [Devices \cup {Old} -> Pushes]
  /\ oldKey \in Nat /\ made \in Nat /\ resets \in Nat /\ faults \in Nat
\* TypeOK, spelt out per variable.
LEMMA TypedIsTypeOK == Typed <=> TypeOK
  BY DEF Typed, TypeOK, Vaults, Caches, Ops, Refreshes, Pushes

\* The distinguished values are of their types.
LEMMA NoneTyped ==
  /\ NoWrap \in Wraps /\ NoRow \in Rows /\ NoVault \in Vaults /\ NoCache \in Caches
  /\ NoRequest \in Requests /\ NoOp \in Ops /\ NoRefresh \in Refreshes /\ NoPush \in Pushes
  /\ Asked \in Refreshes /\ \A r \in InitRows : r \in Rows
<1>1. NoWrap \in Wraps
  BY DEF NoWrap, None, Wraps
<1>2. NoRow \in Rows
  BY <1>1 DEF NoRow, Rows, None
<1>3. NoVault \in Vaults /\ NoCache \in Caches /\ NoRequest \in Requests /\ NoPush \in Pushes
  BY <1>1 DEF NoVault, NoCache, NoRequest, NoPush, Vaults, Caches, Requests, Pushes, None
<1>4. NoOp \in Ops
  BY <1>1, <1>3 DEF NoOp, Ops
<1>5. NoRefresh \in Refreshes /\ Asked \in Refreshes
  BY <1>2 DEF NoRefresh, Asked, Refreshes
<1>6. \A r \in InitRows : r \in Rows
  <2>1. [dek |-> 1, by |-> 0] \in Wraps /\ [dek |-> 1, by |-> 1] \in Wraps
    BY DEF Wraps
  <2>2. ASSUME NEW w \in Wraps, NEW n \in 0 .. 2, NEW e \in Nat, NEW f \in 1 .. 2
        PROVE  /\ [NoRow EXCEPT !.ver = n, !.wrap = w] \in Rows
               /\ [NoRow EXCEPT !.ver = n, !.epoch = e, !.floor = f, !.wrap = w] \in Rows
    BY <1>2 DEF Rows
  <2>3. 1 \in 0 .. 2 /\ 2 \in 0 .. 2 /\ 1 \in Nat /\ 2 \in 1 .. 2
    OBVIOUS
  <2>4. /\ [NoRow EXCEPT !.ver = 1, !.wrap = [dek |-> 1, by |-> 0]] \in Rows
        /\ [NoRow EXCEPT !.ver = 2, !.epoch = 1, !.floor = 2, !.wrap = [dek |-> 1, by |-> 1]] \in Rows
    BY <2>1, <2>2, <2>3, Zenon
  <2> QED BY <1>2, <2>4 DEF InitRows
<1> QED BY <1>1, <1>2, <1>3, <1>4, <1>5, <1>6

\* What a device makes of an answer: one of five outcomes, given that a key in
\* memory is also in the keychain.  A late answer is ignored; the four others
\* follow the row.
Ignores(b, k, n) ==
  /\ k.dek # None /\ b.epoch <= k.epoch /\ (b.ver # 2 => b.epoch < k.epoch) /\ IsOlder(b, k)
  /\ n.vault.st = "unlocked" /\ CacheOf(n.vault) = k /\ n.cache = k
NotLate(b, k) == k.dek # None => k.epoch <= b.epoch
SetsUp(b, n) == b.ver = 0 /\ n = [vault |-> Setup(b.epoch), cache |-> NoCache]
TakesLegacy(b, n) ==
  b.ver = 1 /\ n = [vault |-> Legacy(b),
                    cache |-> [NoCache EXCEPT !.dek = b.wrap.dek, !.epoch = b.epoch]]
Locks(b, n) == b.ver = 2 /\ n = [vault |-> Locked(b), cache |-> NoCache]
Unlocks(b, k, n) ==
  /\ b.ver = 2 /\ k.dek # None /\ ~IsOlder(b, k) /\ b.verifier \in {None, k.dek}
  /\ n = [vault |-> Unlocked(k.dek, b.epoch, b.rev, b.wrap),
          cache |-> CacheOf(Unlocked(k.dek, b.epoch, b.rev, b.wrap))]

\* Reading the stored key back and storing it again changes nothing.
LEMMA CacheOfFromCache == ASSUME NEW k \in Caches PROVE CacheOf(FromCache(k)) = k
  BY DEF Caches, CacheOf, FromCache, Unlocked

\* The branches of resolveVaultState, as the five things it can do.
LEMMA ResolveOutcomes ==
  ASSUME NEW b \in Rows, NEW v \in Vaults, NEW k \in Caches,
         v.st = "unlocked" => k = CacheOf(v)
  PROVE  LET n == ResolveVaultState(b, v, k)
         IN  \/ Ignores(b, k, n)
             \/ NotLate(b, k) /\ (SetsUp(b, n) \/ TakesLegacy(b, n) \/ Locks(b, n) \/ Unlocks(b, k, n))
<1> DEFINE n == ResolveVaultState(b, v, k)
<1>0. FromCache(k).st = "unlocked" /\ CacheOf(FromCache(k)) = k
  BY CacheOfFromCache DEF FromCache, Unlocked
<1>1. n = IF b.ver = 2 THEN ResolveE2ee(b, v, k, k) ELSE ResolveBare(b, k, k)
  BY DEF ResolveVaultState
<1>2. CASE b.ver = 2
  <2>1. n = ResolveE2ee(b, v, k, k)
    BY <1>1, <1>2
  <2>2. CASE k.dek = None
    <3>1. DecideVaultAccess(b, k) = "locked"
      BY <2>2 DEF DecideVaultAccess, IsOlder
    <3>2. n = [vault |-> Locked(b), cache |-> NoCache]
      BY <2>1, <3>1 DEF ResolveE2ee
    <3> QED BY <1>2, <2>2, <3>2 DEF Locks, NotLate
  <2>3. CASE k.dek # None /\ IsOlder(b, k)
    <3>1. DecideVaultAccess(b, k) = "ignore"
      BY <2>3 DEF DecideVaultAccess
    <3>2. n = [vault |-> IF v.st = "unlocked" THEN v ELSE FromCache(k), cache |-> k]
      BY <2>1, <3>1 DEF ResolveE2ee
    <3>3. n.vault.st = "unlocked" /\ CacheOf(n.vault) = k /\ n.cache = k
      BY <1>0, <3>2
    <3>4. b.epoch <= k.epoch
      BY <2>3 DEF IsOlder, Rows, Caches
    <3> QED BY <1>2, <2>3, <3>3, <3>4 DEF Ignores
  <2>4. CASE k.dek # None /\ ~IsOlder(b, k)
    <3>0. NotLate(b, k)
      BY <2>4 DEF IsOlder, NotLate, Rows, Caches
    <3>1. CASE b.verifier = None \/ b.verifier = k.dek
      <4>1. DecideVaultAccess(b, k) = "unlocked"
        BY <2>4, <3>1 DEF DecideVaultAccess
      <4>2. n = [vault |-> Unlocked(k.dek, b.epoch, b.rev, b.wrap),
                 cache |-> CacheOf(Unlocked(k.dek, b.epoch, b.rev, b.wrap))]
        BY <2>1, <4>1 DEF ResolveE2ee
      <4> QED BY <1>2, <2>4, <3>0, <3>1, <4>2 DEF Unlocks
    <3>2. CASE ~(b.verifier = None \/ b.verifier = k.dek)
      <4>1. DecideVaultAccess(b, k) = "locked"
        BY <2>4, <3>2 DEF DecideVaultAccess
      <4>2. n = [vault |-> Locked(b), cache |-> NoCache]
        BY <2>1, <4>1 DEF ResolveE2ee
      <4> QED BY <1>2, <3>0, <4>2 DEF Locks
    <3> QED BY <3>1, <3>2
  <2> QED BY <2>2, <2>3, <2>4
<1>3. CASE b.ver # 2
  <2>1. n = ResolveBare(b, k, k)
    BY <1>1, <1>3
  <2>2. CASE k.dek # None /\ b.epoch < k.epoch
    <3>1. n = [vault |-> FromCache(k), cache |-> k]
      BY <2>1, <2>2 DEF ResolveBare
    <3>2. n.vault.st = "unlocked" /\ CacheOf(n.vault) = k /\ n.cache = k
      BY <1>0, <3>1
    <3>3. b.epoch <= k.epoch
      BY <2>2 DEF Rows, Caches
    <3> QED BY <2>2, <3>2, <3>3 DEF Ignores, IsOlder
  <2>3. CASE ~(k.dek # None /\ b.epoch < k.epoch)
    <3>1. b.ver \in {0, 1}
      BY <1>3 DEF Rows
    <3>2. NotLate(b, k)
      BY <2>3 DEF NotLate, Rows, Caches
    <3> QED BY <2>1, <2>3, <3>1, <3>2 DEF ResolveBare, SetsUp, TakesLegacy
  <2> QED BY <2>2, <2>3
<1> QED BY <1>2, <1>3

\* resolveVaultState keeps the types.
LEMMA ResolveTyped ==
  ASSUME NEW b \in Rows, NEW v \in Vaults, NEW k \in Caches
  PROVE  LET n == ResolveVaultState(b, v, k) IN n.vault \in Vaults /\ n.cache \in Caches
<1> DEFINE n == ResolveVaultState(b, v, k)
           c == IF v.st = "unlocked" THEN CacheOf(v) ELSE k
<1>1. c \in Caches
  BY DEF Vaults, Caches, CacheOf
<1>2. b.epoch \in Nat /\ b.rev \in Nat /\ b.wrap \in Wraps /\ b.wrap.dek \in Nat /\ b.verifier \in Nat
  BY DEF Rows, Wraps
<1>3. FromCache(c) \in Vaults /\ Locked(b) \in Vaults /\ Legacy(b) \in Vaults
        /\ Setup(b.epoch) \in Vaults
  BY <1>1, <1>2, NoneTyped
     DEF FromCache, Unlocked, Locked, Legacy, Setup, Vaults, Caches, NoVault, None
<1>4. /\ Unlocked(c.dek, b.epoch, b.rev, b.wrap) \in Vaults
      /\ CacheOf(Unlocked(c.dek, b.epoch, b.rev, b.wrap)) \in Caches
      /\ [NoCache EXCEPT !.dek = b.wrap.dek, !.epoch = b.epoch] \in Caches
  BY <1>1, <1>2, NoneTyped DEF Unlocked, CacheOf, Vaults, Caches, NoCache, None
<1>5. n = IF b.ver = 2 THEN ResolveE2ee(b, v, c, k) ELSE ResolveBare(b, c, k)
  BY DEF ResolveVaultState
<1> SUFFICES n.vault \in Vaults /\ n.cache \in Caches
  OBVIOUS
<1> HIDE DEF c, n
<1>6. CASE b.ver = 2
  <2>1. DecideVaultAccess(b, c) \in {"ignore", "locked", "unlocked"}
    BY DEF DecideVaultAccess
  <2>2. n = ResolveE2ee(b, v, c, k)
    BY <1>5, <1>6
  <2>3. CASE DecideVaultAccess(b, c) = "ignore"
    <3>1. n = [vault |-> IF v.st = "unlocked" THEN v ELSE FromCache(c), cache |-> k]
      BY <2>2, <2>3 DEF ResolveE2ee
    <3> QED BY <3>1, <1>3
  <2>4. CASE DecideVaultAccess(b, c) = "locked"
    <3>1. n = [vault |-> Locked(b), cache |-> NoCache]
      BY <2>2, <2>4 DEF ResolveE2ee
    <3> QED BY <3>1, <1>3, NoneTyped
  <2>5. CASE DecideVaultAccess(b, c) = "unlocked"
    <3>1. n = [vault |-> Unlocked(c.dek, b.epoch, b.rev, b.wrap),
               cache |-> CacheOf(Unlocked(c.dek, b.epoch, b.rev, b.wrap))]
      BY <2>2, <2>5 DEF ResolveE2ee
    <3> QED BY <3>1, <1>4
  <2> QED BY <2>1, <2>3, <2>4, <2>5
<1>7. CASE b.ver # 2
  <2>1. n = ResolveBare(b, c, k)
    BY <1>5, <1>7
  <2>2. \/ n = [vault |-> FromCache(c), cache |-> k]
        \/ n = [vault |-> Legacy(b),
                cache |-> [NoCache EXCEPT !.dek = b.wrap.dek, !.epoch = b.epoch]]
        \/ n = [vault |-> Setup(b.epoch), cache |-> NoCache]
    BY <2>1 DEF ResolveBare
  <2> QED BY <1>3, <1>4, <2>2, NoneTyped
<1> QED BY <1>6, <1>7 DEF n

\* What the server stores is a row of the vault table.
LEMMA NewRowTyped ==
  ASSUME acct \in Rows, NEW r \in Requests PROVE NewRow(r) \in Rows
<1>1. r.wrap \in Wraps /\ r.wrap.dek \in Nat /\ acct.epoch \in Nat /\ acct.rev \in Nat
  BY DEF Requests, Rows, Wraps
<1>2. CreateUserVaultV2(acct, r) \in Rows /\ ResetUserVault(acct, r) \in Rows
  BY <1>1, NoneTyped DEF CreateUserVaultV2, ResetUserVault, Rows, None
<1>3. UpdateUserVaultV2(acct, r) \in Rows
  <2>1. (IF acct.wrap = r.wrap THEN acct.rev ELSE acct.rev + 1) \in Nat
    BY <1>1
  <2> QED BY <1>1, <2>1 DEF UpdateUserVaultV2, Rows
<1>4. Accepts(acct, r) => r.kind \in {"create", "update", "reset"}
  BY DEF Accepts
<1> QED BY <1>2, <1>3, <1>4 DEF NewRow

\* The server's transaction keeps the types.
LEMMA CommitTyped ==
  ASSUME Typed, NEW r \in Requests, Commit(r)
  PROVE  acct' \in Rows /\ records' \subseteq Nat /\ rows' \subseteq Rows
<1>1. acct' \in Rows
  BY NewRowTyped DEF Commit, Typed
<1> QED BY <1>1 DEF Commit, Typed

\* Asking for the session keeps the types.
LEMMA AskRefreshTyped ==
  ASSUME refresh \in [Devices -> Refreshes], NEW d \in Devices, AskRefresh(d)
  PROVE  refresh' \in [Devices -> Refreshes]
  BY NoneTyped DEF AskRefresh

\* Sending a vault request keeps the types.
LEMMA SentTyped ==
  ASSUME op \in [Devices -> Ops], NEW d \in Devices, NEW r \in Requests,
         NEW kind \in {"setup", "change", "reset", "backfill"}, Send(d, kind, r)
  PROVE  op' \in [Devices -> Ops]
<1>1. r.wrap \in Wraps
  BY DEF Requests
<1>2. [NoOp EXCEPT !.pc = "sent", !.kind = kind, !.req = r, !.wrap = r.wrap] \in Ops
  BY <1>1, NoneTyped DEF Ops
<1> QED BY <1>2 DEF Send

\* An unlocked vault, its stored form and its descriptor are typed.
LEMMA UnlockedTyped ==
  ASSUME NEW k \in Nat, NEW e \in Nat, NEW r \in Nat, NEW w \in Wraps
  PROVE  LET u == Unlocked(k, e, r, w)
         IN  u \in Vaults /\ CacheOf(u) \in Caches /\ DescriptorOf(u) \in Rows
<1> DEFINE u == Unlocked(k, e, r, w)
<1>1. u \in Vaults
  BY DEF Unlocked, Vaults, None
<1>2. CacheOf(u) \in Caches
  BY <1>1 DEF CacheOf, Vaults, Caches
<1>3. DescriptorOf(u) \in Rows
  BY <1>1 DEF DescriptorOf, Vaults, Rows
<1> QED BY <1>1, <1>2, <1>3

\* A vault operation of a device sends a well-formed request.
LEMMA StartTyped ==
  ASSUME Typed, NEW d \in Devices, Start(d) PROVE Typed'
<1> USE DEF Typed
<1>1. /\ vault[d].epoch \in Nat /\ vault[d].wrap \in Wraps /\ session[d].wrap.dek \in Nat
      /\ Fresh \in Nat
  BY DEF Vaults, Rows, Wraps, Fresh
<1>2. ASSUME NEW k \in {"create", "reset"}, NEW e \in Nat, NEW w \in Wraps
      PROVE  /\ [NoRequest EXCEPT !.kind = k, !.epoch = e, !.wrap = w] \in Requests
             /\ [NoRequest EXCEPT !.kind = k, !.epoch = e] \in Requests
  BY NoneTyped DEF Requests
<1>3. [dek |-> Fresh, by |-> Fresh] \in Wraps /\ [dek |-> session[d].wrap.dek, by |-> Fresh] \in Wraps
  BY <1>1 DEF Wraps
<1>4. op' \in [Devices -> Ops]
  <2>1. CASE SetupVault(d) \/ MigrateVault(d)
    <3>1. PICK w \in Wraps :
            Send(d, "setup", [NoRequest EXCEPT !.kind = "create", !.epoch = vault[d].epoch, !.wrap = w])
      BY <2>1, <1>3, Zenon DEF SetupVault, MigrateVault
    <3>2. [NoRequest EXCEPT !.kind = "create", !.epoch = vault[d].epoch, !.wrap = w] \in Requests
      BY <1>1, <1>2, Zenon
    <3> QED BY <3>1, <3>2, SentTyped, Zenon
  <2>2. CASE ResetVault(d)
    <3>1. [NoRequest EXCEPT !.kind = "reset", !.epoch = vault[d].epoch] \in Requests
      BY <1>1, <1>2, <1>3, Zenon
    <3> QED BY <2>2, <3>1, SentTyped, Zenon DEF ResetVault
  <2>3. CASE UnlockStart(d) \/ ChangeStart(d)
    <3>1. ASSUME NEW kind \in {"unlock", "change"}
          PROVE  [NoOp EXCEPT !.pc = "derive", !.kind = kind, !.wrap = vault[d].wrap] \in Ops
      BY <1>1, NoneTyped DEF Ops
    <3> QED BY <2>3, <3>1 DEF UnlockStart, ChangeStart, Derive
  <2> QED BY <2>1, <2>2, <2>3 DEF Start
<1> QED
  BY <1>4 DEF Start, SetupVault, MigrateVault, ResetVault, UnlockStart, ChangeStart, OpRest,
              server, local, counters

\* Answers and derivations of a vault operation.
LEMMA OpStepTyped ==
  ASSUME Typed, NEW d \in Devices, OpStep(d) PROVE Typed'
<1> USE DEF Typed
<1>1. /\ vault[d] \in Vaults /\ vault[d].epoch \in Nat /\ vault[d].rev \in Nat /\ vault[d].dek \in Nat
      /\ vault[d].wrap \in Wraps /\ vault[d].wrap.dek \in Nat /\ vault[d].verifier \in Nat
      /\ op[d] \in Ops /\ op[d].wrap \in Wraps /\ op[d].wrap.dek \in Nat /\ op[d].req \in Requests
      /\ op[d].epoch \in Nat /\ op[d].rev \in Nat /\ Fresh \in Nat
  BY DEF Vaults, Wraps, Ops, Fresh
<1>2. ASSUME NEW v \in Nat, NEW w \in Wraps
      PROVE  [kind |-> "update", epoch |-> vault[d].epoch, rev |-> vault[d].rev, verifier |-> v,
              wrap |-> w] \in Requests
  BY <1>1 DEF Requests
<1>3. CASE UnlockFinish(d)
  <2> DEFINE v == vault[d]
             u == Unlocked(v.wrap.dek, v.epoch, v.rev, v.wrap)
             r == [kind |-> "update", epoch |-> v.epoch, rev |-> v.rev, verifier |-> None, wrap |-> v.wrap]
  <2>1. u \in Vaults /\ CacheOf(u) \in Caches
    BY <1>1, UnlockedTyped
  <2>2. r \in Requests
    BY <1>1, <1>2 DEF None
  <2>3. /\ vault' = [vault EXCEPT ![d] = u] \/ UNCHANGED vault
        /\ cache' = [cache EXCEPT ![d] = CacheOf(u)] \/ UNCHANGED cache
        /\ Send(d, "backfill", r) \/ op' = [op EXCEPT ![d] = NoOp]
        /\ UNCHANGED <<acct, records, rows, status, session, refresh, late, push, oldKey,
                       made, resets, faults>>
    BY <1>3, Zenon DEF UnlockFinish, server, counters
  <2> HIDE DEF u, r
  <2>4. op' \in [Devices -> Ops]
    BY <2>2, <2>3, SentTyped, NoneTyped
  <2> QED BY <2>1, <2>3, <2>4
<1>4. CASE ChangeSend(d)
  <2> DEFINE v == vault[d]
             r == [kind |-> "update", epoch |-> v.epoch, rev |-> v.rev, verifier |-> v.verifier,
                   wrap |-> [dek |-> v.dek, by |-> Fresh]]
  <2>1. r \in Requests
    <3>1. [dek |-> v.dek, by |-> Fresh] \in Wraps
      BY <1>1 DEF Wraps
    <3> QED BY <1>1, <1>2, <3>1
  <2>2. /\ Send(d, "change", r) \/ op' = [op EXCEPT ![d] = NoOp]
        /\ made' = made + 1 \/ UNCHANGED made
        /\ UNCHANGED <<acct, records, rows, status, vault, cache, session, refresh, late, push,
                       oldKey, resets, faults>>
    BY <1>4, Zenon DEF ChangeSend, OpRest, server, local
  <2> HIDE DEF r
  <2>3. op' \in [Devices -> Ops]
    BY <2>1, <2>2, SentTyped, NoneTyped
  <2>4. made' \in Nat
    BY <2>2
  <2> QED BY <2>2, <2>3, <2>4
<1>5. CASE Serve(d)
  <2>1. acct' \in Rows /\ records' \subseteq Nat /\ rows' \subseteq Rows
    BY <1>1, <1>5, CommitTyped DEF Serve
  <2>2. op' \in [Devices -> Ops]
    <3> DEFINE row == NewRow(op[d].req)
    <3>1. row.epoch \in Nat /\ row.rev \in Nat
      BY <1>1, NewRowTyped DEF Rows
    <3>2. Accepts(acct, op[d].req) \in BOOLEAN
      BY DEF Accepts
    <3>3. op' = [op EXCEPT ![d] = [op[d] EXCEPT !.pc = "answered", !.ok = Accepts(acct, op[d].req),
                                                !.epoch = row.epoch, !.rev = row.rev]]
      BY <1>5 DEF Serve
    <3>4. ASSUME NEW k \in BOOLEAN, NEW e \in Nat, NEW r \in Nat
          PROVE  [op[d] EXCEPT !.pc = "answered", !.ok = k, !.epoch = e, !.rev = r] \in Ops
      BY <1>1 DEF Ops
    <3> HIDE DEF row
    <3>5. [op[d] EXCEPT !.pc = "answered", !.ok = Accepts(acct, op[d].req),
                        !.epoch = row.epoch, !.rev = row.rev] \in Ops
      BY <3>1, <3>2, <3>4, Zenon
    <3> QED BY <3>3, <3>5
  <2> QED BY <1>5, <2>1, <2>2 DEF Serve, local, counters
<1>6. CASE SetupFinish(d) \/ ChangeFinish(d)
  <2>1. PICK k \in Nat : Adopt(d, Unlocked(k, op[d].epoch, op[d].rev, op[d].wrap))
    BY <1>1, <1>6 DEF SetupFinish, ChangeFinish
  <2> DEFINE u == Unlocked(k, op[d].epoch, op[d].rev, op[d].wrap)
  <2>2. u \in Vaults /\ CacheOf(u) \in Caches /\ DescriptorOf(u) \in Rows
    BY <1>1, UnlockedTyped
  <2>3. /\ vault' = [vault EXCEPT ![d] = u] /\ cache' = [cache EXCEPT ![d] = CacheOf(u)]
        /\ session' = [session EXCEPT ![d] = DescriptorOf(u)]
    BY <2>1 DEF Adopt
  <2>4. /\ op' = [op EXCEPT ![d] = NoOp]
        /\ AskRefresh(d) \/ UNCHANGED refresh
        /\ UNCHANGED <<acct, records, rows, status, late, push, oldKey, made, resets, faults>>
    BY <1>6 DEF SetupFinish, ChangeFinish, Answer, server, counters
  <2> HIDE DEF u
  <2> QED BY <2>2, <2>3, <2>4, NoneTyped, AskRefreshTyped
<1>7. CASE ResetFinish(d)
  <2>1. Setup(op[d].epoch) \in Vaults
    BY <1>1, NoneTyped DEF Setup, Vaults
  <2>2. ResetUserVault([epoch |-> op[d].epoch - 1], NoRequest) \in Rows
    BY <1>1, NoneTyped DEF ResetUserVault, Rows, None
  <2> QED BY <1>7, <2>1, <2>2, NoneTyped DEF ResetFinish, Answer, server, counters
<1>8. CASE FinishRefused(d) \/ FinishIdle(d)
  <2>1. op' \in [Devices -> Ops]
    BY <1>8, NoneTyped DEF FinishRefused, FinishIdle, Answer
  <2>2. refresh' \in [Devices -> Refreshes]
    BY <1>8, AskRefreshTyped DEF FinishRefused, FinishIdle
  <2> QED BY <1>8, <2>1, <2>2 DEF FinishRefused, FinishIdle, Answer, server, counters
<1>9. CASE ChangeOpen(d)
  <2>1. [op[d] EXCEPT !.pc = "rewrap"] \in Ops
    BY <1>1 DEF Ops
  <2>2. op' \in [Devices -> Ops]
    BY <1>9, <2>1, NoneTyped DEF ChangeOpen
  <2> QED BY <1>9, <2>2 DEF ChangeOpen, OpRest, server, local, counters
<1> QED BY <1>3, <1>4, <1>5, <1>6, <1>7, <1>8, <1>9 DEF OpStep, Finish

\* Sessions, faults and sign-ins.
LEMMA SessionTyped ==
  ASSUME Typed, NEW d \in Devices,
         SessionStep(d) \/ Fault(d) \/ RefreshSession(d) \/ SignIn(d)
  PROVE  Typed'
<1> USE DEF Typed
<1>1. vault[d] \in Vaults /\ cache[d] \in Caches /\ session[d] \in Rows /\ op[d].req \in Requests
      /\ refresh[d].answer \in Rows
  BY DEF Ops, Refreshes
<1>2. CASE RefreshSession(d) \/ SignIn(d)
  BY <1>2, AskRefreshTyped
     DEF RefreshSession, SignIn, SessionRest, server, local
<1>3. CASE ResolveVaultBootstrap(d)
  <2>1. [pc |-> "answered", answer |-> acct] \in Refreshes
    BY DEF Refreshes
  <2> QED BY <1>3, <2>1 DEF ResolveVaultBootstrap, SessionRest, server, local
<1>4. CASE PersistSession(d)
  <2> DEFINE now == ResolveVaultState(refresh[d].answer, vault[d], cache[d])
  <2>1. now.vault \in Vaults /\ now.cache \in Caches
    BY <1>1, ResolveTyped
  <2>2. ApplyVaultEpochFloor(refresh[d].answer, now.vault) \in Rows
    <3>1. DescriptorOf(now.vault) \in Rows
      BY <2>1 DEF DescriptorOf, Vaults, Rows
    <3> QED BY <1>1, <3>1 DEF ApplyVaultEpochFloor
  <2> QED BY <1>4, <2>1, <2>2, NoneTyped DEF PersistSession, SessionRest, server
<1>5. CASE RefreshFails(d)
  <2> DEFINE now == ResolveVaultState(session[d], vault[d], cache[d])
  <2>1. now.vault \in Vaults /\ now.cache \in Caches
    BY <1>1, ResolveTyped
  <2>2. vault' \in [Devices -> Vaults] /\ cache' \in [Devices -> Caches]
    BY <1>5, <2>1 DEF RefreshFails
  <2>3. status' = [status EXCEPT ![d] = "offline"] \/ UNCHANGED status
    BY <1>5 DEF RefreshFails
  <2>4. status' \in [Devices -> {"authenticated", "offline", "loading", "out"}]
    BY <2>3
  <2>5. faults' \in Nat /\ refresh' \in [Devices -> Refreshes]
    BY <1>5, NoneTyped DEF RefreshFails
  <2> QED BY <1>5, <2>2, <2>4, <2>5 DEF RefreshFails, SessionRest, server
<1>6. CASE GiveUp(d)
  BY <1>1, <1>6, NoneTyped DEF GiveUp, server, local
<1>7. CASE Logout(d)
  BY <1>7, NoneTyped DEF Logout, SessionRest, server
<1>8. CASE Restart(d)
  BY <1>1, <1>8, NoneTyped DEF Restart, server
<1> QED BY <1>2, <1>3, <1>4, <1>5, <1>6, <1>7, <1>8 DEF SessionStep, Fault

\* Pushes of the devices and the old client's calls.
LEMMA PushTyped ==
  ASSUME Typed,
         \/ \E p \in Devices \cup {Old} : PushStep(p)
         \/ \E d \in Devices : CaptureSyncContext(d)
         \/ OldSignIn \/ OldPush
  PROVE  Typed'
<1> USE DEF Typed
<1>1. ASSUME NEW p \in Devices \cup {Old}, PushStep(p) PROVE Typed'
  <2>1. push[p] \in Pushes /\ acct.epoch \in Nat /\ acct.ver \in 0 .. 2 /\ push[p].header \in Nat
          /\ push[p].dek \in Nat
    BY DEF Pushes, Rows
  <2>2. PushFence(p) \in Pushes
    <3>1. (IF acct.ver = 2 THEN push[p].header ELSE acct.epoch) \in Nat
      BY <2>1
    <3>2. ASSUME NEW n \in 0 .. 2, NEW e \in Nat
          PROVE  [push[p] EXCEPT !.pc = "checked", !.ver = n, !.epoch = e] \in Pushes
      BY <2>1 DEF Pushes
    <3> QED BY <2>1, <3>1, <3>2, Zenon DEF PushFence
  <2>3. Refused(p) => /\ push' \in [Devices \cup {Old} -> Pushes]
                      /\ refresh' \in [Devices -> Refreshes]
    BY NoneTyped, AskRefreshTyped DEF Refused
  <2>4. CASE PushCheck(p)
    BY <2>2, <2>3, <2>4 DEF PushCheck, PushRest, server, local, counters
  <2>5. CASE ApplyPushRecords(p)
    BY <2>1, <2>3, <2>5, NoneTyped, ZenonT(60) DEF ApplyPushRecords, PushRest, local, counters
  <2> QED BY <1>1, <2>4, <2>5 DEF PushStep
<1>2. ASSUME NEW d \in Devices, CaptureSyncContext(d) PROVE Typed'
  <2>1. VaultKey(d) \in Nat /\ (IF vault[d].st = "unlocked" THEN vault[d].epoch ELSE None) \in Nat
    BY DEF VaultKey, Vaults, Rows, Wraps, None
  <2>2. Lease(d) \in Pushes
    <3>1. ASSUME NEW k \in Nat, NEW h \in Nat
          PROVE  [NoPush EXCEPT !.pc = "sent", !.dek = k, !.header = h] \in Pushes
      BY NoneTyped DEF Pushes
    <3> QED BY <2>1, <3>1, Zenon DEF Lease
  <2> QED BY <1>2, <2>2 DEF CaptureSyncContext, PushRest, server, local, counters
<1>3. CASE OldSignIn
  <2>1. acct.wrap.dek \in Nat /\ Fresh \in Nat /\ made + 1 \in Nat
    BY DEF Rows, Wraps, Fresh
  <2>2. [acct EXCEPT !.ver = 1, !.wrap = [dek |-> Fresh, by |-> 0]] \in Rows
    <3>1. ASSUME NEW n \in 0 .. 2, NEW w \in Wraps PROVE [acct EXCEPT !.ver = n, !.wrap = w] \in Rows
      BY DEF Rows
    <3>2. [dek |-> Fresh, by |-> 0] \in Wraps /\ 1 \in 0 .. 2
      BY <2>1 DEF Wraps
    <3> QED BY <3>1, <3>2, Zenon
  <2>3. \/ UNCHANGED <<acct, rows, records, made>> /\ oldKey' = acct.wrap.dek
        \/ /\ acct' = [acct EXCEPT !.ver = 1, !.wrap = [dek |-> Fresh, by |-> 0]]
           /\ rows' = rows \cup {acct'} /\ oldKey' = Fresh /\ records' = records /\ made' = made + 1
    BY <1>3, Zenon DEF OldSignIn, server
  <2>4. acct' \in Rows
    BY <2>2, <2>3
  <2>5. rows' \subseteq Rows /\ records' \subseteq Nat /\ oldKey' \in Nat /\ made' \in Nat
    BY <2>1, <2>3, <2>4
  <2> QED BY <1>3, <2>4, <2>5 DEF OldSignIn, local
<1>4. CASE OldPush
  <2>1. ASSUME NEW k \in Nat PROVE [NoPush EXCEPT !.pc = "sent", !.dek = k] \in Pushes
    BY NoneTyped DEF Pushes
  <2> QED BY <1>4, <2>1 DEF OldPush, PushRest, server, local, counters
<1> QED BY <1>1, <1>2, <1>3, <1>4

\* Every variable keeps its type.
LEMMA TypedInvariant == Spec => []Typed
<1>1. Init => Typed
  <2> SUFFICES ASSUME Init PROVE Typed
    OBVIOUS
  <2> DEFINE now == ResolveVaultState(acct, NoVault, NoCache)
  <2>1. acct \in Rows /\ now.vault \in Vaults /\ now.cache \in Caches
    BY NoneTyped, ResolveTyped DEF Init
  <2>2. acct.wrap.dek \in Nat
    BY <2>1 DEF Rows, Wraps
  <2>3. vault \in [Devices -> Vaults] /\ cache \in [Devices -> Caches]
    BY <2>1 DEF Init
  <2>4. records \subseteq Nat
    BY <2>2 DEF Init
  <2> QED BY <2>1, <2>3, <2>4, NoneTyped DEF Init, Typed, None
<1>2. Typed /\ [Next]_vars => Typed'
  <2> SUFFICES ASSUME Typed, [Next]_vars PROVE Typed'
    OBVIOUS
  <2>1. CASE \E r \in late : ServeLate(r)
    <3>1. PICK r \in late : ServeLate(r)
      BY <2>1
    <3>2. r \in Requests
      BY DEF Typed
    <3>3. acct' \in Rows /\ records' \subseteq Nat /\ rows' \subseteq Rows
      BY <3>1, <3>2, CommitTyped DEF ServeLate
    <3> QED BY <3>1, <3>3 DEF ServeLate, Typed, local, counters
  <2>2. CASE UNCHANGED vars
    BY <2>2 DEF vars, server, local, counters, Typed
  <2> QED
    BY <2>1, <2>2, StartTyped, OpStepTyped, SessionTyped, PushTyped DEF Next
<1> QED BY <1>1, <1>2, PTL DEF Spec

(* Every variable of the server, the devices and the wire keeps its type,     *)
(* whatever answers are late and however often the vault is reset.            *)
THEOREM TypeCorrect == Spec => []TypeOK
  BY TypedInvariant, TypedIsTypeOK, PTL

-----------------------------------------------------------------------------
(* The inductive invariant.  R is every row the account has had.             *)

\* The rows: epochs only grow, one key for each of them, one v1 key.  A row
\* without a verifier is of the first generation, and so is all with floor 1.
RowsOk(R, now) ==
  /\ now \in R /\ R \subseteq Rows
  /\ \A a \in R : a.epoch <= now.epoch
  /\ \A a \in R : a.ver = 2 => /\ a.epoch >= 1 /\ a.wrap.dek # None /\ a.wrap.by # 0
                               /\ a.verifier \in {None, a.wrap.dek}
                               /\ a.epoch = now.epoch => a.rev <= now.rev
  /\ \A a \in R : a.ver = 1 => a.epoch = 0 /\ a.wrap.dek # None
  /\ \A a, b \in R : a.ver = 2 /\ b.ver = 2 /\ a.epoch = b.epoch => a.wrap.dek = b.wrap.dek
  /\ \A a, b \in R : a.ver = 1 /\ b.ver = 1 => a.wrap.dek = b.wrap.dek
  /\ \A a, b \in R : a.ver = 2 /\ a.verifier = None => a.epoch <= b.epoch /\ b.ver # 1
  /\ now.floor = 1 => \A a \in R : a.ver # 2 /\ a.epoch = 0
  /\ now.floor = 1 /\ now.ver = 0 => \A a \in R : a.ver # 1

\* c is [epoch, rev, wrap] of some v2 row; k is the key of epoch e; the v1 key.
Known(R, c) == \E a \in R : a.ver = 2 /\ a.epoch = c.epoch /\ a.rev = c.rev /\ a.wrap = c.wrap
KeyOf(R, e, k) == \E a \in R : a.ver = 2 /\ a.epoch = e /\ a.wrap.dek = k
V1Key(R, k) == \E a \in R : a.ver = 1 /\ a.wrap.dek = k

\* What is on the wire to the server and may be committed at any time.
RequestOk(R, r) ==
  /\ r.kind = "create" => r.wrap.dek # None /\ r.wrap.by # 0
  /\ r.kind = "update" => KeyOf(R, r.epoch, r.wrap.dek) /\ r.wrap.by # 0

\* What a device holds, in memory, in the keychain and of its session.
VaultOk(R, v) ==
  /\ v.st = "unlocked" => Known(R, v) /\ v.wrap.dek = v.dek
  /\ v.st = "locked" => Known(R, v)
  /\ v.st \notin {"locked", "unlocked"} => v.wrap = NoWrap
CacheOk(R, c) ==
  \/ c = NoCache
  \/ Known(R, c) /\ c.wrap.dek = c.dek
  \/ c.wrap = NoWrap /\ c.epoch = 0 /\ V1Key(R, c.dek)
RowLike(R, b) ==
  \/ b \in R
  \/ b.ver = 0
  \/ b.ver = 2 /\ Known(R, b) /\ b.verifier = b.wrap.dek

\* The session a device would restart from fits what it holds.
Fits(s, c) == s.ver = 2 /\ s.epoch = c.epoch /\ s.rev = c.rev /\ s.wrap = c.wrap
HoldsOk(R, st, v, c, s, f) ==
  /\ VaultOk(R, v) /\ CacheOk(R, c) /\ RowLike(R, s)
  /\ f.pc = "answered" => f.answer \in R
  /\ v.st = "unlocked" => c = CacheOf(v)
  /\ v.st = "legacy" => s.ver = 1
  /\ c.epoch >= 1 => s.ver # 1
  /\ v.st = "locked" => Fits(s, v)
  /\ v.st \in {"locked", "unlocked"} => st # "out"
  /\ st # "out" /\ c.wrap # NoWrap => Fits(s, c)

\* While a passphrase is being changed the key of the device cannot become
\* another one, nor a v1 key.
Changing(o) == o.kind = "change" /\ o.pc \in {"sent", "answered"}
ChangeOk(R, v, c, s, f, o) ==
  /\ v.st = "unlocked" => v.dek = o.wrap.dek
  /\ c.dek \in {None, o.wrap.dek}
  /\ c.dek # None => c.wrap # NoWrap
  /\ s.ver # 1
  /\ f.pc = "answered" /\ f.answer.ver = 1 => c.dek # None
  /\ \E a \in R : a.ver = 2
OpOk(R, v, c, s, f, o) ==
  /\ o.pc = "derive" => o.wrap.by # 0
  /\ o.pc = "sent" => /\ RequestOk(R, o.req) /\ o.wrap = o.req.wrap
                      /\ o.kind = "setup" => o.req.kind = "create"
                      /\ o.kind = "change" => o.req.kind = "update"
  /\ o.pc = "answered" /\ o.ok /\ o.kind \in {"setup", "change"} => Known(R, o)
  /\ Changing(o) => ChangeOk(R, v, c, s, f, o)
DeviceOk(R, d) ==
  /\ HoldsOk(R, status[d], vault[d], cache[d], session[d], refresh[d])
  /\ OpOk(R, vault[d], cache[d], session[d], refresh[d], op[d])

\* A push carries the key of the epoch it names, or the v1 key without one; and
\* its fence is what it named.
PushOk(R, p) ==
  p.pc # "none" =>
    /\ p.header # None => KeyOf(R, p.header, p.dek)
    /\ p.header = None => V1Key(R, p.dek)
    /\ p.pc = "checked" =>
         \/ p.ver = 2 /\ p.header # None /\ p.epoch = p.header
         \/ p.ver = 1 /\ p.header = None

Safe ==
  /\ RowsOk(rows, acct) /\ RecordsReadable
  /\ \A d \in Devices : DeviceOk(rows, d)
  /\ \A r \in late : RequestOk(rows, r)
  /\ \A p \in Devices \cup {Old} : PushOk(rows, push[p])
  /\ oldKey # None => V1Key(rows, oldKey)
VaultInv == Typed /\ Safe

\* Rows are only added, so what is known of them stays known.
LEMMA KnownGrows ==
  ASSUME NEW R, NEW S, R \subseteq S
  PROVE  /\ \A c : Known(R, c) => Known(S, c)
         /\ \A e, k : KeyOf(R, e, k) => KeyOf(S, e, k)
         /\ \A k : V1Key(R, k) => V1Key(S, k)
  BY DEF Known, KeyOf, V1Key

\* What is known of the rows that ever were stays true when one is added.
LEMMA AllGrows ==
  ASSUME NEW R, NEW S, R \subseteq S
  PROVE  /\ \A r : RequestOk(R, r) => RequestOk(S, r)
         /\ \A p : PushOk(R, p) => PushOk(S, p)
         /\ \A st, v, c, s, f : HoldsOk(R, st, v, c, s, f) => HoldsOk(S, st, v, c, s, f)
         /\ \A v, c, s, f, o : OpOk(R, v, c, s, f, o) => OpOk(S, v, c, s, f, o)
<1>1. /\ \A c : Known(R, c) => Known(S, c)
      /\ \A e, k : KeyOf(R, e, k) => KeyOf(S, e, k)
      /\ \A k : V1Key(R, k) => V1Key(S, k)
  BY KnownGrows
<1>2. \A r : RequestOk(R, r) => RequestOk(S, r)
  BY <1>1 DEF RequestOk
<1>3. \A p : PushOk(R, p) => PushOk(S, p)
  BY <1>1 DEF PushOk
<1>4. \A st, v, c, s, f : HoldsOk(R, st, v, c, s, f) => HoldsOk(S, st, v, c, s, f)
  <2>1. /\ \A v : VaultOk(R, v) => VaultOk(S, v)
        /\ \A c : CacheOk(R, c) => CacheOk(S, c)
        /\ \A b : RowLike(R, b) => RowLike(S, b)
    BY <1>1 DEF VaultOk, CacheOk, RowLike
  <2> QED BY <2>1 DEF HoldsOk
<1>5. \A v, c, s, f, o : OpOk(R, v, c, s, f, o) => OpOk(S, v, c, s, f, o)
  <2>1. \A v, c, s, f, o : ChangeOk(R, v, c, s, f, o) => ChangeOk(S, v, c, s, f, o)
    BY DEF ChangeOk
  <2> QED BY <1>1, <1>2, <2>1 DEF OpOk
<1> QED BY <1>2, <1>3, <1>4, <1>5

\* A step of one device leaves what the others hold in order.
Untouched(e) ==
  /\ status'[e] = status[e] /\ vault'[e] = vault[e] /\ cache'[e] = cache[e]
  /\ session'[e] = session[e] /\ refresh'[e] = refresh[e] /\ op'[e] = op[e]

\* A device nothing happened to stays as good as it was.
LEMMA UntouchedOk ==
  ASSUME NEW e, DeviceOk(rows, e), rows \subseteq rows', Untouched(e)
  PROVE  DeviceOk(rows, e)'
  BY AllGrows DEF DeviceOk, Untouched

\* A step of one device only has to be examined there.
LEMMA OneDevice ==
  ASSUME \A e \in Devices : DeviceOk(rows, e), rows \subseteq rows',
         NEW d \in Devices, \A e \in Devices \ {d} : Untouched(e), DeviceOk(rows, d)'
  PROVE  \A e \in Devices : DeviceOk(rows, e)'
  BY UntouchedOk

-----------------------------------------------------------------------------
(* The server.                                                               *)

\* A new generation gets a higher epoch; within one the key stays.
LEMMA NewRowOk ==
  ASSUME acct \in Rows, rows \subseteq Rows, RowsOk(rows, acct),
         NEW r \in Requests, RequestOk(rows, r), Accepts(acct, r)
  PROVE  /\ RowsOk(rows \cup {NewRow(r)}, NewRow(r))
         /\ r.kind \in {"create", "update"} => NewRow(r).ver = 2 /\ NewRow(r).wrap = r.wrap
         /\ r.kind = "create" => acct.ver = 0 \/ (acct.ver = 1 /\ acct.wrap.dek = r.wrap.dek)
         /\ r.kind = "update" => acct.ver = 2 /\ acct.wrap.dek = r.wrap.dek
<1> DEFINE n == NewRow(r)
<1>0. n \in Rows
  BY NewRowTyped
<1>1. /\ acct.epoch \in Nat /\ acct.rev \in Nat /\ acct.ver \in 0 .. 2 /\ r.wrap.dek \in Nat
      /\ \A a \in rows : a.epoch \in Nat /\ a.rev \in Nat
  BY DEF Rows, Requests, Wraps
<1>2. CASE r.kind = "create"
  <2>1. n = CreateUserVaultV2(acct, r) /\ CreateOk(acct, r)
    BY <1>2 DEF NewRow, Accepts
  <2>2. /\ n.ver = 2 /\ n.epoch = acct.epoch + 1 /\ n.floor = 2 /\ n.rev = 1
        /\ n.wrap = r.wrap /\ n.verifier = r.wrap.dek /\ r.wrap.dek # None /\ r.wrap.by # 0
    BY <1>2, <2>1 DEF CreateUserVaultV2, RequestOk
  <2>3. RowsOk(rows \cup {n}, n)
    <3> HIDE DEF n
    <3> QED BY <1>0, <1>1, <2>2 DEF RowsOk, None
  <2> QED BY <1>1, <1>2, <2>1, <2>2, <2>3 DEF CreateOk
<1>3. CASE r.kind = "update"
  <2>1. n = UpdateUserVaultV2(acct, r) /\ UpdateOk(acct, r)
    BY <1>3 DEF NewRow, Accepts
  <2>2. acct.ver = 2 /\ acct.wrap.dek = r.wrap.dek /\ r.wrap.by # 0
    BY <1>3, <2>1 DEF UpdateOk, RequestOk, KeyOf, RowsOk
  <2>3. /\ n.ver = 2 /\ n.epoch = acct.epoch /\ n.floor = acct.floor /\ n.rev \in {acct.rev, acct.rev + 1}
        /\ n.wrap = r.wrap /\ n.verifier = r.wrap.dek
    BY <2>1, <2>2 DEF UpdateUserVaultV2, Rows
  <2>4. RowsOk(rows \cup {n}, n)
    <3> HIDE DEF n
    <3> QED BY <1>0, <1>1, <2>2, <2>3 DEF RowsOk, None
  <2> QED BY <1>3, <2>2, <2>3, <2>4
<1>4. CASE r.kind = "reset"
  <2>1. n = ResetUserVault(acct, r)
    BY <1>4 DEF NewRow
  <2>2. n.ver = 0 /\ n.epoch = acct.epoch + 1 /\ n.floor = 2
    BY <2>1 DEF ResetUserVault
  <2>3. RowsOk(rows \cup {n}, n)
    <3> HIDE DEF n
    <3> QED BY <1>0, <1>1, <2>2 DEF RowsOk, None
  <2> QED BY <1>4, <2>3
<1> QED BY <1>2, <1>3, <1>4 DEF Accepts

\* The transaction keeps the rows in order and the records readable.
LEMMA CommitOk ==
  ASSUME Typed, RowsOk(rows, acct), RecordsReadable,
         NEW r \in Requests, RequestOk(rows, r), Commit(r)
  PROVE  /\ rows \subseteq rows' /\ RowsOk(rows, acct)' /\ RecordsReadable'
         /\ acct' \in rows'
         /\ Accepts(acct, r) /\ r.kind \in {"create", "update"} => acct'.ver = 2 /\ acct'.wrap = r.wrap
<1> USE DEF Typed
<1>1. CASE ~Accepts(acct, r)
  <2>1. acct' = acct /\ records' = records /\ rows' = rows
    BY <1>1 DEF Commit, NewRow, RowsOk
  <2> QED BY <1>1, <2>1 DEF RecordsReadable, RowsOk
<1>2. CASE Accepts(acct, r)
  <2>1. acct' = NewRow(r) /\ rows' = rows \cup {NewRow(r)}
    BY DEF Commit
  <2>2. RowsOk(rows', acct')
    BY <1>2, <2>1, NewRowOk
  <2>3. r.kind \in {"create", "update"} => acct'.ver = 2 /\ acct'.wrap = r.wrap
    BY <1>2, <2>1, NewRowOk
  <2>4. RecordsReadable'
    <3>1. CASE r.kind = "reset"
      BY <1>2, <3>1 DEF Commit, RecordsReadable
    <3>2. CASE r.kind \in {"create", "update"}
      <4>1. records' = records
        BY <3>2 DEF Commit
      <4>2. acct.ver = 0 \/ acct.wrap.dek = r.wrap.dek
        BY <1>2, <3>2, NewRowOk
      <4> QED BY <2>3, <3>2, <4>1, <4>2 DEF RecordsReadable
    <3> QED BY <1>2, <3>1, <3>2 DEF Accepts
  <2> QED BY <2>1, <2>2, <2>3, <2>4
<1> QED BY <1>1, <1>2

-----------------------------------------------------------------------------
(* What a device makes of an answer.                                         *)

\* A v2 row has a wrapper, so a key held with one is of some epoch from 1 on.
LEMMA KnownFacts ==
  ASSUME NEW R, NEW now, RowsOk(R, now), NEW c, Known(R, c)
  PROVE  c.epoch \in Nat /\ c.epoch >= 1 /\ c.wrap # NoWrap /\ c.wrap.dek # None /\ c.wrap.by # 0
         /\ c.rev \in Nat
<1>1. PICK a \in R : a.ver = 2 /\ a.epoch = c.epoch /\ a.wrap = c.wrap /\ a.rev = c.rev
  BY DEF Known
<1>2. a.epoch \in Nat /\ a.epoch >= 1 /\ a.wrap.dek # None /\ a.wrap.by # 0 /\ a.rev \in Nat
  BY <1>1 DEF RowsOk, Rows
<1> QED BY <1>1, <1>2 DEF NoWrap

\* What a device may believe of a row that it holds.
LEMMA RowLikeFacts ==
  ASSUME NEW R, NEW now, RowsOk(R, now), NEW b \in Rows, RowLike(R, b)
  PROVE  /\ b.ver = 2 => Known(R, b) /\ b.verifier \in {None, b.wrap.dek}
         /\ b.ver = 2 /\ b.verifier = None => b \in R
         /\ b.ver = 1 => b \in R /\ b.epoch = 0 /\ b.wrap.dek # None
<1>1. b.ver = 2 => Known(R, b) /\ b.verifier \in {None, b.wrap.dek}
  BY DEF RowLike, RowsOk, Known
<1>2. b.ver = 2 /\ b.verifier = None => b \in R
  BY <1>1, KnownFacts DEF RowLike
<1>3. b.ver = 1 => b \in R /\ b.epoch = 0 /\ b.wrap.dek # None
  BY DEF RowLike, RowsOk
<1> QED BY <1>1, <1>2, <1>3

\* The key that a device keeps for a row it believes is the row's key.
LEMMA UnlocksRight ==
  ASSUME NEW R, NEW now, RowsOk(R, now), NEW b \in Rows, RowLike(R, b),
         NEW k \in Caches, CacheOk(R, k), NEW n, Unlocks(b, k, n), NotLate(b, k)
  PROVE  k.dek = b.wrap.dek /\ Known(R, b)
<1>1. Known(R, b) /\ b.verifier \in {None, b.wrap.dek}
  BY RowLikeFacts DEF Unlocks
<1>2. CASE b.verifier # None
  BY <1>1, <1>2 DEF Unlocks
<1>3. CASE b.verifier = None
  <2>1. b \in R /\ \A a \in R : b.epoch <= a.epoch /\ a.ver # 1
    BY <1>3, RowLikeFacts DEF Unlocks, RowsOk
  <2>2. Known(R, k) /\ k.wrap.dek = k.dek
    BY <2>1 DEF Unlocks, CacheOk, NoCache, V1Key
  <2>3. PICK a \in R : a.ver = 2 /\ a.epoch = k.epoch /\ a.wrap = k.wrap
    BY <2>2 DEF Known
  <2>4. a.epoch = b.epoch
    BY <2>1, <2>3 DEF NotLate, Unlocks, Rows, Caches
  <2> QED BY <1>1, <2>1, <2>2, <2>3, <2>4 DEF Unlocks, RowsOk
<1> QED BY <1>2, <1>3

\* An ignored answer leaves a key that is known.
LEMMA IgnoresKnown ==
  ASSUME NEW R, NEW now, RowsOk(R, now), NEW b \in Rows, RowLike(R, b),
         NEW k \in Caches, CacheOk(R, k), NEW n, Ignores(b, k, n)
  PROVE  Known(R, k) /\ k.wrap.dek = k.dek
<1>1. k.epoch >= 1
  <2>1. CASE b.ver = 2
    <3>1. b.epoch >= 1
      BY <2>1, RowLikeFacts, KnownFacts
    <3> QED BY <3>1 DEF Ignores, Rows, Caches
  <2>2. CASE b.ver # 2
    BY <2>2 DEF Ignores, Rows, Caches
  <2> QED BY <2>1, <2>2
<1> QED BY <1>1 DEF CacheOk, NoCache

\* What the device holds after an answer, and the session it stores.
LEMMA ResolveOk ==
  ASSUME NEW R, NEW now, RowsOk(R, now), NEW b \in Rows, RowLike(R, b),
         NEW v \in Vaults, NEW k \in Caches, VaultOk(R, v), CacheOk(R, k),
         v.st = "unlocked" => k = CacheOf(v),
         NEW st, st # "out", NEW f, f.pc # "answered"
  PROVE  LET n == ResolveVaultState(b, v, k)
             t == ApplyVaultEpochFloor(b, n.vault)
         IN  /\ HoldsOk(R, st, n.vault, n.cache, t, f)
             /\ t.ver = 2 \/ (t = b /\ ~Ignores(b, k, n))
             /\ t = b \/ Ignores(b, k, n)
<1> DEFINE n == ResolveVaultState(b, v, k)
           t == ApplyVaultEpochFloor(b, n.vault)
<1>0. n.vault \in Vaults /\ n.cache \in Caches
  BY ResolveTyped
<1>1. \/ Ignores(b, k, n)
      \/ NotLate(b, k) /\ (SetsUp(b, n) \/ TakesLegacy(b, n) \/ Locks(b, n) \/ Unlocks(b, k, n))
  BY ResolveOutcomes
<1> SUFFICES /\ HoldsOk(R, st, n.vault, n.cache, t, f)
             /\ t.ver = 2 \/ (t = b /\ ~Ignores(b, k, n))
             /\ t = b \/ Ignores(b, k, n)
  OBVIOUS
<1>t. t = IF HasCoherentDescriptor(n.vault) /\ IsOlder(b, CacheOf(n.vault))
          THEN DescriptorOf(n.vault) ELSE b
  BY DEF ApplyVaultEpochFloor
<1> HIDE DEF n, t
<1>2. CASE Ignores(b, k, n)
  <2>1. Known(R, k) /\ k.wrap.dek = k.dek /\ k.wrap # NoWrap /\ k.epoch >= 1 /\ k.dek # None
    BY <1>2, IgnoresKnown, KnownFacts
  <2>2. /\ n.vault.st = "unlocked" /\ n.cache = k /\ CacheOf(n.vault) = k /\ IsOlder(b, k)
        /\ n.vault.dek = k.dek /\ n.vault.epoch = k.epoch /\ n.vault.rev = k.rev
        /\ n.vault.wrap = k.wrap
    BY <1>0, <1>2 DEF Ignores, CacheOf, Vaults
  <2>3. /\ t.ver = 2 /\ t.epoch = k.epoch /\ t.rev = k.rev /\ t.wrap = k.wrap /\ t.verifier = k.dek
    BY <1>t, <2>1, <2>2 DEF HasCoherentDescriptor, DescriptorOf
  <2>4. VaultOk(R, n.vault) /\ CacheOk(R, n.cache) /\ RowLike(R, t)
    BY <2>1, <2>2, <2>3 DEF VaultOk, CacheOk, RowLike, Known
  <2> QED BY <1>2, <2>1, <2>2, <2>3, <2>4 DEF HoldsOk, Fits
<1>3. CASE SetsUp(b, n)
  <2>1. n.vault.st = "setup" /\ n.vault.wrap = NoWrap /\ n.cache = NoCache
    BY <1>3 DEF SetsUp, Setup, NoVault
  <2>2. t = b
    BY <1>t, <2>1 DEF HasCoherentDescriptor
  <2> QED BY <2>1, <2>2 DEF HoldsOk, VaultOk, CacheOk, NoCache, Ignores
<1>4. CASE TakesLegacy(b, n)
  <2>1. /\ n.vault.st = "legacy" /\ n.vault.wrap = NoWrap
        /\ n.cache.wrap = NoWrap /\ n.cache.dek = b.wrap.dek /\ n.cache.epoch = b.epoch
        /\ b.ver = 1
    BY <1>4 DEF TakesLegacy, Legacy, NoVault, NoCache
  <2>2. t = b
    BY <1>t, <2>1 DEF HasCoherentDescriptor
  <2>3. b \in R /\ b.epoch = 0
    BY <2>1, RowLikeFacts
  <2>4. CacheOk(R, n.cache)
    BY <2>1, <2>3 DEF CacheOk, V1Key
  <2> QED BY <2>1, <2>2, <2>3, <2>4 DEF HoldsOk, VaultOk, Ignores
<1>5. CASE Locks(b, n)
  <2>1. /\ n.vault.st = "locked" /\ n.vault.epoch = b.epoch /\ n.vault.rev = b.rev
        /\ n.vault.wrap = b.wrap /\ n.cache = NoCache /\ b.ver = 2
    BY <1>5 DEF Locks, Locked, NoVault
  <2>2. t = b
    BY <1>t, <2>1 DEF HasCoherentDescriptor
  <2>3. Known(R, n.vault)
    BY <2>1, RowLikeFacts DEF Known
  <2> QED BY <2>1, <2>2, <2>3 DEF HoldsOk, VaultOk, CacheOk, NoCache, Fits
<1>6. CASE Unlocks(b, k, n) /\ NotLate(b, k)
  <2>1. /\ n.vault.st = "unlocked" /\ n.vault.epoch = b.epoch /\ n.vault.rev = b.rev
        /\ n.vault.wrap = b.wrap /\ n.vault.dek = k.dek /\ n.cache = CacheOf(n.vault) /\ b.ver = 2
    BY <1>6 DEF Unlocks, Unlocked
  <2>2. n.cache.epoch = b.epoch /\ n.cache.rev = b.rev /\ n.cache.wrap = b.wrap /\ n.cache.dek = k.dek
    BY <2>1 DEF CacheOf
  <2>3. k.dek = b.wrap.dek /\ Known(R, b)
    BY <1>6, UnlocksRight
  <2>4. t = b
    BY <1>t, <2>1, <2>2 DEF IsOlder, Rows
  <2>5. VaultOk(R, n.vault) /\ CacheOk(R, n.cache)
    BY <2>1, <2>2, <2>3 DEF VaultOk, CacheOk, Known
  <2> QED BY <2>1, <2>2, <2>4, <2>5 DEF HoldsOk, Fits
<1> QED BY <1>1, <1>2, <1>3, <1>4, <1>5, <1>6

\* Nor does an answer bring a key that a change of the passphrase does not know.
LEMMA ResolveChangeOk ==
  ASSUME NEW R, NEW now, RowsOk(R, now), NEW b \in Rows, RowLike(R, b),
         NEW v \in Vaults, NEW k \in Caches, VaultOk(R, v), CacheOk(R, k),
         v.st = "unlocked" => k = CacheOf(v),
         NEW s, NEW f, NEW o, ChangeOk(R, v, k, s, f, o),
         b.ver = 1 => k.dek # None,
         NEW g, g.pc # "answered",
         NEW t, t.ver # 1 \/ (t = b /\ ~Ignores(b, k, ResolveVaultState(b, v, k)))
  PROVE  LET n == ResolveVaultState(b, v, k) IN ChangeOk(R, n.vault, n.cache, t, g, o)
<1> DEFINE n == ResolveVaultState(b, v, k)
<1>0. n.vault \in Vaults /\ n.cache \in Caches
  BY ResolveTyped
<1>1. \/ Ignores(b, k, n)
      \/ NotLate(b, k) /\ (SetsUp(b, n) \/ TakesLegacy(b, n) \/ Locks(b, n) \/ Unlocks(b, k, n))
  BY ResolveOutcomes
<1>t. t.ver # 1 \/ (t = b /\ ~Ignores(b, k, n))
  OBVIOUS
<1> SUFFICES ChangeOk(R, n.vault, n.cache, t, g, o)
  OBVIOUS
<1> HIDE DEF n
<1>2. k.dek # None => Known(R, k) /\ k.epoch >= 1 /\ k.dek = o.wrap.dek /\ k.wrap # NoWrap
  BY KnownFacts DEF ChangeOk, CacheOk, NoCache
<1>3. b.ver # 1 \/ Ignores(b, k, n)
  <2>1. b.ver = 1 => b.epoch = 0
    BY RowLikeFacts
  <2>2. k.epoch \in Nat
    BY DEF Caches
  <2> QED BY <1>1, <1>2, <2>1, <2>2 DEF NotLate, SetsUp, Locks, Unlocks
<1>4. CASE Ignores(b, k, n)
  <2>1. n.vault.dek = k.dek /\ n.cache = k /\ k.dek # None
    BY <1>0, <1>4 DEF Ignores, CacheOf, Vaults, Caches
  <2> QED BY <1>2, <1>4, <1>t, <2>1 DEF ChangeOk
<1>5. CASE b.ver # 1 /\ (SetsUp(b, n) \/ Locks(b, n))
  <2>1. Setup(b.epoch).st = "setup" /\ Locked(b).st = "locked" /\ NoCache.dek = None
    BY DEF Setup, Locked, NoVault, NoCache
  <2>2. n.vault.st # "unlocked" /\ n.cache.dek = None
    BY <1>5, <2>1 DEF SetsUp, Locks
  <2> QED BY <1>5, <1>t, <2>2 DEF ChangeOk
<1>6. CASE Unlocks(b, k, n) /\ NotLate(b, k)
  <2>1. n.vault.dek = k.dek /\ n.cache.dek = k.dek /\ n.cache.wrap = b.wrap /\ k.dek # None /\ b.ver = 2
    BY <1>6 DEF Unlocks, Unlocked, CacheOf
  <2>2. b.wrap # NoWrap
    BY <2>1, RowLikeFacts, KnownFacts
  <2> QED BY <1>2, <1>t, <2>1, <2>2 DEF ChangeOk
<1> QED BY <1>1, <1>3, <1>4, <1>5, <1>6 DEF TakesLegacy

-----------------------------------------------------------------------------
(* Every action keeps the invariant.                                         *)

\* A step of a device that does not reach the server.
LEMMA DeviceStep ==
  ASSUME Safe, UNCHANGED <<acct, records, rows, push, oldKey>>,
         NEW d \in Devices, \A e \in Devices \ {d} : Untouched(e), DeviceOk(rows, d)',
         \A r \in late' : RequestOk(rows, r)
  PROVE  Safe'
<1>1. \A e \in Devices : DeviceOk(rows, e)'
  BY OneDevice DEF Safe
<1> QED BY <1>1 DEF Safe, RecordsReadable

\* Beginning a vault operation keeps the invariant.
LEMMA StartOk ==
  ASSUME Typed, Safe, NEW d \in Devices, Start(d) PROVE Safe'
<1>1. /\ UNCHANGED <<acct, records, rows, push, oldKey, late, status, vault, cache, session, refresh>>
      /\ \A e \in Devices \ {d} : op'[e] = op[e]
  BY DEF Start, SetupVault, MigrateVault, ResetVault, UnlockStart, ChangeStart, OpRest, Send, Derive,
         server, local, Typed
<1>2. DeviceOk(rows, d) /\ \A r \in late' : RequestOk(rows, r)
  BY <1>1 DEF Safe
<1>3. OpOk(rows, vault[d], cache[d], session[d], refresh[d], op'[d])
  <2>1. CASE SetupVault(d) \/ MigrateVault(d) \/ ResetVault(d)
    <3>1. PICK r : /\ Send(d, IF r.kind = "reset" THEN "reset" ELSE "setup", r)
                   /\ r.kind \in {"create", "reset"}
                   /\ r.kind = "create" => r.wrap.dek # None /\ r.wrap.by # 0
      <4>1. Fresh # None /\ Fresh # 0
        BY DEF Fresh, Typed, None
      <4>2. CASE SetupVault(d)
        <5> DEFINE r == [NoRequest EXCEPT !.kind = "create", !.epoch = vault[d].epoch,
                                          !.wrap = [dek |-> Fresh, by |-> Fresh]]
        <5>1. r.kind = "create" /\ r.wrap.dek = Fresh /\ r.wrap.by = Fresh
          BY DEF NoRequest
        <5>2. Send(d, "setup", r)
          BY <4>2 DEF SetupVault
        <5> HIDE DEF r
        <5> QED BY <4>1, <5>1, <5>2
      <4>3. CASE MigrateVault(d)
        <5> DEFINE r == [NoRequest EXCEPT !.kind = "create", !.epoch = vault[d].epoch,
                                          !.wrap = [dek |-> session[d].wrap.dek, by |-> Fresh]]
        <5>1. r.kind = "create" /\ r.wrap.dek = session[d].wrap.dek /\ r.wrap.by = Fresh
          BY DEF NoRequest
        <5>2. Send(d, "setup", r)
          BY <4>3 DEF MigrateVault
        <5>3. session[d].wrap.dek # None
          <6>1. session[d].ver = 1 /\ RowLike(rows, session[d]) /\ session[d] \in Rows
            BY <1>2, <4>3 DEF MigrateVault, DeviceOk, HoldsOk, Typed
          <6> QED BY <6>1, RowLikeFacts DEF Safe
        <5> HIDE DEF r
        <5> QED BY <4>1, <5>1, <5>2, <5>3
      <4>4. CASE ResetVault(d)
        <5> DEFINE r == [NoRequest EXCEPT !.kind = "reset", !.epoch = vault[d].epoch]
        <5>1. r.kind = "reset"
          BY DEF NoRequest
        <5>2. Send(d, "reset", r)
          BY <4>4 DEF ResetVault
        <5> HIDE DEF r
        <5> QED BY <5>1, <5>2
      <4> QED BY <2>1, <4>2, <4>3, <4>4
    <3>2. op'[d] = [NoOp EXCEPT !.pc = "sent", !.kind = IF r.kind = "reset" THEN "reset" ELSE "setup",
                                !.req = r, !.wrap = r.wrap]
      BY <3>1 DEF Send, Typed
    <3>3. /\ op'[d].pc = "sent" /\ op'[d].kind \in {"reset", "setup"} /\ op'[d].req = r
          /\ op'[d].wrap = r.wrap
          /\ op'[d].kind = "setup" => r.kind = "create"
      BY <3>1, <3>2 DEF NoOp
    <3> QED BY <3>1, <3>3 DEF OpOk, RequestOk, Changing
  <2>2. CASE UnlockStart(d) \/ ChangeStart(d)
    <3>0. PICK kind : Derive(d, kind)
      BY <2>2 DEF UnlockStart, ChangeStart
    <3>1. op'[d].pc = "derive" /\ op'[d].wrap = vault[d].wrap
      BY <3>0 DEF Derive, Typed, NoOp
    <3>2. vault[d].st \in {"locked", "unlocked"}
      BY <2>2 DEF UnlockStart, ChangeStart, HasCoherentDescriptor
    <3>3. vault[d].wrap.by # 0
      BY <1>2, <3>2, KnownFacts DEF DeviceOk, HoldsOk, VaultOk, Safe
    <3> QED BY <3>1, <3>3 DEF OpOk, Changing
  <2> QED BY <2>1, <2>2 DEF Start
<1>4. DeviceOk(rows, d)'
  BY <1>1, <1>2, <1>3 DEF DeviceOk
<1> QED BY <1>1, <1>2, <1>4, DeviceStep DEF Untouched

\* A device without an operation has none that could go wrong.
LEMMA NoOpOk == \A R, v, c, s, f : OpOk(R, v, c, s, f, NoOp)
  BY DEF OpOk, NoOp, Changing

\* An unlocked device that is not signed out holds one known key three times.
LEMMA HeldKey ==
  ASSUME NEW R, NEW now, RowsOk(R, now), NEW st, NEW v, NEW c, NEW s, NEW f,
         HoldsOk(R, st, v, c, s, f), v.wrap.by # 0
  PROVE  /\ v.st \in {"locked", "unlocked"} /\ Known(R, v) /\ Fits(s, v) /\ v.wrap # NoWrap
         /\ v.wrap.dek # None /\ v.epoch \in Nat /\ v.epoch >= 1
<1>1. v.st \in {"locked", "unlocked"}
  BY DEF HoldsOk, VaultOk, NoWrap
<1>2. Known(R, v)
  BY <1>1 DEF HoldsOk, VaultOk
<1>3. v.wrap # NoWrap /\ v.wrap.dek # None /\ v.epoch \in Nat /\ v.epoch >= 1
  BY <1>2, KnownFacts
<1>4. Fits(s, v)
  <2>1. CASE v.st = "locked"
    BY <2>1 DEF HoldsOk
  <2>2. CASE v.st = "unlocked"
    <3>1. c = CacheOf(v) /\ st # "out"
      BY <2>2 DEF HoldsOk
    <3>2. c.epoch = v.epoch /\ c.rev = v.rev /\ c.wrap = v.wrap
      BY <3>1 DEF CacheOf
    <3> QED BY <1>3, <3>1, <3>2 DEF HoldsOk, Fits
  <2> QED BY <1>1, <2>1, <2>2
<1> QED BY <1>1, <1>2, <1>3, <1>4

\* A device that takes up a known key with its wrapper, and a session to match.
LEMMA TakesUpOk ==
  ASSUME NEW R, NEW now, RowsOk(R, now), NEW st, st # "out", NEW u, u.st = "unlocked",
         Known(R, u), u.wrap.dek = u.dek, NEW s, RowLike(R, s), Fits(s, u),
         NEW f, f.pc = "answered" => f.answer \in R
  PROVE  HoldsOk(R, st, u, CacheOf(u), s, f)
<1>1. /\ CacheOf(u).dek = u.dek /\ CacheOf(u).epoch = u.epoch /\ CacheOf(u).rev = u.rev
      /\ CacheOf(u).wrap = u.wrap
  BY DEF CacheOf
<1>2. VaultOk(R, u) /\ CacheOk(R, CacheOf(u))
  BY <1>1 DEF VaultOk, CacheOk, Known
<1> QED BY <1>1, <1>2 DEF HoldsOk, Fits

\* Unlocking with the derived key keeps the invariant.
LEMMA UnlockFinishOk ==
  ASSUME Typed, Safe, NEW d \in Devices, UnlockFinish(d) PROVE Safe'
<1> DEFINE v == vault[d]
           u == Unlocked(v.wrap.dek, v.epoch, v.rev, v.wrap)
<1>1. /\ UNCHANGED <<acct, records, rows, push, oldKey, late, status, session, refresh>>
      /\ \A e \in Devices \ {d} : op'[e] = op[e] /\ vault'[e] = vault[e] /\ cache'[e] = cache[e]
  BY DEF UnlockFinish, Send, server, Typed
<1>2. DeviceOk(rows, d) /\ \A r \in late' : RequestOk(rows, r)
  BY <1>1 DEF Safe
<1>3. DeviceOk(rows, d)'
  <2>1. CASE status[d] = "authenticated" /\ v.wrap = op[d].wrap
    <3>1. v.wrap.by # 0
      BY <1>2, <2>1 DEF UnlockFinish, DeviceOk, OpOk
    <3>2. /\ v.st \in {"locked", "unlocked"} /\ Known(rows, v) /\ Fits(session[d], v) /\ v.wrap # NoWrap
          /\ v.wrap.dek # None
      BY <1>2, <3>1, HeldKey DEF Safe, DeviceOk
    <3>3. vault'[d] = u /\ cache'[d] = CacheOf(u)
      BY <2>1 DEF UnlockFinish, Typed
    <3>4. /\ u.st = "unlocked" /\ u.dek = v.wrap.dek /\ u.epoch = v.epoch /\ u.rev = v.rev
          /\ u.wrap = v.wrap
      BY DEF Unlocked
    <3>5. Known(rows, u) /\ Fits(session[d], u)
      BY <3>2, <3>4 DEF Known, Fits
    <3>6. /\ RowLike(rows, session[d]) /\ (refresh[d].pc = "answered" => refresh[d].answer \in rows)
          /\ status[d] # "out" /\ RowsOk(rows, acct)
      BY <1>2, <2>1 DEF DeviceOk, HoldsOk, Safe
    <3> HIDE DEF u, v
    <3>7. HoldsOk(rows, status[d], u, CacheOf(u), session[d], refresh[d])
      BY <3>4, <3>5, <3>6, TakesUpOk
    <3>8. OpOk(rows, u, CacheOf(u), session[d], refresh[d], op'[d])
      <4>1. CASE v.verifier = None
        <5> DEFINE r == [kind |-> "update", epoch |-> v.epoch, rev |-> v.rev,
                         verifier |-> None, wrap |-> v.wrap]
        <5>1. Send(d, "backfill", r)
          BY <2>1, <4>1 DEF UnlockFinish, v
        <5>2. r.kind = "update" /\ r.epoch = v.epoch /\ r.wrap = v.wrap
          OBVIOUS
        <5> HIDE DEF r
        <5>3. op'[d] = [NoOp EXCEPT !.pc = "sent", !.kind = "backfill", !.req = r, !.wrap = r.wrap]
          BY <5>1 DEF Send, Typed
        <5>4. op'[d].pc = "sent" /\ op'[d].kind = "backfill" /\ op'[d].req = r /\ op'[d].wrap = r.wrap
          BY <5>3 DEF NoOp
        <5>5. RequestOk(rows, r)
          BY <3>1, <3>2, <5>2 DEF RequestOk, KeyOf, Known
        <5> QED BY <5>4, <5>5 DEF OpOk, Changing
      <4>2. CASE v.verifier # None
        <5>1. op'[d] = NoOp
          BY <2>1, <4>2 DEF UnlockFinish, v, Typed
        <5> QED BY <5>1, NoOpOk
      <4> QED BY <4>1, <4>2
    <3> QED BY <1>1, <3>3, <3>7, <3>8 DEF DeviceOk
  <2>2. CASE ~(status[d] = "authenticated" /\ v.wrap = op[d].wrap)
    <3>1. op'[d] = NoOp /\ vault' = vault /\ cache' = cache
      BY <2>2 DEF UnlockFinish, Typed
    <3> QED BY <1>1, <1>2, <3>1, NoOpOk DEF DeviceOk
  <2> QED BY <2>1, <2>2
<1> QED BY <1>1, <1>2, <1>3, DeviceStep DEF Untouched

\* A change whose present passphrase is derived keeps the invariant.
LEMMA ChangeOpenOk ==
  ASSUME Typed, Safe, NEW d \in Devices, ChangeOpen(d) PROVE Safe'
<1>1. /\ UNCHANGED <<acct, records, rows, push, oldKey, late, status, vault, cache, session, refresh>>
      /\ \A e \in Devices \ {d} : op'[e] = op[e]
  BY DEF ChangeOpen, OpRest, server, local, Typed
<1>2. DeviceOk(rows, d) /\ \A r \in late' : RequestOk(rows, r)
  BY <1>1 DEF Safe
<1>3. OpOk(rows, vault[d], cache[d], session[d], refresh[d], op'[d])
  <2>1. op'[d] = NoOp \/ op'[d].pc = "rewrap"
    BY DEF ChangeOpen, Typed, Ops
  <2>2. CASE op'[d].pc = "rewrap"
    BY <2>2 DEF OpOk, Changing
  <2> QED BY <2>1, <2>2, NoOpOk
<1>4. DeviceOk(rows, d)'
  BY <1>1, <1>2, <1>3 DEF DeviceOk
<1> QED BY <1>1, <1>2, <1>4, DeviceStep DEF Untouched

\* Sending a changed password keeps the invariant.
LEMMA ChangeSendOk ==
  ASSUME Typed, Safe, NEW d \in Devices, ChangeSend(d) PROVE Safe'
<1> DEFINE v == vault[d]
<1>1. /\ UNCHANGED <<acct, records, rows, push, oldKey, late, status, vault, cache, session, refresh>>
      /\ \A e \in Devices \ {d} : op'[e] = op[e]
  BY DEF ChangeSend, Send, OpRest, server, local, Typed
<1>2. DeviceOk(rows, d) /\ \A r \in late' : RequestOk(rows, r)
  BY <1>1 DEF Safe
<1>3. OpOk(rows, v, cache[d], session[d], refresh[d], op'[d])
  <2>1. CASE status[d] = "authenticated" /\ v.st = "unlocked"
    <3> DEFINE r == [kind |-> "update", epoch |-> v.epoch, rev |-> v.rev,
                     verifier |-> v.verifier, wrap |-> [dek |-> v.dek, by |-> Fresh]]
    <3>1. Send(d, "change", r)
      BY <2>1 DEF ChangeSend
    <3>2. r.kind = "update" /\ r.epoch = v.epoch /\ r.wrap.dek = v.dek /\ r.wrap.by = Fresh
      OBVIOUS
    <3>3. Fresh # 0
      BY DEF Fresh, Typed
    <3>4. v.wrap.by # 0
      <4>1. Known(rows, v) /\ RowsOk(rows, acct)
        BY <1>2, <2>1 DEF DeviceOk, HoldsOk, VaultOk, Safe
      <4> QED BY <4>1 DEF Known, RowsOk
    <3>5. /\ Known(rows, v) /\ Fits(session[d], v) /\ v.wrap # NoWrap /\ v.wrap.dek # None
      BY <1>2, <3>4, HeldKey DEF Safe, DeviceOk
    <3>6. v.wrap.dek = v.dek /\ cache[d] = CacheOf(v)
      BY <1>2, <2>1 DEF DeviceOk, HoldsOk, VaultOk
    <3>7. cache[d].dek = v.dek /\ cache[d].wrap = v.wrap
      BY <3>6 DEF CacheOf
    <3> HIDE DEF r, v
    <3>8. op'[d] = [NoOp EXCEPT !.pc = "sent", !.kind = "change", !.req = r, !.wrap = r.wrap]
      BY <3>1 DEF Send, Typed
    <3>9. op'[d].pc = "sent" /\ op'[d].kind = "change" /\ op'[d].req = r /\ op'[d].wrap = r.wrap
      BY <3>8 DEF NoOp
    <3>10. RequestOk(rows, r)
      BY <3>2, <3>3, <3>5, <3>6 DEF RequestOk, KeyOf, Known
    <3>11. ChangeOk(rows, v, cache[d], session[d], refresh[d], op'[d])
      BY <3>2, <3>5, <3>6, <3>7, <3>9 DEF ChangeOk, Fits, Known
    <3> QED BY <3>2, <3>9, <3>10, <3>11 DEF OpOk
  <2>2. CASE ~(status[d] = "authenticated" /\ v.st = "unlocked")
    <3>1. op'[d] = NoOp
      BY <2>2 DEF ChangeSend, Typed
    <3> QED BY <3>1, NoOpOk
  <2> QED BY <2>1, <2>2
<1>4. DeviceOk(rows, d)'
  BY <1>1, <1>2, <1>3 DEF DeviceOk
<1> QED BY <1>1, <1>2, <1>4, DeviceStep DEF Untouched

\* A step of the server: what every device holds stays known.
LEMMA ServerStep ==
  ASSUME Safe, rows \subseteq rows', RowsOk(rows, acct)', RecordsReadable',
         \A e \in Devices : DeviceOk(rows, e)',
         late' \subseteq late, push' = push, oldKey' = oldKey
  PROVE  Safe'
<1>1. \A r \in late' : RequestOk(rows', r)
  BY AllGrows DEF Safe
<1>2. \A p \in Devices \cup {Old} : PushOk(rows', push[p])
  BY AllGrows DEF Safe
<1>3. oldKey # None => V1Key(rows', oldKey)
  BY KnownGrows DEF Safe
<1> QED BY <1>1, <1>2, <1>3 DEF Safe

\* The server's answer to a device that waits for it keeps the invariant.
LEMMA ServeOk ==
  ASSUME Typed, Safe, NEW d \in Devices, Serve(d) PROVE Safe'
<1> DEFINE r == op[d].req
<1>0. op[d].pc = "sent" /\ DeviceOk(rows, d) /\ r \in Requests
  BY DEF Serve, Safe, Typed, Ops
<1>1. RequestOk(rows, r) /\ op[d].wrap = r.wrap
  BY <1>0 DEF DeviceOk, OpOk
<1>2. Commit(r) /\ UNCHANGED <<local, refresh, late, push, oldKey>>
  BY DEF Serve
<1>3. /\ rows \subseteq rows' /\ RowsOk(rows, acct)' /\ RecordsReadable'
      /\ acct' \in rows'
      /\ Accepts(acct, r) /\ r.kind \in {"create", "update"} => acct'.ver = 2 /\ acct'.wrap = r.wrap
  BY <1>0, <1>1, <1>2, CommitOk DEF Safe
<1>4. /\ op'[d] = [op[d] EXCEPT !.pc = "answered", !.ok = Accepts(acct, r),
                                !.epoch = acct'.epoch, !.rev = acct'.rev]
      /\ \A e \in Devices \ {d} : op'[e] = op[e]
  BY <1>2 DEF Serve, Commit, Typed
<1>5. /\ op'[d].pc = "answered" /\ op'[d].ok = Accepts(acct, r) /\ op'[d].epoch = acct'.epoch
      /\ op'[d].rev = acct'.rev /\ op'[d].kind = op[d].kind /\ op'[d].wrap = op[d].wrap
  BY <1>4 DEF Typed, Ops
<1>6. OpOk(rows', vault[d], cache[d], session[d], refresh[d], op[d])
  BY <1>0, <1>3, AllGrows DEF DeviceOk
<1>7. OpOk(rows', vault[d], cache[d], session[d], refresh[d], op'[d])
  <2>1. op'[d].ok /\ op'[d].kind \in {"setup", "change"} => Known(rows', op'[d])
    BY <1>0, <1>1, <1>3, <1>5, <1>6 DEF OpOk, Known
  <2>2. Changing(op'[d]) => ChangeOk(rows', vault[d], cache[d], session[d], refresh[d], op'[d])
    BY <1>0, <1>5, <1>6 DEF OpOk, Changing, ChangeOk
  <2> QED BY <1>5, <2>1, <2>2 DEF OpOk
<1>8. HoldsOk(rows', status[d], vault[d], cache[d], session[d], refresh[d])
  BY <1>0, <1>3, AllGrows DEF DeviceOk
<1>9. DeviceOk(rows, d)'
  BY <1>2, <1>7, <1>8 DEF DeviceOk, local
<1>10. \A e \in Devices \ {d} : Untouched(e)
  BY <1>2, <1>4 DEF Untouched, local
<1>11. \A e \in Devices : DeviceOk(rows, e)'
  BY <1>3, <1>9, <1>10, OneDevice DEF Safe
<1> QED BY <1>2, <1>3, <1>11, ServerStep

\* Asking for the session, once more or for the first time.
AsksAtMost(f, g) == g = f \/ g.pc # "answered"
\* Asking once more tells the device nothing new.
LEMMA AsksOk ==
  ASSUME NEW R, NEW st, NEW v, NEW c, NEW s, NEW f, NEW g, NEW o, AsksAtMost(f, g)
  PROVE  /\ HoldsOk(R, st, v, c, s, f) => HoldsOk(R, st, v, c, s, g)
         /\ OpOk(R, v, c, s, f, o) => OpOk(R, v, c, s, g, o)
<1>1. HoldsOk(R, st, v, c, s, f) => HoldsOk(R, st, v, c, s, g)
  BY DEF HoldsOk, AsksAtMost
<1>2. OpOk(R, v, c, s, f, o) => OpOk(R, v, c, s, g, o)
  BY DEF OpOk, ChangeOk, AsksAtMost
<1> QED BY <1>1, <1>2

\* AskRefresh asks at most once more, and on one device.
LEMMA AskRefreshOk ==
  ASSUME Typed, NEW d \in Devices, AskRefresh(d)
  PROVE  /\ AsksAtMost(refresh[d], refresh'[d])
         /\ \A e \in Devices \ {d} : refresh'[e] = refresh[e]
<1>1. refresh'[d] = IF refresh[d].pc = "none" THEN Asked ELSE refresh[d]
  BY DEF AskRefresh, Typed
<1>2. Asked.pc = "asked"
  BY DEF Asked, NoRefresh
<1>3. \A e \in Devices \ {d} : refresh'[e] = refresh[e]
  BY DEF AskRefresh, Typed
<1> QED BY <1>1, <1>2, <1>3 DEF AsksAtMost

\* A device that takes up the key of a row, with the descriptor made from it.
LEMMA AdoptOk ==
  ASSUME NEW R, NEW now, RowsOk(R, now), NEW st, st # "out", NEW o, Known(R, o),
         NEW f, f.pc = "answered" => f.answer \in R
  PROVE  LET u == Unlocked(o.wrap.dek, o.epoch, o.rev, o.wrap)
         IN  HoldsOk(R, st, u, CacheOf(u), DescriptorOf(u), f)
<1> DEFINE u == Unlocked(o.wrap.dek, o.epoch, o.rev, o.wrap)
           s == DescriptorOf(u)
<1>1. u.st = "unlocked" /\ u.dek = o.wrap.dek /\ u.epoch = o.epoch /\ u.rev = o.rev /\ u.wrap = o.wrap
  BY DEF Unlocked
<1>2. s.ver = 2 /\ s.epoch = u.epoch /\ s.rev = u.rev /\ s.wrap = u.wrap /\ s.verifier = u.dek
  BY DEF DescriptorOf
<1> SUFFICES HoldsOk(R, st, u, CacheOf(u), s, f)
  OBVIOUS
<1> HIDE DEF u, s
<1>3. Known(R, u) /\ u.wrap.dek = u.dek
  BY <1>1 DEF Known
<1>4. RowLike(R, s) /\ Fits(s, u)
  BY <1>2, <1>3 DEF RowLike, Fits, Known
<1> QED BY <1>1, <1>3, <1>4, TakesUpOk

\* Taking the answer of a vault request keeps the invariant.
LEMMA FinishOk ==
  ASSUME Typed, Safe, NEW d \in Devices, Finish(d) PROVE Safe'
<1>1. /\ UNCHANGED <<acct, records, rows, push, oldKey, late, status>> /\ op'[d] = NoOp
      /\ op[d].pc = "answered" /\ \A e \in Devices \ {d} : op'[e] = op[e]
  BY DEF Finish, SetupFinish, ChangeFinish, ResetFinish, FinishRefused, FinishIdle, Answer, server, Typed
<1>2. /\ DeviceOk(rows, d) /\ RowsOk(rows, acct) /\ \A r \in late' : RequestOk(rows, r)
  BY <1>1 DEF Safe
<1>3. /\ AsksAtMost(refresh[d], refresh'[d])
      /\ \A e \in Devices \ {d} : refresh'[e] = refresh[e]
  BY AskRefreshOk DEF Finish, SetupFinish, ChangeFinish, ResetFinish, FinishRefused, FinishIdle, AsksAtMost
<1>4. refresh'[d].pc = "answered" => refresh'[d].answer \in rows
  BY <1>2, <1>3 DEF AsksAtMost, DeviceOk, HoldsOk
<1>5. \A e \in Devices \ {d} : vault'[e] = vault[e] /\ cache'[e] = cache[e] /\ session'[e] = session[e]
  BY DEF Finish, SetupFinish, ChangeFinish, ResetFinish, FinishRefused, FinishIdle, Adopt, Typed
<1>6. HoldsOk(rows, status[d], vault'[d], cache'[d], session'[d], refresh'[d])
  <2>1. CASE SetupFinish(d) \/ ChangeFinish(d)
    <3> DEFINE u == Unlocked(op[d].wrap.dek, op[d].epoch, op[d].rev, op[d].wrap)
    <3>1. op[d].ok /\ status[d] # "out" /\ op[d].kind \in {"setup", "change"}
      BY <2>1 DEF SetupFinish, ChangeFinish, Valid, Answer
    <3>2. Known(rows, op[d])
      BY <1>1, <1>2, <3>1 DEF DeviceOk, OpOk
    <3>3. Adopt(d, u)
      <4>1. CASE SetupFinish(d)
        BY <4>1 DEF SetupFinish
      <4>2. CASE ChangeFinish(d)
        <5>1. op[d].kind = "change" /\ vault[d].st = "unlocked"
          BY <4>2 DEF ChangeFinish, Answer
        <5>2. vault[d].dek = op[d].wrap.dek
          BY <1>1, <1>2, <5>1 DEF DeviceOk, OpOk, Changing, ChangeOk
        <5> QED BY <4>2, <5>2 DEF ChangeFinish
      <4> QED BY <2>1, <4>1, <4>2
    <3>4. vault'[d] = u /\ cache'[d] = CacheOf(u) /\ session'[d] = DescriptorOf(u)
      BY <3>3 DEF Adopt, Typed
    <3>5. HoldsOk(rows, status[d], u, CacheOf(u), DescriptorOf(u), refresh'[d])
      BY <1>2, <1>4, <3>1, <3>2, AdoptOk
    <3> HIDE DEF u
    <3> QED BY <3>4, <3>5
  <2>2. CASE ResetFinish(d)
    <3> DEFINE s == ResetUserVault([epoch |-> op[d].epoch - 1], NoRequest)
    <3>1. vault'[d] = Setup(op[d].epoch) /\ cache'[d] = NoCache /\ session'[d] = s
      BY <2>2 DEF ResetFinish, Typed
    <3>2. s.ver = 0
      BY DEF ResetUserVault
    <3>3. Setup(op[d].epoch).st = "setup" /\ Setup(op[d].epoch).wrap = NoWrap
      BY DEF Setup, NoVault
    <3>4. NoCache.wrap = NoWrap /\ NoCache.epoch = 0
      BY DEF NoCache
    <3> HIDE DEF s
    <3> QED BY <1>4, <3>1, <3>2, <3>3, <3>4 DEF HoldsOk, VaultOk, CacheOk, RowLike
  <2>3. CASE FinishRefused(d) \/ FinishIdle(d)
    <3>1. UNCHANGED <<vault, cache, session>>
      BY <2>3 DEF FinishRefused, FinishIdle
    <3> QED BY <1>2, <1>3, <3>1, AsksOk DEF DeviceOk
  <2> QED BY <2>1, <2>2, <2>3 DEF Finish
<1>7. DeviceOk(rows, d)'
  BY <1>1, <1>6, NoOpOk DEF DeviceOk
<1> QED BY <1>1, <1>2, <1>3, <1>5, <1>7, DeviceStep DEF Untouched

\* Every later step of a vault operation keeps the invariant.
LEMMA OpStepOk ==
  ASSUME Typed, Safe, NEW d \in Devices, OpStep(d) PROVE Safe'
  BY UnlockFinishOk, ChangeOpenOk, ChangeSendOk, ServeOk, FinishOk DEF OpStep

\* The session's steps that only ask.
LEMMA AskOk ==
  ASSUME Typed, Safe, NEW d \in Devices, RefreshSession(d) \/ SignIn(d) PROVE Safe'
<1>1. UNCHANGED <<acct, records, rows, push, oldKey, late, status, vault, cache, session, op>>
      /\ AskRefresh(d)
  BY DEF RefreshSession, SignIn, SessionRest, server, local
<1>2. DeviceOk(rows, d) /\ \A r \in late' : RequestOk(rows, r)
  BY <1>1 DEF Safe
<1>3. DeviceOk(rows, d)'
  BY <1>1, <1>2, AskRefreshOk, AsksOk DEF DeviceOk
<1> QED BY <1>1, <1>2, <1>3, AskRefreshOk, DeviceStep DEF Untouched

\* The answer is a row; a v1 row is none once there is a v2 row.
LEMMA BootstrapOk ==
  ASSUME Typed, Safe, NEW d \in Devices, ResolveVaultBootstrap(d) PROVE Safe'
<1> DEFINE g == [pc |-> "answered", answer |-> acct]
<1>1. /\ UNCHANGED <<acct, records, rows, push, oldKey, late, status, vault, cache, session, op>>
      /\ refresh'[d] = g /\ \A e \in Devices \ {d} : refresh'[e] = refresh[e]
  BY DEF ResolveVaultBootstrap, SessionRest, server, local, Typed
<1>2. DeviceOk(rows, d) /\ RowsOk(rows, acct) /\ \A r \in late' : RequestOk(rows, r)
  BY <1>1 DEF Safe
<1>3. g.pc = "answered" /\ g.answer = acct
  OBVIOUS
<1> HIDE DEF g
<1>4. HoldsOk(rows, status[d], vault[d], cache[d], session[d], g)
  BY <1>2, <1>3 DEF DeviceOk, HoldsOk, RowsOk
<1>5. OpOk(rows, vault[d], cache[d], session[d], g, op[d])
  <2>1. (\E a \in rows : a.ver = 2) => acct.ver # 1
    BY <1>2 DEF RowsOk, Rows
  <2> QED BY <1>2, <1>3, <2>1 DEF DeviceOk, OpOk, ChangeOk
<1>6. DeviceOk(rows, d)'
  BY <1>1, <1>4, <1>5 DEF DeviceOk
<1> QED BY <1>1, <1>2, <1>6, DeviceStep DEF Untouched

\* Persisting a session answer, with the vault it resolves to, keeps the invariant.
LEMMA PersistOk ==
  ASSUME Typed, Safe, NEW d \in Devices, PersistSession(d) PROVE Safe'
<1> DEFINE b == refresh[d].answer
           n == ResolveVaultState(b, vault[d], cache[d])
           t == ApplyVaultEpochFloor(b, n.vault)
<1>1. /\ UNCHANGED <<acct, records, rows, push, oldKey, late, op>>
      /\ refresh'[d] = NoRefresh /\ status'[d] = "authenticated"
      /\ vault'[d] = n.vault /\ cache'[d] = n.cache /\ session'[d] = t
      /\ \A e \in Devices \ {d} : Untouched(e)
  BY DEF PersistSession, SessionRest, server, Typed, Untouched
<1>2. DeviceOk(rows, d) /\ RowsOk(rows, acct) /\ \A r \in late' : RequestOk(rows, r)
  BY <1>1 DEF Safe
<1>3. b \in rows /\ b \in Rows /\ RowLike(rows, b) /\ refresh[d].pc = "answered"
  BY <1>2 DEF PersistSession, DeviceOk, HoldsOk, RowsOk, RowLike
<1>4. /\ vault[d] \in Vaults /\ cache[d] \in Caches /\ VaultOk(rows, vault[d]) /\ CacheOk(rows, cache[d])
      /\ vault[d].st = "unlocked" => cache[d] = CacheOf(vault[d])
  BY <1>2 DEF Typed, DeviceOk, HoldsOk
<1>5. NoRefresh.pc # "answered"
  BY DEF NoRefresh
<1>6. /\ HoldsOk(rows, "authenticated", n.vault, n.cache, t, NoRefresh)
      /\ t.ver = 2 \/ (t = b /\ ~Ignores(b, cache[d], n))
  BY <1>2, <1>3, <1>4, <1>5, ResolveOk
<1>7. OpOk(rows, n.vault, n.cache, t, NoRefresh, op[d])
  <2>1. ASSUME Changing(op[d]) PROVE ChangeOk(rows, n.vault, n.cache, t, NoRefresh, op[d])
    <3>1. ChangeOk(rows, vault[d], cache[d], session[d], refresh[d], op[d])
      BY <1>2, <2>1 DEF DeviceOk, OpOk
    <3>2. b.ver = 1 => cache[d].dek # None
      BY <1>3, <3>1 DEF ChangeOk
    <3>3. t.ver # 1 \/ (t = b /\ ~Ignores(b, cache[d], n))
      BY <1>6
    <3> HIDE DEF t
    <3> QED BY <1>2, <1>3, <1>4, <1>5, <3>1, <3>2, <3>3, ResolveChangeOk
  <2> HIDE DEF n, t
  <2> QED BY <1>2, <2>1 DEF DeviceOk, OpOk
<1> HIDE DEF n, t
<1>8. DeviceOk(rows, d)'
  BY <1>1, <1>6, <1>7 DEF DeviceOk
<1> QED BY <1>1, <1>2, <1>8, DeviceStep

\* Offline, the device restores what its stored session says, and that fits the
\* key it holds.
LEMMA RestoreOk ==
  ASSUME NEW R, NEW now, RowsOk(R, now), NEW b \in Rows, RowLike(R, b),
         NEW v \in Vaults, NEW k \in Caches, VaultOk(R, v), CacheOk(R, k),
         v.st = "unlocked" => k = CacheOf(v), k.wrap # NoWrap => Fits(b, k),
         NEW f, f.pc # "answered"
  PROVE  LET n == ResolveVaultState(b, v, k) IN HoldsOk(R, "offline", n.vault, n.cache, b, f)
<1> DEFINE n == ResolveVaultState(b, v, k)
           t == ApplyVaultEpochFloor(b, n.vault)
<1>1. HoldsOk(R, "offline", n.vault, n.cache, t, f) /\ (t = b \/ Ignores(b, k, n))
  <2>1. "offline" # "out"
    OBVIOUS
  <2>2. HoldsOk(R, "offline", n.vault, n.cache, t, f)
    BY <2>1, ResolveOk
  <2>3. t = b \/ Ignores(b, k, n)
    BY <2>1, ResolveOk
  <2> QED BY <2>2, <2>3
<1> SUFFICES HoldsOk(R, "offline", n.vault, n.cache, b, f)
  OBVIOUS
<1> HIDE DEF n, t
<1>2. ~Ignores(b, k, n)
  <2> SUFFICES ASSUME Ignores(b, k, n) PROVE FALSE
    OBVIOUS
  <2>1. k.wrap # NoWrap
    BY IgnoresKnown, KnownFacts
  <2> QED BY <2>1 DEF Fits, Ignores, IsOlder, Rows, Caches
<1> QED BY <1>1, <1>2

\* A failed refresh, which falls back to the stored session, keeps the invariant.
LEMMA RefreshFailsOk ==
  ASSUME Typed, Safe, NEW d \in Devices, RefreshFails(d) PROVE Safe'
<1> DEFINE b == session[d]
           n == ResolveVaultState(b, vault[d], cache[d])
<1>1. /\ UNCHANGED <<acct, records, rows, push, oldKey, late, op, session>>
      /\ refresh'[d] = NoRefresh
      /\ \A e \in Devices \ {d} : Untouched(e)
  BY DEF RefreshFails, SessionRest, server, Typed, Untouched
<1>2. DeviceOk(rows, d) /\ RowsOk(rows, acct) /\ \A r \in late' : RequestOk(rows, r)
  BY <1>1 DEF Safe
<1>3. NoRefresh.pc # "answered"
  BY DEF NoRefresh
<1>4. CASE status[d] = "out"
  <2>1. UNCHANGED <<vault, cache, status>>
    BY <1>4 DEF RefreshFails
  <2>2. DeviceOk(rows, d)'
    BY <1>1, <1>2, <1>3, <2>1, AsksOk DEF DeviceOk, AsksAtMost
  <2> QED BY <1>1, <1>2, <2>2, DeviceStep
<1>5. CASE status[d] # "out"
  <2>1. vault'[d] = n.vault /\ cache'[d] = n.cache /\ status'[d] = "offline"
    BY <1>5 DEF RefreshFails, Typed
  <2>2. /\ vault[d] \in Vaults /\ cache[d] \in Caches /\ VaultOk(rows, vault[d]) /\ CacheOk(rows, cache[d])
        /\ vault[d].st = "unlocked" => cache[d] = CacheOf(vault[d])
        /\ b \in Rows /\ RowLike(rows, b)
        /\ cache[d].wrap # NoWrap => Fits(b, cache[d])
    BY <1>2, <1>5 DEF Typed, DeviceOk, HoldsOk
  <2>3. HoldsOk(rows, "offline", n.vault, n.cache, b, NoRefresh)
    BY <1>2, <1>3, <2>2, RestoreOk
  <2>6. OpOk(rows, n.vault, n.cache, b, NoRefresh, op[d])
    <3>1. ASSUME Changing(op[d]) PROVE ChangeOk(rows, n.vault, n.cache, b, NoRefresh, op[d])
      <4>1. ChangeOk(rows, vault[d], cache[d], b, refresh[d], op[d]) /\ b.ver # 1
        BY <1>2, <3>1 DEF DeviceOk, OpOk, ChangeOk
      <4> QED BY <1>2, <1>3, <2>2, <4>1, ResolveChangeOk
    <3> HIDE DEF n
    <3> QED BY <1>2, <3>1 DEF DeviceOk, OpOk
  <2> HIDE DEF n
  <2>7. DeviceOk(rows, d)'
    BY <1>1, <2>1, <2>3, <2>6 DEF DeviceOk
  <2> QED BY <1>1, <1>2, <2>7, DeviceStep
<1> QED BY <1>4, <1>5

\* Requests given up stay on the wire; a device that signs out or restarts keeps
\* its key in the keychain.
LEMMA GiveUpOk ==
  ASSUME Typed, Safe, NEW d \in Devices, GiveUp(d) PROVE Safe'
<1>1. /\ UNCHANGED <<acct, records, rows, push, oldKey, status, vault, cache, session, refresh>>
      /\ op'[d] = NoOp /\ \A e \in Devices \ {d} : op'[e] = op[e]
      /\ late' = IF op[d].pc = "sent" THEN late \cup {op[d].req} ELSE late
  BY DEF GiveUp, server, local, Typed
<1>2. DeviceOk(rows, d)
  BY DEF Safe
<1>3. \A r \in late' : RequestOk(rows, r)
  BY <1>1, <1>2 DEF DeviceOk, OpOk, Safe
<1>4. DeviceOk(rows, d)'
  BY <1>1, <1>2, NoOpOk DEF DeviceOk
<1> QED BY <1>1, <1>3, <1>4, DeviceStep DEF Untouched

\* Logging out keeps the invariant.
LEMMA LogoutOk ==
  ASSUME Typed, Safe, NEW d \in Devices, Logout(d) PROVE Safe'
<1>1. /\ UNCHANGED <<acct, records, rows, push, oldKey, late, op, cache, refresh>>
      /\ vault'[d] = NoVault /\ status'[d] = "out" /\ session'[d] = NoRow
      /\ \A e \in Devices \ {d} : Untouched(e)
  BY DEF Logout, SessionRest, server, Typed, Untouched
<1>2. DeviceOk(rows, d) /\ \A r \in late' : RequestOk(rows, r)
  BY <1>1 DEF Safe
<1>3. NoVault.st = "none" /\ NoVault.wrap = NoWrap /\ NoRow.ver = 0
  BY DEF NoVault, NoRow
<1>4. HoldsOk(rows, "out", NoVault, cache[d], NoRow, refresh[d])
  BY <1>2, <1>3 DEF DeviceOk, HoldsOk, VaultOk, RowLike
<1>5. OpOk(rows, NoVault, cache[d], NoRow, refresh[d], op[d])
  BY <1>2, <1>3 DEF DeviceOk, OpOk, ChangeOk
<1>6. DeviceOk(rows, d)'
  BY <1>1, <1>4, <1>5 DEF DeviceOk
<1> QED BY <1>1, <1>2, <1>6, DeviceStep

\* A restart keeps the invariant: only the cache and the session survive it.
LEMMA RestartOk ==
  ASSUME Typed, Safe, NEW d \in Devices, Restart(d) PROVE Safe'
<1>1. /\ UNCHANGED <<acct, records, rows, push, oldKey, cache, session>>
      /\ vault'[d] = NoVault /\ status'[d] = "loading" /\ refresh'[d] = Asked /\ op'[d] = NoOp
      /\ late' = IF op[d].pc = "sent" THEN late \cup {op[d].req} ELSE late
      /\ \A e \in Devices \ {d} : Untouched(e)
  BY DEF Restart, server, Typed, Untouched
<1>2. DeviceOk(rows, d) /\ status[d] # "out"
  BY DEF Safe, Restart
<1>3. NoVault.st = "none" /\ NoVault.wrap = NoWrap /\ Asked.pc # "answered"
  BY DEF NoVault, Asked, NoRefresh
<1>4. \A r \in late' : RequestOk(rows, r)
  BY <1>1, <1>2 DEF DeviceOk, OpOk, Safe
<1>5. HoldsOk(rows, "loading", NoVault, cache[d], session[d], Asked)
  BY <1>2, <1>3 DEF DeviceOk, HoldsOk, VaultOk
<1>6. DeviceOk(rows, d)'
  BY <1>1, <1>5, NoOpOk DEF DeviceOk
<1> QED BY <1>1, <1>4, <1>6, DeviceStep

\* A request whose sender is gone is served late and keeps the invariant.
LEMMA ServeLateOk ==
  ASSUME Typed, Safe, NEW r \in late, ServeLate(r) PROVE Safe'
<1>1. /\ Commit(r) /\ late' \subseteq late /\ push' = push /\ oldKey' = oldKey
      /\ \A e \in Devices : Untouched(e)
  BY DEF ServeLate, Untouched, local
<1>2. r \in Requests /\ RequestOk(rows, r)
  BY DEF Typed, Safe
<1>3. rows \subseteq rows' /\ RowsOk(rows, acct)' /\ RecordsReadable'
  BY <1>1, <1>2, CommitOk DEF Safe
<1>4. \A e \in Devices : DeviceOk(rows, e)'
  BY <1>1, <1>3, UntouchedOk DEF Safe
<1> QED BY <1>1, <1>3, <1>4, ServerStep

-----------------------------------------------------------------------------
(* Pushes.                                                                   *)

\* A step of one push: devices at most ask for their session.
LEMMA PushSafe ==
  ASSUME Typed, Safe, NEW p \in Devices \cup {Old}, NEW q, push' = [push EXCEPT ![p] = q],
         PushOk(rows, q), UNCHANGED <<acct, rows, status, vault, cache, session, op, late, oldKey>>,
         RecordsReadable', \A e \in Devices : AsksAtMost(refresh[e], refresh'[e])
  PROVE  Safe'
<1>1. \A e \in Devices : DeviceOk(rows, e)'
  BY AsksOk DEF Safe, DeviceOk
<1>2. \A x \in Devices \cup {Old} : PushOk(rows, push'[x])
  BY DEF Safe, Typed
<1> QED BY <1>1, <1>2 DEF Safe

\* The lease: the key of the epoch it names, or the v1 key.
LEMMA CaptureOk ==
  ASSUME Typed, Safe, NEW d \in Devices, CaptureSyncContext(d) PROVE Safe'
<1>1. UNCHANGED <<acct, rows, records, status, vault, cache, session, op, late, oldKey, refresh>>
      /\ push' = [push EXCEPT ![d] = Lease(d)]
  BY DEF CaptureSyncContext, PushRest, server, local
<1>2. HoldsOk(rows, status[d], vault[d], cache[d], session[d], refresh[d]) /\ RowsOk(rows, acct)
  BY DEF Safe, DeviceOk
<1>3. /\ Lease(d).pc = "sent" /\ Lease(d).dek = VaultKey(d)
      /\ Lease(d).header = IF vault[d].st = "unlocked" THEN vault[d].epoch ELSE None
  BY DEF Lease, NoPush
<1>4. PushOk(rows, Lease(d))
  <2>1. CASE vault[d].st = "unlocked"
    <3>1. Known(rows, vault[d]) /\ vault[d].wrap.dek = vault[d].dek
      BY <1>2, <2>1 DEF HoldsOk, VaultOk
    <3>2. vault[d].epoch # None
      BY <1>2, <3>1, KnownFacts DEF None
    <3>3. KeyOf(rows, vault[d].epoch, vault[d].dek)
      BY <3>1 DEF Known, KeyOf
    <3> QED BY <1>3, <2>1, <3>2, <3>3 DEF PushOk, VaultKey
  <2>2. CASE vault[d].st # "unlocked"
    <3>1. vault[d].st = "legacy" /\ session[d].ver = 1
      BY <1>2, <2>2 DEF CaptureSyncContext, IsVaultReadyForSync, HoldsOk
    <3>2. session[d] \in rows
      BY <1>2, <3>1, RowLikeFacts DEF HoldsOk, Typed
    <3> QED BY <1>3, <2>2, <3>1, <3>2 DEF PushOk, VaultKey, V1Key
  <2> QED BY <2>1, <2>2
<1> QED BY <1>1, <1>4, PushSafe DEF Safe, RecordsReadable, AsksAtMost

\* A push of a client of the old version keeps the invariant.
LEMMA OldPushOk ==
  ASSUME Typed, Safe, OldPush PROVE Safe'
<1> DEFINE q == [NoPush EXCEPT !.pc = "sent", !.dek = oldKey]
<1>1. UNCHANGED <<acct, rows, records, status, vault, cache, session, op, late, oldKey, refresh>>
      /\ push' = [push EXCEPT ![Old] = q] /\ oldKey # None
  BY DEF OldPush, PushRest, server, local
<1>2. q.pc = "sent" /\ q.dek = oldKey /\ q.header = None
  BY DEF NoPush
<1> HIDE DEF q
<1>3. PushOk(rows, q)
  BY <1>1, <1>2 DEF PushOk, Safe
<1> QED BY <1>1, <1>3, PushSafe DEF Safe, RecordsReadable, AsksAtMost

\* No push is nothing to worry about.
LEMMA NoPushOk == \A R : PushOk(R, NoPush)
  BY DEF PushOk, NoPush

\* A refused push is over, and its device asks for the session.
LEMMA RefusedOk ==
  ASSUME Typed, NEW p \in Devices \cup {Old}, Refused(p)
  PROVE  push' = [push EXCEPT ![p] = NoPush] /\ \A e \in Devices : AsksAtMost(refresh[e], refresh'[e])
<1>1. CASE AskRefresh(p) /\ p # Old
  BY <1>1, AskRefreshOk DEF Refused, AsksAtMost
<1>2. CASE UNCHANGED refresh
  BY <1>2 DEF Refused, AsksAtMost
<1> QED BY <1>1, <1>2 DEF Refused

\* The check of a push against the row keeps the invariant.
LEMMA PushCheckOk ==
  ASSUME Typed, Safe, NEW p \in Devices \cup {Old}, PushCheck(p) PROVE Safe'
<1>1. UNCHANGED <<acct, rows, records, status, vault, cache, session, op, late, oldKey>>
      /\ PushOk(rows, push[p]) /\ push[p] \in Pushes /\ acct \in Rows
  BY DEF PushCheck, PushRest, server, local, Safe, Typed
<1>2. RecordsReadable'
  BY <1>1 DEF Safe, RecordsReadable
<1>3. CASE PushAdmitted(p)
  <2> DEFINE q == PushFence(p)
  <2>1. /\ q.pc = "checked" /\ q.ver = acct.ver /\ q.dek = push[p].dek /\ q.header = push[p].header
        /\ q.epoch = IF acct.ver = 2 THEN push[p].header ELSE acct.epoch
    BY <1>1 DEF PushFence, Pushes
  <2>2. (acct.ver = 2 /\ q.header # None) \/ (acct.ver = 1 /\ q.header = None)
    <3>1. acct.ver \in {0, 1, 2}
      BY <1>1 DEF Rows
    <3> HIDE DEF q
    <3> QED BY <1>3, <2>1, <3>1 DEF PushAdmitted
  <2>3. push[p].pc # "none"
    BY DEF PushCheck
  <2>4. PushOk(rows, q)
    <3> HIDE DEF q
    <3> QED BY <1>1, <2>1, <2>2, <2>3 DEF PushOk
  <2>5. push' = [push EXCEPT ![p] = q] /\ UNCHANGED refresh
    BY <1>3 DEF PushCheck
  <2> HIDE DEF q
  <2> QED BY <1>1, <1>2, <2>4, <2>5, PushSafe DEF AsksAtMost
<1>4. CASE ~PushAdmitted(p)
  <2>1. Refused(p)
    BY <1>4 DEF PushCheck
  <2> QED BY <1>1, <1>2, <2>1, RefusedOk, NoPushOk, PushSafe
<1> QED BY <1>3, <1>4

\* Under the row lock the epoch is still the one the push named, and an epoch
\* has one key; or it is still the v1 vault.
LEMMA ApplyOk ==
  ASSUME Typed, Safe, NEW p \in Devices \cup {Old}, ApplyPushRecords(p) PROVE Safe'
<1>1. UNCHANGED <<acct, rows, status, vault, cache, session, op, late, oldKey>>
      /\ PushOk(rows, push[p]) /\ RowsOk(rows, acct) /\ push[p].pc = "checked"
  BY DEF ApplyPushRecords, PushRest, server, local, Safe
<1>2. CASE FenceHolds(p)
  <2>1. /\ records' = records \cup {push[p].dek} /\ push' = [push EXCEPT ![p] = NoPush]
        /\ UNCHANGED refresh
    BY <1>2 DEF ApplyPushRecords
  <2>2. acct.ver # 0 /\ push[p].dek = acct.wrap.dek
    <3>1. CASE push[p].ver = 2
      <4>1. acct.ver = 2 /\ KeyOf(rows, acct.epoch, push[p].dek)
        BY <1>1, <1>2, <3>1 DEF PushOk, FenceHolds
      <4> QED BY <1>1, <4>1 DEF KeyOf, RowsOk
    <3>2. CASE push[p].ver = 1
      <4>1. acct.ver = 1 /\ V1Key(rows, push[p].dek)
        BY <1>1, <1>2, <3>2 DEF PushOk, FenceHolds
      <4> QED BY <1>1, <4>1 DEF V1Key, RowsOk
    <3> QED BY <1>1, <3>1, <3>2 DEF PushOk
  <2>3. RecordsReadable'
    BY <1>1, <2>1, <2>2 DEF Safe, RecordsReadable
  <2> QED BY <1>1, <2>1, <2>3, NoPushOk, PushSafe DEF AsksAtMost
<1>3. CASE ~FenceHolds(p)
  <2>1. Refused(p) /\ records' = records
    BY <1>3 DEF ApplyPushRecords
  <2>2. RecordsReadable'
    BY <1>1, <2>1 DEF Safe, RecordsReadable
  <2> QED BY <1>1, <2>1, <2>2, RefusedOk, NoPushOk, PushSafe
<1> QED BY <1>2, <1>3

\* A v1 vault is made only while the account has never had a vault.
LEMMA OldSignInOk ==
  ASSUME Typed, Safe, OldSignIn PROVE Safe'
<1>1. /\ late' = late /\ push' = push /\ \A e \in Devices : Untouched(e)
  BY DEF OldSignIn, Untouched, local
<1>2. CASE acct.ver = 1 /\ UNCHANGED <<server, made>> /\ oldKey' = acct.wrap.dek
  <2>1. V1Key(rows, acct.wrap.dek)
    BY <1>2 DEF Safe, RowsOk, V1Key
  <2>2. \A e \in Devices : DeviceOk(rows, e)'
    BY <1>1, <1>2, UntouchedOk DEF Safe, server
  <2> QED BY <1>1, <1>2, <2>1, <2>2 DEF Safe, server, RecordsReadable
<1>3. CASE /\ acct.ver = 0 /\ acct' = [acct EXCEPT !.ver = 1, !.wrap = [dek |-> Fresh, by |-> 0]]
           /\ rows' = rows \cup {acct'} /\ oldKey' = Fresh /\ UNCHANGED records
  <2>1. /\ acct'.ver = 1 /\ acct'.wrap.dek = Fresh /\ acct'.epoch = acct.epoch
        /\ acct'.floor = acct.floor
    BY <1>3 DEF Typed, Rows
  <2>2. Fresh # None /\ acct.floor = 1
    BY DEF Fresh, Typed, None, OldSignIn
  <2>3. acct.epoch = 0 /\ \A a \in rows : a.epoch = 0 /\ a.ver \notin {1, 2}
    BY <1>3, <2>2 DEF Safe, RowsOk
  <2>3a. acct' \in Rows
    <3>1. ASSUME NEW n \in 0 .. 2, NEW w \in Wraps PROVE [acct EXCEPT !.ver = n, !.wrap = w] \in Rows
      BY DEF Rows, Typed
    <3>2. 1 \in 0 .. 2 /\ [dek |-> Fresh, by |-> 0] \in Wraps
      BY DEF Wraps, Fresh, Typed
    <3> QED BY <1>3, <3>1, <3>2, Zenon
  <2>4. RowsOk(rows', acct')
    <3>1. rows \subseteq Rows
      BY DEF Typed
    <3>r. rows' = rows \cup {acct'}
      BY <1>3
    <3>2. \A a \in rows' : a.epoch = 0 /\ a.ver # 2 /\ (a.ver = 1 => a = acct')
      BY <3>r, <2>1, <2>3
    <3>3. acct' \in rows' /\ rows' \subseteq Rows /\ acct'.epoch = 0
      BY <3>r, <2>1, <2>3, <2>3a, <3>1
    <3> QED BY <2>1, <2>2, <3>2, <3>3 DEF RowsOk
  <2>5. RecordsReadable'
    BY <1>3, <2>1 DEF Safe, RecordsReadable
  <2>6. V1Key(rows', oldKey')
    BY <1>3, <2>1 DEF V1Key
  <2>7. rows \subseteq rows'
    BY <1>3
  <2>8. \A e \in Devices : DeviceOk(rows, e)'
    BY <1>1, <2>7, UntouchedOk DEF Safe
  <2>9. /\ \A r \in late' : RequestOk(rows', r)
        /\ \A p \in Devices \cup {Old} : PushOk(rows', push'[p])
    BY <1>1, <2>7, AllGrows DEF Safe
  <2> QED BY <2>4, <2>5, <2>6, <2>8, <2>9 DEF Safe
<1> QED BY <1>2, <1>3 DEF OldSignIn

-----------------------------------------------------------------------------
(* The theorems.                                                             *)

\* The invariant holds at the start, whatever the version of the account.
LEMMA InitSafe == ASSUME Init PROVE Safe
<1>1. acct \in Rows /\ rows = {acct}
  BY NoneTyped DEF Init
<1>2. /\ acct.ver \in {0, 1, 2} /\ acct.verifier = None /\ acct.rev = 0
      /\ acct.ver = 0 => acct.epoch = 0 /\ acct.floor = 1 /\ acct.wrap.dek = None
      /\ acct.ver = 1 => acct.epoch = 0 /\ acct.floor = 1 /\ acct.wrap.dek = 1
      /\ acct.ver = 2 => acct.epoch = 1 /\ acct.floor = 2 /\ acct.wrap.dek = 1 /\ acct.wrap.by = 1
  <2>1. CASE acct = NoRow
    BY <2>1 DEF NoRow, NoWrap
  <2>2. CASE acct = [NoRow EXCEPT !.ver = 1, !.wrap = [dek |-> 1, by |-> 0]]
    BY <2>2 DEF NoRow
  <2>3. CASE acct = [NoRow EXCEPT !.ver = 2, !.epoch = 1, !.floor = 2, !.wrap = [dek |-> 1, by |-> 1]]
    BY <2>3 DEF NoRow
  <2> QED BY <2>1, <2>2, <2>3 DEF Init, InitRows
<1>3. RowsOk(rows, acct)
  BY <1>1, <1>2 DEF RowsOk, None
<1>4. RecordsReadable
  BY <1>2 DEF RecordsReadable, Init
<1> DEFINE n == ResolveVaultState(acct, NoVault, NoCache)
           t == ApplyVaultEpochFloor(acct, n.vault)
<1>5. /\ NoVault \in Vaults /\ NoCache \in Caches /\ NoVault.st = "none" /\ NoVault.wrap = NoWrap
      /\ NoRefresh.pc # "answered" /\ NoCache.dek = None
  BY NoneTyped DEF NoVault, NoRefresh, NoCache
<1>6. VaultOk(rows, NoVault) /\ CacheOk(rows, NoCache) /\ RowLike(rows, acct)
  BY <1>1, <1>5 DEF VaultOk, CacheOk, RowLike
<1>7. HoldsOk(rows, "authenticated", n.vault, n.cache, acct, NoRefresh)
  <2>0. "authenticated" # "out" /\ NoVault.st # "unlocked"
    BY <1>5
  <2>1. HoldsOk(rows, "authenticated", n.vault, n.cache, t, NoRefresh)
    BY <1>1, <1>3, <1>5, <1>6, <2>0, ResolveOk
  <2>2. t = acct \/ Ignores(acct, NoCache, n)
    BY <1>1, <1>3, <1>5, <1>6, <2>0, ResolveOk
  <2> HIDE DEF n, t
  <2>3. ~Ignores(acct, NoCache, n)
    BY <1>5 DEF Ignores
  <2> QED BY <2>1, <2>2, <2>3
<1>8. \A d \in Devices : /\ status[d] = "authenticated" /\ vault[d] = n.vault /\ cache[d] = n.cache
                         /\ session[d] = acct /\ refresh[d] = NoRefresh /\ op[d] = NoOp
  BY DEF Init
<1> HIDE DEF n
<1>9. \A d \in Devices : DeviceOk(rows, d)
  BY <1>7, <1>8, NoOpOk DEF DeviceOk
<1>10. \A p \in Devices \cup {Old} : PushOk(rows, push[p])
  BY NoPushOk DEF Init
<1> QED BY <1>3, <1>4, <1>9, <1>10 DEF Safe, Init

\* Every step keeps what is safe.
LEMMA StepSafe == ASSUME Typed, Safe, [Next]_vars PROVE Safe'
<1>1. CASE \E d \in Devices : \/ Start(d) \/ OpStep(d) \/ Fault(d)
                              \/ RefreshSession(d) \/ SessionStep(d) \/ SignIn(d)
                              \/ CaptureSyncContext(d)
  BY <1>1, StartOk, OpStepOk, GiveUpOk, RefreshFailsOk, LogoutOk, RestartOk, AskOk, BootstrapOk,
     PersistOk, CaptureOk DEF Fault, SessionStep
<1>2. CASE \E r \in late : ServeLate(r)
  BY <1>2, ServeLateOk
<1>3. CASE OldSignIn \/ OldPush
  BY <1>3, OldSignInOk, OldPushOk
<1>4. CASE \E p \in Devices \cup {Old} : PushStep(p)
  BY <1>4, PushCheckOk, ApplyOk DEF PushStep
<1>5. CASE UNCHANGED vars
  <2>1. UNCHANGED <<acct, records, rows, late, push, oldKey>> /\ \A e \in Devices : Untouched(e)
    BY <1>5 DEF vars, server, local, Untouched
  <2>2. \A e \in Devices : DeviceOk(rows, e)'
    BY <2>1, UntouchedOk DEF Safe
  <2> QED BY <2>1, <2>2 DEF Safe, RecordsReadable
<1> QED BY <1>1, <1>2, <1>3, <1>4, <1>5 DEF Next

\* The inductive invariant holds in every state of every behaviour.
THEOREM VaultInvariant == Spec => []VaultInv
<1>1. Init => Safe
  BY InitSafe
<1>2. Typed /\ Safe /\ [Next]_vars => Safe'
  BY StepSafe
<1>3. Spec => []Typed
  BY TypedInvariant
<1> QED BY <1>1, <1>2, <1>3, PTL DEF Spec, VaultInv

(* Whatever set-ups, resets, re-wraps and pushes with older leases are on the *)
(* wire together, of any number of devices: what lies on the server is        *)
(* encrypted under the vault's present key (validateVaultPushFenceTx).        *)
THEOREM RecordsStayReadable == Spec => []RecordsReadable
<1>1. VaultInv => RecordsReadable
  BY DEF VaultInv, Safe
<1> QED BY <1>1, VaultInvariant, PTL

(* No device ever mixes two generations of the vault: a key in memory, in the *)
(* keychain or in the stored session is that of the generation it is labelled *)
(* with (persistSession, captureSyncContext).                                 *)
THEOREM KeysAlwaysAgree == Spec => []KeysAgree
<1>1. VaultInv => KeysAgree
  <2> SUFFICES ASSUME VaultInv, NEW d \in Devices
               PROVE  /\ vault[d].st = "unlocked" => Holds(CacheOf(vault[d]))
                      /\ cache[d].wrap # NoWrap => Holds(cache[d])
                      /\ session[d].ver = 2 => \E a \in rows : a.ver = 2 /\ a.epoch = session[d].epoch
                                                           /\ a.wrap = session[d].wrap
    BY DEF KeysAgree
  <2>1. HoldsOk(rows, status[d], vault[d], cache[d], session[d], refresh[d]) /\ RowsOk(rows, acct)
        /\ session[d] \in Rows
    BY DEF VaultInv, Safe, DeviceOk, Typed
  <2>2. cache[d].wrap # NoWrap => Holds(cache[d])
    <3>1. cache[d].wrap # NoWrap => Known(rows, cache[d]) /\ cache[d].wrap.dek = cache[d].dek
      BY <2>1 DEF HoldsOk, CacheOk, NoCache
    <3> QED BY <3>1 DEF Holds, Known
  <2>3. vault[d].st = "unlocked" => Holds(CacheOf(vault[d]))
    <3> SUFFICES ASSUME vault[d].st = "unlocked" PROVE Holds(CacheOf(vault[d]))
      OBVIOUS
    <3>1. cache[d] = CacheOf(vault[d]) /\ Known(rows, vault[d])
      BY <2>1 DEF HoldsOk, VaultOk
    <3>2. cache[d].wrap # NoWrap
      BY <2>1, <3>1, KnownFacts DEF CacheOf
    <3> QED BY <2>2, <3>1, <3>2
  <2>4. session[d].ver = 2 => Known(rows, session[d])
    BY <2>1, RowLikeFacts DEF HoldsOk
  <2> QED BY <2>2, <2>3, <2>4 DEF Known
<1> QED BY <1>1, VaultInvariant, PTL

(* An unlocked device that is restarted without a network opens its stored    *)
(* session with the same key and wrapper (persistSynthesizedVaultDescriptor,  *)
(* restoreOfflineSession).                                                    *)
THEOREM RestartsKeepTheKey == Spec => []RestartKeeps
<1>1. VaultInv => RestartKeeps
  <2> SUFFICES ASSUME VaultInv, NEW d \in Devices, vault[d].st = "unlocked"
               PROVE  CacheOf(ResolveVaultState(session[d], NoVault, cache[d]).vault) = CacheOf(vault[d])
    BY DEF RestartKeeps
  <2> DEFINE b == session[d]
             k == cache[d]
             n == ResolveVaultState(b, NoVault, k)
  <2>1. HoldsOk(rows, status[d], vault[d], k, b, refresh[d]) /\ RowsOk(rows, acct)
        /\ b \in Rows /\ k \in Caches
    BY DEF VaultInv, Safe, DeviceOk, Typed
  <2>2. k = CacheOf(vault[d]) /\ Known(rows, vault[d]) /\ vault[d].wrap.dek = vault[d].dek
    BY <2>1 DEF HoldsOk, VaultOk
  <2>3. vault[d].wrap # NoWrap /\ vault[d].wrap.dek # None /\ vault[d].epoch \in Nat /\ vault[d].rev \in Nat
    BY <2>1, <2>2, KnownFacts
  <2>4. k.wrap # NoWrap /\ k.dek # None /\ k.wrap.dek = k.dek
    BY <2>2, <2>3 DEF CacheOf
  <2>5. Fits(b, k)
    BY <2>1, <2>4 DEF HoldsOk
  <2>6. b.verifier \in {None, k.dek}
    BY <2>1, <2>4, <2>5, RowLikeFacts DEF HoldsOk, Fits
  <2>7. b.ver = 2 /\ b.epoch = k.epoch /\ b.rev = k.rev /\ b.wrap = k.wrap
    BY <2>5 DEF Fits
  <2>8. ~IsOlder(b, k)
    BY <2>1, <2>7 DEF IsOlder, Rows, Caches
  <2>9. DecideVaultAccess(b, k) = "unlocked"
    <3>1. b.verifier = None \/ b.verifier = k.dek
      BY <2>6
    <3> HIDE DEF k, b
    <3> QED BY <2>4, <2>8, <3>1 DEF DecideVaultAccess
  <2>10. n = ResolveE2ee(b, NoVault, k, k)
    <3>1. NoVault.st # "unlocked"
      BY DEF NoVault
    <3> HIDE DEF k, b
    <3> QED BY <2>7, <3>1 DEF ResolveVaultState
  <2>11. n.vault = Unlocked(k.dek, b.epoch, b.rev, b.wrap)
    <3> HIDE DEF k, b
    <3> QED BY <2>9, <2>10 DEF ResolveE2ee
  <2>12. CacheOf(n.vault) = k
    <3> HIDE DEF n, k, b
    <3>1. n.vault = FromCache(k)
      BY <2>7, <2>11 DEF FromCache
    <3> QED BY <2>1, <3>1, CacheOfFromCache
  <2> QED BY <2>2, <2>12
<1> QED BY <1>1, VaultInvariant, PTL

\* Only its device takes an answer off the wire: to persist it, or to drop it.
LEMMA AnswerGoes ==
  ASSUME Typed, [Next]_vars, NEW d \in Devices, refresh[d].pc = "answered", refresh'[d].pc = "none"
  PROVE  PersistSession(d) \/ RefreshFails(d)
<1>1. Asked.pc = "asked"
  BY DEF Asked, NoRefresh
<1>2. refresh'[d] # refresh[d]
  OBVIOUS
<1>3. ASSUME NEW e \in Devices, AskRefresh(e) PROVE FALSE
  <2>1. refresh'[d] = refresh[d] \/ refresh'[d].pc # "none"
    BY <1>1, <1>3 DEF AskRefresh, Typed
  <2> QED BY <1>2, <2>1
<1>4. ASSUME NEW e \in Devices,
             \/ Start(e) \/ OpStep(e) \/ GiveUp(e) \/ Logout(e) \/ RefreshSession(e)
             \/ SignIn(e) \/ CaptureSyncContext(e)
      PROVE  FALSE
  <2>1. refresh' = refresh \/ AskRefresh(e)
    BY <1>4 DEF Start, SetupVault, MigrateVault, ResetVault, UnlockStart, ChangeStart, OpRest,
                OpStep, UnlockFinish, ChangeOpen, ChangeSend, Serve, Finish, SetupFinish, ChangeFinish, ResetFinish,
                FinishRefused, FinishIdle, GiveUp, Logout, RefreshSession, SignIn, CaptureSyncContext
  <2> QED BY <1>2, <1>3, <2>1
<1>5. ASSUME NEW e \in Devices, ResolveVaultBootstrap(e) \/ Restart(e) PROVE FALSE
  <2>1. CASE ResolveVaultBootstrap(e)
    BY <1>2, <2>1 DEF ResolveVaultBootstrap, Typed
  <2>2. CASE Restart(e)
    BY <1>1, <1>2, <2>2 DEF Restart, Typed
  <2> QED BY <1>5, <2>1, <2>2
<1>6. ASSUME NEW e \in Devices, PersistSession(e) \/ RefreshFails(e)
      PROVE  PersistSession(d) \/ RefreshFails(d)
  <2>1. CASE e # d
    <3>1. refresh'[d] = refresh[d]
      BY <1>6, <2>1 DEF PersistSession, RefreshFails, Typed
    <3> QED BY <1>2, <3>1
  <2> QED BY <1>6, <2>1
<1>7. ASSUME \/ \E r \in late : ServeLate(r)
             \/ OldSignIn \/ OldPush
             \/ \E p \in Devices \cup {Old} : PushStep(p)
             \/ UNCHANGED vars
      PROVE  FALSE
  <2>1. refresh' = refresh \/ \E e \in Devices : AskRefresh(e)
    BY <1>7 DEF ServeLate, OldSignIn, OldPush, PushStep, PushCheck, ApplyPushRecords, Refused, vars
  <2> QED BY <1>2, <1>3, <2>1
<1> QED BY <1>4, <1>5, <1>6, <1>7 DEF Next, Fault, SessionStep

\* Nothing a device holds is newer than the row.
LEMMA NowIsBelieved ==
  ASSUME NEW R, NEW now \in Rows, RowsOk(R, now), NEW k \in Caches, CacheOk(R, k), NEW n
  PROVE  ~Ignores(now, k, n)
<1> SUFFICES ASSUME Ignores(now, k, n) PROVE FALSE
  OBVIOUS
<1>1. RowLike(R, now)
  BY DEF RowsOk, RowLike
<1>2. Known(R, k)
  BY <1>1, IgnoresKnown
<1>3. PICK a \in R : a.ver = 2 /\ a.epoch = k.epoch /\ a.rev = k.rev
  BY <1>2 DEF Known
<1>4. a.epoch <= now.epoch /\ (a.epoch = now.epoch => a.rev <= now.rev)
  BY <1>3 DEF RowsOk
<1> QED BY <1>3, <1>4 DEF Ignores, IsOlder, Rows, Caches

(* An answer that is what the account is now is believed, whatever the device *)
(* has in memory, in the keychain and in its stored session: the rules that   *)
(* ignore late answers (decideVaultAccess, resolveVaultState) never leave a   *)
(* device on a vault of its own.                                              *)
THEOREM FreshAnswersAreBelieved == Spec => BelievesFresh
<1> DEFINE A == \A d \in Devices :
                  (refresh[d] = [pc |-> "answered", answer |-> acct] /\ refresh'[d].pc = "none"
                     /\ status'[d] = "authenticated" /\ acct' = acct) => Knows(d)'
<1>1. VaultInv /\ [Next]_vars => A
  <2> SUFFICES ASSUME VaultInv, [Next]_vars, NEW d \in Devices,
                      refresh[d] = [pc |-> "answered", answer |-> acct], refresh'[d].pc = "none",
                      status'[d] = "authenticated", acct' = acct
               PROVE  Knows(d)'
    OBVIOUS
  <2> DEFINE k == cache[d]
             n == ResolveVaultState(acct, vault[d], k)
  <2>1. refresh[d].pc = "answered" /\ refresh[d].answer = acct
    OBVIOUS
  <2>2. Typed /\ Safe /\ RowsOk(rows, acct) /\ acct \in Rows
        /\ HoldsOk(rows, status[d], vault[d], k, session[d], refresh[d])
    BY DEF VaultInv, Safe, DeviceOk, Typed
  <2>3. ~RefreshFails(d)
    BY <2>2 DEF RefreshFails, Typed
  <2>4. PersistSession(d)
    BY <2>1, <2>2, <2>3, AnswerGoes
  <2>5. vault'[d] = n.vault
    BY <2>1, <2>2, <2>4 DEF PersistSession, Typed
  <2>6. /\ vault[d] \in Vaults /\ k \in Caches /\ CacheOk(rows, k)
        /\ vault[d].st = "unlocked" => k = CacheOf(vault[d])
    BY <2>2 DEF Typed, HoldsOk
  <2>7. \/ Ignores(acct, k, n)
        \/ SetsUp(acct, n) \/ TakesLegacy(acct, n) \/ Locks(acct, n) \/ Unlocks(acct, k, n)
    BY <2>2, <2>6, ResolveOutcomes
  <2> HIDE DEF n
  <2>8. ~Ignores(acct, k, n)
    BY <2>2, <2>6, NowIsBelieved
  <2>9. CASE SetsUp(acct, n)
    <3>1. acct.ver = 0 /\ vault'[d] = Setup(acct.epoch)
      BY <2>5, <2>9 DEF SetsUp
    <3>2. vault'[d].st = "setup" /\ vault'[d].epoch = acct.epoch
      BY <3>1 DEF Setup, NoVault
    <3> QED BY <3>1, <3>2 DEF Knows
  <2>10. CASE TakesLegacy(acct, n)
    <3>1. acct.ver = 1 /\ vault'[d] = Legacy(acct)
      BY <2>5, <2>10 DEF TakesLegacy
    <3>2. vault'[d].st = "legacy" /\ vault'[d].epoch = acct.epoch
      BY <3>1 DEF Legacy, NoVault
    <3> QED BY <3>1, <3>2 DEF Knows
  <2>11. CASE Locks(acct, n)
    <3>1. acct.ver = 2 /\ vault'[d] = Locked(acct)
      BY <2>5, <2>11 DEF Locks
    <3>2. /\ vault'[d].st = "locked" /\ vault'[d].epoch = acct.epoch /\ vault'[d].rev = acct.rev
          /\ vault'[d].wrap = acct.wrap
      BY <3>1 DEF Locked, NoVault
    <3> QED BY <3>1, <3>2 DEF Knows
  <2>12. CASE Unlocks(acct, k, n)
    <3>1. acct.ver = 2 /\ vault'[d] = Unlocked(k.dek, acct.epoch, acct.rev, acct.wrap)
      BY <2>5, <2>12 DEF Unlocks
    <3>2. /\ vault'[d].st = "unlocked" /\ vault'[d].epoch = acct.epoch /\ vault'[d].rev = acct.rev
          /\ vault'[d].wrap = acct.wrap
      BY <3>1 DEF Unlocked
    <3> QED BY <3>1, <3>2 DEF Knows
  <2> QED BY <2>7, <2>8, <2>9, <2>10, <2>11, <2>12
<1> QED BY <1>1, VaultInvariant, PTL DEF Spec, BelievesFresh
-----------------------------------------------------------------------------
(* No device goes back.  A set-up, a change or a reset overwrites what the    *)
(* device holds by then, which a session answer may have renewed while the    *)
(* request was on its way: why is what it holds never newer than the answer?  *)
(* E is the epoch each key was made for; m is how many keys there are.        *)

\* A v2 row's key is made for its epoch; the v1 key is that of the first.
RowKeys(E, m, R) ==
  \A a \in R : /\ a.ver = 2 => E[a.wrap.dek] = a.epoch
               /\ a.ver = 1 => E[a.wrap.dek] = 1
               /\ a.ver # 0 => a.wrap.dek <= m
\* A request that would open a generation carries the key made for it.
WireOk(E, m, r) == r.kind = "create" => E[r.wrap.dek] = r.epoch + 1 /\ r.wrap.dek <= m
\* An accepted answer under way is not older than the key in the keychain.
AheadOk(E, m, v, c, o) ==
  /\ v.st = "legacy" => v.epoch = 0
  /\ o.pc = "sent" => WireOk(E, m, o.req)
  /\ o.pc = "answered" /\ o.ok => o.epoch >= 1 /\ (c.dek # None => E[c.dek] <= o.epoch)
KeysOk(E, m, R, L, v, c, o) ==
  /\ RowKeys(E, m, R) /\ \A r \in L : WireOk(E, m, r)
  /\ \A d \in Devices : AheadOk(E, m, v[d], c[d], o[d])
KeyInv == \E E \in [Nat -> Nat] : KeysOk(E, made, rows, late, vault, cache, op)

\* The key in the keychain is of a row: of the first epoch, or of the epoch it is labelled with.
LEMMA CacheKey ==
  ASSUME NEW E \in [Nat -> Nat], NEW m \in Nat, NEW R, NEW now \in Rows, RowsOk(R, now),
         RowKeys(E, m, R), NEW c \in Caches, CacheOk(R, c), c.dek # None
  PROVE  /\ c.dek <= m /\ E[c.dek] \in Nat
         /\ Known(R, c) => E[c.dek] = c.epoch
         /\ E[c.dek] <= now.epoch \/ E[c.dek] = 1
<1>1. CASE Known(R, c) /\ c.wrap.dek = c.dek
  <2>1. PICK a \in R : a.ver = 2 /\ a.epoch = c.epoch /\ a.wrap = c.wrap
    BY <1>1 DEF Known
  <2>2. E[c.dek] = a.epoch /\ c.dek <= m /\ a.epoch <= now.epoch
    BY <1>1, <2>1 DEF RowKeys, RowsOk
  <2> QED BY <2>1, <2>2 DEF Caches
<1>2. CASE c.wrap = NoWrap /\ V1Key(R, c.dek)
  <2>1. ~Known(R, c)
    BY <1>2, KnownFacts
  <2>2. PICK a \in R : a.ver = 1 /\ a.wrap.dek = c.dek
    BY <1>2 DEF V1Key
  <2>3. E[c.dek] = 1 /\ c.dek <= m
    BY <2>2 DEF RowKeys
  <2> QED BY <2>1, <2>3
<1>3. c # NoCache
  BY DEF NoCache
<1> QED BY <1>1, <1>2, <1>3 DEF CacheOk

\* A step of one device that makes no key.
LEMMA KeysOne ==
  ASSUME NEW E \in [Nat -> Nat], NEW m \in Nat, NEW n \in Nat, m <= n, NEW R, R \subseteq Rows,
         NEW L, L \subseteq Requests, NEW M, NEW v, NEW c, NEW o, NEW w, NEW x, NEW p,
         KeysOk(E, m, R, L, v, c, o), NEW d \in Devices,
         \A e \in Devices \ {d} : w[e] = v[e] /\ x[e] = c[e] /\ p[e] = o[e] /\ o[e] \in Ops,
         AheadOk(E, n, w[d], x[d], p[d]),
         \A r \in M : r \in L \/ (o[d].pc = "sent" /\ r = o[d].req), o[d] \in Ops
  PROVE  KeysOk(E, n, R, M, w, x, p)
<1>1. ASSUME NEW r \in Requests, WireOk(E, m, r) PROVE WireOk(E, n, r)
  <2>1. r.wrap.dek \in Nat
    BY DEF Requests, Wraps
  <2> QED BY <1>1, <2>1 DEF WireOk
<1>2. RowKeys(E, n, R)
  <2>1. \A a \in R : a.wrap.dek \in Nat
    BY DEF Rows, Wraps
  <2> QED BY <2>1 DEF KeysOk, RowKeys
<1>3. \A e \in Devices : o[e] \in Ops => o[e].req \in Requests
  BY DEF Ops
<1>4. \A r \in M : WireOk(E, n, r)
  BY <1>1, <1>3 DEF KeysOk, AheadOk
<1>5. \A e \in Devices \ {d} : AheadOk(E, n, w[e], x[e], p[e])
  BY <1>1, <1>3 DEF KeysOk, AheadOk
<1> QED BY <1>2, <1>4, <1>5 DEF KeysOk

\* A key that is new: nothing that is there is under it.
LEMMA KeyMade ==
  ASSUME Typed, Safe, NEW E \in [Nat -> Nat], NEW at \in Nat,
         KeysOk(E, made, rows, late, vault, cache, op)
  PROVE  LET F == [E EXCEPT ![made + 1] = at]
         IN  /\ F \in [Nat -> Nat] /\ F[made + 1] = at
             /\ KeysOk(F, made, rows, late, vault, cache, op)
<1> DEFINE F == [E EXCEPT ![made + 1] = at]
<1>0. made \in Nat /\ made + 1 \in Nat
  BY DEF Typed
<1>1. F \in [Nat -> Nat] /\ F[made + 1] = at /\ \A k \in Nat : k <= made => F[k] = E[k]
  BY <1>0
<1> SUFFICES F \in [Nat -> Nat] /\ F[made + 1] = at /\ KeysOk(F, made, rows, late, vault, cache, op)
  OBVIOUS
<1> HIDE DEF F
<1>2. RowKeys(F, made, rows)
  <2>1. \A a \in rows : a.ver \in 0 .. 2 /\ a.wrap.dek \in Nat
    BY DEF Typed, Rows, Wraps
  <2> QED BY <1>1, <2>1 DEF KeysOk, RowKeys
<1>3. ASSUME NEW r \in Requests, WireOk(E, made, r) PROVE WireOk(F, made, r)
  <2>1. r.wrap.dek \in Nat
    BY DEF Requests, Wraps
  <2> QED BY <1>1, <1>3, <2>1 DEF WireOk
<1>4. \A r \in late : WireOk(F, made, r)
  BY <1>3 DEF KeysOk, Typed
<1>5. ASSUME NEW d \in Devices PROVE AheadOk(F, made, vault[d], cache[d], op[d])
  <2>1. AheadOk(E, made, vault[d], cache[d], op[d]) /\ op[d].req \in Requests
    BY DEF KeysOk, Typed, Ops
  <2>2. cache[d].dek # None => cache[d].dek <= made
    BY <1>0, CacheKey DEF KeysOk, Typed, Safe, DeviceOk, HoldsOk
  <2>3. cache[d].dek \in Nat
    BY DEF Typed, Caches
  <2> QED BY <1>1, <1>3, <2>1, <2>2, <2>3 DEF AheadOk
<1> QED BY <1>1, <1>2, <1>4, <1>5 DEF KeysOk

\* The row a request leads to is under the key of its epoch.
LEMMA CommitKeys ==
  ASSUME Typed, Safe, NEW E \in [Nat -> Nat], RowKeys(E, made, rows),
         NEW r \in Requests, RequestOk(rows, r), WireOk(E, made, r), Commit(r)
  PROVE  /\ RowKeys(E, made, rows')
         /\ Accepts(acct, r) => acct'.epoch \in Nat /\ acct'.epoch >= 1 /\ acct'.epoch >= acct.epoch
<1>0. /\ acct \in Rows /\ acct \in rows /\ rows \subseteq Rows /\ acct.epoch \in Nat
      /\ rows' = rows \cup {acct'} /\ acct' = NewRow(r) /\ RowsOk(rows, acct)
  BY DEF Typed, Safe, RowsOk, Commit, Rows
<1>1. CASE ~Accepts(acct, r)
  <2>1. rows' = rows
    BY <1>0, <1>1 DEF NewRow
  <2> QED BY <1>1, <2>1
<1>2. CASE Accepts(acct, r) /\ r.kind = "create"
  <2>1. acct' = CreateUserVaultV2(acct, r) /\ acct.epoch = r.epoch
    BY <1>0, <1>2 DEF NewRow, Accepts, CreateOk
  <2>2. acct'.ver = 2 /\ acct'.epoch = acct.epoch + 1 /\ acct'.wrap = r.wrap
    BY <2>1 DEF CreateUserVaultV2
  <2>3. E[r.wrap.dek] = acct.epoch + 1 /\ r.wrap.dek <= made
    BY <1>2, <2>1 DEF WireOk
  <2> QED BY <1>0, <2>2, <2>3 DEF RowKeys
<1>3. CASE Accepts(acct, r) /\ r.kind = "update"
  <2>1. acct' = UpdateUserVaultV2(acct, r) /\ acct.ver = 2 /\ acct.wrap.dek = r.wrap.dek
    BY <1>0, <1>3, NewRowOk DEF NewRow
  <2>2. acct'.ver = 2 /\ acct'.epoch = acct.epoch /\ acct'.wrap = r.wrap
    BY <1>0, <2>1 DEF UpdateUserVaultV2, Rows
  <2>3. acct.epoch >= 1
    BY <1>0, <2>1 DEF RowsOk
  <2> QED BY <1>0, <2>1, <2>2, <2>3 DEF RowKeys
<1>4. CASE Accepts(acct, r) /\ r.kind = "reset"
  <2>1. acct' = ResetUserVault(acct, r)
    BY <1>0, <1>4 DEF NewRow
  <2>2. acct'.ver = 0 /\ acct'.epoch = acct.epoch + 1
    BY <2>1 DEF ResetUserVault
  <2> QED BY <1>0, <2>2 DEF RowKeys
<1> QED BY <1>1, <1>2, <1>3, <1>4 DEF Accepts

\* What a session answer, or the stored session, leaves in the keychain is what
\* was there, nothing, or the v1 key.
LEMMA ResolveKeys ==
  ASSUME Typed, Safe, NEW E \in [Nat -> Nat], KeysOk(E, made, rows, late, vault, cache, op),
         NEW d \in Devices, NEW b \in Rows, RowLike(rows, b)
  PROVE  LET n == ResolveVaultState(b, vault[d], cache[d])
         IN  /\ AheadOk(E, made, n.vault, n.cache, op[d])
             /\ vault[d].st = "unlocked" => n.vault.epoch >= vault[d].epoch
<1> DEFINE n == ResolveVaultState(b, vault[d], cache[d])
           k == cache[d]
<1>1. /\ RowsOk(rows, acct) /\ vault[d] \in Vaults /\ k \in Caches /\ CacheOk(rows, k) /\ op[d] \in Ops
      /\ VaultOk(rows, vault[d])
      /\ vault[d].st = "unlocked" => k = CacheOf(vault[d])
  BY DEF Typed, Safe, DeviceOk, HoldsOk
<1>2. AheadOk(E, made, vault[d], k, op[d])
  BY DEF KeysOk
<1>3. \/ Ignores(b, k, n)
      \/ NotLate(b, k) /\ (SetsUp(b, n) \/ TakesLegacy(b, n) \/ Locks(b, n) \/ Unlocks(b, k, n))
  BY <1>1, ResolveOutcomes
<1>4. op[d].epoch \in Nat /\ b.epoch \in Nat /\ k.epoch \in Nat
  BY <1>1 DEF Ops, Rows, Caches
<1>5. vault[d].st = "unlocked" => k.epoch = vault[d].epoch /\ k.dek # None
  <2> SUFFICES ASSUME vault[d].st = "unlocked" PROVE k.epoch = vault[d].epoch /\ k.dek # None
    OBVIOUS
  <2>1. Known(rows, vault[d]) /\ vault[d].wrap.dek = vault[d].dek /\ k = CacheOf(vault[d])
    BY <1>1 DEF VaultOk
  <2>2. vault[d].wrap.dek # None
    BY <1>1, <2>1, KnownFacts
  <2> QED BY <2>1, <2>2 DEF CacheOf
<1> SUFFICES /\ AheadOk(E, made, n.vault, n.cache, op[d])
             /\ vault[d].st = "unlocked" => n.vault.epoch >= vault[d].epoch
  OBVIOUS
<1> HIDE DEF n, k
<1>6. CASE Ignores(b, k, n)
  <2>1. n.vault.st = "unlocked" /\ n.vault.epoch = k.epoch /\ n.cache = k
    BY <1>6 DEF Ignores, CacheOf
  <2> QED BY <1>2, <1>4, <1>5, <2>1 DEF AheadOk
<1>7. CASE NotLate(b, k) /\ SetsUp(b, n)
  <2>1. n.vault = Setup(b.epoch) /\ n.cache = NoCache
    BY <1>7 DEF SetsUp
  <2>2. n.vault.st = "setup" /\ n.vault.epoch = b.epoch /\ n.cache.dek = None
    BY <2>1 DEF Setup, NoVault, NoCache
  <2> QED BY <1>2, <1>4, <1>5, <1>7, <2>2 DEF AheadOk, NotLate
<1>8. CASE NotLate(b, k) /\ TakesLegacy(b, n)
  <2>1. /\ n.vault = Legacy(b) /\ n.cache = [NoCache EXCEPT !.dek = b.wrap.dek, !.epoch = b.epoch]
        /\ b.ver = 1
    BY <1>8 DEF TakesLegacy
  <2>2. n.vault.epoch = b.epoch /\ n.cache.dek = b.wrap.dek
    BY <2>1 DEF Legacy, NoVault, NoCache
  <2>3. b \in rows /\ b.epoch = 0
    BY <1>1, <2>1, RowLikeFacts
  <2>4. E[b.wrap.dek] = 1
    BY <2>1, <2>3 DEF KeysOk, RowKeys
  <2> QED BY <1>2, <1>4, <1>5, <1>8, <2>2, <2>3, <2>4 DEF AheadOk, NotLate
<1>9. CASE NotLate(b, k) /\ Locks(b, n)
  <2>1. n.vault = Locked(b) /\ n.cache = NoCache
    BY <1>9 DEF Locks
  <2>2. n.vault.st = "locked" /\ n.vault.epoch = b.epoch /\ n.cache.dek = None
    BY <2>1 DEF Locked, NoVault, NoCache
  <2> QED BY <1>2, <1>4, <1>5, <1>9, <2>2 DEF AheadOk, NotLate
<1>10. CASE NotLate(b, k) /\ Unlocks(b, k, n)
  <2>1. /\ n.vault = Unlocked(k.dek, b.epoch, b.rev, b.wrap)
        /\ n.cache = CacheOf(Unlocked(k.dek, b.epoch, b.rev, b.wrap))
    BY <1>10 DEF Unlocks
  <2>2. n.vault.st = "unlocked" /\ n.vault.epoch = b.epoch /\ n.cache.dek = k.dek
    BY <2>1 DEF Unlocked, CacheOf
  <2> QED BY <1>2, <1>4, <1>5, <1>10, <2>2 DEF AheadOk, NotLate
<1> QED BY <1>3, <1>6, <1>7, <1>8, <1>9, <1>10
\* What a device holds in memory it changes itself, when a derivation, an answer
\* or its session ends.
LEMMA VaultMoves ==
  ASSUME Typed, [Next]_vars, NEW d \in Devices, vault'[d] # vault[d], vault'[d].st # "none"
  PROVE  UnlockFinish(d) \/ Finish(d) \/ PersistSession(d) \/ RefreshFails(d)
<1>1. vault' # vault
  OBVIOUS
<1>2. ASSUME NEW e \in Devices,
             \/ Start(e) \/ ChangeOpen(e) \/ ChangeSend(e) \/ Serve(e) \/ GiveUp(e) \/ RefreshSession(e)
             \/ ResolveVaultBootstrap(e) \/ SignIn(e) \/ CaptureSyncContext(e)
      PROVE  FALSE
  BY <1>1, <1>2 DEF Start, SetupVault, MigrateVault, ResetVault, UnlockStart, ChangeStart, OpRest,
                    ChangeOpen, ChangeSend, Serve, GiveUp, RefreshSession, ResolveVaultBootstrap, SignIn,
                    CaptureSyncContext, PushRest, local
<1>3. ASSUME NEW e \in Devices, Logout(e) \/ Restart(e) PROVE FALSE
  <2>1. vault' = [vault EXCEPT ![e] = NoVault] /\ NoVault.st = "none"
    BY <1>3 DEF Logout, Restart, NoVault
  <2> QED BY <2>1 DEF Typed
<1>4. ASSUME NEW e \in Devices, UnlockFinish(e) \/ Finish(e) \/ PersistSession(e) \/ RefreshFails(e)
      PROVE  e = d
  <2>1. \A f \in Devices \ {e} : vault'[f] = vault[f]
    BY <1>4 DEF UnlockFinish, Finish, SetupFinish, ChangeFinish, ResetFinish, FinishRefused, FinishIdle,
                Adopt, PersistSession, RefreshFails, Typed
  <2> QED BY <2>1
<1>5. ASSUME \/ \E r \in late : ServeLate(r)
             \/ OldSignIn \/ OldPush
             \/ \E p \in Devices \cup {Old} : PushStep(p)
             \/ UNCHANGED vars
      PROVE  FALSE
  BY <1>1, <1>5 DEF ServeLate, OldSignIn, OldPush, PushStep, PushCheck, ApplyPushRecords, PushRest,
                    vars, local
<1> QED BY <1>2, <1>3, <1>4, <1>5 DEF Next, OpStep, Fault, SessionStep

\* A step of a device after which no answer of its is under way.
LEMMA DeviceKeys ==
  ASSUME Typed, NEW E \in [Nat -> Nat], KeysOk(E, made, rows, late, vault, cache, op),
         NEW d \in Devices, rows' = rows, made' \in {made, made + 1},
         \A e \in Devices \ {d} : vault'[e] = vault[e] /\ cache'[e] = cache[e] /\ op'[e] = op[e],
         vault'[d].st = "legacy" => vault'[d] = vault[d],
         op'[d].pc = "sent" => WireOk(E, made', op'[d].req), op'[d].pc # "answered",
         \A r \in late' : r \in late \/ (op[d].pc = "sent" /\ r = op[d].req)
  PROVE  KeyInv'
<1>1. /\ made \in Nat /\ made' \in Nat /\ made <= made' /\ rows \subseteq Rows /\ late \subseteq Requests
      /\ \A e \in Devices : op[e] \in Ops
  BY DEF Typed
<1>2. AheadOk(E, made', vault'[d], cache'[d], op'[d])
  BY DEF AheadOk, KeysOk
<1>3. KeysOk(E, made', rows, late', vault', cache', op')
  BY <1>1, <1>2, KeysOne
<1> QED BY <1>3 DEF KeyInv

\* Beginning a vault operation: a set-up makes a key, for the next epoch; a
\* migration carries the v1 key into the first.
LEMMA StartKeys ==
  ASSUME Typed, Safe, KeyInv, NEW d \in Devices, Start(d) PROVE KeyInv'
<1>0. PICK E \in [Nat -> Nat] : KeysOk(E, made, rows, late, vault, cache, op)
  BY DEF KeyInv
<1>1. /\ UNCHANGED <<rows, late, vault, cache>> /\ made' \in {made, made + 1} /\ made \in Nat
      /\ \A e \in Devices \ {d} : op'[e] = op[e]
      /\ \A e \in Devices : op[e] \in Ops
      /\ rows \subseteq Rows /\ late \subseteq Requests
  BY DEF Start, SetupVault, MigrateVault, ResetVault, UnlockStart, ChangeStart, OpRest, Send, Derive,
         server, local, counters, Typed
<1>2. ASSUME NEW F \in [Nat -> Nat], KeysOk(F, made, rows, late, vault, cache, op),
             op'[d].pc = "sent" => WireOk(F, made', op'[d].req), op'[d].pc # "answered"
      PROVE  KeyInv'
  BY <1>1, <1>2, DeviceKeys
<1>3. CASE SetupVault(d)
  <2>0. vault[d].epoch \in Nat /\ vault[d].epoch + 1 \in Nat
    BY DEF Typed, Vaults
  <2>1. PICK F \in [Nat -> Nat] : /\ F[made + 1] = vault[d].epoch + 1
                                  /\ KeysOk(F, made, rows, late, vault, cache, op)
    BY <1>0, <2>0, KeyMade
  <2>2. PICK r : r = [NoRequest EXCEPT !.kind = "create", !.epoch = vault[d].epoch,
                                       !.wrap = [dek |-> Fresh, by |-> Fresh]]
    OBVIOUS
  <2>3. r.epoch = vault[d].epoch /\ r.wrap.dek = made + 1 /\ made' = made + 1
    BY <1>3, <2>2 DEF NoRequest, Fresh, SetupVault
  <2>4. Send(d, "setup", r)
    BY <1>3, <2>2 DEF SetupVault
  <2>5. op'[d].pc = "sent" /\ op'[d].req = r
    BY <2>4 DEF Send, Typed, NoOp
  <2>6. WireOk(F, made', r)
    BY <1>1, <2>1, <2>3 DEF WireOk
  <2> QED BY <1>2, <2>1, <2>5, <2>6
<1>4. CASE MigrateVault(d)
  <2>1. /\ vault[d].epoch = 0 /\ session[d].ver = 1 /\ RowLike(rows, session[d]) /\ session[d] \in Rows
        /\ RowsOk(rows, acct)
    BY <1>0, <1>4 DEF MigrateVault, KeysOk, AheadOk, Safe, DeviceOk, HoldsOk, Typed
  <2>2. session[d] \in rows
    BY <2>1, RowLikeFacts
  <2>3. E[session[d].wrap.dek] = 1 /\ session[d].wrap.dek <= made /\ session[d].wrap.dek \in Nat
    BY <1>0, <2>1, <2>2 DEF KeysOk, RowKeys, Rows, Wraps
  <2>4. PICK r : r = [NoRequest EXCEPT !.kind = "create", !.epoch = vault[d].epoch,
                                       !.wrap = [dek |-> session[d].wrap.dek, by |-> Fresh]]
    OBVIOUS
  <2>5. r.epoch = 0 /\ r.wrap.dek = session[d].wrap.dek
    BY <2>1, <2>4 DEF NoRequest
  <2>6. Send(d, "setup", r)
    BY <1>4, <2>4 DEF MigrateVault
  <2>7. op'[d].pc = "sent" /\ op'[d].req = r
    BY <2>6 DEF Send, Typed, NoOp
  <2>8. WireOk(E, made', r)
    BY <1>1, <2>3, <2>5 DEF WireOk
  <2> QED BY <1>0, <1>2, <2>7, <2>8
<1>5. CASE ResetVault(d)
  <2>1. PICK r : r = [NoRequest EXCEPT !.kind = "reset", !.epoch = vault[d].epoch]
    OBVIOUS
  <2>2. r.kind = "reset"
    BY <2>1 DEF NoRequest
  <2>3. Send(d, "reset", r)
    BY <1>5, <2>1 DEF ResetVault
  <2>4. op'[d].pc = "sent" /\ op'[d].req = r
    BY <2>3 DEF Send, Typed, NoOp
  <2> QED BY <1>0, <1>2, <2>2, <2>4 DEF WireOk
<1>6. CASE UnlockStart(d) \/ ChangeStart(d)
  <2>1. PICK kind : Derive(d, kind)
    BY <1>6 DEF UnlockStart, ChangeStart
  <2>2. op'[d].pc = "derive"
    BY <2>1 DEF Derive, Typed, NoOp
  <2> QED BY <1>0, <1>2, <2>2
<1> QED BY <1>3, <1>4, <1>5, <1>6 DEF Start

\* A step of a device after which no create request and no answer of its is under way.
LEMMA QuietKeys ==
  ASSUME Typed, KeyInv, NEW d \in Devices, rows' = rows, made' \in {made, made + 1},
         \A e \in Devices \ {d} : vault'[e] = vault[e] /\ cache'[e] = cache[e] /\ op'[e] = op[e],
         vault'[d].st = "legacy" => vault'[d] = vault[d],
         op'[d].pc = "sent" => op'[d].req.kind # "create", op'[d].pc # "answered",
         \A r \in late' : r \in late \/ (op[d].pc = "sent" /\ r = op[d].req)
  PROVE  KeyInv'
<1>1. PICK E \in [Nat -> Nat] : KeysOk(E, made, rows, late, vault, cache, op)
  BY DEF KeyInv
<1>2. op'[d].pc = "sent" => WireOk(E, made', op'[d].req)
  BY DEF WireOk
<1> QED BY <1>1, <1>2, DeviceKeys

\* Derivations, and answers that are taken.
LEMMA OpKeys ==
  ASSUME Typed, Safe, KeyInv, NEW d \in Devices,
         UnlockFinish(d) \/ ChangeOpen(d) \/ ChangeSend(d) \/ Finish(d) \/ GiveUp(d) \/ Restart(d)
  PROVE  KeyInv'
<1>0. NoOp.pc = "none" /\ NoVault.st = "none" /\ made \in Nat
  BY DEF NoOp, NoVault, Typed
<1>00. /\ op' = [op EXCEPT ![d] = NoOp] => op'[d].pc = "none" /\ \A e \in Devices \ {d} : op'[e] = op[e]
       /\ \A kind, e, i, f, w :
            Send(d, kind, [kind |-> "update", epoch |-> e, rev |-> i, verifier |-> f, wrap |-> w])
              => /\ op'[d].pc = "sent" /\ op'[d].req.kind = "update"
                 /\ \A g \in Devices \ {d} : op'[g] = op[g]
  <2>1. op' = [op EXCEPT ![d] = NoOp] => op'[d].pc = "none" /\ \A e \in Devices \ {d} : op'[e] = op[e]
    BY <1>0 DEF Typed
  <2>2. ASSUME NEW kind, NEW r, Send(d, kind, r)
        PROVE  op'[d].pc = "sent" /\ op'[d].req = r /\ \A e \in Devices \ {d} : op'[e] = op[e]
    BY <2>2 DEF Send, Typed, NoOp
  <2> QED BY <2>1, <2>2
<1>1. CASE UnlockFinish(d)
  <2> DEFINE v == vault[d]
             u == Unlocked(v.wrap.dek, v.epoch, v.rev, v.wrap)
  <2>1. /\ UNCHANGED <<rows, late, made>>
        /\ vault' = [vault EXCEPT ![d] = u] \/ vault' = vault
        /\ \A e \in Devices \ {d} : cache'[e] = cache[e]
    BY <1>1 DEF UnlockFinish, server, counters, Typed
  <2>2. u.st = "unlocked"
    BY DEF Unlocked
  <2> HIDE DEF u
  <2>3. /\ vault'[d] \in {u, vault[d]} /\ \A e \in Devices \ {d} : vault'[e] = vault[e]
    BY <2>1 DEF Typed
  <2>4. \/ op' = [op EXCEPT ![d] = NoOp]
        \/ Send(d, "backfill", [kind |-> "update", epoch |-> v.epoch, rev |-> v.rev,
                                verifier |-> None, wrap |-> v.wrap])
    BY <1>1 DEF UnlockFinish
  <2>5. /\ op'[d].pc # "answered" /\ (op'[d].pc = "sent" => op'[d].req.kind = "update")
        /\ \A e \in Devices \ {d} : op'[e] = op[e]
    BY <1>00, <2>4
  <2> QED BY <2>1, <2>2, <2>3, <2>5, QuietKeys
<1>2. CASE ChangeSend(d)
  <2>1. UNCHANGED <<rows, late, vault, cache>> /\ made' \in {made, made + 1}
    BY <1>2 DEF ChangeSend, OpRest, server, local
  <2>2. \/ op' = [op EXCEPT ![d] = NoOp]
        \/ Send(d, "change", [kind |-> "update", epoch |-> vault[d].epoch, rev |-> vault[d].rev,
                              verifier |-> vault[d].verifier, wrap |-> [dek |-> vault[d].dek, by |-> Fresh]])
    BY <1>2 DEF ChangeSend
  <2>3. /\ op'[d].pc # "answered" /\ (op'[d].pc = "sent" => op'[d].req.kind = "update")
        /\ \A e \in Devices \ {d} : op'[e] = op[e]
    BY <1>00, <2>2
  <2> QED BY <2>1, <2>3, QuietKeys
<1>3. CASE Finish(d)
  <2>1. UNCHANGED <<rows, late, made>> /\ op' = [op EXCEPT ![d] = NoOp]
    BY <1>3 DEF Finish, SetupFinish, ChangeFinish, ResetFinish, FinishRefused, FinishIdle, Answer,
                server, counters
  <2>2. op'[d].pc = "none" /\ \A e \in Devices \ {d} : op'[e] = op[e]
    BY <1>0, <2>1 DEF Typed
  <2>3. \A e \in Devices \ {d} : vault'[e] = vault[e] /\ cache'[e] = cache[e]
    BY <1>3 DEF Finish, SetupFinish, ChangeFinish, ResetFinish, FinishRefused, FinishIdle, Adopt, Typed
  <2>4. vault'[d].st = "legacy" => vault'[d] = vault[d]
    <3>1. \/ \E k, e, r, w : vault'[d] = Unlocked(k, e, r, w)
          \/ \E e : vault'[d] = Setup(e)
          \/ vault'[d] = vault[d]
      BY <1>3 DEF Finish, SetupFinish, ChangeFinish, ResetFinish, FinishRefused, FinishIdle, Adopt, Typed
    <3>2. \A k, e, r, w : Unlocked(k, e, r, w).st = "unlocked"
      BY DEF Unlocked
    <3>3. \A e : Setup(e).st = "setup"
      BY DEF Setup, NoVault
    <3> QED BY <3>1, <3>2, <3>3
  <2> QED BY <2>1, <2>2, <2>3, <2>4, QuietKeys
<1>4. CASE GiveUp(d)
  <2>1. UNCHANGED <<rows, made, vault, cache>> /\ op'[d] = NoOp
        /\ late' = (IF op[d].pc = "sent" THEN late \cup {op[d].req} ELSE late)
        /\ \A e \in Devices \ {d} : op'[e] = op[e]
    BY <1>4 DEF GiveUp, server, local, Typed
  <2> QED BY <1>0, <2>1, QuietKeys
<1>5. CASE Restart(d)
  <2>1. UNCHANGED <<rows, made, cache>> /\ op'[d] = NoOp /\ vault'[d] = NoVault
        /\ late' = (IF op[d].pc = "sent" THEN late \cup {op[d].req} ELSE late)
        /\ \A e \in Devices \ {d} : op'[e] = op[e] /\ vault'[e] = vault[e]
    BY <1>5 DEF Restart, server, Typed
  <2> QED BY <1>0, <2>1, QuietKeys
<1>6. CASE ChangeOpen(d)
  <2>1. UNCHANGED <<rows, late, made, vault, cache>> /\ \A e \in Devices \ {d} : op'[e] = op[e]
    BY <1>6 DEF ChangeOpen, OpRest, server, local, counters, Typed
  <2>2. op'[d].pc \in {"none", "rewrap"}
    BY <1>0, <1>6 DEF ChangeOpen, Typed, Ops
  <2> QED BY <2>1, <2>2, QuietKeys
<1> QED BY <1>1, <1>2, <1>3, <1>4, <1>5, <1>6

\* A step of a device that only changes what it holds.
LEMMA HeldKeys ==
  ASSUME Typed, NEW E \in [Nat -> Nat], KeysOk(E, made, rows, late, vault, cache, op), NEW d \in Devices,
         UNCHANGED <<rows, made, late, op>>,
         \A e \in Devices \ {d} : vault'[e] = vault[e] /\ cache'[e] = cache[e],
         AheadOk(E, made, vault'[d], cache'[d], op[d])
  PROVE  KeyInv'
<1>1. KeysOk(E, made, rows, late, vault', cache', op)
  BY DEF KeysOk
<1> QED BY <1>1 DEF KeyInv

\* Sessions that are answered, restored or ended.
LEMMA SessionKeys ==
  ASSUME Typed, Safe, KeyInv, NEW d \in Devices, PersistSession(d) \/ RefreshFails(d) \/ Logout(d)
  PROVE  KeyInv'
<1>0. PICK E \in [Nat -> Nat] : KeysOk(E, made, rows, late, vault, cache, op)
  BY DEF KeyInv
<1>1. UNCHANGED <<rows, made, late, op>> /\ AheadOk(E, made, vault[d], cache[d], op[d])
  BY <1>0 DEF PersistSession, RefreshFails, Logout, SessionRest, server, KeysOk
<1>2. \A e \in Devices \ {d} : vault'[e] = vault[e] /\ cache'[e] = cache[e]
  BY DEF PersistSession, RefreshFails, Logout, Typed
<1>3. AheadOk(E, made, vault'[d], cache'[d], op[d])
  <2>1. CASE PersistSession(d)
    <3>1. refresh[d].answer \in Rows /\ RowLike(rows, refresh[d].answer)
      BY <2>1 DEF PersistSession, Safe, DeviceOk, HoldsOk, RowsOk, RowLike
    <3>2. PICK n : n = ResolveVaultState(refresh[d].answer, vault[d], cache[d])
      OBVIOUS
    <3>3. vault'[d] = n.vault /\ cache'[d] = n.cache
      BY <2>1, <3>2 DEF PersistSession, Typed
    <3>4. AheadOk(E, made, n.vault, n.cache, op[d])
      BY <1>0, <3>1, <3>2, ResolveKeys
    <3> QED BY <3>3, <3>4
  <2>2. CASE RefreshFails(d)
    <3>1. session[d] \in Rows /\ RowLike(rows, session[d])
      BY DEF Safe, DeviceOk, HoldsOk, Typed
    <3>2. PICK n : n = ResolveVaultState(session[d], vault[d], cache[d])
      OBVIOUS
    <3>3. (vault'[d] = n.vault /\ cache'[d] = n.cache) \/ (vault'[d] = vault[d] /\ cache'[d] = cache[d])
      BY <2>2, <3>2 DEF RefreshFails, Typed
    <3>4. AheadOk(E, made, n.vault, n.cache, op[d])
      BY <1>0, <3>1, <3>2, ResolveKeys
    <3> QED BY <1>1, <3>3, <3>4
  <2>3. CASE Logout(d)
    <3>1. vault'[d] = NoVault /\ cache'[d] = cache[d] /\ NoVault.st = "none"
      BY <2>3 DEF Logout, Typed, NoVault
    <3> QED BY <1>1, <3>1 DEF AheadOk
  <2> QED BY <2>1, <2>2, <2>3
<1> QED BY <1>0, <1>1, <1>2, <1>3, HeldKeys

\* The server: an accepted request gets the epoch its key was made for.
LEMMA ServeKeys ==
  ASSUME Typed, Safe, KeyInv, NEW d \in Devices, Serve(d) PROVE KeyInv'
<1>0. PICK E \in [Nat -> Nat] : KeysOk(E, made, rows, late, vault, cache, op)
  BY DEF KeyInv
<1>1. PICK r \in Requests : r = op[d].req
  BY DEF Typed, Ops
<1>2. RequestOk(rows, r) /\ WireOk(E, made, r) /\ Commit(r) /\ RowKeys(E, made, rows)
  BY <1>0, <1>1 DEF Serve, Safe, DeviceOk, OpOk, KeysOk, AheadOk
<1>3. /\ RowKeys(E, made, rows')
      /\ Accepts(acct, r) => acct'.epoch \in Nat /\ acct'.epoch >= 1 /\ acct'.epoch >= acct.epoch
  BY <1>2, CommitKeys
<1>4. /\ UNCHANGED <<made, late, vault, cache>> /\ \A e \in Devices \ {d} : op'[e] = op[e]
      /\ op'[d].pc = "answered" /\ op'[d].ok = Accepts(acct, r) /\ op'[d].epoch = acct'.epoch
  <2>1. op'[d] = [op[d] EXCEPT !.pc = "answered", !.ok = Accepts(acct, r),
                               !.epoch = acct'.epoch, !.rev = acct'.rev]
    BY <1>1, <1>2 DEF Serve, Commit, Typed
  <2>2. op[d] \in Ops
    BY DEF Typed
  <2>3. op'[d].pc = "answered" /\ op'[d].ok = Accepts(acct, r) /\ op'[d].epoch = acct'.epoch
    BY <2>1, <2>2 DEF Ops
  <2> QED BY <2>3 DEF Serve, local, counters, Typed
<1>5. AheadOk(E, made, vault'[d], cache'[d], op'[d])
  <2>1. /\ cache[d] \in Caches /\ CacheOk(rows, cache[d]) /\ RowsOk(rows, acct) /\ acct \in Rows
        /\ made \in Nat /\ acct.epoch \in Nat
    BY DEF Typed, Safe, DeviceOk, HoldsOk, Rows
  <2>2. cache[d].dek # None => /\ E[cache[d].dek] \in Nat
                               /\ E[cache[d].dek] <= acct.epoch \/ E[cache[d].dek] = 1
    <3> SUFFICES ASSUME cache[d].dek # None
                 PROVE  /\ E[cache[d].dek] \in Nat
                        /\ E[cache[d].dek] <= acct.epoch \/ E[cache[d].dek] = 1
      OBVIOUS
    <3>1. PICK c \in Caches : c = cache[d]
      BY <2>1
    <3>2. E[c.dek] \in Nat /\ (E[c.dek] <= acct.epoch \/ E[c.dek] = 1)
      BY <1>2, <2>1, <3>1, CacheKey
    <3> QED BY <3>1, <3>2
  <2>3. AheadOk(E, made, vault[d], cache[d], op[d])
    BY <1>0 DEF KeysOk
  <2> QED BY <1>3, <1>4, <2>1, <2>2, <2>3 DEF AheadOk
<1>6. KeysOk(E, made, rows', late, vault', cache', op')
  BY <1>0, <1>3, <1>4, <1>5 DEF KeysOk
<1> QED BY <1>4, <1>6 DEF KeyInv

\* A request served after its sender is gone.
LEMMA ServeLateKeys ==
  ASSUME Typed, Safe, KeyInv, NEW r \in late, ServeLate(r) PROVE KeyInv'
<1>0. PICK E \in [Nat -> Nat] : KeysOk(E, made, rows, late, vault, cache, op)
  BY DEF KeyInv
<1>1. /\ UNCHANGED <<made, vault, cache, op>> /\ late' \subseteq late /\ Commit(r) /\ r \in Requests
      /\ RequestOk(rows, r) /\ WireOk(E, made, r) /\ RowKeys(E, made, rows)
  BY <1>0 DEF ServeLate, local, counters, Typed, Safe, KeysOk
<1>2. RowKeys(E, made, rows')
  BY <1>1, CommitKeys
<1>3. KeysOk(E, made, rows', late', vault, cache, op)
  BY <1>0, <1>1, <1>2 DEF KeysOk
<1> QED BY <1>1, <1>3 DEF KeyInv

\* The old client's sign-in may make the v1 key.
LEMMA OldSignInKeys ==
  ASSUME Typed, Safe, KeyInv, OldSignIn PROVE KeyInv'
<1>0. PICK E \in [Nat -> Nat] : KeysOk(E, made, rows, late, vault, cache, op)
  BY DEF KeyInv
<1>1. UNCHANGED <<late, vault, cache, op>> /\ made \in Nat /\ rows \subseteq Rows /\ late \subseteq Requests
      /\ acct \in Rows /\ \A e \in Devices : op[e].req \in Requests
  BY DEF OldSignIn, local, Typed, Ops
<1>2. CASE UNCHANGED <<rows, made>>
  BY <1>0, <1>1, <1>2 DEF KeyInv
<1>3. CASE /\ made' = made + 1 /\ rows' = rows \cup {acct'}
           /\ acct' = [acct EXCEPT !.ver = 1, !.wrap = [dek |-> Fresh, by |-> 0]]
  <2>1. PICK F \in [Nat -> Nat] : /\ F[made + 1] = 1
                                  /\ KeysOk(F, made, rows, late, vault, cache, op)
    BY <1>0, KeyMade
  <2>2. acct'.ver = 1 /\ acct'.wrap.dek = made + 1
    BY <1>1, <1>3 DEF Rows, Fresh
  <2>3. \A a \in rows : a.wrap.dek \in Nat
    BY <1>1 DEF Rows, Wraps
  <2>4. RowKeys(F, made', rows')
    <3>1. ASSUME NEW a \in rows PROVE RowKeys(F, made', {a})
      <4>1. RowKeys(F, made, rows)
        BY <2>1 DEF KeysOk
      <4>2. a.wrap.dek \in Nat /\ made' = made + 1 /\ made \in Nat
        BY <1>1, <1>3, <2>3
      <4> QED BY <4>1, <4>2 DEF RowKeys
    <3>2. RowKeys(F, made', {acct'})
      <4>1. made' = made + 1 /\ made' <= made' /\ F[made'] = 1 /\ acct'.wrap.dek = made' /\ acct'.ver = 1
        BY <1>1, <1>3, <2>1, <2>2
      <4> QED BY <4>1 DEF RowKeys
    <3> QED BY <1>3, <3>1, <3>2 DEF RowKeys
  <2>5. ASSUME NEW r \in Requests, WireOk(F, made, r) PROVE WireOk(F, made', r)
    <3>1. r.wrap.dek \in Nat
      BY DEF Requests, Wraps
    <3> QED BY <1>1, <1>3, <2>5, <3>1 DEF WireOk
  <2>6. KeysOk(F, made', rows', late, vault, cache, op)
    BY <1>1, <2>1, <2>4, <2>5 DEF KeysOk, AheadOk
  <2> QED BY <1>1, <2>6 DEF KeyInv
<1> QED BY <1>2, <1>3 DEF OldSignIn, server

\* Every step keeps it.
LEMMA StepKeys == ASSUME Typed, Safe, KeyInv, [Next]_vars PROVE KeyInv'
<1>1. ASSUME UNCHANGED <<rows, made, late, vault, cache, op>> PROVE KeyInv'
  BY <1>1 DEF KeyInv
<1>2. ASSUME NEW d \in Devices, RefreshSession(d) \/ ResolveVaultBootstrap(d) \/ SignIn(d) \/ CaptureSyncContext(d)
      PROVE  KeyInv'
  BY <1>1, <1>2 DEF RefreshSession, ResolveVaultBootstrap, SignIn, CaptureSyncContext, SessionRest,
                    PushRest, server, local, counters
<1>3. CASE OldPush \/ \E p \in Devices \cup {Old} : PushStep(p)
  BY <1>1, <1>3 DEF OldPush, PushStep, PushCheck, ApplyPushRecords, PushRest, server, local, counters
<1>4. CASE UNCHANGED vars
  BY <1>1, <1>4 DEF vars, server, local, counters
<1> QED BY <1>2, <1>3, <1>4, StartKeys, OpKeys, SessionKeys, ServeKeys, ServeLateKeys, OldSignInKeys
           DEF Next, OpStep, Fault, SessionStep

(* No answer takes an unlocked device back to an older vault, of any number   *)
(* of devices and whatever is late: neither a session answer, nor the answer  *)
(* to its own set-up, change or reset, for which the device may have taken up *)
(* a newer key meanwhile (persistSession, setupVault, resetVault).            *)
THEOREM NeverGoesBack == Spec => NeverBack
<1> DEFINE A == \A d \in Devices : vault[d].st = "unlocked" /\ vault'[d].st # "none" =>
                  vault'[d].epoch >= vault[d].epoch
<1>1. Init => KeyInv
  <2> SUFFICES ASSUME Init PROVE KeyInv
    OBVIOUS
  <2>1. PICK E \in [Nat -> Nat] : \A k \in Nat : E[k] = 1
    <3>1. [k \in Nat |-> 1] \in [Nat -> Nat]
      OBVIOUS
    <3> QED BY <3>1
  <2>2. /\ rows = {acct} /\ acct \in Rows /\ made = 1 /\ late = {}
        /\ \A d \in Devices : op[d] = NoOp
    BY NoneTyped DEF Init
  <2>3. /\ acct.ver = 1 => acct.epoch = 0 /\ acct.wrap.dek = 1
        /\ acct.ver = 2 => acct.epoch = 1 /\ acct.wrap.dek = 1
        /\ acct.ver \in {0, 1, 2}
    <3>1. CASE acct = NoRow
      BY <3>1 DEF NoRow, NoWrap
    <3>2. CASE acct = [NoRow EXCEPT !.ver = 1, !.wrap = [dek |-> 1, by |-> 0]]
      BY <3>2 DEF NoRow
    <3>3. CASE acct = [NoRow EXCEPT !.ver = 2, !.epoch = 1, !.floor = 2, !.wrap = [dek |-> 1, by |-> 1]]
      BY <3>3 DEF NoRow
    <3> QED BY <3>1, <3>2, <3>3 DEF Init, InitRows
  <2>4. RowKeys(E, made, rows)
    BY <2>1, <2>2, <2>3 DEF RowKeys
  <2>5. \A d \in Devices : vault[d].st = "legacy" => vault[d].epoch = 0
    <3>1. PICK n : n = ResolveVaultState(acct, NoVault, NoCache)
      OBVIOUS
    <3>2. /\ NoVault \in Vaults /\ NoCache \in Caches /\ NoVault.st = "none" /\ NoCache.dek = None
      BY NoneTyped DEF NoVault, NoCache
    <3>3. SetsUp(acct, n) \/ TakesLegacy(acct, n) \/ Locks(acct, n) \/ Unlocks(acct, NoCache, n)
      BY <2>2, <3>1, <3>2, ResolveOutcomes DEF Ignores
    <3>4. n.vault.st = "legacy" => n.vault.epoch = acct.epoch /\ acct.ver = 1
      <4>1. /\ \A e : Setup(e).st = "setup" /\ \A b : Locked(b).st = "locked"
            /\ \A b : Legacy(b).epoch = b.epoch
        BY DEF Setup, Locked, Legacy, NoVault
      <4>2. SetsUp(acct, n) => n.vault = Setup(acct.epoch)
        BY DEF SetsUp
      <4>3. Locks(acct, n) => n.vault = Locked(acct)
        BY DEF Locks
      <4>4. TakesLegacy(acct, n) => n.vault = Legacy(acct) /\ acct.ver = 1
        BY DEF TakesLegacy
      <4>5. ~Unlocks(acct, NoCache, n)
        BY <3>2 DEF Unlocks
      <4> QED BY <3>3, <4>1, <4>2, <4>3, <4>4, <4>5
    <3>5. \A d \in Devices : vault[d] = n.vault
      BY <3>1 DEF Init
    <3> QED BY <2>3, <3>4, <3>5
  <2>6. \A d \in Devices : AheadOk(E, made, vault[d], cache[d], op[d])
    BY <2>2, <2>5 DEF AheadOk, NoOp
  <2>7. KeysOk(E, made, rows, late, vault, cache, op)
    BY <2>2, <2>4, <2>6 DEF KeysOk
  <2> QED BY <2>7 DEF KeyInv
<1>2. VaultInv /\ KeyInv /\ [Next]_vars => KeyInv'
  BY StepKeys DEF VaultInv
<1>3. VaultInv /\ KeyInv /\ [Next]_vars => A
  <2> SUFFICES ASSUME VaultInv, KeyInv, [Next]_vars, NEW d \in Devices, vault[d].st = "unlocked",
                      vault'[d].st # "none", vault'[d] # vault[d]
               PROVE  vault'[d].epoch >= vault[d].epoch
    BY DEF VaultInv, Typed, Vaults
  <2>0. PICK E \in [Nat -> Nat] : KeysOk(E, made, rows, late, vault, cache, op)
    BY DEF KeyInv
  <2>1. Typed /\ Safe
    BY DEF VaultInv
  <2>2. UnlockFinish(d) \/ Finish(d) \/ PersistSession(d) \/ RefreshFails(d)
    BY <2>1, VaultMoves
  <2>3. /\ Known(rows, vault[d]) /\ vault[d].wrap.dek = vault[d].dek /\ cache[d] = CacheOf(vault[d])
        /\ RowsOk(rows, acct) /\ CacheOk(rows, cache[d]) /\ cache[d] \in Caches /\ acct \in Rows
        /\ vault[d].epoch \in Nat /\ op[d].epoch \in Nat /\ made \in Nat
    BY <2>1 DEF Safe, DeviceOk, HoldsOk, VaultOk, Typed, Vaults, Ops
  <2>4. CASE UnlockFinish(d)
    <3>1. PICK u : u = Unlocked(vault[d].wrap.dek, vault[d].epoch, vault[d].rev, vault[d].wrap)
      OBVIOUS
    <3>2. vault'[d] = u /\ u.epoch = vault[d].epoch
      BY <2>1, <2>4, <3>1 DEF UnlockFinish, Typed, Unlocked
    <3> QED BY <2>3, <3>2
  <2>5. CASE Finish(d)
    <3>1. op[d].pc = "answered" /\ op[d].ok /\ vault'[d].epoch = op[d].epoch
      <4>1. \/ SetupFinish(d) \/ ChangeFinish(d) \/ ResetFinish(d)
        BY <2>5 DEF Finish, FinishRefused, FinishIdle
      <4>2. op[d].pc = "answered" /\ op[d].ok
        BY <4>1 DEF SetupFinish, ChangeFinish, ResetFinish, Answer, Valid
      <4>3. \/ \E k, r, w : vault'[d] = Unlocked(k, op[d].epoch, r, w)
            \/ vault'[d] = Setup(op[d].epoch)
        BY <2>1, <4>1 DEF SetupFinish, ChangeFinish, ResetFinish, Adopt, Typed
      <4>4. \A k, e, r, w : Unlocked(k, e, r, w).epoch = e
        BY DEF Unlocked
      <4>5. \A e : Setup(e).epoch = e
        BY DEF Setup, NoVault
      <4> QED BY <4>2, <4>3, <4>4, <4>5
    <3>2. Known(rows, cache[d]) /\ cache[d].dek # None /\ cache[d].epoch = vault[d].epoch
      <4>1. vault[d].wrap.dek # None
        BY <2>3, KnownFacts
      <4> QED BY <2>3, <4>1 DEF CacheOf, Known
    <3>3. E[cache[d].dek] = vault[d].epoch
      BY <2>0, <2>3, <3>2, CacheKey DEF KeysOk
    <3>4. AheadOk(E, made, vault[d], cache[d], op[d])
      BY <2>0 DEF KeysOk
    <3> QED BY <2>3, <3>1, <3>2, <3>3, <3>4 DEF AheadOk
  <2>6. CASE PersistSession(d)
    <3>1. refresh[d].answer \in Rows /\ RowLike(rows, refresh[d].answer)
      BY <2>1, <2>6 DEF PersistSession, Safe, DeviceOk, HoldsOk, RowsOk, RowLike
    <3>2. vault'[d] = ResolveVaultState(refresh[d].answer, vault[d], cache[d]).vault
      BY <2>1, <2>6 DEF PersistSession, Typed
    <3> QED BY <2>0, <2>1, <3>1, <3>2, ResolveKeys
  <2>7. CASE RefreshFails(d)
    <3>1. session[d] \in Rows /\ RowLike(rows, session[d])
      BY <2>1 DEF Safe, DeviceOk, HoldsOk, Typed
    <3>2. vault'[d] = ResolveVaultState(session[d], vault[d], cache[d]).vault
      BY <2>1, <2>7 DEF RefreshFails, Typed
    <3> QED BY <2>0, <2>1, <3>1, <3>2, ResolveKeys
  <2> QED BY <2>2, <2>4, <2>5, <2>6, <2>7
<1> QED BY <1>1, <1>2, <1>3, VaultInvariant, PTL DEF Spec, NeverBack
=============================================================================
