------------------------ MODULE TailnetRegistryProofs ------------------------
(***************************************************************************)
(* Proofs about TailnetRegistry, for every set of consumers, every choice  *)
(* of operations and any number of nodes: reference counts are exact, only *)
(* the operations that say so take a node from its users, and as long as   *)
(* one teardown works on a node no second node shares its state directory. *)
(*                                                                         *)
(* The count must be related to leases of entries that are gone already:   *)
(* generations only grow, so an old lease never counts for a newer node    *)
(* (Numbered).  What a teardown has still to do (Closes, Single) is the    *)
(* reason why the entry can be given up at its end.                        *)
(***************************************************************************)
EXTENDS TailnetRegistry, FiniteSetTheorems, TLAPS
LOCAL INSTANCE BagsExt

EntrySet ==
  [gen : Gens \cup {0}, refs : 0 .. Cardinality(Consumers) + 1, retirement : 0 .. 2,
   idle : {"none", "armed", "fired"}, teardown : BOOLEAN]

\* What a teardown may have left to do.
Todos ==
  {<<"remove">>, <<"close", "remove">>, <<"purge", "remove">>,
   <<"close", "purge", "remove">>, <<"logout", "close", "purge", "remove">>}

\* The entry is of the newest generation, and nothing is of a later one.
Numbered ==
  /\ entry.gen \in {0, generations}
  /\ \A c \in Consumers : lease[c] <= generations
  /\ observer <= generations
  /\ \A job \in DOMAIN jobs : job \in [gen : 1 .. generations, todo : Todos]
  /\ openNodes \subseteq 1 .. generations /\ condemned \subseteq 1 .. generations

\* A node that is torn down without force has no users and gets none.
TornDown ==
  /\ Present /\ entry.teardown /\ entry.gen \notin forced => Holders(entry.gen) = 0
  /\ \A job \in DOMAIN jobs : job.gen = entry.gen => entry.teardown

Closes == \A job \in DOMAIN jobs : Has(job, "close") \/ job.gen \notin openNodes

\* Without overlap there is at most one teardown, and it is of the last node.
Single ==
  ~overlap =>
    /\ \A j, k \in DOMAIN jobs : j = k /\ jobs[j] = 1
    /\ \A job \in DOMAIN jobs : job.gen = generations /\ (Present \/ closed)
    /\ openNodes \subseteq {generations} /\ condemned \subseteq {generations}
    /\ Present \/ closed \/ (openNodes = {} /\ condemned = {})
    /\ \A job \in DOMAIN jobs : job.gen \in condemned => Has(job, "purge")
    /\ Settled /\ entry.gen \in condemned => entry.retirement = RetireForForget

\* A retired node is still in use, or it would have gone already.
Retired == Present /\ Settled /\ entry.retirement # 0 => entry.refs > 0

TailInv ==
  /\ TypeOK /\ Numbered /\ RefsExact /\ LeasedStays
  /\ TornDown /\ Closes /\ Single /\ Retired

-----------------------------------------------------------------------------
(* Bags of teardowns and what they have to do.                               *)

\* Adding to a bag.
LEMMA BagAddFacts ==
  ASSUME NEW B, NEW x
  PROVE  /\ DOMAIN BagAdd(B, x) = DOMAIN B \cup {x}
         /\ x \notin DOMAIN B => BagAdd(B, x)[x] = 1
  BY DEF BagAdd

\* Taking one element out of a bag.
LEMMA BagRemoveFacts ==
  ASSUME NEW B, NEW x
  PROVE  /\ DOMAIN BagRemove(B, x) \subseteq DOMAIN B
         /\ x \in DOMAIN B /\ B[x] = 1 => DOMAIN BagRemove(B, x) = DOMAIN B \ {x}
  BY DEF BagRemove

\* Where the steps of a teardown are.
LEMMA TodoFacts ==
  ASSUME NEW job, job.todo \in Todos
  PROVE  /\ Has(job, "close") <=> job.todo \notin {<<"remove">>, <<"purge", "remove">>}
         /\ Has(job, "purge") <=> job.todo \notin {<<"remove">>, <<"close", "remove">>}
<1>1. CASE job.todo = <<"remove">>
  BY <1>1 DEF Has
<1>2. CASE job.todo = <<"close", "remove">>
  BY <1>2 DEF Has
<1>3. CASE job.todo = <<"purge", "remove">>
  BY <1>3 DEF Has
<1>4. CASE job.todo = <<"close", "purge", "remove">>
  BY <1>4 DEF Has
<1>5. CASE job.todo = <<"logout", "close", "purge", "remove">>
  BY <1>5 DEF Has
<1> QED
  BY <1>1, <1>2, <1>3, <1>4, <1>5 DEF Todos

-----------------------------------------------------------------------------
(* Counting leases: l is the lease of every consumer, o the observer's.      *)

Lessees(l, g) == {c \in Consumers : l[c] = g}
HoldersOf(l, o, g) == Cardinality(Lessees(l, g)) + (IF o = g THEN 1 ELSE 0)

\* How many hold a node is a number, and at most everybody and the observer.
LEMMA HoldersType ==
  ASSUME NEW l, NEW o, NEW g
  PROVE  /\ HoldersOf(l, o, g) \in 0 .. Cardinality(Consumers) + 1
         /\ Cardinality(Consumers) \in Nat
         /\ IsFiniteSet(Lessees(l, g)) /\ Cardinality(Lessees(l, g)) \in Nat
<1>1. Lessees(l, g) \in SUBSET Consumers
  BY DEF Lessees
<1>2. IsFiniteSet(Lessees(l, g)) /\ Cardinality(Lessees(l, g)) <= Cardinality(Consumers)
  BY <1>1, FS_Subset, TailnetAssumption
<1>3. Cardinality(Lessees(l, g)) \in Nat /\ Cardinality(Consumers) \in Nat
  BY <1>2, FS_CardinalityType, TailnetAssumption
<1> QED
  BY <1>2, <1>3 DEF HoldersOf

\* A node that nobody leases has no holders.
LEMMA HoldersZero ==
  ASSUME NEW l, NEW o, NEW g
  PROVE  HoldersOf(l, o, g) = 0 <=> o # g /\ \A c \in Consumers : l[c] # g
<1>1. IsFiniteSet(Lessees(l, g)) /\ Cardinality(Lessees(l, g)) \in Nat
  BY HoldersType
<1>2. Cardinality(Lessees(l, g)) = 0 <=> Lessees(l, g) = {}
  BY <1>1, FS_EmptySet
<1>3. HoldersOf(l, o, g) = 0 <=> o # g /\ Lessees(l, g) = {}
  BY <1>1, <1>2 DEF HoldersOf
<1> QED
  BY <1>3 DEF Lessees

\* A consumer lets go of a node.
LEMMA HoldersDrop ==
  ASSUME NEW l \in [Consumers -> Nat], NEW o, NEW c \in Consumers, l[c] # 0, NEW g \in Nat \ {0}
  PROVE  HoldersOf([l EXCEPT ![c] = 0], o, g) = HoldersOf(l, o, g) - (IF l[c] = g THEN 1 ELSE 0)
<1> DEFINE m == [l EXCEPT ![c] = 0]
<1>1. CASE l[c] = g
  <2>1. Lessees(m, g) = Lessees(l, g) \ {c} /\ c \in Lessees(l, g)
    BY <1>1 DEF Lessees
  <2>2. IsFiniteSet(Lessees(l, g)) /\ Cardinality(Lessees(l, g)) \in Nat
    BY HoldersType
  <2>3. Cardinality(Lessees(m, g)) = Cardinality(Lessees(l, g)) - 1
    BY <2>1, <2>2, FS_RemoveElement
  <2> HIDE DEF m
  <2> QED
    BY <1>1, <2>2, <2>3 DEF HoldersOf, m
<1>2. CASE l[c] # g
  <2>1. Lessees(m, g) = Lessees(l, g)
    BY <1>2 DEF Lessees
  <2>2. Cardinality(Lessees(l, g)) \in Nat
    BY HoldersType
  <2> QED
    BY <1>2, <2>1, <2>2 DEF HoldersOf
<1> QED
  BY <1>1, <1>2

\* A consumer that has none leases node n: the leases are m after l.
Grants(l, c, n, m) == m = [l EXCEPT ![c] = n]
\* A grant adds one holder to its node.
LEMMA HoldersAdd ==
  ASSUME NEW l \in [Consumers -> Nat], NEW o, NEW c \in Consumers, l[c] = 0,
         NEW n \in Nat \ {0}, NEW m, Grants(l, c, n, m)
  PROVE  HoldersOf(m, o, n) = HoldersOf(l, o, n) + 1
<1>1. Lessees(m, n) = Lessees(l, n) \cup {c} /\ c \notin Lessees(l, n)
  BY DEF Lessees, Grants
<1>2. IsFiniteSet(Lessees(l, n)) /\ Cardinality(Lessees(l, n)) \in Nat
  BY HoldersType
<1>3. Cardinality(Lessees(m, n)) = Cardinality(Lessees(l, n)) + 1
  BY <1>1, <1>2, FS_AddElement
<1> QED
  BY <1>2, <1>3 DEF HoldersOf

\* Other nodes are held as before.
LEMMA HoldersSame ==
  ASSUME NEW l \in [Consumers -> Nat], NEW o, NEW c \in Consumers, l[c] = 0,
         NEW n \in Nat \ {0}, NEW m, Grants(l, c, n, m), NEW g \in Nat \ {0}, g # n
  PROVE  HoldersOf(m, o, g) = HoldersOf(l, o, g)
<1>1. Lessees(m, g) = Lessees(l, g)
  BY DEF Lessees, Grants
<1> QED
  BY <1>1 DEF HoldersOf

\* The model's count is this one, before a step and after it.
LEMMA HoldersIs ==
  \A g : /\ Holders(g) = HoldersOf(lease, observer, g)
         /\ Holders(g)' = HoldersOf(lease', observer', g)
  BY DEF Holders, HoldersOf, Lessees

\* Nobody gets a node by giving up leases.
LEMMA NoNewHolders ==
  ASSUME NEW l, NEW m, NEW o, NEW p, NEW g, g # 0,
         \A c \in Consumers : m[c] \in {l[c], 0},
         p \in {o, 0},
         HoldersOf(l, o, g) = 0
  PROVE  HoldersOf(m, p, g) = 0
<1>1. o # g /\ \A c \in Consumers : l[c] # g
  BY HoldersZero, ZenonT(60)
<1>2. p # g /\ \A c \in Consumers : m[c] # g
  BY <1>1
<1>3. HoldersOf(m, p, g) = 0 <=> p # g /\ \A c \in Consumers : m[c] # g
  BY HoldersZero
<1> QED
  BY <1>2, <1>3

-----------------------------------------------------------------------------
(* The parts of a state of the registry.                                     *)

\* The types of what the steps work with.
LEMMA Basics ==
  ASSUME TailInv
  PROVE  /\ entry \in EntrySet /\ entry.gen \in Nat /\ generations \in Nat
         /\ lease \in [Consumers -> Nat] /\ observer \in Nat
         /\ entry.refs \in Nat /\ entry.teardown \in BOOLEAN /\ entry.retirement \in 0 .. 2
         /\ Present => entry.gen = generations /\ entry.gen \in Gens
         /\ generations <= MaxGen
<1>1. entry \in EntrySet /\ lease \in [Consumers -> Gens \cup {0}] /\ observer \in Gens \cup {0}
      /\ generations \in 0 .. MaxGen
  BY DEF TailInv, TypeOK, EntrySet
<1>2. entry.gen \in {0, generations}
  BY DEF TailInv, Numbered
<1>3. Cardinality(Consumers) \in Nat
  BY HoldersType
<1>4. \A e \in EntrySet : /\ e.gen \in Gens \cup {0} /\ e.refs \in 0 .. Cardinality(Consumers) + 1
                          /\ e.retirement \in 0 .. 2 /\ e.teardown \in BOOLEAN
  BY DEF EntrySet
<1>5. Gens \subseteq Nat /\ MaxGen \in Nat
  BY TailnetAssumption DEF Gens
<1>6. Gens \cup {0} \subseteq Nat
  BY <1>5
<1>7. lease \in [Consumers -> Nat] /\ observer \in Nat
  BY <1>1, <1>6, Zenon
<1>8. entry.gen \in Nat /\ entry.refs \in Nat /\ entry.teardown \in BOOLEAN /\ entry.retirement \in 0 .. 2
  <2>1. /\ entry.gen \in Gens \cup {0} /\ entry.refs \in 0 .. Cardinality(Consumers) + 1
        /\ entry.retirement \in 0 .. 2 /\ entry.teardown \in BOOLEAN
    BY <1>1, <1>4, Zenon
  <2>2. entry.gen \in Nat
    BY <2>1, <1>6, Zenon
  <2>3. entry.refs \in Nat
    BY <2>1, <1>3
  <2> QED
    BY <2>1, <2>2, <2>3
<1>9. Present => entry.gen = generations /\ entry.gen \in Gens
  BY <1>1, <1>2, <1>4 DEF Present
<1> QED
  BY <1>1, <1>5, <1>7, <1>8, <1>9

\* The teardowns at work.
LEMMA JobFacts ==
  ASSUME TailInv, NEW job \in DOMAIN jobs
  PROVE  /\ job.gen \in 1 .. generations /\ job.gen \in Gens /\ job.todo \in Todos
         /\ job = [gen |-> job.gen, todo |-> job.todo]
<1>1. job \in [gen : 1 .. generations, todo : Todos]
  BY DEF TailInv, Numbered
<1>2. job.gen \in 1 .. generations /\ job.todo \in Todos /\ job = [gen |-> job.gen, todo |-> job.todo]
  BY <1>1
<1>3. generations \in Nat /\ generations <= MaxGen /\ MaxGen \in Nat
  BY Basics, TailnetAssumption
<1>4. job.gen \in Gens
  BY <1>2, <1>3 DEF Gens
<1> QED
  BY <1>2, <1>4

\* What a teardown may have left to do is never nothing.
LEMMA TodosNotEmpty == \A todo \in Todos : todo # << >>
  BY DEF Todos

\* An entry stays one when its fields change within their types.
Changed(e, refs, r, idle, t) ==
  [e EXCEPT !.refs = refs, !.retirement = r, !.idle = idle, !.teardown = t]
\* The fields of a changed entry are the new ones.
LEMMA EntryChange ==
  ASSUME NEW e \in EntrySet, NEW refs \in 0 .. Cardinality(Consumers) + 1, NEW r \in 0 .. 2,
         NEW idle \in {"none", "armed", "fired"}, NEW t \in BOOLEAN
  PROVE  /\ Changed(e, refs, r, idle, t) \in EntrySet
         /\ Changed(e, refs, r, idle, t).gen = e.gen
         /\ Changed(e, refs, r, idle, t).refs = refs
         /\ Changed(e, refs, r, idle, t).retirement = r
         /\ Changed(e, refs, r, idle, t).teardown = t
  BY DEF EntrySet, Changed

\* No entry.
LEMMA NoEntryFacts ==
  /\ NoEntry \in EntrySet /\ NoEntry.gen = 0 /\ NoEntry.refs = 0
  /\ NoEntry.retirement = 0 /\ NoEntry.teardown = FALSE
<1>1. Cardinality(Consumers) \in Nat
  BY HoldersType
<1> QED
  BY <1>1 DEF NoEntry, EntrySet

\* Without overlap, a settled entry has no teardown at work, nor has anything else.
LEMMA SettledAlone ==
  ASSUME TailInv, ~overlap, Present, Settled
  PROVE  DOMAIN jobs = {}
  BY Basics DEF TailInv, Single, TornDown, Settled, Present

-----------------------------------------------------------------------------
(* Steps that begin a teardown, and steps that leave the teardowns alone.    *)

\* Leases are only given up.
GivesUp == (\A c \in Consumers : lease'[c] \in {lease[c], 0}) /\ observer' \in {observer, 0}

\* What only the settled entry may be given: the mark to be purged.
Marks == condemned' = condemned \/ (Settled /\ Present /\ condemned' = condemned \cup {entry.gen})

\* beginTeardown keeps the invariant when the node is unused or forced, and
\* when a condemned node is purged.
LEMMA BeginOk ==
  ASSUME TailInv, Present,
         NEW steps \in {CloseOnly, ClosePurge, LogoutClosePurge},
         NEW refs \in 0 .. Cardinality(Consumers) + 1, NEW r \in 0 .. 2,
         Begin(steps, refs, r),
         loose' \in 0 .. MaxLoose + 1, closed' = closed, generations' = generations,
         openNodes' = openNodes, forced' \in {forced, forced \cup {entry.gen}},
         Marks, lease' \in [Consumers -> Gens \cup {0}], GivesUp,
         entry.gen \in forced' \/ HoldersOf(lease', observer', entry.gen) = 0,
         ~overlap /\ Settled /\ entry.gen \in condemned' => steps # CloseOnly
  PROVE  TailInv'
<1> DEFINE new == [gen |-> entry.gen, todo |-> steps]
<1>1. entry'.gen = entry.gen /\ entry'.teardown = TRUE /\ entry' \in EntrySet
  <2>1. "none" \in {"none", "armed", "fired"} /\ TRUE \in BOOLEAN /\ entry \in EntrySet
    BY Basics
  <2>2. entry' = Changed(entry, refs, r, "none", TRUE)
    BY DEF Begin, Changed
  <2>3. Changed(entry, refs, r, "none", TRUE) \in EntrySet
    BY <2>1, EntryChange, Zenon
  <2>4. Changed(entry, refs, r, "none", TRUE).gen = entry.gen
    BY <2>1 DEF EntrySet, Changed
  <2>5. Changed(entry, refs, r, "none", TRUE).teardown = TRUE
    BY <2>1 DEF EntrySet, Changed
  <2> QED
    BY <2>2, <2>3, <2>4, <2>5
<1>2. DOMAIN jobs' = DOMAIN jobs \cup {new} /\ (new \notin DOMAIN jobs => jobs'[new] = 1)
  BY BagAddFacts DEF Begin
<1>3. overlap' = (overlap \/ ~Settled) /\ overlap' \in BOOLEAN
  BY DEF Begin, Settled, TailInv, TypeOK
<1>4. /\ new.gen = generations /\ new.gen \in 1 .. generations /\ new.gen = entry.gen
      /\ new.gen \in Gens /\ generations \in Nat
  BY Basics DEF Present
<1>5. new.todo \in Todos /\ Has(new, "close") /\ (steps # CloseOnly => Has(new, "purge"))
  <2>1. steps \in Todos /\ new.todo = steps
    BY DEF Todos, CloseOnly, ClosePurge, LogoutClosePurge
  <2>2. steps \notin {<<"remove">>, <<"purge", "remove">>}
    BY DEF CloseOnly, ClosePurge, LogoutClosePurge
  <2>3. steps # CloseOnly => steps \notin {<<"remove">>, <<"close", "remove">>}
    BY DEF CloseOnly, ClosePurge, LogoutClosePurge
  <2> HIDE DEF new
  <2> QED
    BY <2>1, <2>2, <2>3, TodoFacts
<1>6. new \in [gen : 1 .. generations, todo : Todos]
  BY <1>4, <1>5
<1> HIDE DEF new
<1>7. TypeOK'
  <2>1. \A job \in DOMAIN jobs' : job.gen \in Gens /\ job.todo # <<>>
    BY <1>2, <1>4, <1>5, JobFacts, TodosNotEmpty
  <2>2. observer' \in Gens \cup {0} /\ closed' \in BOOLEAN /\ generations' \in 0 .. MaxGen
    BY DEF TailInv, TypeOK, GivesUp
  <2>3. openNodes' \subseteq Gens /\ forced' \subseteq Gens /\ condemned' \subseteq Gens
    BY Basics DEF TailInv, TypeOK, Marks
  <2> QED
    BY <1>1, <1>3, <2>1, <2>2, <2>3 DEF TypeOK, EntrySet, BagToSet
<1>8. Numbered'
  <2>1. entry'.gen \in {0, generations'}
    BY <1>1, <1>4
  <2>2. (\A c \in Consumers : lease'[c] <= generations') /\ observer' <= generations'
    BY Basics DEF TailInv, Numbered, GivesUp
  <2>3. \A job \in DOMAIN jobs' : job \in [gen : 1 .. generations', todo : Todos]
    BY <1>2, <1>6 DEF TailInv, Numbered
  <2>4. openNodes' \subseteq 1 .. generations' /\ condemned' \subseteq 1 .. generations'
    BY <1>4 DEF TailInv, Numbered, Marks
  <2> QED
    BY <2>1, <2>2, <2>3, <2>4 DEF Numbered
<1>9. RefsExact' /\ Retired'
  BY <1>1 DEF RefsExact, Retired, Settled
<1>10. LeasedStays'
  <2>1. ASSUME NEW job \in DOMAIN jobs', job.gen \notin forced'
        PROVE  Holders(job.gen)' = 0
    <3>1. CASE job \in DOMAIN jobs
      <4>1. HoldersOf(lease, observer, job.gen) = 0
        BY <2>1, <3>1, HoldersIs DEF TailInv, LeasedStays, BagToSet
      <4>2. job.gen # 0
        BY <3>1, JobFacts, Basics
      <4>3. HoldersOf(lease', observer', job.gen) = 0
        BY <4>1, <4>2, NoNewHolders DEF GivesUp
      <4> QED
        BY <4>3, HoldersIs
    <3>2. CASE job = new
      BY <2>1, <3>2, <1>4, HoldersIs
    <3> QED
      BY <3>1, <3>2, <1>2, <2>1
  <2> QED
    BY <2>1 DEF LeasedStays, BagToSet
<1>11. TornDown'
  <2>1. entry.gen \notin forced' => Holders(entry.gen)' = 0
    BY <1>1, HoldersIs
  <2> QED
    BY <1>1, <2>1 DEF TornDown
<1>12. Closes'
  <2>1. \A job \in DOMAIN jobs' : Has(job, "close") \/ job.gen \notin openNodes'
    BY <1>2, <1>5 DEF TailInv, Closes
  <2> QED
    BY <2>1 DEF Closes, Has
<1>13. Single'
  <2> SUFFICES ASSUME ~overlap' PROVE Single!2'
    BY DEF Single
  <2>1. ~overlap /\ Settled
    BY <1>3
  <2>2. DOMAIN jobs' = {new} /\ jobs'[new] = 1
    BY <2>1, <1>2, SettledAlone
  <2>3. Present'
    BY <1>1 DEF Present
  <2>4. openNodes' \subseteq {generations'} /\ condemned' \subseteq {generations'}
    BY <2>1, <1>4 DEF TailInv, Single, Marks
  <2>5. new.gen \in condemned' => Has(new, "purge")
    BY <2>1, <1>4, <1>5
  <2>6. ~Settled'
    BY <1>1 DEF Settled
  <2> QED
    BY <2>2, <2>3, <2>4, <2>5, <2>6, <1>4 DEF Has
<1> QED
  BY <1>7, <1>8, <1>9, <1>10, <1>11, <1>12, <1>13 DEF TailInv

\* A step that leaves the teardowns and the entry's place in them alone.
LEMMA KeepOk ==
  ASSUME TailInv,
         entry' \in EntrySet, entry'.gen = entry.gen, entry'.teardown = entry.teardown,
         jobs' = jobs, overlap' = overlap, generations' = generations, openNodes' = openNodes,
         forced' = forced, closed' = closed, Marks, loose' \in 0 .. MaxLoose + 1,
         lease' \in [Consumers -> Gens \cup {0}], observer' \in Gens \cup {0},
         \A c \in Consumers : lease'[c] <= generations, observer' <= generations,
         \A g \in Gens :
           HoldersOf(lease, observer, g) = 0 =>
             HoldersOf(lease', observer', g) = 0 \/ (g = entry.gen /\ Settled),
         Present /\ Settled => entry'.refs = HoldersOf(lease', observer', entry.gen),
         Present /\ Settled /\ entry'.retirement # 0 => entry'.refs > 0,
         ~overlap /\ Settled /\ entry.gen \in condemned' => entry'.retirement = RetireForForget
  PROVE  TailInv'
<1>1. Present' = Present /\ Settled' = Settled
  BY DEF Present, Settled
<1>2. TypeOK'
  <2>1. closed' \in BOOLEAN /\ generations' \in 0 .. MaxGen /\ overlap' \in BOOLEAN
    BY DEF TailInv, TypeOK
  <2>2. \A job \in DOMAIN jobs' : job.gen \in Gens /\ job.todo # <<>>
    BY DEF TailInv, TypeOK, BagToSet
  <2>3. openNodes' \subseteq Gens /\ forced' \subseteq Gens /\ condemned' \subseteq Gens
    BY Basics DEF TailInv, TypeOK, Marks
  <2> QED
    BY <2>1, <2>2, <2>3 DEF TypeOK, EntrySet, BagToSet
<1>3. Numbered'
  <2>1. condemned' \subseteq 1 .. generations'
    <3>1. Present => entry.gen \in 1 .. generations
      BY Basics DEF Present
    <3>2. condemned \subseteq 1 .. generations
      BY DEF TailInv, Numbered
    <3> QED
      BY <3>1, <3>2 DEF Marks
  <2>2. /\ entry'.gen \in {0, generations'} /\ openNodes' \subseteq 1 .. generations'
        /\ \A job \in DOMAIN jobs' : job \in [gen : 1 .. generations', todo : Todos]
    BY DEF TailInv, Numbered
  <2> QED
    BY <2>1, <2>2 DEF Numbered
<1>4. RefsExact' /\ Retired'
  <2>1. Present /\ Settled => entry'.refs = Holders(entry.gen)'
    BY HoldersIs
  <2> QED
    BY <1>1, <2>1 DEF RefsExact, Retired, Settled
<1>5. LeasedStays'
  <2>1. ASSUME NEW job \in DOMAIN jobs, job.gen \notin forced
        PROVE  Holders(job.gen)' = 0
    <3>1. HoldersOf(lease, observer, job.gen) = 0
      BY <2>1, HoldersIs DEF TailInv, LeasedStays, BagToSet
    <3>2. job.gen \in Gens /\ ~(job.gen = entry.gen /\ Settled)
      BY <2>1, JobFacts DEF TailInv, TornDown, Settled
    <3>3. HoldersOf(lease', observer', job.gen) = 0
      BY <3>1, <3>2
    <3> QED
      BY <3>3, HoldersIs
  <2> QED
    BY <2>1 DEF LeasedStays, BagToSet
<1>6. TornDown'
  <2>1. ASSUME Present, entry.teardown, entry.gen \notin forced
        PROVE  Holders(entry.gen)' = 0
    <3>1. HoldersOf(lease, observer, entry.gen) = 0
      BY <2>1, HoldersIs DEF TailInv, TornDown
    <3>2. entry.gen \in Gens /\ ~Settled
      BY <2>1, Basics DEF Settled
    <3>3. HoldersOf(lease', observer', entry.gen) = 0
      BY <3>1, <3>2
    <3> QED
      BY <3>3, HoldersIs
  <2>2. \A job \in DOMAIN jobs' : job.gen = entry'.gen => entry'.teardown
    BY DEF TailInv, TornDown
  <2> QED
    BY <1>1, <2>1, <2>2 DEF TornDown
<1>7. Closes'
  <2>1. \A job \in DOMAIN jobs' : Has(job, "close") \/ job.gen \notin openNodes'
    BY DEF TailInv, Closes
  <2> QED
    BY <2>1 DEF Closes, Has
<1>8. Single'
  <2> SUFFICES ASSUME ~overlap' PROVE Single!2'
    BY DEF Single
  <2>1. ~overlap
    OBVIOUS
  <2>2. /\ \A j, k \in DOMAIN jobs' : j = k /\ jobs'[j] = 1
        /\ \A job \in DOMAIN jobs' : job.gen = generations' /\ (Present' \/ closed')
    BY <2>1, <1>1 DEF TailInv, Single
  <2>3. /\ openNodes' \subseteq {generations'} /\ condemned' \subseteq {generations'}
        /\ Present' \/ closed' \/ (openNodes' = {} /\ condemned' = {})
    BY <2>1, <1>1, Basics DEF TailInv, Single, Marks
  <2>4. \A job \in DOMAIN jobs' : job.gen \in condemned' => Has(job, "purge")
    <3>1. CASE condemned' = condemned
      BY <2>1, <3>1 DEF TailInv, Single
    <3>2. CASE Settled /\ Present
      BY <2>1, <3>2, SettledAlone
    <3> QED
      BY <3>1, <3>2 DEF Marks
  <2>5. Settled' /\ entry'.gen \in condemned' => entry'.retirement = RetireForForget
    BY <2>1, <1>1
  <2> QED
    BY <2>2, <2>3, <2>4, <2>5 DEF Has
<1> QED
  BY <1>2, <1>3, <1>4, <1>5, <1>6, <1>7, <1>8 DEF TailInv

\* A retirement that forgets closes, purges and logs out.
LEMMA RetiringFacts ==
  ASSUME NEW r
  PROVE  /\ Retiring(r) \in {CloseOnly, ClosePurge, LogoutClosePurge}
         /\ r = RetireForForget => Retiring(r) # CloseOnly
  BY DEF Retiring, CloseOnly, LogoutClosePurge

\* release: one lease of node g is given up, and counts if the entry is that node.
LEMMA ReleaseOk ==
  ASSUME TailInv, NEW g \in Nat \ {0}, release(g),
         UNCHANGED <<loose, closed, generations, openNodes, forced, condemned>>,
         lease' \in [Consumers -> Gens \cup {0}], GivesUp,
         \A h \in Nat \ {0} :
           HoldersOf(lease', observer', h) = HoldersOf(lease, observer, h) - (IF h = g THEN 1 ELSE 0)
  PROVE  TailInv'
<1>1. /\ entry \in EntrySet /\ entry.gen \in Nat /\ generations \in Nat /\ entry.refs \in Nat
      /\ observer \in Nat /\ lease \in [Consumers -> Nat] /\ entry.retirement \in 0 .. 2
      /\ entry.teardown \in BOOLEAN /\ Cardinality(Consumers) \in Nat
  BY Basics, HoldersType
<1>2. /\ loose' \in 0 .. MaxLoose + 1 /\ observer' \in Gens \cup {0} /\ Marks
      /\ entry.refs \in 0 .. Cardinality(Consumers) + 1
  BY DEF TailInv, TypeOK, GivesUp, Marks
<1>3. (\A c \in Consumers : lease'[c] <= generations) /\ observer' <= generations
  BY <1>1 DEF TailInv, Numbered, GivesUp
<1>4. \A h \in Gens : HoldersOf(lease, observer, h) = 0 => HoldersOf(lease', observer', h) = 0
  <2>1. Gens \subseteq Nat \ {0}
    BY TailnetAssumption DEF Gens
  <2> QED
    BY <2>1, NoNewHolders DEF GivesUp
<1>5. \A h : /\ HoldersOf(lease, observer, h) \in Nat
             /\ HoldersOf(lease', observer', h) \in Nat
  BY <1>1, HoldersType
<1>6. Present /\ Settled => entry.refs = HoldersOf(lease, observer, entry.gen)
  BY HoldersIs DEF TailInv, RefsExact, Settled
<1>7. Present /\ Settled /\ entry.retirement # 0 => entry.refs > 0
  BY DEF TailInv, Retired
<1>8. ~overlap /\ Settled /\ entry.gen \in condemned' => entry.retirement = RetireForForget
  BY DEF TailInv, Single
<1>9. CASE ~Present \/ ~Counts(g)
  <2>1. entry' = entry /\ jobs' = jobs /\ overlap' = overlap
    BY <1>9 DEF release
  <2>2. Present /\ Settled => entry'.refs = HoldersOf(lease', observer', entry.gen)
    BY <1>1, <1>5, <1>6, <1>9, <2>1 DEF Counts, Present
  <2> QED
    BY <1>1, <1>2, <1>3, <1>4, <1>7, <1>8, <2>1, <2>2, KeepOk
<1>10. CASE Present /\ Counts(g) /\ entry.refs > 1
  <2>1. jobs' = jobs /\ overlap' = overlap
    BY <1>10 DEF release
  <2>2. /\ entry' = [entry EXCEPT !.refs = @ - 1]
        /\ entry.refs - 1 \in 0 .. Cardinality(Consumers) + 1
    BY <1>1, <1>2, <1>10 DEF release
  <2>3. entry' \in EntrySet
    BY <1>1, <2>2 DEF EntrySet
  <2>4. /\ entry'.gen = entry.gen /\ entry'.teardown = entry.teardown
        /\ entry'.retirement = entry.retirement /\ entry'.refs = entry.refs - 1
    BY <1>1, <2>2 DEF EntrySet
  <2>5. Present /\ Settled => entry'.refs = HoldersOf(lease', observer', entry.gen)
    BY <1>1, <1>5, <1>6, <1>10, <2>4 DEF Counts, Present
  <2>6. entry'.refs > 0
    BY <1>1, <1>10, <2>4
  <2> QED
    BY <1>1, <1>2, <1>3, <1>4, <1>8, <2>1, <2>3, <2>4, <2>5, <2>6, KeepOk
<1>11. CASE Present /\ Counts(g) /\ ~(entry.refs > 1)
  <2>1. LastRelease
    BY <1>11 DEF release
  <2>2. g = entry.gen /\ HoldersOf(lease', observer', entry.gen) = HoldersOf(lease, observer, entry.gen) - 1
    BY <1>11 DEF Counts
  <2>3. Settled => HoldersOf(lease', observer', entry.gen) = 0
    BY <1>1, <1>5, <1>6, <1>11, <2>2
  <2>4. CASE entry.retirement # 0
    <3>1. ~Settled => entry.gen \in forced
      <4>1. HoldersOf(lease, observer, entry.gen) # 0
        BY <1>5, <2>2
      <4> QED
        BY <4>1, <1>11, HoldersIs DEF TailInv, TornDown, Settled
    <3>2. Begin(Retiring(entry.retirement), 0, entry.retirement)
      BY <2>1, <2>4 DEF LastRelease
    <3>3. entry.gen \in forced' \/ HoldersOf(lease', observer', entry.gen) = 0
      BY <3>1, <2>3
    <3>4. 0 \in 0 .. Cardinality(Consumers) + 1
      BY <1>1
    <3> QED
      BY <1>1, <1>2, <1>8, <1>11, <3>2, <3>3, <3>4, BeginOk, RetiringFacts
  <2>5. CASE entry.retirement = 0
    <3>1. jobs' = jobs /\ overlap' = overlap /\ entry' = [entry EXCEPT !.refs = 0, !.idle = "armed"]
      BY <2>1, <2>5 DEF LastRelease
    <3>2. /\ entry'.gen = entry.gen /\ entry'.teardown = entry.teardown
          /\ entry'.retirement = 0 /\ entry'.refs = 0
      BY <1>1, <2>5, <3>1 DEF EntrySet
    <3>4. entry' \in EntrySet
      <4>1. \A k \in 0 .. Cardinality(Consumers) + 1 : [entry EXCEPT !.refs = k, !.idle = "armed"] \in EntrySet
        BY <1>1 DEF EntrySet
      <4>2. 0 \in 0 .. Cardinality(Consumers) + 1
        BY <1>1
      <4> QED
        BY <3>1, <4>1, <4>2, Zenon
    <3>3. Present /\ Settled => entry'.refs = HoldersOf(lease', observer', entry.gen)
      BY <2>3, <3>2
    <3> QED
      BY <1>1, <1>2, <1>3, <1>4, <1>8, <2>5, <3>1, <3>2, <3>3, <3>4, KeepOk
  <2> QED
    BY <2>4, <2>5
<1> QED
  BY <1>9, <1>10, <1>11

-----------------------------------------------------------------------------
(* The operations, one by one.                                               *)

\* What the operations use of the invariant.
LEMMA EntryFacts ==
  ASSUME TailInv
  PROVE  /\ Present /\ Settled => entry.refs = HoldersOf(lease, observer, entry.gen)
         /\ Present /\ Settled /\ entry.retirement # 0 => entry.refs > 0
         /\ ~overlap /\ Settled /\ entry.gen \in condemned => entry.retirement = RetireForForget
         /\ Present /\ ~Settled /\ entry.gen \notin forced => HoldersOf(lease, observer, entry.gen) = 0
         /\ (\A c \in Consumers : lease[c] <= generations) /\ observer <= generations
         /\ lease \in [Consumers -> Gens \cup {0}] /\ observer \in Gens \cup {0}
         /\ loose \in 0 .. MaxLoose + 1 /\ entry.refs \in 0 .. Cardinality(Consumers) + 1
         /\ 0 \in 0 .. Cardinality(Consumers) + 1 /\ 1 \in 0 .. Cardinality(Consumers) + 1
<1>1. 0 \in 0 .. Cardinality(Consumers) + 1 /\ 1 \in 0 .. Cardinality(Consumers) + 1
  BY HoldersType
<1>2. /\ Present /\ Settled => entry.refs = HoldersOf(lease, observer, entry.gen)
      /\ Present /\ ~Settled /\ entry.gen \notin forced => HoldersOf(lease, observer, entry.gen) = 0
  BY HoldersIs DEF TailInv, RefsExact, TornDown, Settled
<1>3. /\ Present /\ Settled /\ entry.retirement # 0 => entry.refs > 0
      /\ ~overlap /\ Settled /\ entry.gen \in condemned => entry.retirement = RetireForForget
  BY DEF TailInv, Retired, Single
<1>4. /\ (\A c \in Consumers : lease[c] <= generations) /\ observer <= generations
      /\ lease \in [Consumers -> Gens \cup {0}] /\ observer \in Gens \cup {0}
      /\ loose \in 0 .. MaxLoose + 1 /\ entry.refs \in 0 .. Cardinality(Consumers) + 1
  BY DEF TailInv, Numbered, TypeOK
<1> QED
  BY <1>1, <1>2, <1>3, <1>4

\* The observer takes a lease, or gives it up.
LEMMA ObserverCounts ==
  ASSUME NEW l, NEW o \in Nat \ {0}, NEW h \in Nat \ {0}
  PROVE  HoldersOf(l, o, h) = HoldersOf(l, 0, h) + (IF h = o THEN 1 ELSE 0)
<1>1. Cardinality(Lessees(l, h)) \in Nat
  BY HoldersType
<1> QED
  BY <1>1 DEF HoldersOf

\* A consumer lets go.
LEMMA ReleaseKeeps ==
  ASSUME TailInv, NEW c \in Consumers, Release(c)
  PROVE  TailInv'
<1>1. lease \in [Consumers -> Nat] /\ lease \in [Consumers -> Gens \cup {0}] /\ lease[c] # 0
  BY Basics, EntryFacts DEF Release
<1>2. lease' = [lease EXCEPT ![c] = 0] /\ observer' = observer /\ release(lease[c])
  BY DEF Release
<1>3. \A h \in Nat \ {0} :
        HoldersOf(lease', observer', h) = HoldersOf(lease, observer, h) - (IF h = lease[c] THEN 1 ELSE 0)
  BY <1>1, <1>2, HoldersDrop
<1>4. lease' \in [Consumers -> Gens \cup {0}] /\ GivesUp
  BY <1>1, <1>2 DEF GivesUp
<1>5. UNCHANGED <<loose, closed, generations, openNodes, forced, condemned>> /\ lease[c] \in Nat \ {0}
  BY <1>1 DEF Release
<1> QED
  BY <1>2, <1>3, <1>4, <1>5, ReleaseOk

\* A consumer leases the node, or builds it when there is none.
LEMMA AcquireKeeps ==
  ASSUME TailInv, NEW c \in Consumers, Acquire(c), Present
  PROVE  TailInv'
<1>1. /\ entry \in EntrySet /\ entry.gen \in Nat \ {0} /\ entry.gen \in Gens /\ entry.gen = generations
      /\ lease \in [Consumers -> Nat] /\ generations \in Nat /\ entry.refs \in Nat
  BY Basics DEF Present
<1>2. /\ entry' = [entry EXCEPT !.refs = @ + 1, !.idle = "none"]
      /\ lease' = [lease EXCEPT ![c] = entry.gen]
      /\ lease[c] = 0 /\ Settled /\ entry.retirement = 0
      /\ UNCHANGED <<generations, openNodes, loose, observer, closed, jobs, overlap, forced, condemned>>
  BY DEF Acquire
<1>3. \A h \in Nat \ {0} :
        HoldersOf(lease', observer', h) = HoldersOf(lease, observer, h) + (IF entry.gen = h THEN 1 ELSE 0)
  <2>1. observer' = observer
    BY <1>2
  <2>2. /\ lease[c] = 0 /\ entry.gen \in Nat \ {0} /\ lease \in [Consumers -> Nat]
        /\ Grants(lease, c, entry.gen, lease')
    BY <1>1, <1>2 DEF Grants
  <2>3. HoldersOf(lease', observer, entry.gen) = HoldersOf(lease, observer, entry.gen) + 1
    BY <2>2, HoldersAdd
  <2>4. \A h \in Nat \ {0} : h # entry.gen => HoldersOf(lease', observer, h) = HoldersOf(lease, observer, h)
    BY <2>2, HoldersSame
  <2>5. \A h : HoldersOf(lease, observer, h) \in Nat
    BY HoldersType
  <2> QED
    BY <2>1, <2>3, <2>5, <2>4
<1>4. \A h : HoldersOf(lease, observer, h) \in Nat /\ HoldersOf(lease', observer', h) \in 0 .. Cardinality(Consumers) + 1
  BY HoldersType
<1>5. entry.refs + 1 = HoldersOf(lease', observer', entry.gen)
  BY <1>1, <1>2, <1>3, EntryFacts
<1>6. /\ entry'.gen = entry.gen /\ entry'.teardown = entry.teardown
      /\ entry'.retirement = 0 /\ entry'.refs = entry.refs + 1
  BY <1>1, <1>2 DEF EntrySet
<1>7. entry' \in EntrySet
  <2>1. \A k \in 0 .. Cardinality(Consumers) + 1 : [entry EXCEPT !.refs = k, !.idle = "none"] \in EntrySet
    BY <1>1 DEF EntrySet
  <2>2. entry.refs + 1 \in 0 .. Cardinality(Consumers) + 1
    BY <1>4, <1>5
  <2> QED
    BY <1>2, <2>1, <2>2
<1>8. lease' \in [Consumers -> Gens \cup {0}] /\ \A d \in Consumers : lease'[d] <= generations
  BY <1>1, <1>2, EntryFacts
<1>9. \A g \in Gens :
        HoldersOf(lease, observer, g) = 0 =>
          HoldersOf(lease', observer', g) = 0 \/ (g = entry.gen /\ Settled)
  <2> SUFFICES ASSUME NEW g \in Gens, HoldersOf(lease, observer, g) = 0, g # entry.gen
               PROVE  HoldersOf(lease', observer', g) = 0
    BY <1>2
  <2>1. g \in Nat \ {0}
    BY TailnetAssumption DEF Gens
  <2>2. HoldersOf(lease', observer', g) = HoldersOf(lease, observer, g) + (IF entry.gen = g THEN 1 ELSE 0)
    BY <1>3, <2>1
  <2> QED
    BY <2>2
<1>10. Marks
  BY <1>2 DEF Marks
<1>11. ~overlap /\ Settled /\ entry.gen \in condemned' => entry'.retirement = RetireForForget
  BY <1>2, <1>6, EntryFacts
<1>12. loose' \in 0 .. MaxLoose + 1 /\ observer' \in Gens \cup {0} /\ observer' <= generations
  BY <1>2, EntryFacts
<1> QED
  BY <1>2, <1>5, <1>6, <1>7, <1>8, <1>9, <1>10, <1>11, <1>12, KeepOk

\* A step that begins a teardown, changing no lease.
LEMMA PlainBegin ==
  ASSUME TailInv, Present,
         NEW steps \in {CloseOnly, ClosePurge, LogoutClosePurge},
         NEW refs \in 0 .. Cardinality(Consumers) + 1, NEW r \in 0 .. 2,
         Begin(steps, refs, r),
         UNCHANGED <<lease, observer, closed, generations, openNodes>>,
         loose' \in 0 .. MaxLoose + 1,
         forced' \in {forced, forced \cup {entry.gen}}, Marks,
         entry.gen \in forced' \/ HoldersOf(lease, observer, entry.gen) = 0,
         ~overlap /\ Settled /\ entry.gen \in condemned' => steps # CloseOnly
  PROVE  TailInv'
<1>1. lease' \in [Consumers -> Gens \cup {0}] /\ GivesUp
  BY EntryFacts DEF GivesUp
<1> QED
  BY <1>1, BeginOk

\* The idle timer, on time or late.
LEMMA IdleKeeps ==
  ASSUME TailInv, NEW running \in {0, 1}, loose >= running, idleExpired(running)
  PROVE  TailInv'
<1>1. UNCHANGED <<lease, observer, closed, generations, openNodes, forced, condemned>>
  BY DEF idleExpired
<1>2. loose' \in 0 .. MaxLoose + 1
  BY EntryFacts, TailnetAssumption DEF idleExpired
<1>3. Marks
  BY <1>1 DEF Marks
<1>4. CASE Present /\ ~InUse
  <2>1. entry.refs = 0 /\ Begin(CloseOnly, entry.refs, entry.retirement)
    BY <1>4, Basics DEF idleExpired, InUse
  <2>2. entry.gen \in forced' \/ HoldersOf(lease, observer, entry.gen) = 0
    BY <1>1, <1>4, <2>1, EntryFacts
  <2>3. ~(~overlap /\ Settled /\ entry.gen \in condemned')
    BY <1>1, <1>4, <2>1, EntryFacts DEF RetireForForget
  <2>4. CloseOnly \in {CloseOnly, ClosePurge, LogoutClosePurge} /\ entry.retirement \in 0 .. 2
        /\ entry.refs \in 0 .. Cardinality(Consumers) + 1
    BY Basics, EntryFacts
  <2> QED
    BY <1>1, <1>2, <1>3, <1>4, <2>1, <2>2, <2>3, <2>4, PlainBegin
<1>5. CASE ~(Present /\ ~InUse)
  <2>1. UNCHANGED <<entry, jobs, overlap>>
    BY <1>5 DEF idleExpired
  <2>2. entry' \in EntrySet
    BY <2>1, Basics
  <2> QED
    BY <1>1, <1>2, <1>3, <2>1, <2>2, EntryFacts, KeepOk
<1> QED
  BY <1>4, <1>5

\* The timer fires.
LEMMA FiresKeeps ==
  ASSUME TailInv, TimerFires
  PROVE  TailInv'
<1>1. /\ entry' = [entry EXCEPT !.idle = "fired"] /\ loose' = loose + 1 /\ loose < MaxLoose
      /\ UNCHANGED <<lease, observer, closed, jobs, overlap, generations, openNodes, forced, condemned>>
  BY DEF TimerFires
<1>2. /\ entry' \in EntrySet /\ entry'.gen = entry.gen /\ entry'.teardown = entry.teardown
      /\ entry'.refs = entry.refs /\ entry'.retirement = entry.retirement
  BY <1>1, Basics DEF EntrySet
<1>3. loose' \in 0 .. MaxLoose + 1 /\ Marks
  BY <1>1, EntryFacts, TailnetAssumption DEF Marks
<1> QED
  BY <1>1, <1>2, <1>3, EntryFacts, KeepOk

\* A retirement, of a node in use or at once.
LEMMA RetireKeeps ==
  ASSUME TailInv, NEW r \in {RetireForReset, RetireForForget}, Retire(r)
  PROVE  TailInv'
<1> DEFINE stronger == Max2(r, entry.retirement)
<1>1. stronger \in 0 .. 2 /\ stronger # 0
      /\ (entry.retirement = RetireForForget \/ r = RetireForForget => stronger = RetireForForget)
  BY Basics DEF Max2, RetireForReset, RetireForForget
<1>2. /\ Settled /\ Present /\ UNCHANGED <<loose, lease, observer, closed, generations, openNodes, forced>>
      /\ condemned' = IF r = RetireForForget THEN condemned \cup {entry.gen} ELSE condemned
  BY DEF Retire
<1>3. Marks /\ loose' \in 0 .. MaxLoose + 1
  BY <1>2, EntryFacts DEF Marks
<1>4. ~overlap /\ entry.gen \in condemned' => stronger = RetireForForget
  BY <1>1, <1>2, EntryFacts
<1>5. CASE entry.refs > 0
  <2>1. entry' = [entry EXCEPT !.retirement = stronger, !.idle = "none"] /\ UNCHANGED <<jobs, overlap>>
    BY <1>5 DEF Retire
  <2>2. entry \in EntrySet
    BY Basics
  <2> HIDE DEF stronger
  <2>3. /\ entry' \in EntrySet /\ entry'.gen = entry.gen /\ entry'.teardown = entry.teardown
        /\ entry'.refs = entry.refs /\ entry'.retirement = stronger
    BY <1>1, <2>1, <2>2 DEF EntrySet
  <2> QED
    BY <1>2, <1>3, <1>4, <1>5, <2>1, <2>3, EntryFacts, KeepOk
<1>6. CASE ~(entry.refs > 0)
  <2>1. Begin(Retiring(stronger), 0, stronger)
    BY <1>6 DEF Retire
  <2>2. HoldersOf(lease, observer, entry.gen) = 0
    BY <1>2, <1>6, EntryFacts, Basics
  <2>3. Retiring(stronger) \in {CloseOnly, ClosePurge, LogoutClosePurge} /\ 0 \in 0 .. Cardinality(Consumers) + 1
    BY RetiringFacts, EntryFacts
  <2>4. ~overlap /\ Settled /\ entry.gen \in condemned' => Retiring(stronger) # CloseOnly
    BY <1>4, RetiringFacts
  <2> HIDE DEF stronger
  <2> QED
    BY <1>1, <1>2, <1>3, <2>1, <2>2, <2>3, <2>4, PlainBegin
<1> QED
  BY <1>5, <1>6

\* Disconnect and Reset of a node that nobody uses.
LEMMA CloseUnusedKeeps ==
  ASSUME TailInv, NEW op, CloseUnused(op)
  PROVE  TailInv'
<1>1. /\ Settled /\ Present /\ ~InUse /\ Begin(CloseOnly, 0, entry.retirement)
      /\ UNCHANGED <<loose, lease, observer, closed, generations, openNodes, forced, condemned>>
  BY DEF CloseUnused
<1>2. entry.refs = 0 /\ entry.retirement \in 0 .. 2
  BY <1>1, Basics DEF InUse
<1>3. HoldersOf(lease, observer, entry.gen) = 0 /\ ~(~overlap /\ entry.gen \in condemned)
  BY <1>1, <1>2, EntryFacts DEF RetireForForget
<1>4. Marks /\ loose' \in 0 .. MaxLoose + 1 /\ 0 \in 0 .. Cardinality(Consumers) + 1
  BY <1>1, EntryFacts DEF Marks
<1> QED
  BY <1>1, <1>2, <1>3, <1>4, PlainBegin

\* Cancelling, which honours a retirement.
LEMMA DiscardKeeps ==
  ASSUME TailInv, Discard
  PROVE  TailInv'
<1>1. /\ Settled /\ Present /\ Begin(DiscardSteps, 0, entry.retirement)
      /\ forced' = forced \cup {entry.gen}
      /\ UNCHANGED <<loose, lease, observer, closed, generations, openNodes, condemned>>
  BY DEF Discard
<1>2. DiscardSteps \in {CloseOnly, ClosePurge, LogoutClosePurge}
  BY RetiringFacts DEF DiscardSteps
<1>3. ~overlap /\ Settled /\ entry.gen \in condemned' => DiscardSteps # CloseOnly
  BY <1>1, RetiringFacts, EntryFacts DEF DiscardSteps, RetireForForget
<1>4. Marks /\ loose' \in 0 .. MaxLoose + 1 /\ 0 \in 0 .. Cardinality(Consumers) + 1 /\ entry.retirement \in 0 .. 2
  BY <1>1, EntryFacts, Basics DEF Marks
<1> QED
  BY <1>1, <1>2, <1>3, <1>4, PlainBegin

\* Forgetting at once.
LEMMA ForgetKeeps ==
  ASSUME TailInv, Forget
  PROVE  TailInv'
<1>1. /\ Settled /\ Present /\ Begin(LogoutClosePurge, entry.refs, entry.retirement)
      /\ forced' = forced \cup {entry.gen} /\ condemned' = condemned \cup {entry.gen}
      /\ UNCHANGED <<loose, lease, observer, closed, generations, openNodes>>
  BY DEF Forget
<1>2. /\ Marks /\ loose' \in 0 .. MaxLoose + 1
      /\ entry.refs \in 0 .. Cardinality(Consumers) + 1 /\ entry.retirement \in 0 .. 2
  BY <1>1, EntryFacts, Basics DEF Marks
<1>3. LogoutClosePurge # CloseOnly
  BY DEF LogoutClosePurge, CloseOnly
<1> QED
  BY <1>1, <1>2, <1>3, PlainBegin

\* The node is replaced; an observer that leased it drops its lease with it.
LEMMA ReplaceKeeps ==
  ASSUME TailInv, NEW g \in Nat \ {0}, Present, Counts(g), ReplaceInvalidIdentity(g),
         UNCHANGED <<loose, lease, closed, generations, openNodes, condemned>>,
         observer' \in {observer, 0}
  PROVE  TailInv'
<1>1. Settled /\ Begin(ClosePurge, 0, entry.retirement) /\ g = entry.gen /\ forced' = forced \cup {entry.gen}
  BY DEF ReplaceInvalidIdentity, Counts
<1>2. Marks /\ GivesUp /\ lease' \in [Consumers -> Gens \cup {0}] /\ loose' \in 0 .. MaxLoose + 1
  BY EntryFacts DEF Marks, GivesUp
<1>3. ClosePurge # CloseOnly /\ 0 \in 0 .. Cardinality(Consumers) + 1 /\ entry.retirement \in 0 .. 2
  BY EntryFacts, Basics DEF ClosePurge, CloseOnly
<1> QED
  BY <1>1, <1>2, <1>3, BeginOk

\* An idle node is leased to look at it.
LEMMA ObserveKeeps ==
  ASSUME TailInv, Observe
  PROVE  TailInv'
<1>1. /\ observer = 0 /\ Settled /\ Present /\ entry.refs = 0
      /\ entry' = [entry EXCEPT !.refs = 1, !.idle = "none"] /\ observer' = entry.gen
      /\ UNCHANGED <<loose, lease, closed, jobs, overlap, generations, openNodes, forced, condemned>>
  BY DEF Observe
<1>2. /\ entry \in EntrySet /\ entry.gen \in Nat \ {0} /\ entry.gen \in Gens /\ entry.gen = generations
      /\ generations \in Nat
  BY <1>1, Basics DEF Present
<1>3. /\ entry'.gen = entry.gen /\ entry'.teardown = entry.teardown
      /\ entry'.retirement = entry.retirement /\ entry'.refs = 1
  BY <1>1, <1>2 DEF EntrySet
<1>4. entry' \in EntrySet
  <2>1. \A k \in 0 .. Cardinality(Consumers) + 1 : [entry EXCEPT !.refs = k, !.idle = "none"] \in EntrySet
    BY <1>2 DEF EntrySet
  <2>2. 1 \in 0 .. Cardinality(Consumers) + 1
    BY EntryFacts
  <2> QED
    BY <1>1, <2>1, <2>2, Zenon
<1>5. \A h \in Nat \ {0} :
        HoldersOf(lease', observer', h) = HoldersOf(lease, observer, h) + (IF h = entry.gen THEN 1 ELSE 0)
  BY <1>1, <1>2, ObserverCounts
<1>6. entry'.refs = HoldersOf(lease', observer', entry.gen)
  BY <1>1, <1>2, <1>3, <1>5, EntryFacts
<1>7. \A g \in Gens :
        HoldersOf(lease, observer, g) = 0 =>
          HoldersOf(lease', observer', g) = 0 \/ (g = entry.gen /\ Settled)
  <2> SUFFICES ASSUME NEW g \in Gens, HoldersOf(lease, observer, g) = 0, g # entry.gen
               PROVE  HoldersOf(lease', observer', g) = 0
    BY <1>1
  <2>1. g \in Nat \ {0}
    BY TailnetAssumption DEF Gens
  <2>2. HoldersOf(lease', observer', g) = HoldersOf(lease, observer, g) + (IF g = entry.gen THEN 1 ELSE 0)
    BY <1>5, <2>1
  <2> QED
    BY <2>2
<1>8. /\ Marks /\ loose' \in 0 .. MaxLoose + 1 /\ lease' \in [Consumers -> Gens \cup {0}]
      /\ observer' \in Gens \cup {0} /\ observer' <= generations
      /\ \A c \in Consumers : lease'[c] <= generations
  BY <1>1, <1>2, EntryFacts DEF Marks
<1>9. ~overlap /\ Settled /\ entry.gen \in condemned' => entry'.retirement = RetireForForget
  BY <1>1, <1>3, EntryFacts
<1> QED
  BY <1>1, <1>3, <1>4, <1>6, <1>7, <1>8, <1>9, KeepOk

\* The observer releases its lease.
LEMMA ObserverReleases ==
  ASSUME TailInv, observer # 0, release(observer), observer' = 0,
         UNCHANGED <<loose, lease, closed, generations, openNodes, forced, condemned>>
  PROVE  TailInv'
<1>1. observer \in Nat \ {0} /\ lease' \in [Consumers -> Gens \cup {0}] /\ GivesUp
  BY Basics, EntryFacts DEF GivesUp
<1>2. \A h : HoldersOf(lease, 0, h) \in Nat
  BY HoldersType
<1>3. \A h \in Nat \ {0} :
        HoldersOf(lease', observer', h) = HoldersOf(lease, observer, h) - (IF h = observer THEN 1 ELSE 0)
  <2>1. \A h \in Nat \ {0} :
          HoldersOf(lease, observer, h) = HoldersOf(lease, 0, h) + (IF h = observer THEN 1 ELSE 0)
    BY <1>1, ObserverCounts
  <2> QED
    BY <1>2, <2>1
<1> QED
  BY <1>1, <1>3, ReleaseOk

\* The first consumer builds a node.
LEMMA BuildKeeps ==
  ASSUME TailInv, NEW c \in Consumers, Acquire(c), ~Present
  PROVE  TailInv'
<1>1. PICK new :
      /\ new = generations + 1 /\ lease[c] = 0 /\ ~closed /\ new \in Gens
      /\ entry' = [NoEntry EXCEPT !.gen = new, !.refs = 1]
      /\ lease' = [lease EXCEPT ![c] = new] /\ generations' = new /\ openNodes' = openNodes \cup {new}
      /\ UNCHANGED <<loose, observer, closed, jobs, overlap, forced, condemned>>
  BY DEF Acquire
<1>2. generations \in Nat /\ lease \in [Consumers -> Nat] /\ observer \in Nat /\ new \in Nat \ {0} /\ new > generations
  BY <1>1, Basics
<1>3. /\ entry'.gen = new /\ entry'.refs = 1 /\ entry'.retirement = 0 /\ entry'.teardown = FALSE
  BY <1>1 DEF NoEntry
<1>4. entry' \in EntrySet
  <2>1. \A k \in 0 .. Cardinality(Consumers) + 1, n \in Gens : [NoEntry EXCEPT !.gen = n, !.refs = k] \in EntrySet
    BY NoEntryFacts DEF EntrySet
  <2>2. 1 \in 0 .. Cardinality(Consumers) + 1
    BY EntryFacts
  <2> QED
    BY <1>1, <2>1, <2>2, Zenon
<1>5. \A h \in Nat \ {0} :
        HoldersOf(lease', observer', h) = HoldersOf(lease, observer, h) + (IF new = h THEN 1 ELSE 0)
  <2>1. lease[c] = 0 /\ new \in Nat \ {0} /\ lease \in [Consumers -> Nat]
        /\ Grants(lease, c, new, lease')
    BY <1>1, <1>2 DEF Grants
  <2>2. observer' = observer
    BY <1>1
  <2>3. HoldersOf(lease', observer, new) = HoldersOf(lease, observer, new) + 1
    BY <2>1, HoldersAdd
  <2>4. \A h \in Nat \ {0} : h # new => HoldersOf(lease', observer, h) = HoldersOf(lease, observer, h)
    BY <2>1, HoldersSame
  <2>5. \A h : HoldersOf(lease, observer, h) \in Nat
    BY HoldersType
  <2> QED
    BY <2>2, <2>3, <2>5, <2>4
<1>6. HoldersOf(lease', observer', new) = 1
  <2>1. observer # new /\ \A d \in Consumers : lease[d] # new
    BY <1>2, EntryFacts
  <2>2. HoldersOf(lease, observer, new) = 0 <=> observer # new /\ \A d \in Consumers : lease[d] # new
    BY HoldersZero
  <2> QED
    BY <1>2, <1>5, <2>1, <2>2
<1>7. \A job \in DOMAIN jobs : job.gen \in 1 .. generations /\ job.gen # new /\ job.gen \in Nat \ {0}
  BY <1>2, JobFacts
<1>8. TypeOK'
  <2>1. /\ closed' \in BOOLEAN /\ generations' \in 0 .. MaxGen /\ overlap' \in BOOLEAN
        /\ loose' \in 0 .. MaxLoose + 1 /\ observer' \in Gens \cup {0}
    BY <1>1, TailnetAssumption DEF TailInv, TypeOK, Gens
  <2>2. \A job \in DOMAIN jobs' : job.gen \in Gens /\ job.todo # <<>>
    BY <1>1 DEF TailInv, TypeOK, BagToSet
  <2>3. openNodes' \subseteq Gens /\ forced' \subseteq Gens /\ condemned' \subseteq Gens
    BY <1>1 DEF TailInv, TypeOK
  <2>4. lease' \in [Consumers -> Gens \cup {0}]
    BY <1>1, EntryFacts
  <2> QED
    BY <1>4, <2>1, <2>2, <2>3, <2>4 DEF TypeOK, EntrySet, BagToSet
<1>9. Numbered'
  <2>1. (\A d \in Consumers : lease'[d] <= generations') /\ observer' <= generations'
    BY <1>1, <1>2, EntryFacts
  <2>2. 1 .. generations \subseteq 1 .. generations' /\ new \in 1 .. generations'
    BY <1>1, <1>2
  <2>3. \A job \in DOMAIN jobs' : job \in [gen : 1 .. generations', todo : Todos]
    BY <1>1, <2>2, JobFacts
  <2>4. openNodes' \subseteq 1 .. generations' /\ condemned' \subseteq 1 .. generations'
    BY <1>1, <2>2 DEF TailInv, Numbered
  <2> QED
    BY <1>1, <1>3, <2>1, <2>3, <2>4 DEF Numbered
<1>10. RefsExact' /\ Retired'
  <2>1. entry'.refs = Holders(entry.gen)'
    BY <1>3, <1>6, HoldersIs
  <2> QED
    BY <1>3, <2>1 DEF RefsExact, Retired
<1>11. LeasedStays'
  <2>1. ASSUME NEW job \in DOMAIN jobs, job.gen \notin forced
        PROVE  Holders(job.gen)' = 0
    <3>1. HoldersOf(lease, observer, job.gen) = 0
      BY <2>1, HoldersIs DEF TailInv, LeasedStays, BagToSet
    <3>2. HoldersOf(lease', observer', job.gen) = HoldersOf(lease, observer, job.gen) + (IF new = job.gen THEN 1 ELSE 0)
      BY <1>5, <1>7, <2>1
    <3>3. HoldersOf(lease', observer', job.gen) = 0
      BY <3>1, <3>2, <1>7, <2>1
    <3> QED
      BY <3>3, HoldersIs
  <2> QED
    BY <2>1, <1>1 DEF LeasedStays, BagToSet
<1>12. TornDown'
  BY <1>1, <1>3, <1>7 DEF TornDown
<1>13. Closes'
  <2>1. \A job \in DOMAIN jobs' : Has(job, "close") \/ job.gen \notin openNodes'
    BY <1>1, <1>7 DEF TailInv, Closes
  <2> QED
    BY <2>1 DEF Closes, Has
<1>14. Single'
  <2> SUFFICES ASSUME ~overlap' PROVE Single!2'
    BY DEF Single
  <2>1. DOMAIN jobs' = {} /\ openNodes' = {new} /\ condemned' = {}
    BY <1>1 DEF TailInv, Single
  <2>2. Present'
    BY <1>2, <1>3 DEF Present
  <2> QED
    BY <1>1, <2>1, <2>2
<1> QED
  BY <1>8, <1>9, <1>10, <1>11, <1>12, <1>13, <1>14 DEF TailInv

\* Registry.Close takes every node from its users and lets running teardowns end.
LEMMA CloseKeeps ==
  ASSUME TailInv, Close
  PROVE  TailInv'
<1> DEFINE new == [gen |-> entry.gen, todo |-> Retiring(entry.retirement)]
           begins == Present /\ ~entry.teardown
<1>1. /\ closed' = TRUE /\ entry' = NoEntry
      /\ jobs' = IF begins THEN BagAdd(jobs, new) ELSE jobs
      /\ forced' = IF Present THEN forced \cup {entry.gen} ELSE forced
      /\ UNCHANGED <<loose, lease, observer, generations, openNodes, condemned, overlap>>
  BY DEF Close, Skipped
<1>2. DOMAIN jobs' \subseteq DOMAIN jobs \cup (IF begins THEN {new} ELSE {})
  BY <1>1, BagAddFacts
<1>3. /\ entry'.gen = 0 /\ entry'.refs = 0 /\ entry'.retirement = 0 /\ entry'.teardown = FALSE
      /\ entry' \in EntrySet
  BY <1>1, NoEntryFacts
<1>4. begins => /\ new.gen = generations /\ new.gen \in 1 .. generations /\ new.gen \in Gens
                /\ new.gen = entry.gen /\ new.gen \in forced' /\ new \in [gen : 1 .. generations, todo : Todos]
                /\ new.todo \in Todos /\ Has(new, "close")
                /\ (entry.retirement = RetireForForget => Has(new, "purge"))
  <2> SUFFICES ASSUME begins PROVE <1>4!2
    OBVIOUS
  <2>1. new.gen = entry.gen /\ new.todo = Retiring(entry.retirement)
    OBVIOUS
  <2>2. entry.gen = generations /\ entry.gen \in 1 .. generations /\ entry.gen \in Gens
    BY Basics DEF Present
  <2>3. entry.gen \in forced'
    BY <1>1
  <2>4. Retiring(entry.retirement) \in Todos
    BY DEF Retiring, Todos, LogoutClosePurge, CloseOnly
  <2>5. Retiring(entry.retirement) \notin {<<"remove">>, <<"purge", "remove">>}
    BY DEF Retiring, LogoutClosePurge, CloseOnly
  <2>6. entry.retirement = RetireForForget =>
          Retiring(entry.retirement) \notin {<<"remove">>, <<"close", "remove">>}
    BY DEF Retiring, LogoutClosePurge
  <2>7. new \in [gen : 1 .. generations, todo : Todos]
    BY <2>2, <2>4
  <2> HIDE DEF new
  <2>8. Has(new, "close") /\ (entry.retirement = RetireForForget => Has(new, "purge"))
    BY <2>1, <2>4, <2>5, <2>6, TodoFacts
  <2> QED
    BY <2>1, <2>2, <2>3, <2>4, <2>7, <2>8
<1>5. begins /\ ~overlap => DOMAIN jobs' = {new} /\ jobs'[new] = 1
  <2> SUFFICES ASSUME begins, ~overlap PROVE DOMAIN jobs' = {new} /\ jobs'[new] = 1
    OBVIOUS
  <2>1. DOMAIN jobs = {}
    BY SettledAlone DEF Settled
  <2>2. jobs' = BagAdd(jobs, new)
    BY <1>1
  <2> HIDE DEF new, begins
  <2>3. DOMAIN BagAdd(jobs, new) = DOMAIN jobs \cup {new}
        /\ (new \notin DOMAIN jobs => BagAdd(jobs, new)[new] = 1)
    BY BagAddFacts, Zenon
  <2> QED
    BY <2>1, <2>2, <2>3
<1>6. ~begins => jobs' = jobs
  BY <1>1
<1> HIDE DEF new
<1>7. TypeOK'
  <2>1. \A job \in DOMAIN jobs' : job.gen \in Gens /\ job.todo # <<>>
    BY <1>2, <1>4, JobFacts, TodosNotEmpty
  <2>2. /\ closed' \in BOOLEAN /\ generations' \in 0 .. MaxGen /\ overlap' \in BOOLEAN
        /\ loose' \in 0 .. MaxLoose + 1 /\ observer' \in Gens \cup {0}
        /\ lease' \in [Consumers -> Gens \cup {0}]
    BY <1>1 DEF TailInv, TypeOK
  <2>3. openNodes' \subseteq Gens /\ forced' \subseteq Gens /\ condemned' \subseteq Gens
    BY <1>1, Basics DEF TailInv, TypeOK
  <2> QED
    BY <1>3, <2>1, <2>2, <2>3 DEF TypeOK, EntrySet, BagToSet
<1>8. Numbered'
  <2>1. \A job \in DOMAIN jobs' : job \in [gen : 1 .. generations', todo : Todos]
    BY <1>1, <1>2, <1>4 DEF TailInv, Numbered
  <2> QED
    BY <1>1, <1>3, <2>1 DEF TailInv, Numbered
<1>9. RefsExact' /\ Retired' /\ ~Present'
  BY <1>3 DEF RefsExact, Retired, Present
<1>10. LeasedStays'
  <2>1. ASSUME NEW job \in DOMAIN jobs', job.gen \notin forced'
        PROVE  Holders(job.gen)' = 0
    <3>1. job \in DOMAIN jobs /\ job.gen \notin forced
      BY <1>1, <1>2, <1>4, <2>1
    <3>2. HoldersOf(lease', observer', job.gen) = 0
      BY <1>1, <3>1, HoldersIs DEF TailInv, LeasedStays, BagToSet
    <3> QED
      BY <3>2, HoldersIs
  <2> QED
    BY <2>1 DEF LeasedStays, BagToSet
<1>11. TornDown'
  <2>1. \A job \in DOMAIN jobs' : job.gen # 0
    BY <1>2, <1>4, JobFacts, Basics
  <2> QED
    BY <1>3, <1>9, <2>1 DEF TornDown
<1>12. Closes'
  <2>1. \A job \in DOMAIN jobs' : Has(job, "close") \/ job.gen \notin openNodes'
    BY <1>1, <1>2, <1>4 DEF TailInv, Closes
  <2> QED
    BY <2>1 DEF Closes, Has
<1>13. Single'
  <2> SUFFICES ASSUME ~overlap' PROVE Single!2'
    BY DEF Single
  <2>1. ~overlap
    BY <1>1
  <2>2. openNodes' \subseteq {generations'} /\ condemned' \subseteq {generations'}
    BY <2>1, <1>1 DEF TailInv, Single
  <2>3. entry'.gen \notin condemned'
    BY <1>1, <1>3, Basics DEF TailInv, Numbered
  <2>4. CASE begins
    <3>1. new.gen \in condemned' => Has(new, "purge")
      BY <2>1, <2>4, <1>1, <1>4, EntryFacts DEF Settled
    <3> QED
      BY <2>1, <2>2, <2>3, <2>4, <3>1, <1>1, <1>4, <1>5 DEF Has
  <2>5. CASE ~begins
    <3>1. /\ \A j, k \in DOMAIN jobs' : j = k /\ jobs'[j] = 1
          /\ \A job \in DOMAIN jobs' : job.gen = generations' /\ (Present' \/ closed')
          /\ \A job \in DOMAIN jobs' : job.gen \in condemned' => Has(job, "purge")
      BY <2>1, <2>5, <1>1, <1>6 DEF TailInv, Single
    <3> QED
      BY <2>2, <2>3, <3>1, <1>1 DEF Has
  <2> QED
    BY <2>4, <2>5
<1> QED
  BY <1>7, <1>8, <1>9, <1>10, <1>11, <1>12, <1>13 DEF TailInv

-----------------------------------------------------------------------------
(* The steps of a teardown.                                                  *)

\* One step less to do.
LEMMA TodoTail ==
  ASSUME NEW todo \in Todos, todo # <<"remove">>
  PROVE  /\ Len(todo) # 1 /\ Head(todo) # "remove" /\ Tail(todo) \in Todos
         /\ todo \notin {<<"remove">>, <<"purge", "remove">>} /\ Head(todo) # "close" =>
              Tail(todo) \notin {<<"remove">>, <<"purge", "remove">>}
         /\ todo \notin {<<"remove">>, <<"close", "remove">>} /\ Head(todo) # "purge" =>
              Tail(todo) \notin {<<"remove">>, <<"close", "remove">>}
<1>1. CASE todo = <<"close", "remove">>
  BY <1>1 DEF Todos
<1>2. CASE todo = <<"purge", "remove">>
  BY <1>2 DEF Todos
<1>3. CASE todo = <<"close", "purge", "remove">>
  BY <1>3 DEF Todos
<1>4. CASE todo = <<"logout", "close", "purge", "remove">>
  BY <1>4 DEF Todos
<1> QED
  BY <1>1, <1>2, <1>3, <1>4 DEF Todos

\* A teardown that has more to do than to give up the entry.
LEMMA WorkKeeps ==
  ASSUME TailInv, NEW job \in DOMAIN jobs, Step(job), job.todo # <<"remove">>
  PROVE  TailInv'
<1>1. PICK others : others = BagRemove(jobs, job)
  OBVIOUS
<1>2. PICK next : next = [job EXCEPT !.todo = Tail(@)]
  OBVIOUS
<1>3. /\ job.gen \in 1 .. generations /\ job.gen \in Gens /\ job.todo \in Todos
      /\ job = [gen |-> job.gen, todo |-> job.todo]
  BY JobFacts
<1>4. next.gen = job.gen /\ next.todo = Tail(job.todo) /\ next = [gen |-> job.gen, todo |-> Tail(job.todo)]
  BY <1>2, <1>3
<1>5. Len(job.todo) # 1 /\ Head(job.todo) # "remove" /\ next.todo \in Todos
  BY <1>3, <1>4, TodoTail
<1>6. /\ jobs' = BagAdd(others, next) /\ entry' = entry
      /\ openNodes' = IF Head(job.todo) = "close" THEN openNodes \ {job.gen} ELSE openNodes
      /\ condemned' = IF Head(job.todo) = "purge" THEN condemned \ {job.gen} ELSE condemned
      /\ UNCHANGED <<loose, lease, observer, closed, generations, forced, overlap>>
  BY <1>1, <1>2, <1>5 DEF Step
<1>7. DOMAIN jobs' \subseteq DOMAIN jobs \cup {next}
  <2>1. DOMAIN others \subseteq DOMAIN jobs
    BY <1>1, BagRemoveFacts
  <2>2. DOMAIN BagAdd(others, next) = DOMAIN others \cup {next}
    BY BagAddFacts
  <2>3. jobs' = BagAdd(others, next)
    BY <1>6
  <2> QED
    BY <2>1, <2>2, <2>3
<1>8. Has(next, "close") \/ next.gen \notin openNodes'
  <2>1. CASE Head(job.todo) = "close"
    BY <2>1, <1>4, <1>6
  <2>2. CASE Head(job.todo) # "close" /\ job.gen \notin openNodes
    BY <2>2, <1>4, <1>6
  <2>3. CASE Head(job.todo) # "close" /\ Has(job, "close")
    <3>1. job.todo \notin {<<"remove">>, <<"purge", "remove">>}
      BY <2>3, <1>3, TodoFacts
    <3>2. next.todo \notin {<<"remove">>, <<"purge", "remove">>}
      BY <2>3, <3>1, <1>3, <1>4, TodoTail
    <3> QED
      BY <3>2, <1>5, TodoFacts
  <2> QED
    BY <2>1, <2>2, <2>3 DEF TailInv, Closes
<1>9. ~overlap => (next.gen \in condemned' => Has(next, "purge"))
  <2> SUFFICES ASSUME ~overlap, next.gen \in condemned' PROVE Has(next, "purge")
    OBVIOUS
  <2>1. Head(job.todo) # "purge" /\ job.gen \in condemned
    BY <1>4, <1>6
  <2>2. Has(job, "purge")
    BY <2>1 DEF TailInv, Single
  <2>3. job.todo \notin {<<"remove">>, <<"close", "remove">>}
    BY <2>2, <1>3, TodoFacts
  <2>4. next.todo \notin {<<"remove">>, <<"close", "remove">>}
    BY <2>1, <2>3, <1>3, <1>4, TodoTail
  <2> QED
    BY <2>4, <1>5, TodoFacts
<1>10. ~overlap => DOMAIN jobs' = {next} /\ jobs'[next] = 1
  <2> SUFFICES ASSUME ~overlap PROVE DOMAIN jobs' = {next} /\ jobs'[next] = 1
    OBVIOUS
  <2>1. DOMAIN jobs = {job} /\ jobs[job] = 1
    BY DEF TailInv, Single
  <2>2. DOMAIN others = {}
    BY <1>1, <2>1, BagRemoveFacts
  <2>3. /\ DOMAIN BagAdd(others, next) = DOMAIN others \cup {next}
        /\ (next \notin DOMAIN others => BagAdd(others, next)[next] = 1)
    BY BagAddFacts
  <2>4. jobs' = BagAdd(others, next)
    BY <1>6
  <2> QED
    BY <2>2, <2>3, <2>4
<1>11. openNodes' \subseteq openNodes /\ condemned' \subseteq condemned
  BY <1>6
<1>12. UNCHANGED <<entry, loose, lease, observer, closed, generations, forced, overlap>>
  BY <1>6
<1>13. TypeOK'
  <2>1. \A k \in DOMAIN jobs' : k.gen \in Gens /\ k.todo # <<>>
    BY <1>3, <1>4, <1>5, <1>7, JobFacts, TodosNotEmpty
  <2> QED
    BY <1>11, <1>12, <2>1 DEF TailInv, TypeOK, BagToSet
<1>14. Numbered'
  <2>1. next \in [gen : 1 .. generations, todo : Todos]
    BY <1>3, <1>4, <1>5
  <2>2. \A k \in DOMAIN jobs' : k \in [gen : 1 .. generations', todo : Todos]
    BY <1>7, <1>12, <2>1 DEF TailInv, Numbered
  <2> QED
    BY <1>11, <1>12, <2>2 DEF TailInv, Numbered
<1>15. Holders(entry.gen)' = Holders(entry.gen)
  BY <1>12 DEF Holders
<1>16. RefsExact' /\ Retired'
  BY <1>12, <1>15 DEF TailInv, RefsExact, Retired, Present, Settled
<1>17. LeasedStays'
  <2>1. \A k \in DOMAIN jobs' : k.gen \notin forced' => Holders(k.gen) = 0
    BY <1>4, <1>7, <1>12 DEF TailInv, LeasedStays, BagToSet
  <2> QED
    BY <1>12, <2>1 DEF LeasedStays, BagToSet, Holders
<1>18. TornDown'
  <2>1. \A k \in DOMAIN jobs' : k.gen = entry'.gen => entry'.teardown
    BY <1>4, <1>7, <1>12 DEF TailInv, TornDown
  <2> QED
    BY <1>12, <1>15, <2>1 DEF TailInv, TornDown, Present
<1>19. Closes'
  <2>1. \A k \in DOMAIN jobs' : Has(k, "close") \/ k.gen \notin openNodes'
    BY <1>7, <1>8, <1>11 DEF TailInv, Closes
  <2> QED
    BY <2>1 DEF Closes, Has
<1>20. Single'
  <2> SUFFICES ASSUME ~overlap' PROVE Single!2'
    BY DEF Single
  <2>1. ~overlap
    BY <1>12
  <2>2. next.gen = generations' /\ (Present' \/ closed')
    BY <2>1, <1>4, <1>12 DEF TailInv, Single, Present
  <2>3. openNodes' \subseteq {generations'} /\ condemned' \subseteq {generations'}
    BY <2>1, <1>11, <1>12 DEF TailInv, Single
  <2>4. Settled' /\ entry'.gen \in condemned' => entry'.retirement = RetireForForget
    BY <2>1, <1>11, <1>12 DEF TailInv, Single, Settled
  <2>5. DOMAIN jobs' = {next} /\ jobs'[next] = 1 /\ (next.gen \in condemned' => Has(next, "purge"))
    BY <2>1, <1>9, <1>10
  <2> QED
    BY <2>2, <2>3, <2>4, <2>5 DEF Has
<1> QED
  BY <1>13, <1>14, <1>16, <1>17, <1>18, <1>19, <1>20 DEF TailInv

\* The end of a teardown: its entry is given up.
LEMMA EndKeeps ==
  ASSUME TailInv, NEW job \in DOMAIN jobs, Step(job), job.todo = <<"remove">>
  PROVE  TailInv'
<1>1. job.gen \in 1 .. generations /\ job.gen \in Gens /\ job.todo \in Todos
  BY JobFacts
<1>2. Head(job.todo) = "remove" /\ Len(job.todo) = 1
  OBVIOUS
<1>3. /\ jobs' = BagRemove(jobs, job)
      /\ entry' = IF entry.gen = job.gen THEN NoEntry ELSE entry
      /\ UNCHANGED <<openNodes, condemned, loose, lease, observer, closed, generations, forced, overlap>>
  BY <1>2 DEF Step, Removes
<1>4. ~Has(job, "close") /\ ~Has(job, "purge")
  BY <1>1, TodoFacts
<1>5. DOMAIN jobs' \subseteq DOMAIN jobs
  BY <1>3, BagRemoveFacts
<1>6. entry' \in EntrySet /\ (entry' = entry \/ entry' = NoEntry)
  BY <1>3, NoEntryFacts, Basics
<1>7. TypeOK'
  <2>1. \A k \in DOMAIN jobs' : k.gen \in Gens /\ k.todo # <<>>
    BY <1>5 DEF TailInv, TypeOK, BagToSet
  <2>2. /\ loose' \in 0 .. MaxLoose + 1 /\ lease' \in [Consumers -> Gens \cup {0}]
        /\ observer' \in Gens \cup {0} /\ closed' \in BOOLEAN /\ generations' \in 0 .. MaxGen
        /\ openNodes' \subseteq Gens /\ forced' \subseteq Gens /\ condemned' \subseteq Gens
        /\ overlap' \in BOOLEAN
    BY <1>3 DEF TailInv, TypeOK
  <2> QED
    BY <1>6, <2>1, <2>2 DEF TypeOK, EntrySet, BagToSet
<1>8. Numbered'
  <2>1. entry'.gen \in {0, generations'}
    BY <1>3, <1>6, NoEntryFacts DEF TailInv, Numbered
  <2> QED
    BY <1>3, <1>5, <2>1 DEF TailInv, Numbered
<1>9. LeasedStays'
  <2>1. \A k \in DOMAIN jobs' : k.gen \notin forced' => Holders(k.gen) = 0
    BY <1>3, <1>5 DEF TailInv, LeasedStays, BagToSet
  <2>2. lease' = lease /\ observer' = observer
    BY <1>3
  <2> QED
    BY <2>1, <2>2 DEF LeasedStays, BagToSet, Holders
<1>10. RefsExact' /\ Retired' /\ TornDown'
  <2>1. lease' = lease /\ observer' = observer /\ forced' = forced
    BY <1>3
  <2>2. CASE entry' = entry
    <3>1. Holders(entry.gen)' = Holders(entry.gen)
      BY <2>1, <2>2 DEF Holders
    <3>2. \A k \in DOMAIN jobs' : k.gen = entry'.gen => entry'.teardown
      BY <1>5, <2>2 DEF TailInv, TornDown
    <3> QED
      BY <2>1, <2>2, <3>1, <3>2 DEF TailInv, RefsExact, Retired, TornDown, Present, Settled
  <2>3. CASE entry' = NoEntry
    <3>1. entry'.gen = 0 /\ ~Present'
      BY <2>3, NoEntryFacts DEF Present
    <3>2. \A k \in DOMAIN jobs' : k.gen # 0
      BY <1>5, JobFacts, Basics
    <3> QED
      BY <3>1, <3>2 DEF RefsExact, Retired, TornDown
  <2> QED
    BY <2>2, <2>3, <1>6
<1>11. Closes'
  <2>1. \A k \in DOMAIN jobs' : Has(k, "close") \/ k.gen \notin openNodes'
    BY <1>3, <1>5 DEF TailInv, Closes
  <2> QED
    BY <2>1 DEF Closes, Has
<1>12. Single'
  <2> SUFFICES ASSUME ~overlap' PROVE Single!2'
    BY DEF Single
  <2>1. ~overlap
    BY <1>3
  <2>2. DOMAIN jobs = {job} /\ jobs[job] = 1 /\ job.gen = generations
    BY <2>1 DEF TailInv, Single
  <2>3. DOMAIN jobs' = {}
    <3>1. DOMAIN BagRemove(jobs, job) = DOMAIN jobs \ {job}
      BY <2>2, BagRemoveFacts
    <3>2. jobs' = BagRemove(jobs, job)
      BY <1>3
    <3> QED
      BY <2>2, <3>1, <3>2
  <2>4. openNodes = {} /\ condemned = {}
    BY <2>1, <2>2, <1>4 DEF TailInv, Single, Closes
  <2> QED
    BY <1>3, <2>3, <2>4
<1> QED
  BY <1>7, <1>8, <1>9, <1>10, <1>11, <1>12 DEF TailInv

-----------------------------------------------------------------------------
(* The theorems.                                                             *)

\* An empty registry.
LEMMA InitOk ==
  ASSUME Init
  PROVE  TailInv
<1>1. DOMAIN jobs = {}
  BY DEF Init, EmptyBag, SetToBag
<1>2. entry \in EntrySet /\ entry.gen = 0 /\ entry.retirement = 0
  BY NoEntryFacts DEF Init
<1>3. TypeOK
  <2>1. loose \in 0 .. MaxLoose + 1 /\ generations \in 0 .. MaxGen
    BY TailnetAssumption DEF Init
  <2>2. lease \in [Consumers -> Gens \cup {0}] /\ observer \in Gens \cup {0}
    BY DEF Init
  <2>3. /\ closed \in BOOLEAN /\ overlap \in BOOLEAN
        /\ openNodes \subseteq Gens /\ forced \subseteq Gens /\ condemned \subseteq Gens
    BY DEF Init
  <2> QED
    BY <1>1, <1>2, <2>1, <2>2, <2>3 DEF TypeOK, EntrySet, BagToSet
<1>4. Numbered
  BY <1>1, <1>2 DEF Init, Numbered
<1>5. RefsExact /\ LeasedStays /\ TornDown /\ Closes /\ Retired
  BY <1>1, <1>2 DEF RefsExact, LeasedStays, TornDown, Closes, Retired, Present, BagToSet
<1>6. Single
  BY <1>1, <1>2 DEF Init, Single
<1> QED
  BY <1>3, <1>4, <1>5, <1>6 DEF TailInv

\* Nothing happens.
LEMMA StutterOk ==
  ASSUME TailInv, UNCHANGED vars
  PROVE  TailInv'
  BY DEF vars, TailInv, TypeOK, Numbered, RefsExact, LeasedStays, TornDown, Closes, Single,
         Retired, Present, Settled, Holders, Has, BagToSet

\* One critical section of the registry.
LEMMA NextOk ==
  ASSUME TailInv, Next
  PROVE  TailInv'
<1>1. ASSUME NEW c \in Consumers, Acquire(c)
      PROVE  TailInv'
  BY <1>1, AcquireKeeps, BuildKeeps
<1>2. ASSUME NEW c \in Consumers, Release(c)
      PROVE  TailInv'
  BY <1>2, ReleaseKeeps
<1>3. CASE TimerFires
  BY <1>3, FiresKeeps
<1>4. CASE TimerOnTime
  <2>1. idleExpired(0) /\ 0 \in {0, 1} /\ loose >= 0
    BY <1>4, EntryFacts DEF TimerOnTime
  <2> QED
    BY <2>1, IdleKeeps
<1>5. CASE TimerLate
  <2>1. idleExpired(1) /\ 1 \in {0, 1} /\ loose >= 1
    BY <1>5, EntryFacts DEF TimerLate
  <2> QED
    BY <2>1, IdleKeeps
<1>6. ASSUME NEW r \in {RetireForReset, RetireForForget}, Retire(r)
      PROVE  TailInv'
  BY <1>6, RetireKeeps
<1>7. ASSUME NEW op \in Ops, CloseUnused(op)
      PROVE  TailInv'
  BY <1>7, CloseUnusedKeeps
<1>8. ASSUME NEW g \in Gens, Replace(g)
      PROVE  TailInv'
  <2>1. g \in Nat \ {0}
    BY TailnetAssumption DEF Gens
  <2>2. CASE Present /\ Counts(g)
    BY <1>8, <2>1, <2>2, ReplaceKeeps DEF Replace
  <2>3. CASE ~(Present /\ Counts(g))
    <3>1. UNCHANGED vars
      BY <1>8, <2>3 DEF Replace, ReplaceInvalidIdentity, vars
    <3> QED
      BY <3>1, StutterOk
  <2> QED
    BY <2>2, <2>3
<1>9. CASE Discard
  BY <1>9, DiscardKeeps
<1>10. CASE Forget
  BY <1>10, ForgetKeeps
<1>11. CASE Observe
  BY <1>11, ObserveKeeps
<1>12. CASE ObservedValid
  BY <1>12, ObserverReleases DEF ObservedValid
<1>13. CASE ObservedInvalid
  <2>1. observer \in Nat \ {0}
    BY <1>13, Basics DEF ObservedInvalid
  <2>2. CASE Present /\ Counts(observer)
    BY <1>13, <2>1, <2>2, ReplaceKeeps DEF ObservedInvalid
  <2>3. CASE ~(Present /\ Counts(observer))
    BY <1>13, <2>3, ObserverReleases DEF ObservedInvalid
  <2> QED
    BY <2>2, <2>3
<1>14. CASE Close
  BY <1>14, CloseKeeps
<1>15. ASSUME NEW job \in DOMAIN jobs, Step(job)
       PROVE  TailInv'
  BY <1>15, WorkKeeps, EndKeeps
<1>16. CASE Leasing
  BY <1>1, <1>2, <1>16 DEF Leasing
<1>17. CASE Timers
  BY <1>3, <1>4, <1>5, <1>17 DEF Timers
<1>18. CASE Calls
  BY <1>6, <1>7, <1>8, <1>9, <1>10, <1>11, <1>12, <1>13, <1>14, <1>18 DEF Calls
<1>19. CASE Teardowns
  BY <1>15, <1>19 DEF Teardowns, BagToSet
<1> QED
  BY <1>16, <1>17, <1>18, <1>19 DEF Next

\* The inductive invariant of the tailnet registry holds whatever consumers,
\* timers and calls do, in any order.
THEOREM TailInvariant == Spec => []TailInv
<1>1. Init => TailInv
  BY InitOk
<1>2. TailInv /\ [Next]_vars => TailInv'
  BY NextOk, StutterOk
<1> QED
  BY <1>1, <1>2, PTL DEF Spec

\* Type correctness of the registry.
THEOREM TypeCorrect == Spec => []TypeOK
<1>1. TailInv => TypeOK
  BY DEF TailInv
<1> QED
  BY <1>1, TailInvariant, PTL

\* Registry.release and Acquire: the reference count of a node that is not being
\* torn down is exactly the number of leases of it, old leases that come back
\* after a forced teardown included.
THEOREM CountsAreExact == Spec => []RefsExact
<1>1. TailInv => RefsExact
  BY DEF TailInv
<1> QED
  BY <1>1, TailInvariant, PTL

\* The idle timer (on time, or late after it was stopped), Disconnect, Reset and
\* Retire never close a node under a lease.
THEOREM UsersKeepTheirNode == Spec => []LeasedStays
<1>1. TailInv => LeasedStays
  BY DEF TailInv
<1> QED
  BY <1>1, TailInvariant, PTL

\* lockEntrySettled: as long as no teardown began during another one, a node is
\* alone with its state directory.
THEOREM NodesAreAlone == Spec => []NodeAlone
<1>1. TailInv => NodeAlone
  <2> SUFFICES ASSUME TailInv, ~overlap PROVE NodeAlone!2
    BY DEF NodeAlone
  <2>1. openNodes \in SUBSET {generations}
    BY DEF TailInv, Single
  <2>2. IsFiniteSet({generations}) /\ Cardinality({generations}) = 1
    BY FS_Singleton
  <2>3. Cardinality(openNodes) <= 1
    BY <2>1, <2>2, FS_Subset
  <2>4. \A job \in BagToSet(jobs) : generations = job.gen
    BY DEF TailInv, Single, BagToSet
  <2> QED
    BY <2>3, <2>4
<1> QED
  BY <1>1, TailInvariant, PTL

\* Forget and Retire: a registration that is to be forgotten is purged before
\* the tailnet is joined again, unless two teardowns overlapped.
THEOREM ForgottenIsGone == Spec => []ForgottenIsPurged
<1>1. TailInv => ForgottenIsPurged
  BY Basics DEF TailInv, Single, ForgottenIsPurged
<1> QED
  BY <1>1, TailInvariant, PTL
=============================================================================
