-------------------------- MODULE OutputFeedProofs --------------------------
(***************************************************************************)
(* Proofs about the ring and its followers, for every number of appenders, *)
(* feeds and cursors, every byte budget, chunk limit and feed length.      *)
(*                                                                         *)
(* First the ring on its own (OutputRing).  The followers use it only      *)
(* through its operations: every step of OutputFeed is a step of           *)
(* OutputRing or leaves the ring alone, so what is proved of the ring      *)
(* holds of the ring as it is used.  From there the followers: what a      *)
(* listener was told, from its first number to the one it expects next.    *)
(***************************************************************************)
EXTENDS OutputFeed, NaturalsInduction, WellFoundedInduction, SequenceTheorems, TLAPS

(* Sums of bytes: what Bytes computes, by least counterexample.              *)

\* A set of numbers that is not empty has a least one.
LEMMA Least ==
  ASSUME NEW S \in SUBSET Nat, S # {}
  PROVE  \E m \in S : \A k \in S : m <= k
<1>1. IsWellFoundedOn(OpToRel(<, Nat), Nat)
  BY NatLessThanWellFounded, Zenon
<1>2. PICK m \in S : \A y \in S : ~ (<<y, m>> \in OpToRel(<, Nat))
  BY <1>1, WFMin, Zenon
<1>3. \A y \in S : ~(y < m)
  BY <1>2 DEF OpToRel
<1> QED
  BY <1>3

\* The partial sums of the chunks' sizes, up to the n-th chunk.
Sums(s, n, sum) == sum = [i \in 0 .. n |-> IF i = 0 THEN 0 ELSE sum[i - 1] + s[i].size]

\* Bytes, with its recursive function spelt out.
LEMMA BytesIs == ASSUME NEW s PROVE Bytes(s) = (CHOOSE sum : Sums(s, Len(s), sum))[Len(s)]
  BY DEF Bytes, Sums

\* One more chunk, one more partial sum.
LEMMA SumsGrow ==
  ASSUME NEW s, NEW n \in Nat, NEW f, Sums(s, n, f)
  PROVE  \E g : Sums(s, n + 1, g)
<1>1. PICK g : g = [i \in 0 .. n + 1 |-> IF i = n + 1 THEN f[n] + s[n + 1].size ELSE f[i]]
  OBVIOUS
<1>2. \A i \in 0 .. n : f[i] = IF i = 0 THEN 0 ELSE f[i - 1] + s[i].size
  BY DEF Sums
<1>3. ASSUME NEW i \in 0 .. n + 1
      PROVE  g[i] = IF i = 0 THEN 0 ELSE g[i - 1] + s[i].size
  <2>1. CASE i = n + 1
    <3>1. i # 0 /\ i - 1 = n /\ n \in 0 .. n + 1 /\ n # n + 1
      BY <2>1
    <3>2. g[i] = f[n] + s[n + 1].size
      BY <1>1, <2>1
    <3>3. g[n] = f[n]
      BY <1>1, <3>1
    <3> QED
      BY <2>1, <3>1, <3>2, <3>3
  <2>2. CASE i # n + 1
    <3>1. i \in 0 .. n
      BY <2>2
    <3>2. g[i] = f[i]
      BY <1>1, <2>2
    <3>3. i # 0 => g[i - 1] = f[i - 1]
      BY <1>1, <3>1
    <3> QED
      BY <1>2, <3>1, <3>2, <3>3
  <2> QED
    BY <2>1, <2>2
<1>4. g = [i \in 0 .. n + 1 |-> g[i]]
  BY <1>1
<1>5. g = [i \in 0 .. n + 1 |-> IF i = 0 THEN 0 ELSE g[i - 1] + s[i].size]
  BY <1>3, <1>4
<1> QED
  BY <1>5 DEF Sums

\* There are partial sums of every length.
LEMMA SumsExist == ASSUME NEW s, NEW n \in Nat PROVE \E f : Sums(s, n, f)
<1> DEFINE S == {k \in Nat : ~ \E f : Sums(s, k, f)}
<1> SUFFICES ASSUME S # {} PROVE FALSE
  OBVIOUS
<1>1. PICK m \in S : \A k \in S : m <= k
  BY Least
<1>2. m \in Nat /\ ~ \E f : Sums(s, m, f)
  BY <1>1
<1>3. m # 0
  <2>1. PICK f : f = [i \in 0 .. 0 |-> 0]
    OBVIOUS
  <2>2. f = [i \in 0 .. 0 |-> IF i = 0 THEN 0 ELSE f[i - 1] + s[i].size]
    BY <2>1
  <2>3. Sums(s, 0, f)
    BY <2>2 DEF Sums
  <2> QED
    BY <1>2, <2>3
<1>4. m - 1 \in Nat /\ m - 1 \notin S
  BY <1>1, <1>2, <1>3
<1>5. PICK f : Sums(s, m - 1, f)
  BY <1>4
<1>6. \E g : Sums(s, (m - 1) + 1, g)
  BY <1>4, <1>5, SumsGrow, Zenon
<1>7. (m - 1) + 1 = m
  BY <1>2
<1> QED
  BY <1>2, <1>6, <1>7

\* What the partial sums are: numbers that grow by the sizes.
IsSums(s, g) ==
  /\ g[0] = 0
  /\ \A n \in 1 .. Len(s) : g[n] = g[n - 1] + s[n].size
  /\ \A n \in 0 .. Len(s) : g[n] \in Nat

\* Partial sums exist, and Bytes is the last of them.
LEMMA BytesAreSums ==
  ASSUME NEW s \in Seq(Chunk)
  PROVE  \E g : IsSums(s, g) /\ Bytes(s) = g[Len(s)]
<1>0. Len(s) \in Nat /\ \A i \in 1 .. Len(s) : s[i].size \in Nat
  <2>1. Len(s) \in Nat /\ \A i \in 1 .. Len(s) : s[i] \in Chunk
    OBVIOUS
  <2> QED
    BY <2>1 DEF Chunk
<1>1. \E f : Sums(s, Len(s), f)
  BY <1>0, SumsExist, Zenon
<1>2. PICK g : g = CHOOSE f : Sums(s, Len(s), f)
  OBVIOUS
<1>3. Sums(s, Len(s), g)
  BY <1>1, <1>2, Zenon
<1>4. \A n \in 0 .. Len(s) : g[n] = IF n = 0 THEN 0 ELSE g[n - 1] + s[n].size
  BY <1>0, <1>3 DEF Sums
<1>5. g[0] = 0 /\ \A n \in 1 .. Len(s) : g[n] = g[n - 1] + s[n].size
  BY <1>0, <1>4
<1>6. \A n \in 0 .. Len(s) : g[n] \in Nat
  <2> DEFINE S == {n \in 0 .. Len(s) : g[n] \notin Nat}
  <2> SUFFICES ASSUME S # {} PROVE FALSE
    OBVIOUS
  <2>1. S \in SUBSET Nat
    BY <1>0
  <2>2. PICK m \in S : \A k \in S : m <= k
    BY <2>1, Least
  <2>3. m \in 0 .. Len(s) /\ g[m] \notin Nat
    BY <2>2
  <2>4. m # 0
    BY <1>5, <2>3
  <2>5. m \in 1 .. Len(s) /\ m - 1 \in 0 .. Len(s) /\ m - 1 \notin S
    BY <1>0, <2>2, <2>3, <2>4
  <2>6. g[m - 1] \in Nat
    BY <2>5
  <2> QED
    BY <1>0, <1>5, <2>3, <2>5, <2>6
<1>7. Bytes(s) = g[Len(s)]
  BY <1>2, BytesIs, Zenon
<1> QED
  BY <1>5, <1>6, <1>7 DEF IsSums

\* Partial sums of a window are differences of those of the whole.
LEMMA WindowSums ==
  ASSUME NEW s \in Seq(Chunk), NEW g, IsSums(s, g), NEW t \in Seq(Chunk), NEW h, IsSums(t, h),
         NEW k \in Nat, k + Len(t) <= Len(s), \A i \in 1 .. Len(t) : t[i] = s[k + i]
  PROVE  h[Len(t)] = g[k + Len(t)] - g[k]
<1> DEFINE S == {n \in 0 .. Len(t) : h[n] # g[k + n] - g[k]}
<1>0. Len(s) \in Nat /\ Len(t) \in Nat /\ Len(t) \in 0 .. Len(t)
  OBVIOUS
<1> SUFFICES ASSUME h[Len(t)] # g[k + Len(t)] - g[k] PROVE FALSE
  OBVIOUS
<1>1. S \in SUBSET Nat /\ S # {}
  <2>1. Len(t) \in S
    BY <1>0
  <2> QED
    BY <1>0, <2>1, SMTT(40)
<1>2. PICK m \in S : \A j \in S : m <= j
  BY <1>1, Least
<1>3. m \in 0 .. Len(t) /\ h[m] # g[k + m] - g[k]
  BY <1>2
<1>4. k \in 0 .. Len(s) /\ k + m \in 0 .. Len(s)
  BY <1>0, <1>3
<1>5. g[k] \in Nat /\ h[0] = 0
  BY <1>4 DEF IsSums
<1>6. m # 0
  <2>1. CASE m = 0
    <3>1. k + m = k
      BY <2>1
    <3> QED
      BY <1>3, <1>5, <2>1, <3>1
  <2> QED
    BY <2>1
<1>7. m \in 1 .. Len(t) /\ m - 1 \in 0 .. Len(t) /\ m - 1 \notin S /\ k + m \in 1 .. Len(s)
      /\ (k + m) - 1 = k + (m - 1) /\ k + (m - 1) \in 0 .. Len(s)
  BY <1>0, <1>2, <1>3, <1>4, <1>6
<1>8. h[m - 1] = g[k + (m - 1)] - g[k]
  BY <1>7
<1>9. h[m] = h[m - 1] + t[m].size /\ g[k + m] = g[(k + m) - 1] + s[k + m].size /\ t[m] = s[k + m]
  BY <1>7 DEF IsSums
<1>10. g[k + (m - 1)] \in Nat /\ t[m].size \in Nat
  <2>1. t[m] \in Chunk
    BY <1>7
  <2> QED
    BY <1>7, <2>1 DEF IsSums, Chunk
<1> HIDE DEF S
<1> QED
  BY <1>3, <1>5, <1>7, <1>8, <1>9, <1>10, SMTT(40)

\* Bytes adds up: one row of partial sums gives the bytes of every window.
LEMMA BytesAddUp ==
  ASSUME NEW s \in Seq(Chunk)
  PROVE  \E g : /\ IsSums(s, g) /\ Bytes(s) = g[Len(s)]
                /\ \A k, m \in 0 .. Len(s) : k <= m => Bytes(SubSeq(s, k + 1, m)) = g[m] - g[k]
<1>1. PICK g : IsSums(s, g) /\ Bytes(s) = g[Len(s)]
  BY BytesAreSums
<1>2. ASSUME NEW k \in 0 .. Len(s), NEW m \in 0 .. Len(s), k <= m
      PROVE  Bytes(SubSeq(s, k + 1, m)) = g[m] - g[k]
  <2>1. PICK t : t = SubSeq(s, k + 1, m)
    OBVIOUS
  <2>2. /\ t \in Seq(Chunk) /\ Len(t) = m - k /\ k \in Nat /\ k + Len(t) <= Len(s)
        /\ \A i \in 1 .. Len(t) : t[i] = s[k + i]
    BY <1>2, <2>1
  <2>3. PICK h : IsSums(t, h) /\ Bytes(t) = h[Len(t)]
    BY <2>2, BytesAreSums
  <2>4. h[Len(t)] = g[k + Len(t)] - g[k]
    BY <1>1, <2>2, <2>3, WindowSums, SMTT(40)
  <2>5. k + Len(t) = m
    BY <1>2, <2>2
  <2> QED
    BY <2>1, <2>3, <2>4, <2>5
<1> QED
  BY <1>1, <1>2

-----------------------------------------------------------------------------
USE RingAssumption

\* What the loops of Append and evictLocked can do to the retained chunks.
LEMMA ChunkIsTyped ==
  ASSUME TypeOK, NEW a \in Appenders, app[a].left > 0
  PROVE  /\ Piece(a) \in Nat /\ Piece(a) <= app[a].left
         /\ [seq |-> nextSeq, size |-> Piece(a), stream |-> StreamOf(a)] \in Chunk
  BY DEF TypeOK, Piece, Chunk, StreamOf, Streams, AppendState

\* What an appender holds, a chunk or the empty value, is a chunk.
LEMMA InHandType ==
  ASSUME NEW c \in Chunk, NEW T PROVE InHand(c, T) \in Chunk
  BY DEF InHand, NoChunk, Chunk, Streams

(* Every variable keeps its type: in particular the bytes an appender has    *)
(* left never go below zero, whatever the sizes of the buffers and chunks.   *)
THEOREM TypeCorrect == Spec => []TypeOK
<1>1. Init => TypeOK
  <2> SUFFICES ASSUME Init PROVE TypeOK
    OBVIOUS
  <2>1. NoChunk \in Chunk
    BY DEF NoChunk, Chunk, Streams
  <2>2. app \in [Appenders -> AppendState]
    BY <2>1 DEF Init, AppendState
  <2>3. /\ chunks \in Seq(Chunk)
        /\ feed \in [Subscribers -> Seq(Chunk)]
        /\ taken \in [Subscribers -> Seq(Nat)]
    BY DEF Init
  <2> QED BY <2>2, <2>3 DEF Init, TypeOK
<1>2. TypeOK /\ [Next]_vars => TypeOK'
  <2> SUFFICES ASSUME TypeOK, [Next]_vars PROVE TypeOK'
    OBVIOUS
  <2> USE DEF TypeOK
  <2>1. ASSUME NEW a \in Appenders, Append_(a) PROVE TypeOK'
    <3>0. PICK n \in Payloads : app' = [app EXCEPT ![a] = Left(a, n)]
      BY <2>1 DEF Append_
    <3>1. app' \in [Appenders -> AppendState]
      <4>1. Left(a, n) \in AppendState
        BY <3>0, n \in Nat DEF AppendState, Left
      <4> QED BY <3>0, <4>1
    <3> QED BY <2>1, <3>1 DEF Append_, ringVars, subVars
  <2>2. ASSUME NEW a \in Appenders, AppendChunk(a) PROVE TypeOK'
    <3> DEFINE c == [seq |-> nextSeq, size |-> Piece(a), stream |-> StreamOf(a)]
               grown == Append(chunks, c)
    <3>1. c \in Chunk /\ Piece(a) \in Nat /\ app[a].left - Piece(a) \in Nat
      BY <2>2, ChunkIsTyped DEF AppendChunk, AppendState
    <3>2. grown \in Seq(Chunk)
      BY <3>1
    <3>3. PICK k \in 0 .. Len(grown) :
            /\ chunks' = SubSeq(grown, k + 1, Len(grown))
            /\ headSeq' = HeadAfter(grown, k)
      BY <2>2 DEF AppendChunk
    <3>4. c.size = Piece(a) /\ c.seq = nextSeq
      OBVIOUS
    <3>5. /\ app' = [app EXCEPT ![a] = [left    |-> app[a].left - c.size,
                                       chunk   |-> InHand(c, subs),
                                       targets |-> subs]]
          /\ nextSeq' = nextSeq + 1 /\ tailSeq' = c.seq
          /\ UNCHANGED <<subVars, subs, closed, closing>>
      BY <2>2 DEF AppendChunk
    <3> HIDE DEF grown, c
    <3>6. chunks' \in Seq(Chunk)
      BY <3>2, <3>3
    <3>7. headSeq' \in Nat
      <4>1. k > 0 => grown[k] \in Chunk
        BY <3>2, <3>3
      <4> QED BY <3>3, <4>1 DEF HeadAfter, Chunk
    <3>8. app' \in [Appenders -> AppendState]
      <4>1. InHand(c, subs) \in Chunk
        BY <3>1, InHandType
      <4> QED BY <3>1, <3>4, <3>5, <4>1 DEF AppendState
    <3> QED BY <3>4, <3>5, <3>6, <3>7, <3>8 DEF subVars
  <2>3. ASSUME NEW a \in Appenders, AppendIgnored(a) PROVE TypeOK'
    <3>0. app[a].left > 0 /\ app[a].left \in Nat
      BY <2>3 DEF AppendIgnored, AppendState
    <3>1. app[a].left - Piece(a) \in Nat
      BY <3>0 DEF Piece
    <3>2. app' \in [Appenders -> AppendState]
      <4>1. Left(a, app[a].left - Piece(a)) \in AppendState
        BY <3>1 DEF AppendState, Left
      <4> QED BY <2>3, <4>1 DEF AppendIgnored
    <3> QED BY <2>3, <3>2 DEF AppendIgnored, ringVars, subVars
  <2>4. ASSUME NEW a \in Appenders, NEW f \in Subscribers, Deliver(a, f) PROVE TypeOK'
    <3>1. app[a].chunk \in Chunk /\ InHand(app[a].chunk, app[a].targets \ {f}) \in Chunk
      BY InHandType DEF AppendState
    <3>2. app[a].chunk.seq \in Nat
      BY <3>1 DEF Chunk
    <3>3. Append(feed[f], app[a].chunk) \in Seq(Chunk)
      BY <3>1
    <3>4. feed' \in [Subscribers -> Seq(Chunk)] /\ discarded' \in [Subscribers -> SUBSET Nat]
      <4>1. Offer(f, app[a].chunk)
        BY <2>4 DEF Deliver
      <4>2. CASE UNCHANGED <<feed, discarded>>
        BY <4>2
      <4>3. CASE feed' = [feed EXCEPT ![f] = Append(@, app[a].chunk)] /\ UNCHANGED discarded
        BY <4>3, <3>3
      <4>4. CASE /\ discarded' = [discarded EXCEPT ![f] = @ \cup {app[a].chunk.seq}]
                 /\ UNCHANGED feed
        BY <4>4, <3>2
      <4> QED BY <4>1, <4>2, <4>3, <4>4 DEF Offer
    <3>5. app' \in [Appenders -> AppendState]
      BY <2>4, <3>1 DEF Deliver, AppendState
    <3> QED BY <2>4, <3>4, <3>5 DEF Deliver, ringVars
  <2>5. ASSUME NEW f \in Subscribers, Subscribe(f) PROVE TypeOK'
    BY <2>5 DEF Subscribe, ringVars
  <2>6. ASSUME NEW f \in Subscribers, Receive(f) PROVE TypeOK'
    <3>1. feed[f] \in Seq(Chunk) /\ feed[f] # <<>>
      BY <2>6 DEF Receive
    <3>2. Head(feed[f]) \in Chunk /\ Tail(feed[f]) \in Seq(Chunk)
      BY <3>1
    <3>3. Append(taken[f], Head(feed[f]).seq) \in Seq(Nat)
      BY <3>2 DEF Chunk
    <3> QED BY <2>6, <3>2, <3>3 DEF Receive, ringVars
  <2>7. ASSUME NEW f \in Subscribers, Unregister(f) \/ CloseFeed(f) \/ CloseSub(f) PROVE TypeOK'
    BY <2>7 DEF Unregister, CloseFeed, CloseSub, ringVars, subVars
  <2>8. CASE Close
    BY <2>8 DEF Close, ringVars, subVars
  <2>9. CASE UNCHANGED vars
    BY <2>9 DEF vars, ringVars, subVars
  <2> QED
    BY <2>1, <2>2, <2>3, <2>4, <2>5, <2>6, <2>7, <2>8, <2>9 DEF Next, AppenderStep
<1> QED BY <1>1, <1>2, PTL DEF Spec

(* Only an append moves the ring; every other step leaves it as it was.      *)
LEMMA RingMoves ==
  ASSUME [Next]_vars
  PROVE  UNCHANGED ringVars \/ \E a \in Appenders : AppendChunk(a)
  BY DEF Next, AppenderStep, Append_, AppendIgnored, Deliver, Subscribe, Receive,
         Unregister, CloseFeed, CloseSub, Close, vars

(* The retained numbers are contiguous from headSeq to nextSeq - 1: the fact *)
(* that lets resolveCursorLocked turn a number into an index by subtraction, *)
(* for every pattern of chunk sizes and evictions.                           *)
THEOREM RetainedContiguous == Spec => []Contiguous
<1>1. Init => Contiguous
  BY DEF Init, Contiguous
<1>2. TypeOK /\ Contiguous /\ [Next]_vars => Contiguous'
  <2> SUFFICES ASSUME TypeOK, Contiguous, [Next]_vars PROVE Contiguous'
    OBVIOUS
  <2>1. CASE UNCHANGED ringVars
    BY <2>1 DEF ringVars, Contiguous
  <2>2. ASSUME NEW a \in Appenders, AppendChunk(a) PROVE Contiguous'
    <3> DEFINE c == [seq |-> nextSeq, size |-> Piece(a), stream |-> StreamOf(a)]
               grown == Append(chunks, c)
    <3>1. c \in Chunk /\ chunks \in Seq(Chunk) /\ headSeq \in Nat /\ nextSeq \in Nat
      BY <2>2, ChunkIsTyped DEF AppendChunk, TypeOK
    <3>2. c.seq = nextSeq
      OBVIOUS
    <3>3. PICK k \in 0 .. Len(grown) :
            /\ chunks' = SubSeq(grown, k + 1, Len(grown))
            /\ headSeq' = HeadAfter(grown, k)
      BY <2>2 DEF AppendChunk
    <3>4. nextSeq' = nextSeq + 1 /\ tailSeq' = nextSeq
      BY <2>2 DEF AppendChunk
    <3> HIDE DEF c
    <3>5. /\ grown \in Seq(Chunk) /\ Len(grown) = Len(chunks) + 1
          /\ \A i \in 1 .. Len(grown) :
               grown[i] = IF i <= Len(chunks) THEN chunks[i] ELSE c
      BY <3>1
    <3>6. headSeq + Len(grown) = nextSeq + 1
      BY <3>1, <3>5 DEF Contiguous
    <3>7. \A i \in 1 .. Len(grown) : grown[i].seq = headSeq + i - 1
      BY <3>1, <3>2, <3>5 DEF Contiguous
    <3> HIDE DEF grown
    <3>8. headSeq' = headSeq + k
      <4>1. CASE k > 0
        <5>1. k \in 1 .. Len(grown)
          BY <4>1, <3>3, <3>5
        <5>2. grown[k].seq = headSeq + k - 1
          BY <5>1, <3>7
        <5> QED BY <4>1, <5>1, <5>2, <3>1, <3>3, <3>5 DEF HeadAfter
      <4>2. CASE k = 0
        <5>1. chunks = <<>> => nextSeq = headSeq
          BY <3>1 DEF Contiguous
        <5> QED BY <4>2, <5>1, <3>1, <3>3 DEF HeadAfter
      <4> QED BY <4>1, <4>2, <3>3, <3>5
    <3>9. /\ Len(chunks') = Len(grown) - k
          /\ \A i \in 1 .. Len(chunks') : chunks'[i] = grown[k + i]
      BY <3>3, <3>5
    <3>10. headSeq' + Len(chunks') = nextSeq'
      <4>1. k \in Nat /\ Len(grown) \in Nat
        BY <3>3, <3>5
      <4>2. Len(chunks') = Len(grown) - k
        BY <3>9
      <4> QED BY <4>1, <4>2, <3>1, <3>4, <3>6, <3>8
    <3>11. \A i \in 1 .. Len(chunks') : chunks'[i].seq = headSeq' + i - 1
      BY <3>1, <3>3, <3>5, <3>7, <3>8, <3>9
    <3> QED BY <3>1, <3>4, <3>10, <3>11 DEF Contiguous
  <2> QED BY <2>1, <2>2, RingMoves
<1> QED BY <1>1, <1>2, TypeCorrect, PTL DEF Spec

(* A closed feed never grows: deliver looks at the flag in the step that     *)
(* sends, so an appender that took the feed before Stop or Ring.Close closed *)
(* it does no harm, however many of them are on their way.                   *)
THEOREM NeverSendsOnClosed == Spec => NoSendAfterClose
<1> DEFINE Shrinks(f) == feedClosed[f] => Len(feed'[f]) <= Len(feed[f])
<1>1. TypeOK /\ [Next]_vars => \A f \in Subscribers : Shrinks(f)
  <2> SUFFICES ASSUME TypeOK, [Next]_vars, NEW f \in Subscribers, feedClosed[f]
               PROVE  Len(feed'[f]) <= Len(feed[f])
    OBVIOUS
  <2>1. feed \in [Subscribers -> Seq(Chunk)] /\ feed[f] \in Seq(Chunk) /\ Len(feed[f]) \in Nat
    BY DEF TypeOK
  <2>2. CASE feed' = feed
    BY <2>1, <2>2
  <2>3. ASSUME NEW a \in Appenders, NEW g \in Subscribers, Deliver(a, g)
        PROVE  Len(feed'[f]) <= Len(feed[f])
    <3>1. Offer(g, app[a].chunk)
      BY <2>3 DEF Deliver
    <3>2. CASE g = f
      BY <2>1, <3>1, <3>2 DEF Offer, Open
    <3>3. CASE g # f
      <4>1. feed'[f] = feed[f]
        BY <2>1, <3>1, <3>3 DEF Offer
      <4> QED BY <2>1, <4>1
    <3> QED BY <3>2, <3>3
  <2>4. ASSUME NEW g \in Subscribers, Receive(g)
        PROVE  Len(feed'[f]) <= Len(feed[f])
    <3>1. feed' = [feed EXCEPT ![g] = Tail(@)] /\ feed[g] # <<>>
      BY <2>4 DEF Receive
    <3>2. CASE g = f
      <4>1. feed'[f] = Tail(feed[f])
        BY <2>1, <3>1, <3>2
      <4>2. Len(Tail(feed[f])) = Len(feed[f]) - 1
        BY <2>1, <3>1, <3>2
      <4> QED BY <2>1, <4>1, <4>2
    <3>3. CASE g # f
      <4>1. feed'[f] = feed[f]
        BY <2>1, <3>1, <3>3
      <4> QED BY <2>1, <4>1
    <3> QED BY <3>2, <3>3
  <2> QED
    BY <2>2, <2>3, <2>4
    DEF Next, AppenderStep, Append_, AppendChunk, AppendIgnored, Subscribe, Unregister,
        CloseFeed, CloseSub, Close, vars, subVars
<1> QED BY <1>1, TypeCorrect, PTL DEF Spec, NoSendAfterClose

-----------------------------------------------------------------------------
(* The handover.  Where the chunks of a feed are: got (received), held       *)
(* (buffered), turned away, in hand.                                         *)

Placed(got, held, away, hand, registered, from, next) ==
  /\ registered => got \cup held \cup away \cup hand = from .. next - 1
  /\ \A s \in got \cup held \cup away \cup hand : from <= s /\ s < next
  /\ got \cap held = {} /\ (got \cup held) \cap away = {}
  /\ (got \cup held \cup away) \cap hand = {}

InHands(ap, f) == {a \in Appenders : f \in ap[a].targets}
SeqsInHand(ap, f) == {ap[a].chunk.seq : a \in InHands(ap, f)}
DistinctNums(t) == \A i, j \in DOMAIN t : t[i] = t[j] => i = j
DistinctSeqs(q) == \A i, j \in DOMAIN q : q[i].seq = q[j].seq => i = j
DistinctHands(ap, f) == \A a, b \in InHands(ap, f) : ap[a].chunk.seq = ap[b].chunk.seq => a = b

\* The handover to one feed, as a fact about the values of the variables.
Exact(f, t, q, d, ap, R, from, next) ==
  /\ Placed(Range(t), SeqsOf(q), d, SeqsInHand(ap, f), f \in R, from, next)
  /\ DistinctNums(t) /\ DistinctSeqs(q) /\ DistinctHands(ap, f)

\* HandoverExact is this fact for every feed, before a step and after it.
LEMMA HandoverIs ==
  /\ HandoverExact <=> \A f \in Subscribers :
       Exact(f, taken[f], feed[f], discarded[f], app, subs, since[f], nextSeq)
  /\ HandoverExact' <=> \A f \in Subscribers :
       Exact(f, taken'[f], feed'[f], discarded'[f], app', subs', since'[f], nextSeq')
  BY DEF HandoverExact, Exact, Placed, InHands, SeqsInHand, DistinctNums, DistinctSeqs,
         DistinctHands, InFlight

\* A chunk in hand is buffered, or turned away.
LEMMA MoveFromHand ==
  ASSUME NEW got, NEW held, NEW away, NEW hand, NEW registered, NEW from, NEW next,
         Placed(got, held, away, hand, registered, from, next), NEW s \in hand
  PROVE  /\ Placed(got, held \cup {s}, away, hand \ {s}, registered, from, next)
         /\ Placed(got, held, away \cup {s}, hand \ {s}, registered, from, next)
         /\ Placed(got, held, away, hand \ {s}, FALSE, from, next)
<1>1. got \cup (held \cup {s}) \cup away \cup (hand \ {s}) = got \cup held \cup away \cup hand
  OBVIOUS
<1>2. got \cup held \cup (away \cup {s}) \cup (hand \ {s}) = got \cup held \cup away \cup hand
  OBVIOUS
<1>3. Placed(got, held \cup {s}, away, hand \ {s}, registered, from, next)
  BY <1>1 DEF Placed
<1>4. Placed(got, held, away \cup {s}, hand \ {s}, registered, from, next)
  BY <1>2 DEF Placed
<1>5. Placed(got, held, away, hand \ {s}, FALSE, from, next)
  BY DEF Placed
<1> QED
  BY <1>3, <1>4, <1>5

\* A buffered chunk is received.
LEMMA MoveToGot ==
  ASSUME NEW got, NEW held, NEW away, NEW hand, NEW registered, NEW from, NEW next,
         Placed(got, held, away, hand, registered, from, next), NEW s \in held
  PROVE  Placed(got \cup {s}, held \ {s}, away, hand, registered, from, next)
<1>1. (got \cup {s}) \cup (held \ {s}) \cup away \cup hand = got \cup held \cup away \cup hand
  OBVIOUS
<1> QED
  BY <1>1 DEF Placed

\* A new chunk is taken in hand for a registered feed, or is none of its business.
LEMMA NewInHand ==
  ASSUME NEW got, NEW held, NEW away, NEW hand, NEW registered \in BOOLEAN,
         NEW from \in Int, NEW next \in Nat, from <= next,
         got \cup held \cup away \cup hand \subseteq Nat,
         Placed(got, held, away, hand, registered, from, next)
  PROVE  /\ Placed(got, held, away, hand \cup {next}, registered, from, next + 1)
         /\ Placed(got, held, away, hand, FALSE, from, next + 1)
<1>1. registered => got \cup held \cup away \cup (hand \cup {next}) = from .. (next + 1) - 1
  <2> SUFFICES ASSUME registered
               PROVE  got \cup held \cup away \cup (hand \cup {next}) = from .. (next + 1) - 1
    OBVIOUS
  <2>1. got \cup held \cup away \cup hand = from .. next - 1
    BY DEF Placed
  <2>2. from .. (next + 1) - 1 = (from .. next - 1) \cup {next}
    OBVIOUS
  <2> QED
    BY <2>1, <2>2
<1>2. \A s \in got \cup held \cup away \cup hand \cup {next} : from <= s /\ s < next + 1
  BY DEF Placed
<1>3. next \notin got \cup held \cup away
  BY DEF Placed
<1> QED
  BY <1>1, <1>2, <1>3 DEF Placed

\* A chunk joins a feed's buffer.
LEMMA BufferGrows ==
  ASSUME NEW q \in Seq(Chunk), NEW c \in Chunk, DistinctSeqs(q), c.seq \notin SeqsOf(q)
  PROVE  SeqsOf(Append(q, c)) = SeqsOf(q) \cup {c.seq} /\ DistinctSeqs(Append(q, c))
<1>1. /\ Append(q, c) \in Seq(Chunk) /\ Len(Append(q, c)) = Len(q) + 1
      /\ \A i \in 1 .. Len(q) : Append(q, c)[i] = q[i]
      /\ Append(q, c)[Len(q) + 1] = c /\ Len(q) \in Nat
      /\ DOMAIN q = 1 .. Len(q) /\ DOMAIN Append(q, c) = 1 .. Len(q) + 1
  OBVIOUS
<1>2. PICK r : r = Append(q, c)
  OBVIOUS
<1>3. 1 .. Len(q) + 1 = (1 .. Len(q)) \cup {Len(q) + 1}
  BY <1>1
<1>4. \A i \in DOMAIN r : (i \in DOMAIN q /\ r[i] = q[i]) \/ (i = Len(q) + 1 /\ r[i] = c)
  BY <1>1, <1>2, <1>3
<1>5. SeqsOf(r) = SeqsOf(q) \cup {c.seq}
  <2>1. SeqsOf(r) \subseteq SeqsOf(q) \cup {c.seq}
    BY <1>4 DEF SeqsOf
  <2>2. \A i \in DOMAIN q : i \in DOMAIN r /\ r[i] = q[i]
    BY <1>1, <1>2
  <2>3. Len(q) + 1 \in DOMAIN r /\ r[Len(q) + 1] = c
    BY <1>1, <1>2
  <2> QED
    BY <2>1, <2>2, <2>3 DEF SeqsOf
<1>6. DistinctSeqs(r)
  BY <1>4 DEF DistinctSeqs, SeqsOf
<1> QED
  BY <1>2, <1>5, <1>6

\* The consumer takes the chunk at the front.
LEMMA BufferShrinks ==
  ASSUME NEW q \in Seq(Chunk), q # << >>, DistinctSeqs(q)
  PROVE  /\ Head(q).seq \in SeqsOf(q) /\ Head(q).seq \in Nat
         /\ SeqsOf(Tail(q)) = SeqsOf(q) \ {Head(q).seq} /\ DistinctSeqs(Tail(q))
<1>1. PICK r : r = Tail(q)
  OBVIOUS
<1>2. /\ Len(q) \in Nat \ {0} /\ r \in Seq(Chunk) /\ Len(r) = Len(q) - 1
      /\ \A i \in 1 .. Len(q) - 1 : r[i] = q[i + 1]
      /\ DOMAIN q = 1 .. Len(q) /\ DOMAIN r = 1 .. Len(q) - 1
      /\ Head(q) = q[1] /\ 1 \in DOMAIN q /\ q[1] \in Chunk
  BY <1>1
<1>3. \A i \in DOMAIN r : i + 1 \in DOMAIN q /\ i + 1 # 1 /\ r[i] = q[i + 1]
  BY <1>2
<1>4. \A i \in DOMAIN q : i # 1 => i - 1 \in DOMAIN r /\ r[i - 1] = q[i]
  BY <1>2
<1>5. SeqsOf(r) = SeqsOf(q) \ {q[1].seq}
  <2>1. \A s \in SeqsOf(r) : s \in SeqsOf(q) /\ s # q[1].seq
    BY <1>2, <1>3 DEF SeqsOf, DistinctSeqs
  <2>2. \A s \in SeqsOf(q) : s # q[1].seq => s \in SeqsOf(r)
    BY <1>2, <1>4 DEF SeqsOf
  <2> QED
    BY <2>1, <2>2
<1>6. DistinctSeqs(r)
  BY <1>2, <1>3 DEF DistinctSeqs
<1>7. q[1].seq \in SeqsOf(q) /\ q[1].seq \in Nat
  BY <1>2 DEF SeqsOf, Chunk
<1> QED
  BY <1>1, <1>2, <1>5, <1>6, <1>7

\* ... and it is received.
LEMMA TakenGrows ==
  ASSUME NEW t \in Seq(Nat), NEW s \in Nat, DistinctNums(t), s \notin Range(t)
  PROVE  Range(Append(t, s)) = Range(t) \cup {s} /\ DistinctNums(Append(t, s))
<1>1. PICK r : r = Append(t, s)
  OBVIOUS
<1>2. /\ Len(t) \in Nat /\ DOMAIN t = 1 .. Len(t) /\ DOMAIN r = 1 .. Len(t) + 1
      /\ \A i \in 1 .. Len(t) : r[i] = t[i]
      /\ r[Len(t) + 1] = s
  BY <1>1
<1>3. 1 .. Len(t) + 1 = (1 .. Len(t)) \cup {Len(t) + 1}
  BY <1>2
<1>4. \A i \in DOMAIN r : (i \in DOMAIN t /\ r[i] = t[i]) \/ (i = Len(t) + 1 /\ r[i] = s)
  BY <1>2, <1>3
<1>5. Range(r) = Range(t) \cup {s}
  <2>1. Range(r) \subseteq Range(t) \cup {s}
    BY <1>4 DEF Range
  <2>2. (\A i \in DOMAIN t : i \in DOMAIN r /\ r[i] = t[i]) /\ Len(t) + 1 \in DOMAIN r
    BY <1>2
  <2> QED
    BY <1>2, <2>1, <2>2 DEF Range
<1>6. DistinctNums(r)
  BY <1>4 DEF DistinctNums, Range
<1> QED
  BY <1>1, <1>5, <1>6

\* What appenders hold for other feeds does not matter to a feed.
LEMMA SameHands ==
  ASSUME NEW ap, NEW bp, NEW f,
         \A a \in Appenders : /\ f \in bp[a].targets <=> f \in ap[a].targets
                              /\ f \in ap[a].targets => bp[a].chunk = ap[a].chunk
  PROVE  SeqsInHand(bp, f) = SeqsInHand(ap, f) /\ (DistinctHands(ap, f) => DistinctHands(bp, f))
<1>1. InHands(bp, f) = InHands(ap, f) /\ \A a \in InHands(ap, f) : bp[a].chunk = ap[a].chunk
  BY DEF InHands
<1> QED
  BY <1>1 DEF SeqsInHand, DistinctHands

\* An appender takes a new chunk in hand for a feed.
LEMMA HandsGrow ==
  ASSUME NEW ap, NEW bp, NEW f, NEW a \in Appenders, f \notin ap[a].targets, f \in bp[a].targets,
         \A b \in Appenders \ {a} : bp[b] = ap[b],
         bp[a].chunk.seq \notin SeqsInHand(ap, f), DistinctHands(ap, f)
  PROVE  SeqsInHand(bp, f) = SeqsInHand(ap, f) \cup {bp[a].chunk.seq} /\ DistinctHands(bp, f)
<1>1. InHands(bp, f) = InHands(ap, f) \cup {a} /\ a \notin InHands(ap, f)
  BY DEF InHands
<1>2. \A b \in InHands(ap, f) : bp[b] = ap[b]
  BY <1>1 DEF InHands
<1> QED
  BY <1>1, <1>2 DEF SeqsInHand, DistinctHands

\* An appender is done with a feed.
LEMMA HandsShrink ==
  ASSUME NEW ap, NEW bp, NEW f, NEW a \in Appenders, f \in ap[a].targets, f \notin bp[a].targets,
         \A b \in Appenders \ {a} : bp[b] = ap[b], DistinctHands(ap, f)
  PROVE  /\ ap[a].chunk.seq \in SeqsInHand(ap, f)
         /\ SeqsInHand(bp, f) = SeqsInHand(ap, f) \ {ap[a].chunk.seq} /\ DistinctHands(bp, f)
<1>1. InHands(bp, f) = InHands(ap, f) \ {a} /\ a \in InHands(ap, f)
  BY DEF InHands
<1>2. \A b \in InHands(bp, f) : bp[b] = ap[b] /\ b \in InHands(ap, f) /\ b # a
  BY <1>1 DEF InHands
<1>3. DistinctHands(bp, f)
  BY <1>2 DEF DistinctHands
<1>4. ap[a].chunk.seq \in SeqsInHand(ap, f)
  BY <1>1 DEF SeqsInHand
<1>5. \A s \in SeqsInHand(bp, f) : s \in SeqsInHand(ap, f) /\ s # ap[a].chunk.seq
  BY <1>1, <1>2 DEF SeqsInHand, DistinctHands
<1>6. \A s \in SeqsInHand(ap, f) : s # ap[a].chunk.seq => s \in SeqsInHand(bp, f)
  <2> SUFFICES ASSUME NEW b \in InHands(ap, f), ap[b].chunk.seq # ap[a].chunk.seq
               PROVE  ap[b].chunk.seq \in SeqsInHand(bp, f)
    BY DEF SeqsInHand
  <2>1. b \in InHands(bp, f) /\ bp[b] = ap[b]
    BY <1>1, <1>2
  <2> QED
    BY <2>1 DEF SeqsInHand
<1> QED
  BY <1>3, <1>4, <1>5, <1>6

\* What ties a feed to its registration: one that was never registered is
\* empty and nobody delivers to it, and one that is registered is open.
Registered ==
  /\ \A f \in Subscribers :
       since[f] = -1 =>
         /\ f \notin subs /\ f \notin closing /\ ~feedClosed[f]
         /\ feed[f] = <<>> /\ taken[f] = <<>> /\ discarded[f] = {}
         /\ \A a \in Appenders : f \notin app[a].targets
  /\ \A f \in subs : ~feedClosed[f]
  /\ closed => subs = {}
  /\ ~closed => closing = {}
  /\ \A f \in Subscribers : since[f] <= nextSeq

\* Registrations and feeds keep together.
LEMMA RegisteredOk ==
  ASSUME TypeOK, Registered, [Next]_vars
  PROVE  Registered'
<1> USE DEF TypeOK, Registered
<1>1. ASSUME NEW a \in Appenders, Append_(a) PROVE Registered'
  <2>0. PICK n \in Payloads : app' = [app EXCEPT ![a] = Left(a, n)]
    BY <1>1 DEF Append_
  <2>1. \A b \in Appenders : app'[b].targets = app[b].targets
    BY <2>0 DEF Left
  <2> QED
    BY <1>1, <2>1 DEF Append_, ringVars, subVars
<1>2. ASSUME NEW a \in Appenders, AppendChunk(a) PROVE Registered'
  <2>1. \A b \in Appenders : app'[b].targets \in {app[b].targets, subs}
    BY <1>2 DEF AppendChunk
  <2>2. nextSeq' = nextSeq + 1 /\ UNCHANGED <<subVars, subs, closed, closing>>
    BY <1>2 DEF AppendChunk
  <2>3. \A f \in Subscribers : since'[f] <= nextSeq'
    <3>1. since' = since /\ nextSeq \in Int /\ \A f \in Subscribers : since[f] \in Int /\ since[f] <= nextSeq
      BY <2>2 DEF subVars
    <3> QED
      BY <2>2, <3>1
  <2> QED
    BY <2>1, <2>2, <2>3 DEF subVars
<1>3. ASSUME NEW a \in Appenders, AppendIgnored(a) PROVE Registered'
  <2>1. \A b \in Appenders : app'[b].targets = app[b].targets
    BY <1>3 DEF AppendIgnored, Left
  <2> QED
    BY <1>3, <2>1 DEF AppendIgnored, ringVars, subVars
<1>4. ASSUME NEW a \in Appenders, NEW f \in Subscribers, Deliver(a, f) PROVE Registered'
  <2>1. \A b \in Appenders : app'[b].targets \subseteq app[b].targets
    BY <1>4 DEF Deliver
  <2>2. f \in app[a].targets /\ since[f] # -1
    BY <1>4 DEF Deliver
  <2>3. \A g \in Subscribers : g # f => feed'[g] = feed[g] /\ discarded'[g] = discarded[g]
    BY <1>4 DEF Deliver, Offer
  <2>4. UNCHANGED <<nextSeq, feedClosed, since, taken, subs, closed, closing>>
    BY <1>4 DEF Deliver, ringVars
  <2> QED
    BY <2>1, <2>2, <2>3, <2>4
<1>5. ASSUME NEW f \in Subscribers, Subscribe(f) PROVE Registered'
  BY <1>5 DEF Subscribe, ringVars
<1>6. ASSUME NEW f \in Subscribers, Receive(f) PROVE Registered'
  BY <1>6 DEF Receive, ringVars
<1>7. ASSUME NEW f \in Subscribers, Unregister(f) \/ CloseFeed(f) \/ CloseSub(f) PROVE Registered'
  <2>1. CASE Unregister(f)
    BY <2>1 DEF Unregister, ringVars, subVars
  <2>2. CASE CloseFeed(f)
    BY <2>2 DEF CloseFeed, ringVars
  <2>3. CASE CloseSub(f)
    BY <2>3 DEF CloseSub, ringVars
  <2> QED
    BY <1>7, <2>1, <2>2, <2>3
<1>8. CASE Close
  BY <1>8 DEF Close, ringVars, subVars
<1>9. CASE UNCHANGED vars
  BY <1>9 DEF vars, ringVars, subVars
<1> QED
  BY <1>1, <1>2, <1>3, <1>4, <1>5, <1>6, <1>7, <1>8, <1>9 DEF Next, AppenderStep

\* The handover to feed f, now and after the step.
ExactNow(f) == Exact(f, taken[f], feed[f], discarded[f], app, subs, since[f], nextSeq)
ExactThen(f) == Exact(f, taken'[f], feed'[f], discarded'[f], app', subs', since'[f], nextSeq')

\* The values of one feed have their types.
LEMMA FeedTypes ==
  ASSUME TypeOK, NEW f \in Subscribers
  PROVE  /\ taken[f] \in Seq(Nat) /\ feed[f] \in Seq(Chunk) /\ discarded[f] \subseteq Nat
         /\ since[f] \in Int /\ nextSeq \in Nat
         /\ Range(taken[f]) \cup SeqsOf(feed[f]) \cup discarded[f] \cup SeqsInHand(app, f) \subseteq Nat
<1>1. /\ taken[f] \in Seq(Nat) /\ feed[f] \in Seq(Chunk) /\ discarded[f] \subseteq Nat
      /\ since[f] \in Int /\ nextSeq \in Nat
  BY DEF TypeOK
<1>2. Range(taken[f]) \subseteq Nat
  BY <1>1 DEF Range
<1>3. SeqsOf(feed[f]) \subseteq Nat
  <2>1. \A i \in DOMAIN feed[f] : feed[f][i] \in Chunk
    BY <1>1
  <2>2. \A i \in DOMAIN feed[f] : feed[f][i].seq \in Nat
    BY <2>1 DEF Chunk
  <2> QED
    BY <2>2 DEF SeqsOf
<1>4. \A a \in Appenders : app[a].chunk.seq \in Nat
  BY DEF TypeOK, AppendState, Chunk
<1>5. SeqsInHand(app, f) \subseteq Nat
  BY <1>4 DEF SeqsInHand, InHands
<1> QED
  BY <1>1, <1>2, <1>3, <1>5

\* A feed that a step does not touch, but for its registration.
LEMMA Untouched ==
  ASSUME NEW f \in Subscribers, ExactNow(f),
         taken'[f] = taken[f], feed'[f] = feed[f], discarded'[f] = discarded[f],
         since'[f] = since[f], nextSeq' = nextSeq, f \in subs' => f \in subs,
         \A a \in Appenders : /\ f \in app'[a].targets <=> f \in app[a].targets
                              /\ f \in app[a].targets => app'[a].chunk = app[a].chunk
  PROVE  ExactThen(f)
<1>1. SeqsInHand(app', f) = SeqsInHand(app, f) /\ (DistinctHands(app, f) => DistinctHands(app', f))
  BY SameHands
<1> QED
  BY <1>1 DEF ExactNow, ExactThen, Exact, Placed

\* A chunk is numbered: it is in hand for every registered feed.
LEMMA AppendExact ==
  ASSUME TypeOK, Registered, NEW a \in Appenders, AppendChunk(a), NEW f \in Subscribers, ExactNow(f)
  PROVE  ExactThen(f)
<1>1. PICK c \in Chunk : /\ c.seq = nextSeq
                         /\ app' = [app EXCEPT ![a] = [left |-> app[a].left - c.size,
                                                       chunk |-> InHand(c, subs), targets |-> subs]]
  <2>1. [seq |-> nextSeq, size |-> Piece(a), stream |-> StreamOf(a)] \in Chunk
    BY ChunkIsTyped DEF AppendChunk
  <2> QED
    BY <2>1 DEF AppendChunk
<1>2. /\ app[a].targets = {} /\ nextSeq' = nextSeq + 1
      /\ UNCHANGED <<feed, since, taken, discarded, subs>>
  BY DEF AppendChunk, subVars
<1>3. /\ app'[a].targets = subs /\ app'[a].chunk = InHand(c, subs)
      /\ \A b \in Appenders \ {a} : app'[b] = app[b]
  BY <1>1 DEF TypeOK
<1>4. /\ Range(taken[f]) \cup SeqsOf(feed[f]) \cup discarded[f] \cup SeqsInHand(app, f) \subseteq Nat
      /\ since[f] \in Int /\ nextSeq \in Nat /\ since[f] <= nextSeq
  BY FeedTypes DEF Registered
<1>5. /\ Placed(Range(taken[f]), SeqsOf(feed[f]), discarded[f], SeqsInHand(app, f), f \in subs, since[f], nextSeq)
      /\ DistinctNums(taken[f]) /\ DistinctSeqs(feed[f]) /\ DistinctHands(app, f)
  BY DEF ExactNow, Exact
<1>6. /\ Placed(Range(taken[f]), SeqsOf(feed[f]), discarded[f], SeqsInHand(app, f) \cup {nextSeq}, f \in subs, since[f], nextSeq + 1)
      /\ Placed(Range(taken[f]), SeqsOf(feed[f]), discarded[f], SeqsInHand(app, f), FALSE, since[f], nextSeq + 1)
  <2>1. (f \in subs) \in BOOLEAN
    OBVIOUS
  <2> QED
    BY <1>4, <1>5, <2>1, NewInHand
<1>7. CASE f \in subs
  <2>1. app'[a].chunk.seq = nextSeq
    BY <1>1, <1>3, <1>7 DEF InHand
  <2>2. nextSeq \notin SeqsInHand(app, f)
    BY <1>4, <1>5 DEF Placed
  <2>3. SeqsInHand(app', f) = SeqsInHand(app, f) \cup {nextSeq} /\ DistinctHands(app', f)
    BY <1>2, <1>3, <1>5, <1>7, <2>1, <2>2, HandsGrow
  <2> QED
    BY <1>2, <1>5, <1>6, <2>3 DEF ExactThen, Exact
<1>8. CASE f \notin subs
  <2>1. SeqsInHand(app', f) = SeqsInHand(app, f) /\ DistinctHands(app', f)
    <3>1. \A b \in Appenders : /\ f \in app'[b].targets <=> f \in app[b].targets
                               /\ f \in app[b].targets => app'[b].chunk = app[b].chunk
      BY <1>2, <1>3, <1>8
    <3> QED
      BY <1>5, <3>1, SameHands
  <2>2. Placed(Range(taken[f]), SeqsOf(feed[f]), discarded[f], SeqsInHand(app', f), f \in subs', since[f], nextSeq')
    BY <1>2, <1>6, <1>8, <2>1 DEF Placed
  <2> QED
    BY <1>2, <1>5, <2>1, <2>2 DEF ExactThen, Exact
<1> QED
  BY <1>7, <1>8

\* A delivery: the chunk leaves the appender's hands for this feed, for the
\* buffer, for the numbers turned away, or for nothing if the feed is closed.
LEMMA DeliverExact ==
  ASSUME TypeOK, Registered, NEW a \in Appenders, NEW g \in Subscribers, Deliver(a, g),
         NEW f \in Subscribers, ExactNow(f)
  PROVE  ExactThen(f)
<1> DEFINE c == app[a].chunk
<1>1. /\ g \in app[a].targets /\ Offer(g, c)
      /\ UNCHANGED <<nextSeq, since, taken, subs>>
  BY DEF Deliver, ringVars
<1>2. /\ app'[a].targets = app[a].targets \ {g}
      /\ app'[a].targets # {} => app'[a].chunk = c
      /\ \A b \in Appenders \ {a} : app'[b] = app[b]
  BY DEF Deliver, TypeOK, InHand
<1>3. c \in Chunk /\ c.seq \in Nat
  BY DEF TypeOK, AppendState, Chunk
<1> HIDE DEF c
<1>4. CASE f # g
  <2>1. feed'[f] = feed[f] /\ discarded'[f] = discarded[f]
    BY <1>1, <1>4 DEF Offer, TypeOK
  <2>2. \A b \in Appenders : /\ f \in app'[b].targets <=> f \in app[b].targets
                             /\ f \in app[b].targets => app'[b].chunk = app[b].chunk
    BY <1>2, <1>4 DEF c
  <2> QED
    BY <1>1, <2>1, <2>2, Untouched
<1>5. CASE f = g
  <2>1. /\ Placed(Range(taken[f]), SeqsOf(feed[f]), discarded[f], SeqsInHand(app, f), f \in subs, since[f], nextSeq)
        /\ DistinctNums(taken[f]) /\ DistinctSeqs(feed[f]) /\ DistinctHands(app, f)
    BY DEF ExactNow, Exact
  <2>2. /\ c.seq \in SeqsInHand(app, f)
        /\ SeqsInHand(app', f) = SeqsInHand(app, f) \ {c.seq} /\ DistinctHands(app', f)
    BY <1>1, <1>2, <1>5, <2>1, HandsShrink DEF c
  <2>3. /\ Placed(Range(taken[f]), SeqsOf(feed[f]) \cup {c.seq}, discarded[f], SeqsInHand(app', f), f \in subs, since[f], nextSeq)
        /\ Placed(Range(taken[f]), SeqsOf(feed[f]), discarded[f] \cup {c.seq}, SeqsInHand(app', f), f \in subs, since[f], nextSeq)
        /\ Placed(Range(taken[f]), SeqsOf(feed[f]), discarded[f], SeqsInHand(app', f), FALSE, since[f], nextSeq)
    <3>1. Placed(Range(taken[f]), SeqsOf(feed[f]) \cup {c.seq}, discarded[f], SeqsInHand(app, f) \ {c.seq}, f \in subs, since[f], nextSeq)
      BY <2>1, <2>2, MoveFromHand, Zenon
    <3>2. Placed(Range(taken[f]), SeqsOf(feed[f]), discarded[f] \cup {c.seq}, SeqsInHand(app, f) \ {c.seq}, f \in subs, since[f], nextSeq)
      BY <2>1, <2>2, MoveFromHand, Zenon
    <3>3. Placed(Range(taken[f]), SeqsOf(feed[f]), discarded[f], SeqsInHand(app, f) \ {c.seq}, FALSE, since[f], nextSeq)
      BY <2>1, <2>2, MoveFromHand, Zenon
    <3> QED
      BY <2>2, <3>1, <3>2, <3>3
  <2>4. feed[f] \in Seq(Chunk)
    BY FeedTypes
  <2>5. CASE ~Open(f) /\ UNCHANGED <<feed, discarded>>
    <3>1. f \notin subs
      BY <2>5 DEF Registered, Open
    <3>2. Placed(Range(taken[f]), SeqsOf(feed[f]), discarded[f], SeqsInHand(app', f), f \in subs, since[f], nextSeq)
      BY <2>3, <3>1 DEF Placed
    <3> QED
      BY <1>1, <2>1, <2>2, <2>5, <3>2 DEF ExactThen, Exact
  <2>6. CASE feed' = [feed EXCEPT ![f] = Append(@, c)] /\ UNCHANGED discarded
    <3>1. feed'[f] = Append(feed[f], c)
      BY <2>6 DEF TypeOK
    <3>2. c.seq \notin SeqsOf(feed[f])
      BY <2>1, <2>2 DEF Placed
    <3>3. SeqsOf(feed'[f]) = SeqsOf(feed[f]) \cup {c.seq} /\ DistinctSeqs(feed'[f])
      BY <1>3, <2>1, <2>4, <3>1, <3>2, BufferGrows
    <3>4. discarded' = discarded
      BY <2>6
    <3> QED
      BY <1>1, <2>1, <2>2, <2>3, <3>3, <3>4 DEF ExactThen, Exact
  <2>7. CASE discarded' = [discarded EXCEPT ![f] = @ \cup {c.seq}] /\ UNCHANGED feed
    <3>1. discarded'[f] = discarded[f] \cup {c.seq} /\ feed' = feed
      BY <2>7 DEF TypeOK
    <3> QED
      BY <1>1, <2>1, <2>2, <2>3, <3>1 DEF ExactThen, Exact
  <2> QED
    BY <1>1, <1>5, <2>5, <2>6, <2>7 DEF Offer
<1> QED
  BY <1>4, <1>5

\* The consumer receives from its feed.
LEMMA ReceiveExact ==
  ASSUME TypeOK, NEW g \in Subscribers, Receive(g), NEW f \in Subscribers, ExactNow(f)
  PROVE  ExactThen(f)
<1>1. /\ feed[g] # <<>> /\ UNCHANGED <<nextSeq, since, discarded, subs, app>>
      /\ taken' = [taken EXCEPT ![g] = Append(@, Head(feed[g]).seq)]
      /\ feed' = [feed EXCEPT ![g] = Tail(@)]
  BY DEF Receive, ringVars
<1>2. CASE f # g
  <2>1. feed'[f] = feed[f] /\ taken'[f] = taken[f]
    BY <1>1, <1>2 DEF TypeOK
  <2>2. UNCHANGED <<nextSeq, since, discarded, subs, app>>
    BY <1>1
  <2> QED
    BY <2>1, <2>2, Untouched
<1>3. CASE f = g
  <2>1. feed'[f] = Tail(feed[f]) /\ taken'[f] = Append(taken[f], Head(feed[f]).seq) /\ feed[f] # <<>>
    BY <1>1, <1>3 DEF TypeOK
  <2>2. UNCHANGED <<nextSeq, since, discarded, subs, app>>
    BY <1>1
  <2>3. PICK s : s = Head(feed[f]).seq
    OBVIOUS
  <2>4. /\ Placed(Range(taken[f]), SeqsOf(feed[f]), discarded[f], SeqsInHand(app, f), f \in subs, since[f], nextSeq)
        /\ DistinctNums(taken[f]) /\ DistinctSeqs(feed[f]) /\ DistinctHands(app, f)
    BY DEF ExactNow, Exact
  <2>5. feed[f] \in Seq(Chunk) /\ taken[f] \in Seq(Nat)
    BY FeedTypes
  <2>6. /\ s \in SeqsOf(feed[f]) /\ s \in Nat
        /\ SeqsOf(feed'[f]) = SeqsOf(feed[f]) \ {s} /\ DistinctSeqs(feed'[f])
    BY <2>1, <2>3, <2>4, <2>5, BufferShrinks
  <2>7. s \notin Range(taken[f])
    BY <2>4, <2>6 DEF Placed
  <2>8. Range(taken'[f]) = Range(taken[f]) \cup {s} /\ DistinctNums(taken'[f])
    BY <2>1, <2>3, <2>4, <2>5, <2>6, <2>7, TakenGrows
  <2>9. Placed(Range(taken'[f]), SeqsOf(feed'[f]), discarded[f], SeqsInHand(app, f), f \in subs, since[f], nextSeq)
    <3>1. Placed(Range(taken[f]) \cup {s}, SeqsOf(feed[f]) \ {s}, discarded[f], SeqsInHand(app, f), f \in subs, since[f], nextSeq)
      BY <2>4, <2>6, MoveToGot, Zenon
    <3> QED
      BY <2>6, <2>8, <3>1
  <2> QED
    BY <2>2, <2>4, <2>6, <2>8, <2>9 DEF ExactThen, Exact
<1> QED
  BY <1>2, <1>3

\* A feed is registered with nothing in it.
LEMMA SubscribeExact ==
  ASSUME TypeOK, Registered, NEW g \in Subscribers, Subscribe(g), NEW f \in Subscribers, ExactNow(f)
  PROVE  ExactThen(f)
<1>1. /\ since[g] = -1 /\ since' = [since EXCEPT ![g] = nextSeq]
      /\ subs' \in {subs, subs \cup {g}} /\ UNCHANGED <<nextSeq, feed, taken, discarded, app>>
  BY DEF Subscribe, ringVars
<1>2. CASE f # g
  <2>1. since'[f] = since[f] /\ (f \in subs' => f \in subs) /\ UNCHANGED <<nextSeq, feed, taken, discarded, app>>
    BY <1>1, <1>2 DEF TypeOK
  <2> QED
    BY <2>1, Untouched
<1>3. CASE f = g
  <2>1. /\ feed'[f] = <<>> /\ taken'[f] = <<>> /\ discarded'[f] = {}
        /\ \A a \in Appenders : f \notin app'[a].targets
    BY <1>1, <1>3 DEF Registered
  <2>2. Range(taken'[f]) = {} /\ SeqsOf(feed'[f]) = {} /\ SeqsInHand(app', f) = {} /\ InHands(app', f) = {}
    BY <2>1 DEF Range, SeqsOf, SeqsInHand, InHands
  <2>3. since'[f] = nextSeq' /\ nextSeq' \in Nat
    BY <1>1, <1>3 DEF TypeOK
  <2>4. since'[f] .. nextSeq' - 1 = {}
    <3>1. \A n \in Nat : n .. n - 1 = {}
      OBVIOUS
    <3> QED
      BY <2>3, <3>1
  <2>5. Placed(Range(taken'[f]), SeqsOf(feed'[f]), discarded'[f], SeqsInHand(app', f), f \in subs', since'[f], nextSeq')
    BY <2>1, <2>2, <2>4 DEF Placed
  <2> QED
    BY <2>1, <2>2, <2>5 DEF ExactThen, Exact, DistinctNums, DistinctSeqs, DistinctHands
<1> QED
  BY <1>2, <1>3

\* The handover over one step of the ring.
LEMMA ExactOk ==
  ASSUME TypeOK, Registered, [Next]_vars, NEW f \in Subscribers, ExactNow(f)
  PROVE  ExactThen(f)
<1>1. ASSUME NEW a \in Appenders, Append_(a) PROVE ExactThen(f)
  <2>1. PICK n \in Payloads : app' = [app EXCEPT ![a] = Left(a, n)]
    BY <1>1 DEF Append_
  <2>2. \A b \in Appenders : app'[b].targets = app[b].targets /\ app'[b].chunk = app[b].chunk
    BY <2>1 DEF Left, TypeOK
  <2>3. UNCHANGED <<taken, feed, discarded, since, nextSeq, subs>>
    BY <1>1 DEF Append_, ringVars, subVars
  <2> QED
    BY <2>2, <2>3, Untouched
<1>2. ASSUME NEW a \in Appenders, AppendIgnored(a) PROVE ExactThen(f)
  <2>1. \A b \in Appenders : app'[b].targets = app[b].targets /\ app'[b].chunk = app[b].chunk
    BY <1>2 DEF AppendIgnored, Left, TypeOK
  <2>2. UNCHANGED <<taken, feed, discarded, since, nextSeq, subs>>
    BY <1>2 DEF AppendIgnored, ringVars, subVars
  <2> QED
    BY <2>1, <2>2, Untouched
<1>3. ASSUME NEW g \in Subscribers, Unregister(g) \/ CloseFeed(g) \/ CloseSub(g) PROVE ExactThen(f)
  <2>1. UNCHANGED <<taken, feed, discarded, since, nextSeq, app>> /\ subs' \subseteq subs
    BY <1>3 DEF Unregister, CloseFeed, CloseSub, ringVars, subVars
  <2> QED
    BY <2>1, Untouched
<1>4. CASE Close \/ UNCHANGED vars
  <2>1. UNCHANGED <<taken, feed, discarded, since, nextSeq, app>> /\ subs' \subseteq subs
    BY <1>4 DEF Close, vars, ringVars, subVars
  <2> QED
    BY <2>1, Untouched
<1> QED
  BY <1>1, <1>2, <1>3, <1>4, AppendExact, DeliverExact, SubscribeExact, ReceiveExact
  DEF Next, AppenderStep

(* Ring.Subscribe: no chunk is lost or delivered twice between the replay    *)
(* and the live feed, for any number of appenders that deliver in any order  *)
(* and whenever a feed is registered, stopped or overrun.                    *)
THEOREM HandoverIsExact == Spec => []HandoverExact
<1>1. Init => Registered /\ HandoverExact
  <2> SUFFICES ASSUME Init PROVE Registered /\ HandoverExact
    OBVIOUS
  <2>1. Registered
    BY DEF Init, Registered
  <2>2. ASSUME NEW f \in Subscribers PROVE ExactNow(f)
    <3>1. taken[f] = <<>> /\ feed[f] = <<>> /\ discarded[f] = {} /\ f \notin subs
      BY DEF Init
    <3>2. InHands(app, f) = {}
      BY DEF Init, InHands
    <3>3. Range(taken[f]) = {} /\ SeqsOf(feed[f]) = {} /\ SeqsInHand(app, f) = {}
      BY <3>1, <3>2 DEF Range, SeqsOf, SeqsInHand
    <3> QED
      BY <3>1, <3>2, <3>3 DEF ExactNow, Exact, Placed, DistinctNums, DistinctSeqs, DistinctHands
  <2> QED
    BY <2>1, <2>2, HandoverIs DEF ExactNow
<1>2. TypeOK /\ Registered /\ HandoverExact /\ [Next]_vars => Registered' /\ HandoverExact'
  <2> SUFFICES ASSUME TypeOK, Registered, HandoverExact, [Next]_vars
               PROVE  Registered' /\ HandoverExact'
    OBVIOUS
  <2>1. \A f \in Subscribers : ExactThen(f)
    BY ExactOk, HandoverIs DEF ExactNow
  <2> QED
    BY <2>1, RegisteredOk, HandoverIs DEF ExactThen
<1> QED
  BY <1>1, <1>2, TypeCorrect, PTL DEF Spec

-----------------------------------------------------------------------------
(* The byte budget.                                                          *)

(* The byte budget: what evictLocked counts is what is retained, no chunk is *)
(* longer than the limit of Append, and the chunk just stored always fits -  *)
(* the loop never evicts what it was called for.                             *)
Budget ==
  /\ usedBytes = Bytes(chunks) /\ usedBytes <= CapacityBytes
  /\ droppedBytesTotal \in Nat
  /\ \A i \in 1 .. Len(chunks) : chunks[i].size <= MaxChunkBytes
  /\ nextSeq > 0 => chunks # <<>>

\* Storing a chunk and evicting the fronts keeps the budget.
LEMMA AppendBudget ==
  ASSUME TypeOK, Budget, NEW a \in Appenders, AppendChunk(a)
  PROVE  Budget'
<1> DEFINE c == [seq |-> nextSeq, size |-> Piece(a), stream |-> StreamOf(a)]
           grown == Append(chunks, c)
           used == usedBytes + c.size
<1>1. c \in Chunk /\ chunks \in Seq(Chunk) /\ c.size = Piece(a) /\ Piece(a) \in Nat
  BY ChunkIsTyped DEF AppendChunk, TypeOK
<1>2. Piece(a) <= MaxChunkBytes
  <2>1. app[a].left \in Nat
    BY DEF TypeOK, AppendState
  <2> QED
    BY <2>1 DEF Piece
<1>3. PICK k \in 0 .. Len(grown) :
        /\ EvictsExactly(grown, used, k)
        /\ chunks' = SubSeq(grown, k + 1, Len(grown))
        /\ usedBytes' = used - Bytes(SubSeq(grown, 1, k))
        /\ droppedBytesTotal' = droppedBytesTotal + Bytes(SubSeq(grown, 1, k))
  BY DEF AppendChunk
<1>4. nextSeq' = nextSeq + 1
  BY DEF AppendChunk
<1> HIDE DEF c
<1>5. PICK l \in Nat \ {0} : l = Len(grown) /\ Len(chunks) = l - 1
  BY <1>1
<1>6. /\ grown \in Seq(Chunk) /\ SubSeq(grown, 1, l - 1) = chunks /\ grown[l] = c
      /\ \A i \in 1 .. l - 1 : grown[i] = chunks[i]
  <2>1. grown \in Seq(Chunk) /\ grown[l] = c /\ \A i \in 1 .. l - 1 : grown[i] = chunks[i]
    BY <1>1, <1>5
  <2>2. PICK t : t = SubSeq(grown, 1, l - 1)
    OBVIOUS
  <2>3. t \in Seq(Chunk) /\ Len(t) = l - 1 /\ \A i \in 1 .. l - 1 : t[i] = grown[i]
    BY <1>5, <2>1, <2>2
  <2>4. t = chunks
    BY <1>1, <1>5, <2>1, <2>3, SeqEqual
  <2> QED
    BY <2>1, <2>2, <2>4
<1> HIDE DEF grown
<1>7. PICK g : /\ IsSums(grown, g)
               /\ \A i, j \in 0 .. l : i <= j => Bytes(SubSeq(grown, i + 1, j)) = g[j] - g[i]
  BY <1>5, <1>6, BytesAddUp
<1>8. g[0] = 0 /\ g[l] = g[l - 1] + c.size /\ g[l] \in Nat /\ g[l - 1] \in Nat
      /\ \A j \in 0 .. l : g[j] \in Nat
  <2>1. l \in 1 .. Len(grown) /\ l - 1 \in 0 .. l
    BY <1>5
  <2>2. g[0] = 0 /\ g[l] = g[l - 1] + grown[l].size /\ \A j \in 0 .. l : g[j] \in Nat
    BY <1>5, <1>7, <2>1 DEF IsSums
  <2>3. g[l] \in Nat /\ g[l - 1] \in Nat
    BY <2>1, <2>2, <1>5
  <2> QED
    BY <1>6, <2>2, <2>3
<1>9. \A j \in 0 .. l : Bytes(SubSeq(grown, 1, j)) = g[j]
  <2> TAKE j \in 0 .. l
  <2>1. 0 \in 0 .. l /\ 0 <= j /\ 0 + 1 = 1 /\ g[j] - g[0] = g[j]
    BY <1>8
  <2> QED
    BY <1>7, <2>1
<1>10. usedBytes = g[l - 1]
  <2>1. l - 1 \in 0 .. l
    BY <1>5
  <2> QED
    BY <1>6, <1>9, <2>1 DEF Budget
<1>11. used = g[l]
  BY <1>8, <1>10
<1> HIDE DEF used
<1>12. k \in 0 .. l
  BY <1>3, <1>5
<1>13. usedBytes' = g[l] - g[k] /\ Bytes(chunks') = g[l] - g[k]
  <2>1. Bytes(SubSeq(grown, k + 1, l)) = g[l] - g[k]
    BY <1>5, <1>7, <1>12
  <2> QED
    BY <1>3, <1>5, <1>9, <1>11, <1>12, <2>1
<1>14. k # l
  <2> SUFFICES ASSUME k = l PROVE FALSE
    OBVIOUS
  <2>1. l - 1 \in 0 .. k - 1 /\ l - 1 \in 0 .. l
    BY <1>5
  <2>2. used - Bytes(SubSeq(grown, 1, l - 1)) > CapacityBytes
    BY <1>3, <2>1 DEF EvictsExactly
  <2>3. g[l] - g[l - 1] > CapacityBytes
    BY <1>9, <1>11, <2>1, <2>2
  <2> QED
    BY <1>1, <1>2, <1>8, <2>3
<1>15. usedBytes' <= CapacityBytes
  <2>1. used - Bytes(SubSeq(grown, 1, k)) <= CapacityBytes
    BY <1>3, <1>5, <1>14 DEF EvictsExactly
  <2> QED
    BY <1>3, <2>1
<1>16. droppedBytesTotal' \in Nat
  BY <1>3, <1>8, <1>9, <1>12, SMTT(40) DEF Budget
<1>17. Len(chunks') = l - k /\ \A i \in 1 .. Len(chunks') : chunks'[i] = grown[k + i]
  <2>1. chunks' = SubSeq(grown, k + 1, l)
    BY <1>3, <1>5
  <2>2. PICK t : t = SubSeq(grown, k + 1, l)
    OBVIOUS
  <2>3. Len(t) = l - k /\ \A i \in 1 .. Len(t) : t[i] = grown[k + i]
    BY <1>5, <1>6, <1>12, <2>2
  <2> QED
    BY <2>1, <2>2, <2>3
<1>18. \A i \in 1 .. l : grown[i].size <= MaxChunkBytes
  BY <1>1, <1>2, <1>5, <1>6 DEF Budget
<1>19. \A i \in 1 .. Len(chunks') : chunks'[i].size <= MaxChunkBytes
  <2> TAKE i \in 1 .. Len(chunks')
  <2>1. k + i \in 1 .. l
    BY <1>12, <1>17
  <2> QED
    BY <1>17, <1>18, <2>1
<1>20. chunks' # <<>>
  <2>1. Len(chunks') # 0
    BY <1>12, <1>14, <1>17
  <2> QED
    BY <2>1
<1> QED
  BY <1>13, <1>15, <1>16, <1>19, <1>20 DEF Budget

(* The ring stays within its byte budget and its count is exact, whatever    *)
(* the sizes; once something was stored it is never empty again.             *)
THEOREM RingWithinBudget == Spec => []Budget
<1>1. Init => Budget
  <2> SUFFICES ASSUME Init PROVE Budget
    OBVIOUS
  <2>1. chunks \in Seq(Chunk) /\ Len(chunks) = 0
    BY DEF Init
  <2>2. PICK g : IsSums(chunks, g) /\ Bytes(chunks) = g[Len(chunks)]
    BY <2>1, BytesAreSums
  <2>3. Bytes(chunks) = 0
    BY <2>1, <2>2 DEF IsSums
  <2> QED
    BY <2>1, <2>3 DEF Init, Budget
<1>2. TypeOK /\ Budget /\ [Next]_vars => Budget'
  <2> SUFFICES ASSUME TypeOK, Budget, [Next]_vars PROVE Budget'
    OBVIOUS
  <2>1. CASE UNCHANGED ringVars
    BY <2>1 DEF ringVars, Budget
  <2> QED
    BY <2>1, RingMoves, AppendBudget
<1> QED
  BY <1>1, <1>2, TypeCorrect, PTL DEF Spec

-----------------------------------------------------------------------------
(* The ring as the followers use it.                                        *)

\* A step of the feed is a step of the ring or does not touch it.
LEMMA FeedStepIsRingStep == FeedNext => [Next]_vars
<1> SUFFICES ASSUME FeedNext PROVE [Next]_vars OBVIOUS
<1>1. CASE RingStep
  BY <1>1 DEF RingStep, Next
<1>2. CASE StopFollowers
  BY <1>2 DEF StopFollowers
<1>3. ASSUME NEW f \in Subscribers, ReadBuffer(f) \/ AddListener(f) \/ RemoveListener(f)
      PROVE  UNCHANGED vars
  BY <1>3 DEF ReadBuffer, AddListener, RemoveListener
<1>4. ASSUME NEW f \in Subscribers, NEW c, Follow(f, c) PROVE Next
  BY <1>4 DEF Follow, Next
<1>5. ASSUME NEW f \in Subscribers, Run(f) PROVE [Next]_vars
  <2>1. CASE RunLate(f) \/ RunAdmit(f)
    BY <2>1 DEF RunLate, RunAdmit, Next
  <2>2. CASE RunReplay(f) \/ RunFlush(f) \/ RunEnd(f)
    BY <2>2 DEF RunReplay, RunFlush, RunEnd
  <2> QED BY <1>5, <2>1, <2>2 DEF Run
<1>6. ASSUME NEW f \in Subscribers, Stop(f) PROVE [Next]_vars
  <2>1. CASE StopUnregister(f)
    BY <2>1 DEF StopUnregister, Next
  <2>2. CASE StopCloseFeed(f)
    BY <2>2 DEF StopCloseFeed, Next
  <2>3. CASE StopNext(f) \/ StopReturn(f)
    BY <2>3 DEF StopNext, StopReturn
  <2> QED BY <1>6, <2>1, <2>2, <2>3 DEF Stop
<1> QED BY <1>1, <1>2, <1>3, <1>4, <1>5, <1>6 DEF FeedNext

\* Follower, fan and ring together implement the ring: addListener, Stop and
\* the goroutine of Follower.run never reach around its operations.
THEOREM FeedUsesRing == FeedSpec => Spec
<1>1. FeedInit => Init
  BY DEF FeedInit
<1>2. [FeedNext]_allVars => [Next]_vars
  BY FeedStepIsRingStep DEF allVars
<1> QED BY <1>1, <1>2, PTL DEF FeedSpec, Spec

\* The retained numbers stay contiguous under everything the followers do: the
\* index arithmetic of every cursor is safe.
THEOREM FeedContiguous == FeedSpec => []Contiguous
BY FeedUsesRing, RetainedContiguous, PTL

-----------------------------------------------------------------------------
(* What a listener has been told. *)

\* Numbers of a sequence of chunks are a sequence of numbers.
LEMMA NumsOf ==
  ASSUME NEW s \in Seq(Chunk)
  PROVE  /\ SeqNums(s) \in Seq(Nat) /\ Len(SeqNums(s)) = Len(s)
         /\ \A i \in 1 .. Len(s) : SeqNums(s)[i] = s[i].seq
<1>1. Len(s) \in Nat /\ DOMAIN s = 1 .. Len(s) /\ \A i \in 1 .. Len(s) : s[i] \in Chunk
  OBVIOUS
<1>2. \A i \in 1 .. Len(s) : s[i].seq \in Nat
  BY <1>1 DEF Chunk
<1>3. PICK t : t = SeqNums(s)
  OBVIOUS
<1>4. t = [i \in 1 .. Len(s) |-> s[i].seq]
  BY <1>1, <1>3 DEF SeqNums
<1>5. t \in [1 .. Len(s) -> Nat]
  BY <1>2, <1>4
<1>6. t \in Seq(Nat) /\ Len(t) = Len(s)
  <2>1. t \in UNION {[1 .. n -> Nat] : n \in Nat}
    BY <1>1, <1>5, Zenon
  <2>2. t \in Seq(Nat)
    BY <2>1, SeqDef, Zenon
  <2>3. Len(t) = Len(s)
    BY <1>1, <1>4
  <2> QED
    BY <2>2, <2>3
<1> QED
  BY <1>3, <1>4, <1>6

\* What a listener was told, from a number up to the next: the numbers it got
\* and those reported as dropped.
Told(stream, gaps, from, next) ==
  /\ stream \in Seq(Nat) /\ from \in Nat /\ next \in Nat /\ from <= next
  /\ Increasing(stream) /\ Range(stream) \cap gaps = {}
  /\ Range(stream) \cup gaps = from .. next - 1

\* Nothing was told yet.
LEMMA ToldNothing == ASSUME NEW n \in Nat PROVE Told(<<>>, {}, n, n)
<1>1. << >> \in Seq(Nat) /\ DOMAIN << >> = {}
  OBVIOUS
<1>2. Range(<< >>) = {} /\ Increasing(<< >>)
  BY <1>1 DEF Range, Increasing
<1>3. n .. n - 1 = {}
  OBVIOUS
<1>4. Range(<< >>) \cap {} = {} /\ Range(<< >>) \cup {} = n .. n - 1
  BY <1>2, <1>3, Zenon
<1> QED
  BY <1>1, <1>2, <1>4 DEF Told

\* A gap up to the number h is reported.
LEMMA TellGap ==
  ASSUME NEW s, NEW G, NEW a, NEW e, Told(s, G, a, e), NEW h \in Nat, e <= h
  PROVE  Told(s, G \cup e .. h - 1, a, h)
<1>1. a \in Nat /\ e \in Nat /\ a <= e
  BY DEF Told
<1>2. Range(s) \cup (G \cup e .. h - 1) = a .. h - 1
  <2>1. (a .. e - 1) \cup (e .. h - 1) = a .. h - 1
    BY <1>1
  <2> QED
    BY <2>1 DEF Told
<1>3. Range(s) \cap (G \cup e .. h - 1) = {}
  <2>1. (a .. e - 1) \cap (e .. h - 1) = {}
    BY <1>1
  <2> QED
    BY <2>1 DEF Told
<1> QED
  BY <1>1, <1>2, <1>3 DEF Told

\* The following numbers are handed over.
LEMMA TellMore ==
  ASSUME NEW s, NEW G, NEW a, NEW e, Told(s, G, a, e),
         NEW t \in Seq(Nat), \A i \in 1 .. Len(t) : t[i] = e + i - 1
  PROVE  Told(s \o t, G, a, e + Len(t))
<1>0. a \in Nat /\ e \in Nat /\ a <= e /\ s \in Seq(Nat) /\ Increasing(s)
      /\ Range(s) \cap G = {} /\ Range(s) \cup G = a .. e - 1
  BY DEF Told
<1>1. PICK u : u = s \o t
  OBVIOUS
<1>2. /\ u \in Seq(Nat) /\ Len(u) = Len(s) + Len(t) /\ Len(s) \in Nat /\ Len(t) \in Nat
      /\ \A i \in 1 .. Len(s) : u[i] = s[i]
      /\ \A i \in Len(s) + 1 .. Len(u) : u[i] = t[i - Len(s)]
  BY <1>0, <1>1
<1>3. DOMAIN u = 1 .. Len(u) /\ DOMAIN s = 1 .. Len(s) /\ DOMAIN t = 1 .. Len(t)
  BY <1>0, <1>2
<1>4. \A i \in 1 .. Len(s) : s[i] \in a .. e - 1
  BY <1>0, <1>3 DEF Range
<1>5. \A i \in Len(s) + 1 .. Len(u) : u[i] = e + (i - Len(s)) - 1
  <2> TAKE i \in Len(s) + 1 .. Len(u)
  <2>1. i - Len(s) \in 1 .. Len(t)
    BY <1>2
  <2> QED
    BY <1>2, <2>1
<1>6. Increasing(u)
  <2> SUFFICES ASSUME NEW i \in 1 .. Len(u), NEW j \in 1 .. Len(u), i < j PROVE u[i] < u[j]
    BY <1>3 DEF Increasing
  <2>1. CASE j <= Len(s)
    <3>1. i \in 1 .. Len(s) /\ j \in 1 .. Len(s)
      BY <1>2, <2>1
    <3> QED
      BY <1>0, <1>2, <1>3, <3>1 DEF Increasing
  <2>2. CASE i <= Len(s) /\ j > Len(s)
    <3>1. i \in 1 .. Len(s) /\ j \in Len(s) + 1 .. Len(u)
      BY <1>2, <2>2
    <3>2. u[i] \in a .. e - 1 /\ u[j] = e + (j - Len(s)) - 1
      BY <1>2, <1>4, <1>5, <3>1
    <3> QED
      BY <1>0, <1>2, <3>1, <3>2
  <2>3. CASE i > Len(s)
    <3>1. i \in Len(s) + 1 .. Len(u) /\ j \in Len(s) + 1 .. Len(u)
      BY <1>2, <2>3
    <3> QED
      BY <1>0, <1>2, <1>5, <3>1
  <2> QED
    BY <1>2, <2>1, <2>2, <2>3
<1>7. Range(u) = Range(s) \cup e .. e + Len(t) - 1
  <2>1. ASSUME NEW x \in Range(u) PROVE x \in Range(s) \cup e .. e + Len(t) - 1
    <3>1. PICK i \in 1 .. Len(u) : x = u[i]
      BY <1>3 DEF Range
    <3>2. CASE i \in 1 .. Len(s)
      <4>1. x = s[i] /\ i \in DOMAIN s
        BY <1>2, <1>3, <3>1, <3>2
      <4>2. x \in Range(s)
        BY <4>1 DEF Range
      <4> QED
        BY <4>2
    <3>3. CASE i \in Len(s) + 1 .. Len(u)
      <4>1. x = e + (i - Len(s)) - 1
        BY <1>5, <3>1, <3>3
      <4>2. x \in e .. e + Len(t) - 1
        BY <1>0, <1>2, <3>3, <4>1, SMTT(40)
      <4> QED
        BY <4>2
    <3>4. i \in 1 .. Len(s) \/ i \in Len(s) + 1 .. Len(u)
      BY <1>2
    <3> QED
      BY <3>2, <3>3, <3>4
  <2>2. ASSUME NEW x \in Range(s) PROVE x \in Range(u)
    <3>1. PICK i \in 1 .. Len(s) : x = s[i]
      BY <1>3 DEF Range
    <3>2. i \in 1 .. Len(u) /\ u[i] = x
      BY <1>2, <3>1
    <3> QED
      BY <1>3, <3>2 DEF Range
  <2>3. ASSUME NEW x \in e .. e + Len(t) - 1 PROVE x \in Range(u)
    <3>0. (x - e) + 1 + Len(s) \in Int
      BY <1>0, <1>2
    <3>1. PICK i \in Int : i = (x - e) + 1 + Len(s)
      BY <3>0, Zenon
    <3>2. i \in Len(s) + 1 .. Len(u) /\ e + (i - Len(s)) - 1 = x
      BY <1>0, <1>2, <3>1
    <3>3. u[i] = x /\ i \in 1 .. Len(u)
      BY <1>2, <1>5, <3>2
    <3> QED
      BY <1>3, <3>3 DEF Range
  <2> QED
    BY <2>1, <2>2, <2>3
<1>8. Range(u) \cap G = {} /\ Range(u) \cup G = a .. (e + Len(t)) - 1
  <2>1. (a .. e - 1) \cup (e .. e + Len(t) - 1) = a .. (e + Len(t)) - 1
    BY <1>0, <1>2
  <2>2. (a .. e - 1) \cap (e .. e + Len(t) - 1) = {}
    BY <1>0, <1>2
  <2> QED
    BY <1>0, <1>7, <2>1, <2>2
<1> QED
  BY <1>0, <1>1, <1>2, <1>6, <1>8 DEF Told

\* One chunk of a replay is handed over: the listener is told nothing new.
LEMMA TellHead ==
  ASSUME NEW s \in Seq(Nat), NEW r \in Seq(Chunk), r # << >>
  PROVE  /\ Append(s, Head(r).seq) \in Seq(Nat)
         /\ Append(s, Head(r).seq) \o SeqNums(Tail(r)) = s \o SeqNums(r)
<1>0. PICK q : q = Tail(r)
  OBVIOUS
<1>1. /\ r[1] \in Chunk /\ Head(r) = r[1] /\ q \in Seq(Chunk) /\ Len(r) \in Nat \ {0} /\ Len(q) = Len(r) - 1
      /\ \A i \in 1 .. Len(q) : q[i] = r[i + 1]
  BY <1>0
<1>2. PICK p : p = Append(s, Head(r).seq)
  OBVIOUS
<1>3. Head(r).seq \in Nat
  BY <1>1 DEF Chunk
<1>4. /\ p \in Seq(Nat) /\ Len(p) = Len(s) + 1 /\ Len(s) \in Nat /\ p[Len(s) + 1] = r[1].seq
      /\ \A i \in 1 .. Len(s) : p[i] = s[i]
  BY <1>1, <1>2, <1>3
<1>5. PICK m, n : m = SeqNums(q) /\ n = SeqNums(r)
  OBVIOUS
<1>6. /\ m \in Seq(Nat) /\ Len(m) = Len(q) /\ \A i \in 1 .. Len(q) : m[i] = q[i].seq
      /\ n \in Seq(Nat) /\ Len(n) = Len(r) /\ \A i \in 1 .. Len(r) : n[i] = r[i].seq
  BY <1>1, <1>5, NumsOf
<1>7. PICK x, y : x = p \o m /\ y = s \o n
  OBVIOUS
<1>11. /\ x \in Seq(Nat) /\ Len(x) = Len(p) + Len(m)
      /\ \A i \in 1 .. Len(p) + Len(m) : x[i] = IF i <= Len(p) THEN p[i] ELSE m[i - Len(p)]
  <2>1. p \in Seq(Nat) /\ m \in Seq(Nat)
    BY <1>4, <1>6
  <2> QED
    BY <1>7, <2>1, ConcatProperties, Zenon
<1>12. /\ y \in Seq(Nat) /\ Len(y) = Len(s) + Len(n)
      /\ \A i \in 1 .. Len(s) + Len(n) : y[i] = IF i <= Len(s) THEN s[i] ELSE n[i - Len(s)]
  <2>1. n \in Seq(Nat)
    BY <1>6
  <2> QED
    BY <1>7, <2>1, ConcatProperties, Zenon
<1>8. x \in Seq(Nat) /\ y \in Seq(Nat) /\ Len(x) = Len(s) + Len(r) /\ Len(y) = Len(s) + Len(r)
  BY <1>1, <1>4, <1>6, <1>11, <1>12
<1>13. /\ Len(p) = Len(s) + 1 /\ Len(m) = Len(r) - 1 /\ Len(n) = Len(r)
       /\ Len(s) \in Nat /\ Len(r) \in Nat \ {0}
  BY <1>1, <1>4, <1>6
<1>9. ASSUME NEW i \in 1 .. Len(x) PROVE x[i] = y[i]
  <2>0. i \in 1 .. Len(p) + Len(m) /\ i \in 1 .. Len(s) + Len(n) /\ i \in Nat
    BY <1>8, <1>13
  <2>1. CASE i <= Len(s)
    <3>1. i <= Len(p) /\ i \in 1 .. Len(s)
      BY <1>13, <2>0, <2>1
    <3>2. x[i] = p[i] /\ y[i] = s[i]
      BY <1>11, <1>12, <2>0, <2>1, <3>1, Zenon
    <3> QED
      BY <1>4, <3>1, <3>2
  <2>2. CASE i = Len(s) + 1
    <3>1. i <= Len(p) /\ ~(i <= Len(s)) /\ i - Len(s) = 1 /\ 1 \in 1 .. Len(r)
      BY <1>13, <2>2
    <3>2. x[i] = p[i] /\ y[i] = n[1]
      BY <1>11, <1>12, <2>0, <3>1, Zenon
    <3> QED
      BY <1>4, <1>6, <2>2, <3>1, <3>2
  <2>3. CASE i > Len(s) + 1
    <3>0. i - Len(s) - 1 \in Nat
      BY <1>13, <2>0, <2>3
    <3>1. PICK j \in Nat : j = i - Len(s) - 1
      BY <3>0, Zenon
    <3>2. /\ j \in 1 .. Len(q) /\ j + 1 \in 1 .. Len(r) /\ ~(i <= Len(p)) /\ ~(i <= Len(s))
          /\ i - Len(p) = j /\ i - Len(s) = j + 1
      BY <1>1, <1>13, <2>0, <2>3, <3>1
    <3>3. x[i] = m[j] /\ y[i] = n[j + 1]
      BY <1>11, <1>12, <2>0, <3>2, Zenon
    <3> QED
      BY <1>1, <1>6, <3>2, <3>3
  <2>4. i <= Len(s) \/ i = Len(s) + 1 \/ i > Len(s) + 1
    BY <1>13, <2>0
  <2> QED
    BY <2>1, <2>2, <2>3, <2>4
<1>10. x = y
  BY <1>8, <1>9, SeqEqual
<1> QED
  BY <1>0, <1>2, <1>4, <1>5, <1>7, <1>10

\* A chunk more at the end, and none at all.
LEMMA NumsAppend ==
  ASSUME NEW b \in Seq(Chunk), NEW c \in Chunk
  PROVE  /\ SeqNums(Append(b, c)) = SeqNums(b) \o <<c.seq>>
         /\ SeqNums(<<c>>) = <<c.seq>> /\ SeqNums(<< >>) = << >>
         /\ <<c.seq>> \in Seq(Nat) /\ Len(<<c.seq>>) = 1 /\ <<c.seq>>[1] = c.seq
<1>1. c.seq \in Nat
  BY DEF Chunk
<1>2. <<c.seq>> \in Seq(Nat) /\ Len(<<c.seq>>) = 1 /\ <<c.seq>>[1] = c.seq
  BY <1>1
<1>3. SeqNums(<<c>>) = <<c.seq>>
  <2>0. PICK d : d = <<c>>
    OBVIOUS
  <2>1. d \in Seq(Chunk) /\ Len(d) = 1 /\ d[1] = c
    BY <2>0
  <2>2. PICK t : t = SeqNums(d)
    OBVIOUS
  <2>3. t \in Seq(Nat) /\ Len(t) = 1 /\ t[1] = c.seq
    BY <2>1, <2>2, NumsOf
  <2>4. PICK u : u = <<c.seq>>
    OBVIOUS
  <2>5. u \in Seq(Nat) /\ Len(u) = Len(t) /\ \A i \in 1 .. Len(u) : u[i] = t[i]
    BY <1>2, <2>3, <2>4
  <2>6. u = t
    BY <2>3, <2>5, SeqEqual, Zenon
  <2> QED
    BY <2>0, <2>2, <2>4, <2>6
<1>4. SeqNums(<< >>) = << >>
  <2>1. << >> \in Seq(Chunk) /\ Len(<< >>) = 0
    OBVIOUS
  <2>2. PICK t : t = SeqNums(<< >>)
    OBVIOUS
  <2>3. t \in Seq(Nat) /\ Len(t) = 0
    BY <2>1, <2>2, NumsOf
  <2> QED
    BY <2>2, <2>3
<1>5. SeqNums(Append(b, c)) = SeqNums(b) \o <<c.seq>>
  <2>1. PICK d : d = Append(b, c)
    OBVIOUS
  <2>2. /\ d \in Seq(Chunk) /\ Len(d) = Len(b) + 1 /\ Len(b) \in Nat /\ d[Len(b) + 1] = c
        /\ \A i \in 1 .. Len(b) : d[i] = b[i]
    BY <2>1
  <2>3. PICK m, n : m = SeqNums(b) /\ n = SeqNums(d)
    OBVIOUS
  <2>4. m \in Seq(Nat) /\ Len(m) = Len(b) /\ \A i \in 1 .. Len(b) : m[i] = b[i].seq
    BY <2>3, NumsOf
  <2>5. n \in Seq(Nat) /\ Len(n) = Len(d) /\ \A i \in 1 .. Len(d) : n[i] = d[i].seq
    BY <2>2, <2>3, NumsOf
  <2>6. PICK x : x = m \o <<c.seq>>
    OBVIOUS
  <2>7. /\ x \in Seq(Nat) /\ Len(x) = Len(b) + 1 /\ x[Len(b) + 1] = c.seq
        /\ \A i \in 1 .. Len(b) : x[i] = m[i]
    <3>1. PICK u : u = <<c.seq>>
      OBVIOUS
    <3>2. u \in Seq(Nat) /\ Len(u) = 1 /\ u[1] = c.seq
      BY <1>2, <3>1
    <3>3. x = m \o u /\ m \in Seq(Nat) /\ Len(m) = Len(b)
      BY <2>4, <2>6, <3>1
    <3>4. /\ x \in Seq(Nat) /\ Len(x) = Len(m) + Len(u)
          /\ \A i \in 1 .. Len(m) + Len(u) : x[i] = IF i <= Len(m) THEN m[i] ELSE u[i - Len(m)]
      BY <3>2, <3>3, ConcatProperties, ZenonT(60)
    <3> QED
      BY <2>2, <3>2, <3>3, <3>4
  <2>8. \A i \in 1 .. Len(x) : x[i] = n[i]
    <3> TAKE i \in 1 .. Len(x)
    <3>1. CASE i = Len(b) + 1
      BY <2>2, <2>5, <2>7, <3>1
    <3>2. CASE i # Len(b) + 1
      <4>1. i \in 1 .. Len(b) /\ i \in 1 .. Len(d)
        BY <2>2, <2>7, <3>2
      <4> QED
        BY <2>2, <2>4, <2>5, <2>7, <4>1
    <3> QED
      BY <3>1, <3>2
  <2>9. Len(x) = Len(n)
    BY <2>2, <2>5, <2>7
  <2>10. x = n
    BY <2>5, <2>7, <2>8, <2>9, SeqEqual
  <2> QED
    BY <2>1, <2>3, <2>6, <2>10
<1> QED
  BY <1>2, <1>3, <1>4, <1>5

\* What the listener heard, will hear of the replay, and of the pending batch.
Stream(h, replay, batch) == h \o SeqNums(replay) \o SeqNums(batch)

\* A follower has a replay or a batch to hand over, never both.
LEMMA StreamIs ==
  ASSUME NEW h \in Seq(Nat), NEW s \in Seq(Chunk)
  PROVE  /\ Stream(h, s, << >>) = h \o SeqNums(s) /\ Stream(h, << >>, s) = h \o SeqNums(s)
         /\ h \o SeqNums(s) \in Seq(Nat) /\ Stream(h, << >>, << >>) = h
<1>1. SeqNums(<< >>) = << >>
  <2>1. NoChunk \in Chunk
    BY DEF NoChunk, Chunk, Streams
  <2> QED
    BY <2>1, NumsAppend, Zenon
<1>2. PICK n : n = SeqNums(s)
  OBVIOUS
<1>3. n \in Seq(Nat)
  BY <1>2, NumsOf
<1>4. h \o n \in Seq(Nat)
  BY <1>3
<1>5. (h \o n) \o << >> = h \o n /\ h \o << >> = h
  BY <1>4, ConcatEmptySeq, Zenon
<1> QED
  BY <1>1, <1>2, <1>4, <1>5, Zenon DEF Stream

\* admit: a chunk that is not late is told after the gap before it.
LEMMA TellChunk ==
  ASSUME NEW h \in Seq(Nat), NEW b \in Seq(Chunk), NEW c \in Chunk, NEW G, NEW a, NEW e,
         Told(Stream(h, << >>, b), G, a, e), ~(c.seq < e)
  PROVE  /\ Told(Stream(h, << >>, Append(b, c)), G \cup e .. c.seq - 1, a, c.seq + 1)
         /\ Told(Stream(h \o SeqNums(b), << >>, <<c>>), G \cup e .. c.seq - 1, a, c.seq + 1)
<1>1. c.seq \in Nat /\ e \in Nat /\ e <= c.seq
  <2>1. c.seq \in Nat /\ e \in Nat
    BY DEF Chunk, Told
  <2> QED
    BY <2>1
<1>2. PICK S : S = h \o SeqNums(b)
  OBVIOUS
<1>3. S \in Seq(Nat) /\ Stream(h, << >>, b) = S
  BY <1>2, StreamIs
<1>4. Told(S, G \cup e .. c.seq - 1, a, c.seq)
  BY <1>1, <1>3, TellGap
<1>5. PICK t : t = <<c.seq>>
  OBVIOUS
<1>6. t \in Seq(Nat) /\ Len(t) = 1 /\ t[1] = c.seq
  BY <1>5, NumsAppend
<1>7. \A i \in 1 .. Len(t) : t[i] = c.seq + i - 1
  BY <1>1, <1>6
<1>8. Told(S \o t, G \cup e .. c.seq - 1, a, c.seq + Len(t))
  BY <1>4, <1>6, <1>7, TellMore, Zenon
<1>9. Told(S \o t, G \cup e .. c.seq - 1, a, c.seq + 1)
  BY <1>6, <1>8
<1>10. Stream(h, << >>, Append(b, c)) = S \o t
  <2>1. Append(b, c) \in Seq(Chunk)
    OBVIOUS
  <2>2. Stream(h, << >>, Append(b, c)) = h \o SeqNums(Append(b, c))
    BY <2>1, StreamIs
  <2>3. SeqNums(Append(b, c)) = SeqNums(b) \o t
    BY <1>5, NumsAppend
  <2>4. (h \o SeqNums(b)) \o t = h \o (SeqNums(b) \o t)
    <3>1. PICK n : n = SeqNums(b)
      OBVIOUS
    <3>2. n \in Seq(Nat)
      BY <3>1, NumsOf
    <3>3. (h \o n) \o t = h \o (n \o t)
      BY <1>6, <3>2, ConcatAssociative, SMTT(40)
    <3> QED
      BY <3>1, <3>3
  <2> QED
    BY <1>2, <2>2, <2>3, <2>4, Zenon
<1>11. Stream(h \o SeqNums(b), << >>, <<c>>) = S \o t
  <2>1. <<c>> \in Seq(Chunk)
    OBVIOUS
  <2>2. Stream(S, << >>, <<c>>) = S \o SeqNums(<<c>>)
    BY <1>3, <2>1, StreamIs, Zenon
  <2>3. SeqNums(<<c>>) = t
    BY <1>5, NumsAppend
  <2> QED
    BY <1>2, <2>2, <2>3, Zenon
<1> QED
  BY <1>9, <1>10, <1>11, Zenon

\* The tail of b bytes starts somewhere in the ring.
LEMMA TailStartIs ==
  ASSUME TypeOK, NEW b \in Nat
  PROVE  TailStart(b) \in 0 .. Len(chunks)
<1> DEFINE T(i) == Bytes(SubSeq(chunks, i + 1, Len(chunks)))
<1>1. PICK l \in Nat : l = Len(chunks)
  BY DEF TypeOK
<1>2. PICK g : /\ IsSums(chunks, g)
               /\ \A k, m \in 0 .. l : k <= m => Bytes(SubSeq(chunks, k + 1, m)) = g[m] - g[k]
  BY <1>1, BytesAddUp DEF TypeOK
<1>3. \A i \in 0 .. l : T(i) \in Int
  <2> TAKE i \in 0 .. l
  <2>1. T(i) = g[l] - g[i]
    BY <1>1, <1>2
  <2>2. g[l] \in Nat /\ g[i] \in Nat
    BY <1>1, <1>2 DEF IsSums
  <2> QED
    BY <2>1, <2>2
<1> HIDE DEF T
<1> DEFINE S == {i \in 0 .. l : \A j \in i + 1 .. l : T(j) < b}
<1>4. S \in SUBSET Nat /\ l \in S
  BY <1>1
<1>5. PICK i \in S : \A k \in S : i <= k
  BY <1>4, Least
<1>6. i \in 0 .. l /\ \A j \in i + 1 .. l : T(j) < b
  BY <1>5
<1>7. T(i) >= b \/ i = 0
  <2> SUFFICES ASSUME i # 0, ~(T(i) >= b) PROVE FALSE
    OBVIOUS
  <2>1. T(i) < b
    BY <1>3, <1>6
  <2>2. i - 1 \in 0 .. l /\ \A j \in (i - 1) + 1 .. l : j = i \/ j \in i + 1 .. l
    BY <1>6
  <2>3. \A j \in (i - 1) + 1 .. l : T(j) < b
    BY <1>6, <2>1, <2>2
  <2>4. i - 1 \in S
    BY <2>2, <2>3
  <2> QED
    BY <1>5, <1>6, <2>4
<1>8. \E k \in 0 .. Len(chunks) :
        /\ Bytes(SubSeq(chunks, k + 1, Len(chunks))) >= b \/ k = 0
        /\ \A j \in k + 1 .. Len(chunks) : Bytes(SubSeq(chunks, j + 1, Len(chunks))) < b
  BY <1>1, <1>6, <1>7, Zenon DEF T
<1> QED
  BY <1>8, Zenon DEF TailStart

\* The cursors a listener may be added with: every kind, and any number.
AnyCursor(c) == c \in Cursors \/ \E s \in Nat : c = SeqCursor(s)

\* A cursor is resolved to an index of the ring.
LEMMA ResolvedInRing ==
  ASSUME TypeOK, NEW c, AnyCursor(c)
  PROVE  ResolveCursor(c) \in 0 .. Len(chunks)
<1>0. Len(chunks) \in Nat /\ headSeq \in Nat
  BY DEF TypeOK
<1>1. CASE c.mode = "Head"
  BY <1>0, <1>1 DEF ResolveCursor
<1>2. CASE c.mode = "Seq"
  <2>1. c.seq \in Nat
    BY <1>2 DEF AnyCursor, Cursors, SeqCursor, HeadCursor, LiveCursor
  <2> QED
    BY <1>0, <1>2, <2>1 DEF ResolveCursor, AtMost
<1>3. CASE c.mode = "TimeMs"
  <2>1. c.older \in Nat
    BY <1>3 DEF AnyCursor, Cursors, SeqCursor, HeadCursor, LiveCursor
  <2> QED
    BY <1>0, <1>3, <2>1 DEF ResolveCursor, AtMost
<1>4. CASE c.mode = "TailBytes"
  <2>1. c.bytes \in Nat
    BY <1>4 DEF AnyCursor, Cursors, SeqCursor, HeadCursor, LiveCursor
  <2> QED
    BY <1>4, <2>1, TailStartIs DEF ResolveCursor
<1>5. CASE c.mode \notin {"Head", "Seq", "TimeMs", "TailBytes"}
  BY <1>0, <1>5 DEF ResolveCursor
<1> QED
  BY <1>1, <1>2, <1>3, <1>4, <1>5

(* A read at position i hands out the numbers from headSeq + i, and resumes  *)
(* after the last: it never stops before a chunk it could have handed out,   *)
(* since every chunk fits in a read.                                         *)
LEMMA ReadIsExact ==
  ASSUME TypeOK, Contiguous, Budget, NEW i \in 0 .. Len(chunks), NEW n \in 0 .. Len(chunks) - i,
         HandsOut(i, n, ReadMaxBytes)
  PROVE  /\ ResumeAt(i, n) = headSeq + i + n
         /\ SubSeq(chunks, i + 1, i + n) \in Seq(Chunk)
         /\ SeqNums(SubSeq(chunks, i + 1, i + n)) \in Seq(Nat)
         /\ Len(SeqNums(SubSeq(chunks, i + 1, i + n))) = n
         /\ \A j \in 1 .. n : SeqNums(SubSeq(chunks, i + 1, i + n))[j] = headSeq + i + j - 1
<1>0. PICK l \in Nat : l = Len(chunks)
  BY DEF TypeOK
<1>1. chunks \in Seq(Chunk) /\ headSeq \in Nat /\ nextSeq = headSeq + l /\ i \in 0 .. l /\ n \in 0 .. l - i
      /\ \A j \in 1 .. l : chunks[j].seq = headSeq + j - 1
  BY <1>0 DEF TypeOK, Contiguous
<1>2. n = 0 => i = l
  <2> SUFFICES ASSUME n = 0, i # l PROVE FALSE
    OBVIOUS
  <2>1. i + 1 \in 1 .. l /\ i + 1 \in 0 .. l /\ i \in 0 .. l /\ i + n < l /\ i + n + 1 = i + 1 /\ (i + 1) - 1 = i
    BY <1>0, <1>1
  <2>2. PICK g : /\ IsSums(chunks, g)
                 /\ \A k, m \in 0 .. l : k <= m => Bytes(SubSeq(chunks, k + 1, m)) = g[m] - g[k]
    BY <1>0, <1>1, BytesAddUp
  <2>3. Bytes(SubSeq(chunks, i + 1, i + 1)) > ReadMaxBytes
    BY <1>0, <2>1 DEF HandsOut
  <2>4. Bytes(SubSeq(chunks, i + 1, i + 1)) = g[i + 1] - g[i]
    BY <2>1, <2>2
  <2>5. g[i + 1] = g[i] + chunks[i + 1].size /\ g[i] \in Nat
    BY <1>0, <2>1, <2>2 DEF IsSums
  <2>6. chunks[i + 1].size \in Nat /\ chunks[i + 1].size <= MaxChunkBytes
    <3>1. chunks[i + 1] \in Chunk
      BY <1>0, <1>1, <2>1
    <3> QED
      BY <1>0, <2>1, <3>1 DEF Chunk, Budget
  <2>7. ReadMaxBytes \in Nat /\ MaxChunkBytes \in Nat /\ MaxChunkBytes <= ReadMaxBytes
    BY RingAssumption
  <2> QED
    BY <2>3, <2>4, <2>5, <2>6, <2>7
<1>3. ResumeAt(i, n) = headSeq + i + n
  <2>1. CASE n = 0
    BY <1>1, <1>2, <2>1 DEF ResumeAt
  <2>2. CASE n # 0
    <3>1. i + n \in 1 .. l /\ n > 0
      BY <1>1, <2>2
    <3> QED
      BY <1>1, <3>1 DEF ResumeAt
  <2> QED
    BY <2>1, <2>2
<1>4. PICK t : t = SubSeq(chunks, i + 1, i + n)
  OBVIOUS
<1>5. t \in Seq(Chunk) /\ Len(t) = n /\ \A j \in 1 .. n : t[j] = chunks[i + j]
  <2>1. i + 1 \in Nat /\ i + n \in Nat /\ i + 1 >= 1 /\ i + n <= Len(chunks) /\ i \in Nat /\ n \in Nat
    BY <1>0, <1>1
  <2>2. t \in Seq(Chunk)
    BY <1>1, <1>4, <2>1
  <2>3. Len(t) = n
    BY <1>1, <1>4, <2>1
  <2>4. ASSUME NEW j \in 1 .. n PROVE t[j] = chunks[i + j]
    BY <1>1, <1>4, <2>1, <2>3
  <2> QED
    BY <2>2, <2>3, <2>4
<1>6. PICK u : u = SeqNums(t)
  OBVIOUS
<1>7. u \in Seq(Nat) /\ Len(u) = n /\ \A j \in 1 .. n : u[j] = t[j].seq
  BY <1>5, <1>6, NumsOf
<1>8. \A j \in 1 .. n : u[j] = headSeq + i + j - 1
  <2> TAKE j \in 1 .. n
  <2>1. i + j \in 1 .. l
    BY <1>1
  <2>2. chunks[i + j].seq = headSeq + (i + j) - 1
    BY <1>1, <2>1
  <2> QED
    BY <1>1, <1>5, <1>7, <2>2
<1> QED
  BY <1>3, <1>4, <1>5, <1>6, <1>7, <1>8

-----------------------------------------------------------------------------
(* The followers. *)

FolStates ==
  [pc : {"none", "read", "replay", "first", "merge", "done"},
   start : Nat, expected : Nat, owed : SUBSET Nat,
   replay : Seq(Chunk), batch : Seq(Chunk), floor : Nat, resumed : BOOLEAN,
   fits : BOOLEAN]

\* One follower, with what its listener heard and was told of drops: from its
\* first number up to the one it expects, the listener was told of everything.
FolOk(r, h, drops, next) ==
  /\ r.pc = "none" => h = <<>> /\ drops = {}
  /\ r.pc = "read" => r.expected <= next
  /\ r.pc # "replay" => r.replay = <<>> /\ r.owed = {}
  /\ r.pc # "merge" => r.batch = <<>>
  /\ r.pc # "none" => Told(Stream(h, r.replay, r.batch), drops \cup r.owed, r.start, r.expected)

FolTyped ==
  /\ fol \in [Subscribers -> FolStates]
  /\ heard \in [Subscribers -> Seq(Nat)]
  /\ reported \in [Subscribers -> SUBSET Nat]

\* The inductive invariant of the followers.
FolInv == FolTyped /\ \A f \in Subscribers : FolOk(fol[f], heard[f], reported[f], nextSeq)

\* Numbers are only ever added.
LEMMA NextGrows == ASSUME TypeOK, [Next]_vars PROVE nextSeq \in Nat /\ nextSeq' \in Nat /\ nextSeq <= nextSeq'
<1>1. nextSeq \in Nat
  BY DEF TypeOK
<1>2. CASE UNCHANGED ringVars
  BY <1>1, <1>2 DEF ringVars
<1>3. ASSUME NEW a \in Appenders, AppendChunk(a) PROVE nextSeq' = nextSeq + 1
  BY <1>3 DEF AppendChunk
<1> QED
  BY <1>1, <1>2, <1>3, RingMoves

\* A follower that did nothing is as good when numbers were added.
LEMMA FolStays ==
  ASSUME NEW r \in FolStates, NEW h, NEW drops, NEW n \in Nat, NEW m \in Nat, n <= m, FolOk(r, h, drops, n)
  PROVE  FolOk(r, h, drops, m)
<1>1. r.expected \in Nat
  BY DEF FolStates
<1> QED
  BY <1>1 DEF FolOk

\* A step of one follower only has to be examined there.
LEMMA OneFollower ==
  ASSUME FolInv, NEW f \in Subscribers, NEW r \in FolStates, NEW h \in Seq(Nat), NEW p \in SUBSET Nat,
         fol' = [fol EXCEPT ![f] = r], heard' = [heard EXCEPT ![f] = h], reported' = [reported EXCEPT ![f] = p],
         nextSeq \in Nat, nextSeq' \in Nat, nextSeq <= nextSeq', FolOk(r, h, p, nextSeq')
  PROVE  FolInv'
<1>1. FolTyped'
  BY DEF FolInv, FolTyped
<1>2. fol'[f] = r /\ heard'[f] = h /\ reported'[f] = p
  BY DEF FolInv, FolTyped
<1>3. ASSUME NEW g \in Subscribers \ {f}
      PROVE  fol'[g] = fol[g] /\ heard'[g] = heard[g] /\ reported'[g] = reported[g]
  BY DEF FolInv, FolTyped
<1>4. ASSUME NEW g \in Subscribers \ {f} PROVE FolOk(fol[g], heard[g], reported[g], nextSeq')
  <2>1. fol[g] \in FolStates
    BY DEF FolInv, FolTyped
  <2> QED
    BY <2>1, FolStays DEF FolInv
<1>5. ASSUME NEW g \in Subscribers PROVE FolOk(fol'[g], heard'[g], reported'[g], nextSeq')
  <2>1. CASE g = f
    BY <1>2, <2>1, Zenon
  <2>2. CASE g # f
    BY <1>3, <1>4, <2>2, Zenon
  <2> QED
    BY <2>1, <2>2
<1> QED
  BY <1>1, <1>5 DEF FolInv

\* Nothing happens to the followers.
LEMMA NoFollower ==
  ASSUME FolInv, UNCHANGED <<fol, heard, reported>>, nextSeq \in Nat, nextSeq' \in Nat, nextSeq <= nextSeq'
  PROVE  FolInv'
<1>1. FolTyped'
  BY DEF FolInv, FolTyped
<1>2. ASSUME NEW g \in Subscribers PROVE FolOk(fol'[g], heard'[g], reported'[g], nextSeq')
  <2>1. fol[g] \in FolStates
    BY DEF FolInv, FolTyped
  <2>2. FolOk(fol[g], heard[g], reported[g], nextSeq')
    BY <2>1, FolStays DEF FolInv
  <2> QED
    BY <2>2
<1> QED
  BY <1>1, <1>2 DEF FolInv

\* The evicted numbers were reported.
LEMMA PaidChange ==
  ASSUME NEW r \in FolStates, NEW x, x = [r EXCEPT !.owed = {}]
  PROVE  /\ x \in FolStates
         /\ x.pc = r.pc /\ x.start = r.start /\ x.expected = r.expected
         /\ x.owed = {} /\ x.replay = r.replay /\ x.batch = r.batch
<1>1. /\ r.pc \in {"none", "read", "replay", "first", "merge", "done"} /\ r.start \in Nat /\ r.expected \in Nat
      /\ r.owed \in SUBSET Nat /\ r.replay \in Seq(Chunk) /\ r.batch \in Seq(Chunk) /\ r.floor \in Nat
  BY DEF FolStates
<1>2. x \in FolStates
  BY <1>1 DEF FolStates
<1>3. x.pc = r.pc /\ x.start = r.start /\ x.expected = r.expected
  BY DEF FolStates
<1>4. x.owed = {} /\ x.replay = r.replay /\ x.batch = r.batch
  BY DEF FolStates
<1> QED BY <1>2, <1>3, <1>4

\* Part of the replay was handed over.
LEMMA ShownChange ==
  ASSUME NEW r \in FolStates, NEW q \in Seq(Chunk), NEW x, x = [r EXCEPT !.replay = q]
  PROVE  /\ x \in FolStates
         /\ x.pc = r.pc /\ x.start = r.start /\ x.expected = r.expected
         /\ x.owed = r.owed /\ x.replay = q /\ x.batch = r.batch
<1>1. /\ r.pc \in {"none", "read", "replay", "first", "merge", "done"} /\ r.start \in Nat /\ r.expected \in Nat
      /\ r.owed \in SUBSET Nat /\ r.replay \in Seq(Chunk) /\ r.batch \in Seq(Chunk) /\ r.floor \in Nat
  BY DEF FolStates
<1>2. x \in FolStates
  BY <1>1 DEF FolStates
<1>3. x.pc = r.pc /\ x.start = r.start /\ x.expected = r.expected
  BY DEF FolStates
<1>4. x.owed = r.owed /\ x.replay = q /\ x.batch = r.batch
  BY DEF FolStates
<1> QED BY <1>2, <1>3, <1>4

\* The replay is over.
LEMMA LiveChange ==
  ASSUME NEW r \in FolStates, NEW x, x = [r EXCEPT !.pc = "first"]
  PROVE  /\ x \in FolStates
         /\ x.pc = "first" /\ x.start = r.start /\ x.expected = r.expected
         /\ x.owed = r.owed /\ x.replay = r.replay /\ x.batch = r.batch
<1>1. /\ r.pc \in {"none", "read", "replay", "first", "merge", "done"} /\ r.start \in Nat /\ r.expected \in Nat
      /\ r.owed \in SUBSET Nat /\ r.replay \in Seq(Chunk) /\ r.batch \in Seq(Chunk) /\ r.floor \in Nat
  BY DEF FolStates
<1>2. x \in FolStates
  BY <1>1 DEF FolStates
<1>3. x.pc = "first" /\ x.start = r.start /\ x.expected = r.expected
  BY DEF FolStates
<1>4. x.owed = r.owed /\ x.replay = r.replay /\ x.batch = r.batch
  BY DEF FolStates
<1> QED BY <1>2, <1>3, <1>4

\* The batch was handed over.
LEMMA FlushChange ==
  ASSUME NEW r \in FolStates, NEW pc \in {"first", "done"}, NEW x, x = [r EXCEPT !.pc = pc, !.batch = << >>]
  PROVE  /\ x \in FolStates
         /\ x.pc = pc /\ x.start = r.start /\ x.expected = r.expected
         /\ x.owed = r.owed /\ x.replay = r.replay /\ x.batch = << >>
<1>1. /\ r.pc \in {"none", "read", "replay", "first", "merge", "done"} /\ r.start \in Nat /\ r.expected \in Nat
      /\ r.owed \in SUBSET Nat /\ r.replay \in Seq(Chunk) /\ r.batch \in Seq(Chunk) /\ r.floor \in Nat
  BY DEF FolStates
<1>2. x \in FolStates
  <2>1. \A q \in Seq(Chunk) : [r EXCEPT !.pc = pc, !.batch = q] \in FolStates
    BY <1>1 DEF FolStates
  <2>2. << >> \in Seq(Chunk)
    OBVIOUS
  <2> QED
    BY <2>1, <2>2, Zenon
<1>3. x.pc = pc /\ x.start = r.start /\ x.expected = r.expected
  BY DEF FolStates
<1>4. x.owed = r.owed /\ x.replay = r.replay /\ x.batch = << >>
  BY DEF FolStates
<1> QED BY <1>2, <1>3, <1>4

\* The app reads the history it then follows on from.
LEMMA ReadTells ==
  ASSUME FolInv, TypeOK, Contiguous, Budget, NEW f \in Subscribers, ReadBuffer(f)
  PROVE  FolInv'
<1>0. PICK r \in FolStates : r = fol[f]
  BY DEF FolInv, FolTyped
<1>1. r.pc = "none" /\ nextSeq' = nextSeq /\ reported' = reported /\ heard[f] \in Seq(Nat) /\ reported[f] \in SUBSET Nat
  BY <1>0 DEF ReadBuffer, vars, ringVars, FolInv, FolTyped
<1>2. FolOk(r, heard[f], reported[f], nextSeq)
  BY <1>0 DEF FolInv
<1>3. heard[f] = <<>> /\ reported[f] = {} /\ r.replay = <<>> /\ r.owed = {} /\ r.batch = <<>>
  BY <1>1, <1>2 DEF FolOk
<1>4. PICK n \in 0 .. Len(chunks) :
        /\ HandsOut(0, n, ReadMaxBytes)
        /\ heard' = [heard EXCEPT ![f] = SeqNums(SubSeq(chunks, 1, n))]
        /\ fol' = [fol EXCEPT ![f].pc = "read", ![f].start = headSeq, ![f].expected = ResumeAt(0, n)]
  BY DEF ReadBuffer
<1>5. PICK t : t = SeqNums(SubSeq(chunks, 1, n))
  OBVIOUS
<1>6. /\ headSeq \in Nat /\ nextSeq \in Nat /\ Len(chunks) \in Nat /\ n \in Nat
      /\ headSeq + n <= nextSeq
  BY <1>4 DEF TypeOK, Contiguous
<1>7. /\ ResumeAt(0, n) = headSeq + n /\ t \in Seq(Nat) /\ Len(t) = n
      /\ \A j \in 1 .. Len(t) : t[j] = headSeq + j - 1
  <2>1. 0 \in 0 .. Len(chunks) /\ n \in 0 .. Len(chunks) - 0 /\ 0 + 1 = 1 /\ 0 + n = n /\ headSeq + 0 = headSeq
    BY <1>4, <1>6
  <2>2. /\ ResumeAt(0, n) = headSeq + 0 + n
        /\ SeqNums(SubSeq(chunks, 0 + 1, 0 + n)) \in Seq(Nat)
        /\ Len(SeqNums(SubSeq(chunks, 0 + 1, 0 + n))) = n
        /\ \A j \in 1 .. n : SeqNums(SubSeq(chunks, 0 + 1, 0 + n))[j] = headSeq + 0 + j - 1
    BY <1>4, <2>1, ReadIsExact
  <2> QED
    BY <1>5, <2>1, <2>2
<1>8. PICK e \in Nat : e = headSeq + n
  BY <1>6
<1>9. PICK x : x = [r EXCEPT !.pc = "read", !.start = headSeq, !.expected = e]
  OBVIOUS
<1>10. /\ x \in FolStates /\ x.pc = "read" /\ x.start = headSeq /\ x.expected = e
       /\ x.owed = {} /\ x.replay = <<>> /\ x.batch = <<>>
  <2>1. headSeq \in Nat
    BY <1>6
  <2>2. /\ x \in FolStates /\ x.pc = "read" /\ x.start = headSeq /\ x.expected = e
        /\ x.owed = r.owed /\ x.replay = r.replay /\ x.batch = r.batch
    <3>1. /\ r.pc \in {"none", "read", "replay", "first", "merge", "done"} /\ r.start \in Nat /\ r.expected \in Nat
          /\ r.owed \in SUBSET Nat /\ r.replay \in Seq(Chunk) /\ r.batch \in Seq(Chunk) /\ r.floor \in Nat
      BY DEF FolStates
    <3>2. x \in FolStates
      BY <1>9, <2>1, <3>1 DEF FolStates
    <3>3. x.pc = "read" /\ x.start = headSeq /\ x.expected = e
      BY <1>9 DEF FolStates
    <3>4. x.owed = r.owed /\ x.replay = r.replay /\ x.batch = r.batch
      BY <1>9 DEF FolStates
    <3> QED
      BY <3>2, <3>3, <3>4
  <2> QED
    BY <1>3, <2>2, Zenon
<1>11. fol' = [fol EXCEPT ![f] = x]
  BY <1>0, <1>4, <1>7, <1>8, <1>9 DEF FolInv, FolTyped
<1>12. Told(t, {}, headSeq, e)
  <2>1. Told(<<>>, {}, headSeq, headSeq)
    BY <1>6, ToldNothing
  <2>2. Told(<<>> \o t, {}, headSeq, headSeq + Len(t))
    BY <1>7, <2>1, TellMore
  <2>3. <<>> \o t = t
    BY <1>7, ConcatEmptySeq
  <2> QED
    BY <1>7, <1>8, <2>2, <2>3
<1>13. Stream(t, <<>>, <<>>) = t
  <2>1. t \in Seq(Nat) /\ <<>> \in Seq(Chunk)
    BY <1>7
  <2> QED
    BY <2>1, StreamIs, Zenon
<1>14. FolOk(x, t, {}, nextSeq')
  <2>1. x.expected <= nextSeq'
    BY <1>1, <1>6, <1>8, <1>10
  <2>2. {} \cup x.owed = {}
    BY <1>10
  <2>3. Told(Stream(t, x.replay, x.batch), {} \cup x.owed, x.start, x.expected)
    BY <1>10, <1>12, <1>13, <2>2
  <2> QED
    BY <1>10, <2>1, <2>3 DEF FolOk
<1>15. reported' = [reported EXCEPT ![f] = {}]
  BY <1>1, <1>3 DEF FolInv, FolTyped
<1> QED
  <2>1. heard' = [heard EXCEPT ![f] = t] /\ t \in Seq(Nat)
    BY <1>4, <1>5, <1>7
  <2>2. nextSeq \in Nat /\ nextSeq' \in Nat /\ nextSeq <= nextSeq' /\ {} \in SUBSET Nat
    BY <1>1, <1>6
  <2> QED
    BY <1>10, <1>11, <1>14, <1>15, <2>1, <2>2, OneFollower, Zenon

\* The goroutine reports what was evicted, shows the replay and goes live.
LEMMA ReplayTells ==
  ASSUME FolInv, TypeOK, NEW f \in Subscribers, RunReplay(f)
  PROVE  FolInv'
<1>0. PICK r \in FolStates : r = fol[f]
  BY DEF FolInv, FolTyped
<1>1. /\ r.pc = "replay" /\ nextSeq' = nextSeq /\ nextSeq \in Nat /\ heard[f] \in Seq(Nat) /\ reported[f] \in SUBSET Nat
      /\ r.replay \in Seq(Chunk) /\ r.owed \in SUBSET Nat
  BY <1>0 DEF RunReplay, vars, ringVars, FolInv, FolTyped, TypeOK, FolStates
<1>2. FolOk(r, heard[f], reported[f], nextSeq)
  BY <1>0 DEF FolInv
<1>3. r.batch = <<>> /\ Told(Stream(heard[f], r.replay, r.batch), reported[f] \cup r.owed, r.start, r.expected)
  BY <1>1, <1>2 DEF FolOk
<1>4. CASE /\ reported' = [reported EXCEPT ![f] = @ \cup fol[f].owed]
           /\ fol' = [fol EXCEPT ![f].owed = {}] /\ UNCHANGED heard
  <2>1. PICK x : x = [r EXCEPT !.owed = {}]
    OBVIOUS
  <2>2. /\ x \in FolStates /\ x.pc = r.pc /\ x.start = r.start /\ x.expected = r.expected
        /\ x.owed = {} /\ x.replay = r.replay /\ x.batch = r.batch
    BY <2>1, PaidChange
  <2>3. PICK p : p = reported[f] \cup r.owed
    OBVIOUS
  <2>4. p \in SUBSET Nat /\ p \cup x.owed = p
    BY <1>1, <2>2, <2>3
  <2>5. FolOk(x, heard[f], p, nextSeq')
    BY <1>1, <1>3, <2>2, <2>3, <2>4 DEF FolOk
  <2>6. fol' = [fol EXCEPT ![f] = x]
    BY <1>0, <1>4, <2>1 DEF FolInv, FolTyped
  <2>7. reported' = [reported EXCEPT ![f] = p] /\ heard' = [heard EXCEPT ![f] = heard[f]]
    BY <1>0, <1>4, <2>3 DEF FolInv, FolTyped
  <2>20. nextSeq \in Nat /\ nextSeq' \in Nat /\ nextSeq <= nextSeq'
    BY <1>1
  <2> QED
    BY <1>1, <2>2, <2>4, <2>5, <2>6, <2>7, <2>20, OneFollower, Zenon
<1>5. CASE /\ fol[f].owed = {} /\ fol[f].replay # <<>>
           /\ heard' = [heard EXCEPT ![f] = Append(@, Head(fol[f].replay).seq)]
           /\ fol' = [fol EXCEPT ![f].replay = Tail(@)] /\ UNCHANGED reported
  <2>1. PICK q : q = Tail(r.replay)
    OBVIOUS
  <2>2. PICK h : h = Append(heard[f], Head(r.replay).seq)
    OBVIOUS
  <2>3. q \in Seq(Chunk)
    BY <1>0, <1>1, <1>5, <2>1
  <2>4. h \in Seq(Nat) /\ h \o SeqNums(q) = heard[f] \o SeqNums(r.replay)
    BY <1>0, <1>1, <1>5, <2>1, <2>2, TellHead
  <2>5. PICK x : x = [r EXCEPT !.replay = q]
    OBVIOUS
  <2>6. /\ x \in FolStates /\ x.pc = r.pc /\ x.start = r.start /\ x.expected = r.expected
        /\ x.owed = r.owed /\ x.replay = q /\ x.batch = r.batch
    BY <2>3, <2>5, ShownChange
  <2>7. Stream(h, q, <<>>) = Stream(heard[f], r.replay, <<>>)
    <3>1. Stream(h, q, <<>>) = h \o SeqNums(q)
      BY <2>3, <2>4, StreamIs, Zenon
    <3>2. Stream(heard[f], r.replay, <<>>) = heard[f] \o SeqNums(r.replay)
      BY <1>1, StreamIs, Zenon
    <3> QED
      BY <2>4, <3>1, <3>2, Zenon
  <2>8. FolOk(x, h, reported[f], nextSeq')
    BY <1>1, <1>3, <2>6, <2>7 DEF FolOk
  <2>9. fol' = [fol EXCEPT ![f] = x]
    BY <1>0, <1>5, <2>1, <2>5 DEF FolInv, FolTyped
  <2>10. heard' = [heard EXCEPT ![f] = h] /\ reported' = [reported EXCEPT ![f] = reported[f]]
    BY <1>0, <1>5, <2>2 DEF FolInv, FolTyped
  <2>20. nextSeq \in Nat /\ nextSeq' \in Nat /\ nextSeq <= nextSeq'
    BY <1>1
  <2> QED
    BY <1>1, <2>4, <2>6, <2>8, <2>9, <2>10, <2>20, OneFollower, Zenon
<1>6. CASE /\ fol[f].owed = {} /\ fol[f].replay = <<>>
           /\ fol' = [fol EXCEPT ![f].pc = "first"] /\ UNCHANGED <<heard, reported>>
  <2>1. PICK x : x = [r EXCEPT !.pc = "first"]
    OBVIOUS
  <2>2. /\ x \in FolStates /\ x.pc = "first" /\ x.start = r.start /\ x.expected = r.expected
        /\ x.owed = r.owed /\ x.replay = r.replay /\ x.batch = r.batch
    BY <2>1, LiveChange
  <2>3. FolOk(x, heard[f], reported[f], nextSeq')
    BY <1>0, <1>3, <1>6, <2>2 DEF FolOk
  <2>4. fol' = [fol EXCEPT ![f] = x]
    BY <1>0, <1>6, <2>1 DEF FolInv, FolTyped
  <2>5. heard' = [heard EXCEPT ![f] = heard[f]] /\ reported' = [reported EXCEPT ![f] = reported[f]]
    BY <1>6 DEF FolInv, FolTyped
  <2>20. nextSeq \in Nat /\ nextSeq' \in Nat /\ nextSeq <= nextSeq'
    BY <1>1
  <2> QED
    BY <1>1, <2>2, <2>3, <2>4, <2>5, <2>20, OneFollower, Zenon
<1> QED
  BY <1>4, <1>5, <1>6 DEF RunReplay

\* The window closes, or the feed is over: the batch is handed over.
LEMMA FlushTells ==
  ASSUME FolInv, TypeOK, NEW f \in Subscribers, RunFlush(f) \/ RunEnd(f)
  PROVE  FolInv'
<1>0. PICK r \in FolStates : r = fol[f]
  BY DEF FolInv, FolTyped
<1>1. PICK pc \in {"first", "done"} :
        /\ fol' = [fol EXCEPT ![f].pc = pc, ![f].batch = <<>>]
        /\ heard' = [heard EXCEPT ![f] = @ \o SeqNums(fol[f].batch)]
  BY DEF RunFlush, RunEnd
<1>2. /\ r.pc \in {"first", "merge"} /\ nextSeq' = nextSeq /\ nextSeq \in Nat /\ reported' = reported
      /\ heard[f] \in Seq(Nat) /\ reported[f] \in SUBSET Nat /\ r.batch \in Seq(Chunk)
  BY <1>0 DEF RunFlush, RunEnd, vars, ringVars, FolInv, FolTyped, TypeOK, FolStates
<1>3. FolOk(r, heard[f], reported[f], nextSeq)
  BY <1>0 DEF FolInv
<1>4. /\ r.replay = <<>> /\ r.owed = {}
      /\ Told(Stream(heard[f], r.replay, r.batch), reported[f] \cup r.owed, r.start, r.expected)
  BY <1>2, <1>3 DEF FolOk
<1>5. PICK h : h = heard[f] \o SeqNums(r.batch)
  OBVIOUS
<1>6. h \in Seq(Nat) /\ Stream(heard[f], <<>>, r.batch) = h
  BY <1>2, <1>5, StreamIs
<1>7. Stream(h, <<>>, <<>>) = h
  <2>1. <<>> \in Seq(Chunk)
    OBVIOUS
  <2> QED
    BY <1>6, <2>1, StreamIs, Zenon
<1>8. PICK x : x = [r EXCEPT !.pc = pc, !.batch = <<>>]
  OBVIOUS
<1>9. /\ x \in FolStates /\ x.pc = pc /\ x.start = r.start /\ x.expected = r.expected
      /\ x.owed = r.owed /\ x.replay = r.replay /\ x.batch = <<>>
  BY <1>8, FlushChange, ZenonT(60)
<1>10. FolOk(x, h, reported[f], nextSeq')
  BY <1>4, <1>6, <1>7, <1>9 DEF FolOk
<1>11. fol' = [fol EXCEPT ![f] = x]
  BY <1>0, <1>1, <1>8 DEF FolInv, FolTyped
<1>12. heard' = [heard EXCEPT ![f] = h] /\ reported' = [reported EXCEPT ![f] = reported[f]]
  BY <1>0, <1>1, <1>2, <1>5 DEF FolInv, FolTyped
<1>13. nextSeq \in Nat /\ nextSeq' \in Nat /\ nextSeq <= nextSeq'
  BY <1>2
<1> QED
  BY <1>2, <1>6, <1>9, <1>10, <1>11, <1>12, <1>13, OneFollower, Zenon

\* A chunk comes off the feed that is not late.
LEMMA AdmitTells ==
  ASSUME FolInv, TypeOK, NEW f \in Subscribers, RunAdmit(f)
  PROVE  FolInv'
<1>0. PICK r \in FolStates : r = fol[f]
  BY DEF FolInv, FolTyped
<1>1. PICK c \in Chunk : c = Head(feed[f])
  <2>1. feed[f] # <<>> /\ feed[f] \in Seq(Chunk)
    BY DEF RunAdmit, Receive, TypeOK
  <2> QED
    BY <2>1
<1>2. PICK b \in Seq(Chunk) : b = r.batch
  BY DEF FolStates
<1>3. PICK h \in Seq(Nat) : h = heard[f]
  BY DEF FolInv, FolTyped
<1>4. PICK e \in Nat : e = r.expected
  BY DEF FolStates
<1>5. /\ r.pc \in {"first", "merge"} /\ nextSeq' = nextSeq /\ nextSeq \in Nat
      /\ ~(c.seq < e)
      /\ reported' = [reported EXCEPT ![f] = @ \cup (e .. c.seq - 1)]
  BY <1>0, <1>1, <1>4 DEF RunAdmit, Receive, ringVars, TypeOK, Late, Gap
<1>6. \/ /\ heard' = heard
         /\ fol' = [fol EXCEPT ![f].pc = "merge", ![f].expected = c.seq + 1, ![f].batch = Append(@, c)]
      \/ /\ heard' = [heard EXCEPT ![f] = @ \o SeqNums(b)]
         /\ fol' = [fol EXCEPT ![f].pc = "merge", ![f].expected = c.seq + 1, ![f].batch = <<c>>]
  <2>1. CASE b # <<>> /\ b[1].stream = c.stream
    BY <1>0, <1>1, <1>2, <2>1 DEF RunAdmit, FolInv, FolTyped
  <2>2. CASE ~(b # <<>> /\ b[1].stream = c.stream)
    BY <1>0, <1>1, <1>2, <2>2 DEF RunAdmit, FolInv, FolTyped
  <2> QED
    BY <2>1, <2>2
<1>7. FolOk(r, h, reported[f], nextSeq)
  BY <1>0, <1>3 DEF FolInv
<1>8. r.replay = <<>> /\ r.owed = {} /\ Told(Stream(h, r.replay, b), reported[f] \cup r.owed, r.start, e)
  BY <1>2, <1>4, <1>5, <1>7 DEF FolOk
<1>9. Told(Stream(h, <<>>, b), reported[f], r.start, e)
  <2>1. reported[f] \cup {} = reported[f]
    OBVIOUS
  <2> QED
    BY <1>8, <2>1, Zenon
<1>10. PICK p : p = reported[f] \cup (e .. c.seq - 1)
  OBVIOUS
<1>11. /\ Told(Stream(h, <<>>, Append(b, c)), p, r.start, c.seq + 1)
       /\ Told(Stream(h \o SeqNums(b), <<>>, <<c>>), p, r.start, c.seq + 1)
  BY <1>5, <1>9, <1>10, TellChunk, Zenon
<1>12. c.seq \in Nat /\ c.seq + 1 \in Nat
  BY DEF Chunk
<1>13. PICK m \in Nat : m = c.seq + 1
  BY <1>12, Zenon
<1>14. p \in SUBSET Nat /\ reported' = [reported EXCEPT ![f] = p]
  <2>1. reported[f] \in SUBSET Nat
    BY DEF FolInv, FolTyped
  <2> QED
    BY <1>5, <1>10, <1>12, <2>1
<1>15. h \o SeqNums(b) \in Seq(Nat) /\ Append(b, c) \in Seq(Chunk) /\ <<c>> \in Seq(Chunk)
  BY StreamIs
<1>16. nextSeq \in Nat /\ nextSeq' \in Nat /\ nextSeq <= nextSeq'
  BY <1>5
<1>17. ASSUME NEW q \in Seq(Chunk), NEW k \in Seq(Nat),
              Told(Stream(k, <<>>, q), p, r.start, m),
              fol' = [fol EXCEPT ![f].pc = "merge", ![f].expected = m, ![f].batch = q],
              heard' = [heard EXCEPT ![f] = k]
       PROVE  FolInv'
  <2>1. PICK x : x = [r EXCEPT !.pc = "merge", !.expected = m, !.batch = q]
    OBVIOUS
  <2>2. /\ x \in FolStates /\ x.pc = "merge" /\ x.start = r.start /\ x.expected = m
        /\ x.owed = r.owed /\ x.replay = r.replay /\ x.batch = q
    <3>1. /\ r.pc \in {"none", "read", "replay", "first", "merge", "done"} /\ r.start \in Nat /\ r.expected \in Nat
          /\ r.owed \in SUBSET Nat /\ r.replay \in Seq(Chunk) /\ r.batch \in Seq(Chunk) /\ r.floor \in Nat
      BY DEF FolStates
    <3>2. x \in FolStates
      BY <2>1, <3>1 DEF FolStates
    <3>3. x.pc = "merge" /\ x.start = r.start /\ x.expected = m
      BY <2>1 DEF FolStates
    <3>4. x.owed = r.owed /\ x.replay = r.replay /\ x.batch = q
      BY <2>1 DEF FolStates
    <3> QED
      BY <3>2, <3>3, <3>4
  <2>3. p \cup x.owed = p
    BY <1>8, <2>2
  <2>4. FolOk(x, k, p, nextSeq')
    BY <1>8, <1>17, <2>2, <2>3 DEF FolOk
  <2>5. fol' = [fol EXCEPT ![f] = x]
    BY <1>0, <1>17, <2>1 DEF FolInv, FolTyped
  <2> QED
    BY <1>14, <1>16, <1>17, <2>2, <2>4, <2>5, OneFollower, Zenon
<1>18. CASE /\ heard' = heard
            /\ fol' = [fol EXCEPT ![f].pc = "merge", ![f].expected = c.seq + 1, ![f].batch = Append(@, c)]
  <2>1. PICK q \in Seq(Chunk) : q = Append(b, c)
    BY <1>15, Zenon
  <2>2. heard' = [heard EXCEPT ![f] = h]
    BY <1>3, <1>18 DEF FolInv, FolTyped
  <2>3. fol' = [fol EXCEPT ![f].pc = "merge", ![f].expected = m, ![f].batch = q]
    BY <1>0, <1>2, <1>13, <1>18, <2>1 DEF FolInv, FolTyped
  <2>4. Told(Stream(h, <<>>, q), p, r.start, m)
    BY <1>11, <1>13, <2>1, Zenon
  <2> QED
    BY <1>17, <2>2, <2>3, <2>4, Zenon
<1>19. CASE /\ heard' = [heard EXCEPT ![f] = @ \o SeqNums(b)]
            /\ fol' = [fol EXCEPT ![f].pc = "merge", ![f].expected = c.seq + 1, ![f].batch = <<c>>]
  <2>1. PICK k \in Seq(Nat) : k = h \o SeqNums(b)
    BY <1>15, Zenon
  <2>2. PICK q \in Seq(Chunk) : q = <<c>>
    BY <1>15, Zenon
  <2>3. heard' = [heard EXCEPT ![f] = k]
    BY <1>3, <1>19, <2>1 DEF FolInv, FolTyped
  <2>4. fol' = [fol EXCEPT ![f].pc = "merge", ![f].expected = m, ![f].batch = q]
    BY <1>0, <1>13, <1>19, <2>2 DEF FolInv, FolTyped
  <2>5. Told(Stream(k, <<>>, q), p, r.start, m)
    BY <1>11, <1>13, <2>1, <2>2, Zenon
  <2> QED
    BY <1>17, <2>3, <2>4, <2>5, Zenon
<1> QED
  BY <1>6, <1>18, <1>19

\* Where a follower starts: what was evicted is owed to the listener.
LEMMA FollowStarts ==
  ASSUME FolInv, TypeOK, Contiguous, Budget, NEW f \in Subscribers, NEW cursor, NEW s,
         \/ fol[f].pc = "none" /\ cursor \in Cursors
         \/ fol[f].pc = "read" /\ cursor = SeqCursor(fol[f].expected),
         s = IF fol[f].pc = "read" THEN fol[f].start
             ELSE IF ResolveDropped(cursor) # {} THEN cursor.seq
             ELSE headSeq + ResolveCursor(cursor)
  PROVE  /\ ResolveCursor(cursor) \in 0 .. Len(chunks)
         /\ ResolveDropped(cursor) \in SUBSET Nat
         /\ Told(heard[f], reported[f] \cup ResolveDropped(cursor), s, headSeq + ResolveCursor(cursor))
<1>0. PICK r \in FolStates : r = fol[f]
  BY DEF FolInv, FolTyped
<1>1. FolOk(r, heard[f], reported[f], nextSeq) /\ r.expected \in Nat /\ heard[f] \in Seq(Nat)
  BY <1>0 DEF FolInv, FolTyped, FolStates
<1>2. AnyCursor(cursor)
  BY <1>0, <1>1 DEF AnyCursor
<1>3. ResolveCursor(cursor) \in 0 .. Len(chunks)
  BY <1>2, ResolvedInRing
<1>4. /\ headSeq \in Nat /\ Len(chunks) \in Nat /\ nextSeq \in Nat /\ nextSeq = headSeq + Len(chunks)
  BY DEF TypeOK, Contiguous
<1>5. PICK at \in Nat : at = headSeq + ResolveCursor(cursor)
  BY <1>3, <1>4
<1>6. PICK lost : lost = ResolveDropped(cursor)
  OBVIOUS
<1>7. lost # {} => /\ cursor.mode = "Seq" /\ cursor.seq \in Nat /\ cursor.seq < headSeq
                   /\ lost = cursor.seq .. headSeq - 1 /\ at = headSeq
  <2> SUFFICES ASSUME lost # {}
               PROVE  /\ cursor.mode = "Seq" /\ cursor.seq \in Nat /\ cursor.seq < headSeq
                      /\ lost = cursor.seq .. headSeq - 1 /\ at = headSeq
    OBVIOUS
  <2>1. cursor.mode = "Seq" /\ cursor.seq < headSeq /\ lost = cursor.seq .. headSeq - 1
    BY <1>6 DEF ResolveDropped
  <2>2. cursor.seq \in Nat
    BY <1>2, <2>1 DEF AnyCursor, Cursors, SeqCursor, HeadCursor, LiveCursor
  <2>3. ResolveCursor(cursor) = 0
    BY <2>1 DEF ResolveCursor
  <2> QED
    BY <1>4, <1>5, <2>1, <2>2, <2>3
<1>8. lost \in SUBSET Nat
  BY <1>4, <1>7
<1>9. CASE r.pc = "none"
  <2>1. heard[f] = <<>> /\ reported[f] = {}
    BY <1>1, <1>9 DEF FolOk
  <2>2. CASE lost = {}
    <3>1. s = at
      BY <1>0, <1>5, <1>6, <1>9, <2>2
    <3>2. Told(<<>>, {}, at, at)
      BY ToldNothing
    <3>3. {} \cup lost = {}
      BY <2>2
    <3> QED
      BY <1>3, <1>5, <1>6, <1>8, <2>1, <3>1, <3>2, <3>3, Zenon
  <2>3. CASE lost # {}
    <3>1. s = cursor.seq
      BY <1>0, <1>6, <1>9, <2>3
    <3>2. PICK z \in Nat : z = cursor.seq /\ z < headSeq /\ lost = z .. headSeq - 1 /\ at = headSeq
      BY <1>7, <2>3
    <3>3. Told(<<>>, {}, z, z)
      BY ToldNothing
    <3>4. z <= headSeq
      BY <1>4, <3>2
    <3>5. Told(<<>>, {} \cup z .. headSeq - 1, z, headSeq)
      BY <1>4, <3>3, <3>4, TellGap, Zenon
    <3> QED
      BY <1>3, <1>5, <1>6, <1>8, <2>1, <3>1, <3>2, <3>5, Zenon
  <2> QED
    BY <2>2, <2>3
<1>10. CASE r.pc = "read"
  <2>1. PICK e \in Nat : e = r.expected
    BY <1>1
  <2>2. /\ e <= nextSeq /\ r.replay = <<>> /\ r.owed = {} /\ r.batch = <<>>
        /\ Told(Stream(heard[f], r.replay, r.batch), reported[f] \cup r.owed, r.start, e)
    BY <1>1, <1>10, <2>1 DEF FolOk
  <2>3. Told(heard[f], reported[f], r.start, e)
    <3>1. <<>> \in Seq(Chunk)
      OBVIOUS
    <3>2. Stream(heard[f], <<>>, <<>>) = heard[f]
      BY <1>1, <3>1, StreamIs, Zenon
    <3>3. reported[f] \cup {} = reported[f]
      OBVIOUS
    <3> QED
      BY <2>2, <3>2, <3>3, Zenon
  <2>4. s = r.start /\ cursor = SeqCursor(e)
    BY <1>0, <1>10, <2>1
  <2>5. cursor.mode = "Seq" /\ cursor.seq = e
    BY <2>4 DEF SeqCursor
  <2>6. CASE e < headSeq
    <3>1. chunks # <<>>
      BY <1>4, <2>2, <2>6 DEF Budget
    <3>2. lost = e .. headSeq - 1
      BY <1>6, <2>5, <2>6, <3>1 DEF ResolveDropped
    <3>3. ResolveCursor(cursor) = 0
      BY <2>5, <2>6 DEF ResolveCursor
    <3>4. e <= headSeq /\ at = headSeq
      BY <1>4, <1>5, <2>6, <3>3
    <3>5. Told(heard[f], reported[f] \cup e .. headSeq - 1, r.start, headSeq)
      BY <1>4, <2>3, <3>4, TellGap, Zenon
    <3> QED
      BY <1>3, <1>5, <1>6, <1>8, <2>4, <3>2, <3>4, <3>5, Zenon
  <2>7. CASE ~(e < headSeq)
    <3>1. lost = {}
      BY <1>6, <2>5, <2>7 DEF ResolveDropped
    <3>2. at = e
      BY <1>4, <1>5, <2>2, <2>5, <2>7 DEF ResolveCursor, AtMost
    <3>3. reported[f] \cup lost = reported[f]
      BY <3>1
    <3> QED
      BY <1>3, <1>5, <1>6, <1>8, <2>3, <2>4, <3>2, <3>3, Zenon
  <2> QED
    BY <2>6, <2>7
<1> QED
  BY <1>0, <1>9, <1>10

\* A listener is added: what was evicted, then the replay, up to the number
\* the live feed goes on with.
LEMMA FollowTells ==
  ASSUME FolInv, TypeOK, Contiguous, Budget, NEW f \in Subscribers, NEW cursor, Follow(f, cursor)
  PROVE  FolInv'
<1>0. PICK r \in FolStates : r = fol[f]
  BY DEF FolInv, FolTyped
<1>1. PICK s : s = IF fol[f].pc = "read" THEN fol[f].start
                   ELSE IF ResolveDropped(cursor) # {} THEN cursor.seq
                   ELSE headSeq + ResolveCursor(cursor)
  OBVIOUS
<1>2. \/ fol[f].pc = "none" /\ cursor \in Cursors
      \/ fol[f].pc = "read" /\ cursor = SeqCursor(fol[f].expected)
  BY DEF Follow
<1>3. /\ ResolveCursor(cursor) \in 0 .. Len(chunks)
      /\ ResolveDropped(cursor) \in SUBSET Nat
      /\ Told(heard[f], reported[f] \cup ResolveDropped(cursor), s, headSeq + ResolveCursor(cursor))
  BY <1>1, <1>2, FollowStarts, Zenon
<1>4. PICK i : i = ResolveCursor(cursor)
  OBVIOUS
<1>5. PICK lost : lost = ResolveDropped(cursor)
  OBVIOUS
<1>6. PICK h \in Seq(Nat) : h = heard[f]
  BY DEF FolInv, FolTyped
<1>7. i \in 0 .. Len(chunks) /\ lost \in SUBSET Nat /\ Told(h, reported[f] \cup lost, s, headSeq + i)
  BY <1>3, <1>4, <1>5, <1>6, Zenon
<1>8. PICK n \in 0 .. Len(chunks) - i :
        /\ HandsOut(i, n, ReadMaxBytes)
        /\ fol' = [fol EXCEPT ![f] =
              [pc |-> "replay", start |-> s, expected |-> ResumeAt(i, n), owed |-> lost,
               replay |-> SubSeq(chunks, i + 1, i + n), batch |-> <<>>, floor |-> headSeq,
               resumed |-> fol[f].pc = "read", fits |-> Fits(i)]]
  BY <1>1, <1>4, <1>5, Zenon DEF Follow
<1>9. headSeq \in Nat /\ nextSeq \in Nat /\ nextSeq' = nextSeq /\ heard' = heard /\ reported' = reported
      /\ Len(chunks) \in Nat
  BY DEF Follow, Subscribe, ringVars, TypeOK
<1>10. PICK t : t = SubSeq(chunks, i + 1, i + n)
  OBVIOUS
<1>11. /\ ResumeAt(i, n) = headSeq + i + n
       /\ t \in Seq(Chunk) /\ SeqNums(t) \in Seq(Nat) /\ Len(SeqNums(t)) = n
       /\ \A j \in 1 .. n : SeqNums(t)[j] = headSeq + i + j - 1
  BY <1>7, <1>8, <1>10, ReadIsExact, Zenon
<1>12. i \in Nat /\ n \in Nat /\ headSeq + i \in Nat /\ headSeq + i + n \in Nat
  BY <1>7, <1>8, <1>9
<1>13. PICK e \in Nat : e = headSeq + i + n
  BY <1>12, Zenon
<1>14. PICK at \in Nat : at = headSeq + i
  BY <1>12, Zenon
<1>15. PICK u \in Seq(Nat) : u = SeqNums(t)
  BY <1>11, Zenon
<1>16. Told(h \o u, reported[f] \cup lost, s, e)
  <2>1. Told(h, reported[f] \cup lost, s, at)
    BY <1>7, <1>14, Zenon
  <2>2. Len(u) = n /\ \A j \in 1 .. Len(u) : u[j] = at + j - 1
    BY <1>11, <1>12, <1>14, <1>15
  <2>3. Told(h \o u, reported[f] \cup lost, s, at + Len(u))
    BY <2>1, <2>2, TellMore, Zenon
  <2>4. at + Len(u) = e
    BY <1>12, <1>13, <1>14, <2>2
  <2> QED
    BY <2>3, <2>4, Zenon
<1>17. s \in Nat
  BY <1>7 DEF Told
<1>18. PICK x : x = [pc |-> "replay", start |-> s, expected |-> e, owed |-> lost,
                     replay |-> t, batch |-> <<>>, floor |-> headSeq, resumed |-> fol[f].pc = "read",
                     fits |-> Fits(i)]
  OBVIOUS
<1>19. x \in FolStates
  <2>1. \A v, w \in BOOLEAN, q \in Seq(Chunk) :
          [pc |-> "replay", start |-> s, expected |-> e, owed |-> lost,
           replay |-> t, batch |-> q, floor |-> headSeq, resumed |-> v, fits |-> w] \in FolStates
    BY <1>7, <1>9, <1>11, <1>17 DEF FolStates
  <2>2. (fol[f].pc = "read") \in BOOLEAN /\ Fits(i) \in BOOLEAN
    <3>1. (fol[f].pc = "read") \in BOOLEAN
      BY Zenon
    <3>2. Fits(i) \in BOOLEAN
      BY SMT DEF Fits
    <3> QED
      BY <3>1, <3>2
  <2>3. <<>> \in Seq(Chunk)
    OBVIOUS
  <2> QED
    BY <1>18, <2>1, <2>2, <2>3, Zenon
<1>20. /\ x.pc = "replay" /\ x.start = s /\ x.expected = e /\ x.owed = lost
       /\ x.replay = t /\ x.batch = <<>>
  BY <1>18
<1>21. Stream(h, t, <<>>) = h \o u
  BY <1>11, <1>15, StreamIs, Zenon
<1>22. FolOk(x, h, reported[f], nextSeq')
  BY <1>16, <1>20, <1>21 DEF FolOk
<1>23. fol' = [fol EXCEPT ![f] = x]
  BY <1>8, <1>10, <1>11, <1>13, <1>18, Zenon
<1>24. heard' = [heard EXCEPT ![f] = h] /\ reported' = [reported EXCEPT ![f] = reported[f]]
  BY <1>6, <1>9 DEF FolInv, FolTyped
<1>25. /\ reported[f] \in SUBSET Nat
       /\ nextSeq \in Nat /\ nextSeq' \in Nat /\ nextSeq <= nextSeq'
  BY <1>9 DEF FolInv, FolTyped
<1> QED
  BY <1>19, <1>22, <1>23, <1>24, <1>25, OneFollower, Zenon

\* Every step leaves each listener told of everything below its cursor.
LEMMA FollowersOk ==
  ASSUME FolInv, TypeOK, Contiguous, Budget, [FeedNext]_allVars
  PROVE  FolInv'
<1>1. nextSeq \in Nat /\ nextSeq' \in Nat /\ nextSeq <= nextSeq'
  <2>1. [Next]_vars
    BY FeedStepIsRingStep DEF allVars
  <2> QED
    BY <2>1, NextGrows
<1>2. CASE RingStep \/ StopFollowers \/ UNCHANGED allVars
  <2>1. UNCHANGED <<fol, heard, reported>>
    BY <1>2 DEF RingStep, StopFollowers, allVars, feedVars
  <2> QED
    BY <1>1, <2>1, NoFollower
<1>3. ASSUME NEW f \in Subscribers, AddListener(f) \/ RemoveListener(f) \/ Stop(f) \/ RunLate(f) PROVE FolInv'
  <2>1. UNCHANGED <<fol, heard, reported>>
    BY <1>3 DEF AddListener, RemoveListener, Stop, StopNext, StopUnregister, StopCloseFeed, StopReturn,
                RunLate, feedVars
  <2> QED
    BY <1>1, <2>1, NoFollower
<1>4. ASSUME NEW f \in Subscribers, Run(f) PROVE FolInv'
  BY <1>3, <1>4, ReplayTells, AdmitTells, FlushTells DEF Run
<1> QED
  BY <1>2, <1>3, <1>4, ReadTells, FollowTells DEF FeedNext

\* The invariant gives the property of one follower.
LEMMA NothingSilent ==
  ASSUME FolInv, NEW f \in Subscribers
  PROVE  LET stream == heard[f] \o SeqNums(fol[f].replay) \o SeqNums(fol[f].batch)
             gaps   == reported[f] \cup fol[f].owed
         IN  /\ Increasing(stream)
             /\ Range(stream) \cap gaps = {}
             /\ fol[f].pc # "none" => Range(stream) \cup gaps = fol[f].start .. fol[f].expected - 1
<1> DEFINE stream == Stream(heard[f], fol[f].replay, fol[f].batch)
           gaps   == reported[f] \cup fol[f].owed
<1>1. FolOk(fol[f], heard[f], reported[f], nextSeq)
  BY DEF FolInv
<1>2. \E a, e : Told(stream, gaps, a, e) /\ (fol[f].pc # "none" => a = fol[f].start /\ e = fol[f].expected)
  <2>1. CASE fol[f].pc # "none"
    <3>1. Told(stream, gaps, fol[f].start, fol[f].expected)
      BY <1>1, <2>1 DEF FolOk
    <3> QED
      BY <3>1, Zenon
  <2>2. CASE fol[f].pc = "none"
    <3>1. heard[f] = <<>> /\ reported[f] = {} /\ fol[f].replay = <<>> /\ fol[f].owed = {} /\ fol[f].batch = <<>>
      BY <1>1, <2>2 DEF FolOk
    <3>2. <<>> \in Seq(Chunk) /\ <<>> \in Seq(Nat) /\ {} \cup {} = {} /\ 0 \in Nat
      OBVIOUS
    <3>3. Stream(<<>>, <<>>, <<>>) = <<>>
      BY <3>2, StreamIs, Zenon
    <3>4. Told(<<>>, {}, 0, 0)
      BY <3>2, ToldNothing, Zenon
    <3>5. Told(stream, gaps, 0, 0)
      BY <3>1, <3>2, <3>3, <3>4, Zenon
    <3> QED
      BY <2>2, <3>5, Zenon
  <2> QED
    BY <2>1, <2>2
<1>3. /\ Increasing(stream) /\ Range(stream) \cap gaps = {}
      /\ fol[f].pc # "none" => Range(stream) \cup gaps = fol[f].start .. fol[f].expected - 1
  <2> HIDE DEF stream, gaps
  <2> QED
    BY <1>2, Zenon DEF Told
<1> QED
  BY <1>3, Zenon DEF Stream

\* Nothing is running yet.
LEMMA FollowersInit == FeedInit => FolInv
<1> SUFFICES ASSUME FeedInit PROVE FolInv
  OBVIOUS
<1>1. NotRunning \in FolStates
  <2>1. NotRunning = [pc |-> "none", start |-> 0, expected |-> 0, owed |-> {},
                      replay |-> <<>>, batch |-> <<>>, floor |-> 0, resumed |-> FALSE,
                      fits |-> FALSE]
    BY DEF NotRunning
  <2>2. 0 \in Nat /\ <<>> \in Seq(Chunk) /\ {} \in SUBSET Nat /\ FALSE \in BOOLEAN
        /\ "none" \in {"none", "read", "replay", "first", "merge", "done"}
    OBVIOUS
  <2> QED
    BY <2>1, <2>2, Zenon DEF FolStates
<1>2. FolTyped
  <2>1. <<>> \in Seq(Nat)
    OBVIOUS
  <2> QED
    BY <1>1, <2>1, Zenon DEF FeedInit, FolTyped
<1>3. ASSUME NEW f \in Subscribers PROVE FolOk(fol[f], heard[f], reported[f], nextSeq)
  <2>1. fol[f] = NotRunning /\ heard[f] = <<>> /\ reported[f] = {}
    BY DEF FeedInit
  <2> QED
    BY <2>1 DEF NotRunning, FolOk
<1> QED
  BY <1>2, <1>3 DEF FolInv

(* The followers' invariant: a listener was told of every number from its    *)
(* first one to the one it expects next, and a goroutine holds a replay, a   *)
(* debt or a batch only in the phase of Follower.run that hands it over.     *)
THEOREM FollowersInvariant == FeedSpec => []FolInv
<1>1. Spec => [](TypeOK /\ Contiguous /\ Budget)
  BY TypeCorrect, RetainedContiguous, RingWithinBudget, PTL
<1>2. FolInv /\ TypeOK /\ Contiguous /\ Budget /\ [FeedNext]_allVars => FolInv'
  BY FollowersOk
<1> QED
  BY <1>1, <1>2, FollowersInit, FeedUsesRing, PTL DEF FeedSpec

(* Follower.run and admit: no listener misses a chunk in silence, sees one   *)
(* twice or out of order - for every number of appenders, followers and      *)
(* cursors, and every budget a chunk fits in, whatever was evicted, turned   *)
(* away or reordered in between.                                             *)
THEOREM ListenersAreTold == FeedSpec => []NoSilentGap
<1>1. FolInv => NoSilentGap
  BY NothingSilent, Zenon DEF NoSilentGap
<1> QED
  BY <1>1, FollowersInvariant, PTL

(* Every variable of the followers keeps its type: the goroutine is in one   *)
(* of the phases of Follower.run and the fan's table in one of its states.   *)
THEOREM FeedTypeCorrect == FeedSpec => []FeedTypeOK
<1> DEFINE Lives == {"none", "followed", "listed", "queued", "stopping", "unregistered", "waiting", "returned"}
           LifeOk == life \in [Subscribers -> Lives] /\ stopQueue \subseteq Subscribers
<1>1. FeedInit => LifeOk
  BY DEF FeedInit
<1>2. LifeOk /\ [FeedNext]_allVars => LifeOk'
  <2> SUFFICES ASSUME LifeOk, [FeedNext]_allVars PROVE LifeOk'
    OBVIOUS
  <2>1. CASE RingStep \/ UNCHANGED allVars
    BY <2>1 DEF RingStep, allVars, feedVars
  <2>2. CASE StopFollowers
    BY <2>2 DEF StopFollowers
  <2>3. ASSUME NEW f \in Subscribers, ReadBuffer(f) \/ AddListener(f) \/ RemoveListener(f) PROVE LifeOk'
    BY <2>3 DEF ReadBuffer, AddListener, RemoveListener
  <2>4. ASSUME NEW f \in Subscribers, NEW c, Follow(f, c) PROVE LifeOk'
    BY <2>4 DEF Follow
  <2>5. ASSUME NEW f \in Subscribers, Run(f) PROVE LifeOk'
    BY <2>5 DEF Run, RunReplay, RunLate, RunAdmit, RunFlush, RunEnd, feedVars
  <2>6. ASSUME NEW f \in Subscribers, Stop(f) PROVE LifeOk'
    BY <2>6 DEF Stop, StopNext, StopUnregister, StopCloseFeed, StopReturn
  <2> QED
    BY <2>1, <2>2, <2>3, <2>4, <2>5, <2>6 DEF FeedNext
<1>3. TypeOK /\ FolInv /\ LifeOk => FeedTypeOK
  BY DEF FeedTypeOK, FolInv, FolTyped, FolStates
<1> QED
  BY <1>1, <1>2, <1>3, TypeCorrect, FeedUsesRing, FollowersInvariant, PTL DEF FeedSpec

\* The handover of Ring.Subscribe is exact under everything the followers do.
THEOREM FeedHandover == FeedSpec => []HandoverExact
BY FeedUsesRing, HandoverIsExact, PTL

-----------------------------------------------------------------------------
(* The replay read and the follow after it.                                  *)

\* Partial sums only grow.
LEMMA SumsAscend ==
  ASSUME NEW s \in Seq(Chunk), NEW g, IsSums(s, g), NEW k \in 0 .. Len(s)
  PROVE  g[k] <= g[Len(s)]
<1>0. PICK l \in Nat : l = Len(s)
  OBVIOUS
<1> DEFINE S == {n \in 0 .. l : g[l - n] > g[l]}
<1>1. S \in SUBSET Nat
  BY <1>0
<1>2. S = {}
  <2> SUFFICES ASSUME S # {} PROVE FALSE
    OBVIOUS
  <2>1. PICK m \in S : \A j \in S : m <= j
    BY <1>1, Least
  <2>2. m \in 0 .. l /\ g[l - m] > g[l]
    BY <2>1
  <2>3. l \in 0 .. l /\ g[l] \in Nat /\ l - 0 = l
    BY <1>0 DEF IsSums
  <2>4. m # 0
    BY <2>2, <2>3
  <2>5. m - 1 \in 0 .. l /\ m - 1 \notin S /\ (l - m) + 1 \in 1 .. l /\ l - (m - 1) = (l - m) + 1
        /\ ((l - m) + 1) - 1 = l - m /\ l - m \in 0 .. l /\ (l - m) + 1 \in 0 .. l
    BY <1>0, <2>1, <2>2, <2>4
  <2>6. ~(g[(l - m) + 1] > g[l])
    BY <2>5
  <2>7. g[(l - m) + 1] = g[l - m] + s[(l - m) + 1].size /\ g[l - m] \in Nat /\ g[(l - m) + 1] \in Nat
    BY <1>0, <2>5 DEF IsSums
  <2>8. s[(l - m) + 1] \in Chunk
    BY <1>0, <2>5
  <2>9. s[(l - m) + 1].size \in Nat
    BY <2>8 DEF Chunk
  <2> HIDE DEF S
  <2>10. g[l - m] <= g[(l - m) + 1]
    BY <2>7, <2>9
  <2> QED
    BY <2>2, <2>3, <2>6, <2>7, <2>10
<1>3. l - k \in 0 .. l /\ l - (l - k) = k /\ k \in 0 .. l /\ l \in 0 .. l
  BY <1>0
<1>4. ~(g[k] > g[l])
  BY <1>2, <1>3
<1>5. g[k] \in Nat /\ g[l] \in Nat
  BY <1>0, <1>3 DEF IsSums
<1> QED
  BY <1>0, <1>4, <1>5

\* Where the rest of the ring fits in one read, a read goes to the end.
LEMMA ReadsToTheEnd ==
  ASSUME TypeOK, Contiguous, Budget,
         NEW i \in 0 .. Len(chunks), NEW n \in 0 .. Len(chunks) - i, HandsOut(i, n, ReadMaxBytes), Fits(i)
  PROVE  ResumeAt(i, n) = nextSeq
<1>0. PICK l \in Nat : l = Len(chunks)
  BY DEF TypeOK
<1>1. chunks \in Seq(Chunk) /\ headSeq \in Nat /\ nextSeq = headSeq + l
  BY <1>0 DEF TypeOK, Contiguous
<1>2. i + n = l
  <2> SUFFICES ASSUME i + n # l PROVE FALSE
    OBVIOUS
  <2>1. i + n < l /\ i + n + 1 \in 0 .. l /\ i \in 0 .. l /\ i <= i + n + 1
    BY <1>0
  <2>2. PICK g : /\ IsSums(chunks, g) /\ Bytes(chunks) = g[l]
                 /\ \A k, m \in 0 .. l : k <= m => Bytes(SubSeq(chunks, k + 1, m)) = g[m] - g[k]
    BY <1>0, <1>1, BytesAddUp
  <2>3. Bytes(SubSeq(chunks, i + 1, i + n + 1)) > ReadMaxBytes
    BY <1>0, <2>1 DEF HandsOut
  <2>4. Bytes(SubSeq(chunks, i + 1, i + n + 1)) = g[i + n + 1] - g[i]
    BY <2>1, <2>2
  <2>5. g[i + n + 1] \in Nat /\ g[i] \in Nat /\ g[l] \in Nat
    BY <1>0, <2>1, <2>2 DEF IsSums
  <2>6. g[i + n + 1] <= g[l]
    BY <1>0, <1>1, <2>1, <2>2, SumsAscend
  <2>7. g[l] - g[i] <= ReadMaxBytes /\ ReadMaxBytes \in Nat
    <3>1. l \in 0 .. l /\ i <= l
      BY <1>0
    <3>2. Bytes(SubSeq(chunks, i + 1, l)) = g[l] - g[i]
      BY <2>1, <2>2, <3>1
    <3> QED
      BY <1>0, <3>2, RingAssumption DEF Fits
  <2> QED
    BY <2>3, <2>4, <2>5, <2>6, <2>7
<1>3. ResumeAt(i, n) = headSeq + i + n
  BY ReadIsExact
<1> QED
  BY <1>0, <1>1, <1>2, <1>3

\* A follower that goes on from a read, and whose rest of the ring fitted one
\* more: what its listener is told was dropped was evicted before the follow, or
\* comes after it.
ResumeOk(r, drops, at) ==
  /\ r.pc \in {"none", "read"} => drops = {} /\ ~r.resumed
  /\ r.resumed /\ r.fits =>
                  /\ at \in Nat /\ at <= r.expected
                  /\ \A s \in drops \cup r.owed : s < r.floor \/ s >= at

ResumeInv == \A f \in Subscribers : ResumeOk(fol[f], reported[f], since[f])

\* A step that tells the listeners nothing and registers no feed.
LEMMA ResumeQuiet ==
  ASSUME ResumeInv, UNCHANGED <<fol, reported, since>>
  PROVE  ResumeInv'
  BY DEF ResumeInv

\* A step of one follower.
LEMMA ResumeOne ==
  ASSUME ResumeInv, FolTyped, TypeOK, NEW f \in Subscribers, NEW r, NEW drops, NEW at,
         fol' = [fol EXCEPT ![f] = r], reported' = [reported EXCEPT ![f] = drops],
         since' = [since EXCEPT ![f] = at], ResumeOk(r, drops, at)
  PROVE  ResumeInv'
<1> SUFFICES ASSUME NEW g \in Subscribers PROVE ResumeOk(fol'[g], reported'[g], since'[g])
  BY DEF ResumeInv
<1>1. CASE g = f
  BY <1>1 DEF FolTyped, TypeOK
<1>2. CASE g # f
  BY <1>2 DEF FolTyped, TypeOK, ResumeInv
<1> QED
  BY <1>1, <1>2

\* A listener goes on from what the app has read.
LEMMA ResumeFollow ==
  ASSUME ResumeInv, FolInv, TypeOK, Contiguous, Budget,
         NEW f \in Subscribers, NEW cursor, Follow(f, cursor)
  PROVE  ResumeInv'
<1>0. PICK r \in FolStates : r = fol[f]
  BY DEF FolInv, FolTyped
<1>1. /\ \/ r.pc = "none" /\ cursor \in Cursors
         \/ r.pc = "read" /\ cursor = SeqCursor(r.expected)
      /\ reported' = reported /\ since' = [since EXCEPT ![f] = nextSeq]
  BY <1>0 DEF Follow, Subscribe
<1>2. AnyCursor(cursor)
  BY <1>0, <1>1 DEF AnyCursor, FolStates
<1>3. PICK i \in 0 .. Len(chunks) : i = ResolveCursor(cursor)
  BY <1>2, ResolvedInRing
<1>4a. PICK n \in 0 .. Len(chunks) - i :
        /\ HandsOut(i, n, ReadMaxBytes)
        /\ \E start : fol' = [fol EXCEPT ![f] =
              [pc |-> "replay", start |-> start, expected |-> ResumeAt(i, n), owed |-> ResolveDropped(cursor),
               replay |-> SubSeq(chunks, i + 1, i + n), batch |-> <<>>, floor |-> headSeq,
               resumed |-> fol[f].pc = "read", fits |-> Fits(i)]]
  BY <1>3, Zenon DEF Follow
<1>4b. PICK start : fol' = [fol EXCEPT ![f] =
              [pc |-> "replay", start |-> start, expected |-> ResumeAt(i, n), owed |-> ResolveDropped(cursor),
               replay |-> SubSeq(chunks, i + 1, i + n), batch |-> <<>>, floor |-> headSeq,
               resumed |-> fol[f].pc = "read", fits |-> Fits(i)]]
  BY <1>4a, Zenon
<1>4c. PICK x : x = [pc |-> "replay", start |-> start, expected |-> ResumeAt(i, n),
                     owed |-> ResolveDropped(cursor), replay |-> SubSeq(chunks, i + 1, i + n),
                     batch |-> <<>>, floor |-> headSeq, resumed |-> fol[f].pc = "read",
                     fits |-> Fits(i)]
  OBVIOUS
<1>4d. fol' = [fol EXCEPT ![f] = x]
  BY <1>4b, <1>4c, Zenon
<1>4. /\ x.pc = "replay" /\ x.expected = ResumeAt(i, n) /\ x.owed = ResolveDropped(cursor)
      /\ x.floor = headSeq /\ (x.resumed <=> r.pc = "read") /\ (x.fits <=> Fits(i))
  BY <1>0, <1>4c
<1>5. (x.fits => x.expected = nextSeq) /\ nextSeq \in Nat /\ headSeq \in Nat
  BY <1>4, <1>4a, ReadsToTheEnd DEF TypeOK
<1>6. reported[f] = {} /\ reported' = [reported EXCEPT ![f] = {}]
  BY <1>0, <1>1 DEF ResumeInv, ResumeOk, FolInv, FolTyped
<1>7. x.resumed => \A s \in x.owed : s < headSeq
  <2> SUFFICES ASSUME x.resumed, NEW s \in x.owed PROVE s < headSeq
    OBVIOUS
  <2>1. s \in cursor.seq .. headSeq - 1 /\ cursor.seq = r.expected /\ r.expected \in Nat
    BY <1>1, <1>4 DEF ResolveDropped, SeqCursor, FolStates
  <2> QED
    BY <1>5, <2>1
<1>8. ResumeOk(x, {}, nextSeq)
  BY <1>4, <1>5, <1>7 DEF ResumeOk
<1> QED
  BY <1>1, <1>4d, <1>6, <1>8, ResumeOne DEF FolInv

\* The goroutine of Follower.run reports what it owed, or a gap from its cursor.
LEMMA ResumeRun ==
  ASSUME ResumeInv, FolInv, TypeOK, NEW f \in Subscribers, Run(f)
  PROVE  ResumeInv'
<1>0. PICK r \in FolStates : r = fol[f]
  BY DEF FolInv, FolTyped
<1>1. ResumeOk(r, reported[f], since[f]) /\ r.expected \in Nat /\ r.floor \in Nat
  BY <1>0 DEF ResumeInv, FolStates
<1>2. since' = since /\ since' = [since EXCEPT ![f] = since[f]]
  BY DEF Run, RunReplay, RunLate, RunAdmit, RunFlush, RunEnd, Receive, vars, subVars, TypeOK
<1>3. CASE RunLate(f)
  BY <1>2, <1>3, ResumeQuiet DEF RunLate, feedVars
<1>4. CASE RunReplay(f)
  <2>1. r.pc = "replay"
    BY <1>0, <1>4 DEF RunReplay
  <2>2. PICK x, drops :
          /\ fol' = [fol EXCEPT ![f] = x] /\ reported' = [reported EXCEPT ![f] = drops]
          /\ x.pc \in {"replay", "first"} /\ x.expected = r.expected /\ x.floor = r.floor
          /\ (x.resumed <=> r.resumed) /\ (x.fits <=> r.fits) /\ drops \cup x.owed \subseteq reported[f] \cup r.owed
    <3>1. CASE /\ reported' = [reported EXCEPT ![f] = @ \cup fol[f].owed]
               /\ fol' = [fol EXCEPT ![f].owed = {}]
      <4>1. PICK x : x = [r EXCEPT !.owed = {}]
        OBVIOUS
      <4>2. /\ x.pc = r.pc /\ x.expected = r.expected /\ x.floor = r.floor /\ x.resumed = r.resumed /\ x.fits = r.fits
            /\ x.owed = {}
        BY <4>1 DEF FolStates
      <4>3. fol' = [fol EXCEPT ![f] = x] /\ reported' = [reported EXCEPT ![f] = reported[f] \cup r.owed]
        BY <1>0, <3>1, <4>1 DEF FolInv, FolTyped
      <4> QED
        BY <2>1, <4>2, <4>3
    <3>2. CASE reported' = reported /\ fol' = [fol EXCEPT ![f].replay = Tail(@)]
      <4>1. PICK x : x = [r EXCEPT !.replay = Tail(@)]
        OBVIOUS
      <4>2. /\ x.pc = r.pc /\ x.expected = r.expected /\ x.floor = r.floor /\ x.resumed = r.resumed /\ x.fits = r.fits
            /\ x.owed = r.owed
        BY <4>1 DEF FolStates
      <4>3. fol' = [fol EXCEPT ![f] = x] /\ reported' = [reported EXCEPT ![f] = reported[f]]
        BY <1>0, <3>2, <4>1 DEF FolInv, FolTyped
      <4> QED
        BY <2>1, <4>2, <4>3
    <3>3. CASE reported' = reported /\ fol' = [fol EXCEPT ![f].pc = "first"]
      <4>1. PICK x : x = [r EXCEPT !.pc = "first"]
        OBVIOUS
      <4>2. /\ x.pc = "first" /\ x.expected = r.expected /\ x.floor = r.floor /\ x.resumed = r.resumed /\ x.fits = r.fits
            /\ x.owed = r.owed
        BY <4>1 DEF FolStates
      <4>3. fol' = [fol EXCEPT ![f] = x] /\ reported' = [reported EXCEPT ![f] = reported[f]]
        BY <1>0, <3>3, <4>1 DEF FolInv, FolTyped
      <4> QED
        BY <4>2, <4>3
    <3> QED
      BY <1>4, <3>1, <3>2, <3>3 DEF RunReplay
  <2>3. ResumeOk(x, drops, since[f])
    BY <1>1, <2>2 DEF ResumeOk
  <2> QED
    BY <1>2, <2>2, <2>3, ResumeOne DEF FolInv
<1>5. CASE RunAdmit(f)
  <2>1. PICK c : /\ c = Head(feed[f]) /\ feed[f] # <<>> /\ ~(c.seq < r.expected)
                 /\ reported' = [reported EXCEPT ![f] = @ \cup r.expected .. c.seq - 1]
                 /\ \E b : fol' = [fol EXCEPT ![f].pc = "merge", ![f].expected = c.seq + 1, ![f].batch = b]
    BY <1>0, <1>5 DEF RunAdmit, Late, Gap, Receive
  <2>2. c.seq \in Nat
    <3>1. feed[f] \in Seq(Chunk)
      BY DEF TypeOK
    <3>2. c \in Chunk
      BY <2>1, <3>1
    <3> QED
      BY <3>2 DEF Chunk
  <2>3. PICK b : fol' = [fol EXCEPT ![f].pc = "merge", ![f].expected = c.seq + 1, ![f].batch = b]
    BY <2>1
  <2>4. PICK x : x = [r EXCEPT !.pc = "merge", !.expected = c.seq + 1, !.batch = b]
    OBVIOUS
  <2>5. /\ x.pc = "merge" /\ x.expected = c.seq + 1 /\ x.floor = r.floor /\ x.resumed = r.resumed /\ x.fits = r.fits
        /\ x.owed = r.owed
    BY <2>4 DEF FolStates
  <2>6. PICK drops : drops = reported[f] \cup r.expected .. c.seq - 1
    OBVIOUS
  <2>7. fol' = [fol EXCEPT ![f] = x] /\ reported' = [reported EXCEPT ![f] = drops]
    BY <1>0, <2>1, <2>3, <2>4, <2>6 DEF FolInv, FolTyped
  <2>8. ResumeOk(x, drops, since[f])
    <3>1. r.expected <= c.seq /\ r.expected <= c.seq + 1
      BY <1>1, <2>1, <2>2
    <3> SUFFICES ASSUME r.resumed, r.fits
                 PROVE  /\ since[f] \in Nat /\ since[f] <= c.seq + 1
                        /\ \A s \in drops \cup r.owed : s < r.floor \/ s >= since[f]
      BY <2>5 DEF ResumeOk
    <3>2. /\ since[f] \in Nat /\ since[f] <= r.expected
          /\ \A s \in reported[f] \cup r.owed : s < r.floor \/ s >= since[f]
      BY <1>1 DEF ResumeOk
    <3>3. \A s \in r.expected .. c.seq - 1 : s >= since[f]
      BY <1>1, <2>2, <3>2
    <3>4. since[f] <= c.seq + 1
      BY <1>1, <2>2, <3>1, <3>2
    <3> QED
      BY <2>6, <3>2, <3>3, <3>4
  <2> QED
    BY <1>2, <2>7, <2>8, ResumeOne DEF FolInv
<1>6. CASE RunFlush(f) \/ RunEnd(f)
  <2>1. PICK p \in {"first", "done"} : fol' = [fol EXCEPT ![f].pc = p, ![f].batch = <<>>] /\ reported' = reported
    BY <1>6 DEF RunFlush, RunEnd
  <2>2. PICK x : x = [r EXCEPT !.pc = p, !.batch = <<>>]
    OBVIOUS
  <2>3. x.pc = p /\ x.expected = r.expected /\ x.floor = r.floor /\ x.resumed = r.resumed /\ x.fits = r.fits /\ x.owed = r.owed
    BY <2>2 DEF FolStates
  <2>4. fol' = [fol EXCEPT ![f] = x] /\ reported' = [reported EXCEPT ![f] = reported[f]]
    BY <1>0, <2>1, <2>2 DEF FolInv, FolTyped
  <2>5. ResumeOk(x, reported[f], since[f])
    BY <1>1, <2>3 DEF ResumeOk
  <2> QED
    BY <1>2, <2>4, <2>5, ResumeOne DEF FolInv
<1> QED
  BY <1>3, <1>4, <1>5, <1>6 DEF Run

\* Every step keeps it.
LEMMA ResumeStep ==
  ASSUME ResumeInv, FolInv, TypeOK, Contiguous, Budget, [FeedNext]_allVars
  PROVE  ResumeInv'
<1>1. CASE UNCHANGED allVars
  BY <1>1, ResumeQuiet DEF allVars, vars, subVars, feedVars
<1>2. CASE RingStep
  <2>1. since' = since
    BY <1>2 DEF RingStep, AppenderStep, Append_, AppendChunk, AppendIgnored, Deliver, Close, CloseSub, subVars
  <2> QED
    BY <1>2, <2>1, ResumeQuiet DEF RingStep, feedVars
<1>3. CASE StopFollowers
  BY <1>3, ResumeQuiet DEF StopFollowers, vars, subVars
<1>4. ASSUME NEW f \in Subscribers, AddListener(f) \/ RemoveListener(f) \/ Stop(f) PROVE ResumeInv'
  <2>1. UNCHANGED <<fol, reported, since>>
    BY <1>4 DEF AddListener, RemoveListener, Stop, StopNext, StopUnregister, StopCloseFeed, StopReturn,
                Unregister, CloseFeed, vars, subVars
  <2> QED
    BY <2>1, ResumeQuiet
<1>5. ASSUME NEW f \in Subscribers, ReadBuffer(f) PROVE ResumeInv'
  <2>0. PICK r \in FolStates : r = fol[f]
    BY DEF FolInv, FolTyped
  <2>1. ResumeOk(r, reported[f], since[f]) /\ r.pc = "none"
    BY <1>5, <2>0 DEF ResumeInv, ReadBuffer
  <2>2. PICK s, e : fol' = [fol EXCEPT ![f].pc = "read", ![f].start = s, ![f].expected = e]
    BY <1>5 DEF ReadBuffer
  <2>3. PICK x : x = [r EXCEPT !.pc = "read", !.start = s, !.expected = e]
    OBVIOUS
  <2>4. x.pc = "read" /\ x.resumed = r.resumed /\ x.fits = r.fits
    BY <2>3 DEF FolStates
  <2>5. /\ fol' = [fol EXCEPT ![f] = x] /\ reported' = [reported EXCEPT ![f] = reported[f]]
        /\ since' = [since EXCEPT ![f] = since[f]]
    BY <1>5, <2>0, <2>2, <2>3 DEF FolInv, FolTyped, ReadBuffer, vars, subVars, TypeOK
  <2>6. ResumeOk(x, reported[f], since[f])
    BY <2>1, <2>4 DEF ResumeOk
  <2> QED
    BY <2>5, <2>6, ResumeOne DEF FolInv
<1> QED
  BY <1>1, <1>2, <1>3, <1>4, <1>5, ResumeFollow, ResumeRun DEF FeedNext

(* ReadResult.NextSeq hands over exactly when the rest of the ring fits one  *)
(* read at the follow: nothing that was retained is dropped on the listener, *)
(* for every budget of the ring and of a read and whatever was evicted,      *)
(* turned away or reordered.  What a fuller ring holds beyond one read is    *)
(* reported as dropped although it is retained.                              *)
THEOREM ReplayHandsOver == FeedSpec => []ReplayThenFollowExact
<1>1. FeedInit => ResumeInv
  <2> SUFFICES ASSUME FeedInit, NEW f \in Subscribers PROVE ResumeOk(fol[f], reported[f], since[f])
    BY DEF ResumeInv
  <2>1. fol[f] = NotRunning /\ reported[f] = {}
    BY DEF FeedInit
  <2> QED
    BY <2>1 DEF NotRunning, ResumeOk
<1>2. Spec => [](TypeOK /\ Contiguous /\ Budget)
  BY TypeCorrect, RetainedContiguous, RingWithinBudget, PTL
<1>3. ResumeInv /\ FolInv /\ TypeOK /\ Contiguous /\ Budget /\ [FeedNext]_allVars => ResumeInv'
  BY ResumeStep
<1>4. ResumeInv => ReplayThenFollowExact
  BY DEF ResumeInv, ResumeOk, ReplayThenFollowExact
<1> QED
  BY <1>1, <1>2, <1>3, <1>4, FollowersInvariant, FeedUsesRing, PTL DEF FeedSpec
=============================================================================
