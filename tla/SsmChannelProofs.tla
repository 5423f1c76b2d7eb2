--------------------------- MODULE SsmChannelProofs ---------------------------
(***************************************************************************)
(* Proofs about SsmChannel, for both directions at once, every number of   *)
(* writers and every size of the buffers: no input is lost, nothing that   *)
(* was acknowledged is dropped, the resend loop always takes the lowest    *)
(* unacknowledged number, and the channel implements SsmStream.            *)
(*                                                                         *)
(* NoInputLost lets a writer give its number back after the write.  That   *)
(* is safe because the number is tracked by then, or was acknowledged even *)
(* before the write returned, and because an acknowledgement under way     *)
(* tells the truth about the agent: OutInv says so.  The receiving side    *)
(* needs that nothing is known of numbers the agent has not sent (InInv).  *)
(***************************************************************************)
EXTENDS SsmChannel, FiniteSetTheorems, SequenceTheorems, TLAPS

\* Frames to the agent carry input, those from it output; acks the other.
FramesOK ==
  /\ \A m \in toAgent : m.num \in IF m.kind = "data" THEN OutIds ELSE InIds
  /\ resend.pc = "write" => resend.num \in OutIds

\* Oldest() is the lowest number that is tracked.
Ascending(buf) == \A i, j \in 1 .. Len(buf) : i < j => buf[i] < buf[j]

Held(w) == writer[w].num

HoldersOK ==
  /\ \A w \in Writers : writer[w].pc = "idle" => Held(w) = Nothing
  /\ \A w \in Writers : writer[w].pc # "idle" => Held(w) \in 0 .. seqNum - 1
  /\ \A w \in Writers : writer[w].pc = "full" => Held(w) \notin Elements(outBuf)
  /\ \A v, w \in Writers : Held(v) = Held(w) => v = w \/ Held(v) = Nothing

\* What is written but not yet given back is tracked or has arrived.
SentIsTracked ==
  ws /\ closing = "no" =>
    \A w \in Writers : writer[w].pc = "send" => Held(w) \in Elements(outBuf) \/ AgentHas(Held(w))

\* The buffer holds numbers that were given out, in order, as many as fit.
OrderedBuffer ==
  /\ Ascending(outBuf) /\ Len(outBuf) <= OutSize
  /\ \A n \in Elements(outBuf) : n < seqNum

AcksAreTrue == \A n \in OutIds : AckOf(n) \in toUs => AgentHas(n)

OutInv == OrderedBuffer /\ HoldersOK /\ SentIsTracked /\ AcksAreTrue /\ NoInputLost

\* Nothing is known of a number that the agent has not sent.
OnlySent ==
  /\ \A n \in InIds : Data(n) \in toUs \/ AckOf(n) \in toAgent => n < agent.sent
  /\ hand < agent.sent /\ inSeqNum <= agent.sent
  /\ \A n \in inBuf \cup agent.unacked : n < agent.sent

DeliveredExact == delivered = [i \in 1 .. inSeqNum |-> i - 1]

InInv == OnlySent /\ DeliveredExact /\ AckedIsKept

SsmInv == TypeOK /\ FramesOK /\ OutInv /\ InInv

-----------------------------------------------------------------------------
(* Facts about the operators.                                                *)

\* A set of numbers has a least one.
LEMMA Least ==
  ASSUME NEW S \in SUBSET Nat, S # {}
  PROVE  \E m \in S : \A k \in S : m <= k
<1>1. IsWellFoundedOn(OpToRel(<, Nat), Nat)
  BY NatLessThanWellFounded, Zenon
<1>2. PICK m \in S : \A y \in S : ~ (<<y, m>> \in OpToRel(<, Nat))
  BY <1>1, WFMin, Zenon
<1>3. \A y \in S : ~(y < m)
  BY <1>2 DEF OpToRel
<1> QED
  BY <1>3

\* There is a place for every number in a list of numbers.
LEMMA PlaceFacts ==
  ASSUME NEW buf \in Seq(OutIds), NEW n \in OutIds
  PROVE  /\ Place(buf, n) \in 0 .. Len(buf)
         /\ Place(buf, n) > 0 => buf[Place(buf, n)] <= n
         /\ \A i \in Place(buf, n) + 1 .. Len(buf) : buf[i] > n
<1> DEFINE S == {d \in 0 .. Len(buf) : Len(buf) - d > 0 => buf[Len(buf) - d] <= n}
<1>1. Len(buf) \in Nat /\ \A i \in 1 .. Len(buf) : buf[i] \in OutIds
  OBVIOUS
<1>2. S \in SUBSET Nat /\ Len(buf) \in S
  BY <1>1
<1>3. PICK d \in S : \A k \in S : d <= k
  BY <1>2, Least
<1>4. d \in 0 .. Len(buf) /\ (Len(buf) - d > 0 => buf[Len(buf) - d] <= n)
  BY <1>3
<1>5. \A i \in Len(buf) - d + 1 .. Len(buf) : buf[i] > n
  <2> SUFFICES ASSUME NEW i \in Len(buf) - d + 1 .. Len(buf) PROVE buf[i] > n
    OBVIOUS
  <2>1. i \in 1 .. Len(buf) /\ Len(buf) - i \in 0 .. Len(buf) /\ Len(buf) - i < d
    BY <1>1, <1>4
  <2>2. Len(buf) - i \notin S
    BY <1>1, <1>3, <1>4, <2>1
  <2>3. Len(buf) - (Len(buf) - i) = i
    BY <1>1, <2>1
  <2>4. ~(buf[i] <= n)
    BY <2>1, <2>2, <2>3
  <2>5. buf[i] \in Int /\ n \in Int
    BY <1>1, <2>1, SsmAssumption DEF OutIds
  <2> QED
    BY <2>4, <2>5
<1>6. \E p \in 0 .. Len(buf) : (p > 0 => buf[p] <= n) /\ \A i \in p + 1 .. Len(buf) : buf[i] > n
  <2>1. Len(buf) - d \in 0 .. Len(buf)
    BY <1>1, <1>4
  <2> QED
    BY <1>4, <1>5, <2>1
<1> HIDE DEF S
<1> QED
  BY <1>6, Zenon DEF Place

\* A number that is added keeps the list in order and displaces none.
LEMMA InsertedFacts ==
  ASSUME NEW buf \in Seq(OutIds), NEW n \in OutIds, Ascending(buf), n \notin Elements(buf)
  PROVE  /\ Inserted(buf, n) \in Seq(OutIds) /\ Len(Inserted(buf, n)) = Len(buf) + 1
         /\ Ascending(Inserted(buf, n))
         /\ Elements(Inserted(buf, n)) = Elements(buf) \cup {n}
<1> DEFINE p == Place(buf, n)
           s == Inserted(buf, n)
<1>1. /\ p \in 0 .. Len(buf) /\ (p > 0 => buf[p] <= n)
      /\ \A i \in p + 1 .. Len(buf) : buf[i] > n
  BY PlaceFacts
<1>2. Len(buf) \in Nat /\ \A i \in 1 .. Len(buf) : buf[i] \in OutIds /\ buf[i] \in Int
  <2>1. \A x \in OutIds : x \in Int
    BY SsmAssumption DEF OutIds
  <2> QED
    BY <2>1
<1>3. n \in Int
  BY DEF OutIds
<1> HIDE DEF p
<1>4. s \in Seq(OutIds) /\ Len(s) = Len(buf) + 1
  BY <1>1, <1>2 DEF Inserted, p
<1>5. \A i \in 1 .. Len(s) : s[i] = IF i <= p THEN buf[i] ELSE IF i = p + 1 THEN n ELSE buf[i - 1]
  <2> DEFINE a == SubSeq(buf, 1, p)
             c == SubSeq(buf, p + 1, Len(buf))
             ab == a \o <<n>>
  <2>1. /\ a \in Seq(OutIds) /\ Len(a) = p
        /\ \A i \in 1 .. p : a[i] = buf[i]
    BY <1>1, <1>2, SubSeqProperties
  <2>2. /\ c \in Seq(OutIds) /\ Len(c) = Len(buf) - p
        /\ \A i \in 1 .. Len(buf) - p : c[i] = buf[p + i]
    BY <1>1, <1>2, SubSeqProperties
  <2>3. s = ab \o c
    BY DEF Inserted, p
  <2> HIDE DEF a, c
  <2>4. <<n>> \in Seq(OutIds) /\ Len(<<n>>) = 1 /\ <<n>>[1] = n
    OBVIOUS
  <2>5. /\ ab \in Seq(OutIds) /\ Len(ab) = p + 1
        /\ \A i \in 1 .. p + 1 : ab[i] = IF i <= p THEN a[i] ELSE n
    BY <2>1, <2>4, ConcatProperties
  <2> HIDE DEF ab
  <2>6. \A i \in 1 .. Len(ab) + Len(c) : (ab \o c)[i] = IF i <= Len(ab) THEN ab[i] ELSE c[i - Len(ab)]
    BY <2>2, <2>5, ConcatProperties
  <2>7. ASSUME NEW i \in 1 .. Len(s) PROVE s[i] = IF i <= p THEN buf[i] ELSE IF i = p + 1 THEN n ELSE buf[i - 1]
    <3>1. i \in 1 .. Len(ab) + Len(c)
      BY <1>1, <1>2, <1>4, <2>2, <2>5
    <3>2. CASE i <= p
      BY <1>1, <2>1, <2>3, <2>5, <2>6, <3>1, <3>2
    <3>3. CASE i = p + 1
      BY <1>1, <2>1, <2>3, <2>5, <2>6, <3>1, <3>3
    <3>4. CASE i > p + 1
      <4>1. i - (p + 1) \in 1 .. Len(buf) - p /\ p + (i - (p + 1)) = i - 1
        BY <1>1, <1>2, <1>4, <3>4
      <4>2. s[i] = c[i - (p + 1)]
        BY <1>1, <2>3, <2>5, <2>6, <3>1, <3>4
      <4> QED
        BY <1>1, <2>2, <3>4, <4>1, <4>2
    <3> QED
      BY <1>1, <3>2, <3>3, <3>4
  <2> QED
    BY <2>7
<1> HIDE DEF s
<1>6. \A i \in 1 .. Len(buf) : i <= p => buf[i] < n
  <2> SUFFICES ASSUME NEW i \in 1 .. Len(buf), i <= p PROVE buf[i] < n
    OBVIOUS
  <2>1. buf[p] <= n /\ p \in 1 .. Len(buf)
    BY <1>1, <1>2
  <2>2. buf[i] <= buf[p]
    BY <1>2, <2>1 DEF Ascending
  <2>3. buf[i] # n
    BY <1>2 DEF Elements
  <2> QED
    BY <1>2, <1>3, <2>1, <2>2, <2>3
<1>7. Ascending(s)
  <2> SUFFICES ASSUME NEW i \in 1 .. Len(s), NEW j \in 1 .. Len(s), i < j PROVE s[i] < s[j]
    BY DEF Ascending
  <2>1. CASE j <= p
    <3>1. s[i] = buf[i] /\ s[j] = buf[j] /\ i \in 1 .. Len(buf) /\ j \in 1 .. Len(buf)
      BY <1>1, <1>2, <1>4, <1>5, <2>1
    <3> QED
      BY <3>1 DEF Ascending
  <2>2. CASE i <= p /\ j = p + 1
    <3>1. s[i] = buf[i] /\ s[j] = n
      BY <1>1, <1>2, <1>4, <1>5, <2>2
    <3> QED
      BY <1>1, <1>2, <1>4, <1>6, <2>2, <3>1
  <2>3. CASE i <= p /\ j > p + 1
    <3>1. s[i] = buf[i] /\ s[j] = buf[j - 1] /\ i < j - 1 /\ j - 1 \in 1 .. Len(buf) /\ i \in 1 .. Len(buf)
      BY <1>1, <1>2, <1>4, <1>5, <2>3
    <3> QED
      BY <3>1 DEF Ascending
  <2>4. CASE i = p + 1
    <3>1. s[i] = n /\ s[j] = buf[j - 1] /\ j - 1 \in p + 1 .. Len(buf)
      BY <1>1, <1>2, <1>4, <1>5, <2>4
    <3> QED
      BY <1>1, <1>2, <1>3, <3>1
  <2>5. CASE i > p + 1
    <3>1. s[i] = buf[i - 1] /\ s[j] = buf[j - 1] /\ i - 1 < j - 1 /\ j - 1 \in 1 .. Len(buf) /\ i - 1 \in 1 .. Len(buf)
      BY <1>1, <1>2, <1>4, <1>5, <2>5
    <3> QED
      BY <3>1 DEF Ascending
  <2> QED
    BY <1>1, <1>2, <1>4, <2>1, <2>2, <2>3, <2>4, <2>5
<1>8. Elements(s) = Elements(buf) \cup {n}
  <2>1. DOMAIN s = 1 .. Len(s) /\ DOMAIN buf = 1 .. Len(buf)
    BY <1>4
  <2>2. ASSUME NEW x \in Elements(s) PROVE x \in Elements(buf) \cup {n}
    <3>1. PICK i \in 1 .. Len(s) : x = s[i]
      BY <2>1 DEF Elements
    <3>2. CASE i <= p
      BY <1>1, <1>2, <1>4, <1>5, <2>1, <3>1, <3>2 DEF Elements
    <3>3. CASE i = p + 1
      BY <1>1, <1>2, <1>4, <1>5, <3>1, <3>3
    <3>4. CASE i > p + 1
      <4>1. x = buf[i - 1] /\ i - 1 \in 1 .. Len(buf)
        BY <1>1, <1>2, <1>4, <1>5, <3>1, <3>4
      <4> QED
        BY <2>1, <4>1 DEF Elements
    <3> QED
      BY <1>1, <3>2, <3>3, <3>4
  <2>3. n \in Elements(s)
    <3>1. p + 1 \in 1 .. Len(s) /\ s[p + 1] = n
      BY <1>1, <1>2, <1>4, <1>5
    <3> QED
      BY <2>1, <3>1 DEF Elements
  <2>4. ASSUME NEW x \in Elements(buf) PROVE x \in Elements(s)
    <3>1. PICK i \in 1 .. Len(buf) : x = buf[i]
      BY <2>1 DEF Elements
    <3>2. CASE i <= p
      <4>1. i \in 1 .. Len(s) /\ s[i] = x
        BY <1>1, <1>2, <1>4, <1>5, <3>1, <3>2
      <4> QED
        BY <2>1, <4>1 DEF Elements
    <3>3. CASE i > p
      <4>1. i + 1 \in 1 .. Len(s) /\ s[i + 1] = x
        BY <1>1, <1>2, <1>4, <1>5, <3>1, <3>3
      <4> QED
        BY <2>1, <4>1 DEF Elements
    <3> QED
      BY <1>1, <3>2, <3>3
  <2> QED
    BY <2>2, <2>3, <2>4
<1> QED
  BY <1>4, <1>7, <1>8 DEF s

\* Removing a number keeps the order and all the others.
LEMMA WithoutFacts ==
  ASSUME NEW buf \in Seq(OutIds), NEW n, Ascending(buf)
  PROVE  /\ Without(buf, n) \in Seq(OutIds) /\ Len(Without(buf, n)) <= Len(buf)
         /\ Ascending(Without(buf, n))
         /\ Elements(Without(buf, n)) = Elements(buf) \ {n}
<1>1. CASE n \notin Elements(buf)
  <2>4. Without(buf, n) = buf
    BY <1>1 DEF Without
  <2>5. Elements(buf) \ {n} = Elements(buf)
    BY <1>1
  <2> QED
    BY <2>4, <2>5
<1>2. CASE n \in Elements(buf)
  <2> DEFINE s == Without(buf, n)
  <2>3. DOMAIN buf = 1 .. Len(buf)
    OBVIOUS
  <2>4. Len(buf) \in Nat
    OBVIOUS
  <2>5. \A i \in 1 .. Len(buf) : buf[i] \in OutIds /\ buf[i] \in Int
    <3>1. \A x \in OutIds : x \in Int
      BY SsmAssumption DEF OutIds
    <3> QED
      BY <3>1
  <2>6. PICK at \in 1 .. Len(buf) : buf[at] = n /\ at = CHOOSE i \in DOMAIN buf : buf[i] = n
    <3>1. \E i \in DOMAIN buf : buf[i] = n
      BY <1>2 DEF Elements
    <3> QED
      BY <2>3, <3>1
  <2>7. s = SubSeq(buf, 1, at - 1) \o SubSeq(buf, at + 1, Len(buf))
    BY <1>2, <2>6 DEF Without
  <2> DEFINE a == SubSeq(buf, 1, at - 1)
             c == SubSeq(buf, at + 1, Len(buf))
  <2>8. buf[at] = n
    BY <2>6, Zenon
  <2>9. /\ a \in Seq(OutIds) /\ Len(a) = at - 1
         /\ \A i \in 1 .. at - 1 : a[i] = buf[i]
    BY <2>4, <2>5, SubSeqProperties
  <2>10. /\ c \in Seq(OutIds) /\ Len(c) = Len(buf) - at
         /\ \A i \in 1 .. Len(buf) - at : c[i] = buf[at + i]
    <3>1. \A i \in at + 1 .. Len(buf) : buf[i] \in OutIds
      BY <2>4, <2>5, <2>6
    <3>2. /\ c \in Seq(OutIds) /\ Len(c) = IF at + 1 <= Len(buf) THEN Len(buf) - (at + 1) + 1 ELSE 0
          /\ \A i \in 1 .. Len(buf) - (at + 1) + 1 : c[i] = buf[(at + 1) + i - 1]
      BY <2>4, <3>1, SubSeqProperties
    <3> HIDE DEF c
    <3>3. Len(c) = Len(buf) - at
      BY <2>4, <3>2
    <3>4. ASSUME NEW i \in 1 .. Len(buf) - at PROVE c[i] = buf[at + i]
      <4>1. i \in 1 .. Len(buf) - (at + 1) + 1 /\ (at + 1) + i - 1 = at + i
        BY <2>4, <2>6
      <4> QED
        BY <3>2, <4>1
    <3> QED
      BY <3>2, <3>3, <3>4
  <2>11. s = a \o c
    BY <2>7
  <2> HIDE DEF a, c
  <2>12. s \in Seq(OutIds) /\ Len(s) = Len(buf) - 1
    <3>1. s \in Seq(OutIds)
      BY <2>9, <2>10, <2>11, ConcatProperties
    <3>2. Len(s) = Len(a) + Len(c)
      BY <2>9, <2>10, <2>11, ConcatProperties
    <3> QED
      BY <2>4, <2>9, <2>10, <3>1, <3>2
  <2>13. \A i \in 1 .. Len(s) : s[i] = IF i < at THEN buf[i] ELSE buf[i + 1]
    <3>1. \A i \in 1 .. Len(a) + Len(c) : s[i] = IF i <= Len(a) THEN a[i] ELSE c[i - Len(a)]
      <4>1. a \in Seq(OutIds) /\ c \in Seq(OutIds)
        BY <2>9, <2>10
      <4>2. \A i \in 1 .. Len(a) + Len(c) : (a \o c)[i] = IF i <= Len(a) THEN a[i] ELSE c[i - Len(a)]
        BY <4>1, ConcatProperties
      <4> HIDE DEF s
      <4> QED
        BY <2>11, <4>2
    <3>2. ASSUME NEW i \in 1 .. Len(s) PROVE s[i] = IF i < at THEN buf[i] ELSE buf[i + 1]
      <4>1. i \in 1 .. Len(a) + Len(c)
        BY <2>4, <2>12, <2>9, <2>10
      <4>2. CASE i < at
        BY <2>9, <3>1, <4>1, <4>2
      <4>3. CASE i >= at
        <5>1. i - (at - 1) \in 1 .. Len(buf) - at /\ at + (i - (at - 1)) = i + 1
          BY <2>4, <2>12, <4>3
        <5>2. s[i] = c[i - (at - 1)]
          BY <2>9, <3>1, <4>1, <4>3
        <5> QED
          BY <2>10, <4>3, <5>1, <5>2
      <4> QED
        BY <4>2, <4>3
    <3> QED
      BY <3>2
  <2> HIDE DEF s
  <2>14. Ascending(s)
    <3> SUFFICES ASSUME NEW i \in 1 .. Len(s), NEW j \in 1 .. Len(s), i < j PROVE s[i] < s[j]
      BY DEF Ascending
    <3> DEFINE k == IF i < at THEN i ELSE i + 1
               l == IF j < at THEN j ELSE j + 1
    <3>1. k \in 1 .. Len(buf) /\ l \in 1 .. Len(buf) /\ k < l
      BY <2>4, <2>12
    <3>2. s[i] = buf[k] /\ s[j] = buf[l]
      BY <2>13
    <3> HIDE DEF k, l
    <3> QED
      BY <3>1, <3>2 DEF Ascending
  <2>15. \A i \in 1 .. Len(buf) : i # at => buf[i] # n
    BY <2>4, <2>5, <2>6 DEF Ascending
  <2>16. DOMAIN s = 1 .. Len(s)
    BY <2>12
  <2>17. ASSUME NEW x \in Elements(s) PROVE x \in Elements(buf) \ {n}
    <3>1. PICK i \in 1 .. Len(s) : x = s[i]
      BY <2>16 DEF Elements
    <3> DEFINE k == IF i < at THEN i ELSE i + 1
    <3>2. k \in 1 .. Len(buf) /\ k # at /\ s[i] = buf[k]
      BY <2>4, <2>12, <2>13
    <3> HIDE DEF k
    <3> QED
      BY <2>3, <2>15, <3>1, <3>2 DEF Elements
  <2>18. ASSUME NEW x \in Elements(buf), x # n PROVE x \in Elements(s)
    <3>1. PICK i \in 1 .. Len(buf) : x = buf[i]
      BY <2>3 DEF Elements
    <3>2. i # at
      BY <2>8, <2>18, <3>1
    <3> DEFINE k == IF i < at THEN i ELSE i - 1
    <3>3. k \in 1 .. Len(s) /\ s[k] = buf[i]
      BY <2>4, <2>12, <2>13, <3>2
    <3> HIDE DEF k
    <3> QED
      BY <2>16, <3>1, <3>3 DEF Elements
  <2>19. Elements(s) = Elements(buf) \ {n}
    BY <2>17, <2>18
  <2> QED
    BY <2>4, <2>12, <2>14, <2>19 DEF s
<1> QED
  BY <1>1, <1>2

\* From every number on there is a first one that a finite set lacks.
LEMMA FirstMissing ==
  ASSUME NEW top \in Nat, NEW S \in SUBSET (0 .. top - 1), NEW n \in Nat
  PROVE  \E k \in Nat : /\ k >= n /\ k \notin S
                        /\ n .. k - 1 \subseteq S
                        /\ k <= n + Cardinality(S)
                        /\ n <= top => k <= top
<1> DEFINE T == {k \in Nat : k >= n /\ k \notin S}
<1>1. top + n \in T
  OBVIOUS
<1>2. PICK k \in T : \A j \in T : k <= j
  BY <1>1, Least
<1>3. k \in Nat /\ k >= n /\ k \notin S
  BY <1>2
<1>4. n .. k - 1 \subseteq S
  <2> SUFFICES ASSUME NEW j \in n .. k - 1 PROVE j \in S
    OBVIOUS
  <2>1. j \in Nat /\ j >= n /\ ~(k <= j)
    BY <1>3
  <2> QED
    BY <1>2, <2>1
<1>5. n <= top => k <= top
  <2>1. n <= top => top \in T
    OBVIOUS
  <2> QED
    BY <1>2, <2>1
<1> HIDE DEF T
<1>6. IsFiniteSet(S)
  <2>1. IsFiniteSet(0 .. top - 1)
    <3>1. PICK z \in Int, t \in Int : z = 0 /\ t = top - 1
      OBVIOUS
    <3>2. IsFiniteSet(z .. t)
      BY FS_Interval, Zenon
    <3> QED
      BY <3>1, <3>2
  <2> QED
    BY <2>1, FS_Subset
<1>7. k <= n + Cardinality(S)
  <2>1. PICK a \in Int, b \in Int : a = n /\ b = k - 1
    BY <1>3
  <2>2. Cardinality(a .. b) = IF a > b THEN 0 ELSE b - a + 1
    BY FS_Interval, Zenon
  <2>3. Cardinality(n .. k - 1) = IF n > k - 1 THEN 0 ELSE k - 1 - n + 1
    BY <2>1, <2>2
  <2>4. Cardinality(n .. k - 1) <= Cardinality(S) /\ Cardinality(S) \in Nat
    BY <1>4, <1>6, FS_Subset, FS_CardinalityType
  <2> QED
    BY <1>3, <2>3, <2>4
<1> QED
  BY <1>3, <1>4, <1>5, <1>7

\* processInboundQueue stops at the first number that is missing.
LEMMA UpToFacts ==
  ASSUME TypeOK, NEW n \in Nat
  PROVE  /\ UpTo(n) \in Nat /\ UpTo(n) >= n
         /\ n .. UpTo(n) - 1 \subseteq inBuf
<1>1. MaxIn \in Nat /\ inBuf \in SUBSET (0 .. MaxIn - 1)
  BY SsmAssumption DEF TypeOK, InIds
<1>2. PICK k \in Nat : /\ k >= n /\ k \notin inBuf /\ n .. k - 1 \subseteq inBuf
                       /\ k <= n + Cardinality(inBuf)
  BY <1>1, FirstMissing
<1>3. Cardinality(inBuf) \in Nat
  <2>1. IsFiniteSet(0 .. MaxIn - 1)
    <3>1. PICK z \in Int, t \in Int : z = 0 /\ t = MaxIn - 1
      BY <1>1
    <3>2. IsFiniteSet(z .. t)
      BY FS_Interval, Zenon
    <3> QED
      BY <3>1, <3>2
  <2> QED
    BY <1>1, <2>1, FS_Subset, FS_CardinalityType
<1>4. k \in n .. n + Cardinality(inBuf)
  BY <1>2, <1>3
<1>5. /\ UpTo(n) \in n .. n + Cardinality(inBuf)
      /\ n .. UpTo(n) - 1 \subseteq inBuf
  BY <1>2, <1>4, Zenon DEF UpTo
<1> QED
  BY <1>3, <1>5

\* The agent moves on past what it has received, and forgets nothing.
LEMMA AgentNextFacts ==
  ASSUME NEW e \in 0 .. MaxOut, NEW S \in SUBSET OutIds
  PROVE  LET next == CHOOSE k \in e .. MaxOut : k \notin S /\ e .. k - 1 \subseteq S
         IN  next \in e .. MaxOut
<1>1. MaxOut \in Nat /\ S \in SUBSET (0 .. MaxOut - 1) /\ e \in Nat /\ e <= MaxOut
  BY SsmAssumption DEF OutIds
<1>2. PICK k \in Nat : k >= e /\ k \notin S /\ e .. k - 1 \subseteq S /\ (e <= MaxOut => k <= MaxOut)
  BY <1>1, FirstMissing
<1>3. k \in e .. MaxOut
  BY <1>1, <1>2
<1> QED
  BY <1>2, <1>3, Zenon

\* Waking writers moves none of them.
LEMMA WokenFacts ==
  ASSUME NEW T, NEW f \in [Writers -> [pc : {"idle", "full", "send"}, num : T, woken : BOOLEAN]]
  PROVE  /\ Woken(f) \in [Writers -> [pc : {"idle", "full", "send"}, num : T, woken : BOOLEAN]]
         /\ \A w \in Writers : Woken(f)[w].pc = f[w].pc /\ Woken(f)[w].num = f[w].num
<1> DEFINE W == [pc : {"idle", "full", "send"}, num : T, woken : BOOLEAN]
<1>1. \A x \in W : /\ [x EXCEPT !.woken = TRUE] \in W /\ [x EXCEPT !.woken = TRUE].pc = x.pc
                   /\ [x EXCEPT !.woken = TRUE].num = x.num
  OBVIOUS
<1>2. \A w \in Writers : f[w] \in W
  OBVIOUS
<1> HIDE DEF W
<1>3. \A w \in Writers : Woken(f)[w] = IF f[w].pc = "full" THEN [f[w] EXCEPT !.woken = TRUE] ELSE f[w]
  BY DEF Woken
<1>4. \A w \in Writers : Woken(f)[w] \in W /\ Woken(f)[w].pc = f[w].pc /\ Woken(f)[w].num = f[w].num
  BY <1>1, <1>2, <1>3
<1>5. Woken(f) \in [Writers -> W]
  BY <1>4 DEF Woken
<1> QED
  BY <1>4, <1>5 DEF W

\* The two kinds of frames.
LEMMA FrameFacts ==
  /\ \A n : Data(n).kind = "data" /\ Data(n).num = n /\ AckOf(n).kind = "ack" /\ AckOf(n).num = n
  /\ \A n, k : Data(n) # AckOf(k) /\ (Data(n) = Data(k) => n = k) /\ (AckOf(n) = AckOf(k) => n = k)
<1>1. \A n : Data(n).kind = "data" /\ Data(n).num = n /\ AckOf(n).kind = "ack" /\ AckOf(n).num = n
  BY DEF Data, AckOf
<1> QED
  BY <1>1

-----------------------------------------------------------------------------
(* What a step leaves alone.                                                 *)

WriterSet == [pc : {"idle", "full", "send"}, num : OutIds \cup {Nothing}, woken : BOOLEAN]
FrameSet == [kind : {"data", "ack"}, num : OutIds \cup InIds]

\* A step that sends no new acknowledgement and receives nothing keeps InInv.
LEMMA InKept ==
  ASSUME TypeOK, InInv, UNCHANGED inVars, agent' = agent, closing' = "no" => closing = "no",
         \A n \in InIds : Data(n) \in toUs' => Data(n) \in toUs,
         \A n \in InIds : AckOf(n) \in toAgent' => AckOf(n) \in toAgent
  PROVE  InInv'
<1> USE DEF InInv
<1>1. UNCHANGED <<inSeqNum, inBuf, hand, delivered>>
  BY DEF inVars
<1>2. OnlySent' /\ DeliveredExact'
  BY <1>1 DEF OnlySent, DeliveredExact
<1>3. 0 .. agent.sent - 1 \subseteq InIds
  BY SsmAssumption DEF TypeOK, InIds
<1>4. AckedIsKept'
  BY <1>1, <1>3 DEF AckedIsKept
<1> QED
  BY <1>2, <1>4

\* A step that moves no writer and no tracked number keeps OutInv.
LEMMA OutKept ==
  ASSUME TypeOK, OutInv, UNCHANGED <<seqNum, outBuf>>,
         \A w \in Writers : writer'[w].pc = writer[w].pc /\ writer'[w].num = writer[w].num,
         closing' = "no" => closing = "no", ws' => ws,
         \A n \in OutIds : AgentHas(n) => AgentHas(n)',
         \A n \in OutIds : AckOf(n) \in toUs' => AckOf(n) \in toUs \/ AgentHas(n)'
  PROVE  OutInv'
<1> USE DEF OutInv
<1>1. OrderedBuffer'
  BY DEF OrderedBuffer
<1>2. HoldersOK'
  BY DEF HoldersOK, Held
<1>3. 0 .. seqNum - 1 \subseteq OutIds
  BY SsmAssumption DEF TypeOK, OutIds
<1>4. SentIsTracked'
  <2> SUFFICES ASSUME ws', closing' = "no", NEW w \in Writers, writer'[w].pc = "send"
               PROVE  Held(w)' \in Elements(outBuf') \/ (AgentHas(Held(w)))'
    BY DEF SentIsTracked
  <2>1. writer[w].pc = "send" /\ Held(w)' = Held(w)
    BY DEF Held
  <2>2. Held(w) \in 0 .. seqNum - 1 /\ (Held(w) \in Elements(outBuf) \/ AgentHas(Held(w)))
    BY <2>1 DEF HoldersOK, SentIsTracked
  <2>3. PICK n \in OutIds : n = Held(w)
    BY <1>3, <2>2
  <2>4. n \in Elements(outBuf) \/ AgentHas(n)'
    BY <2>2, <2>3
  <2> QED
    BY <2>1, <2>3, <2>4 DEF AgentHas
<1>5. AcksAreTrue'
  BY DEF AcksAreTrue
<1>6. NoInputLost'
  <2> SUFFICES ASSUME ws', closing' = "no", NEW n \in 0 .. seqNum - 1
               PROVE  AgentHas(n)' \/ n \in Elements(outBuf) \/ \E w \in Writers : writer'[w].num = n
    BY DEF NoInputLost
  <2>1. AgentHas(n) \/ n \in Elements(outBuf) \/ \E w \in Writers : writer[w].num = n
    BY DEF NoInputLost
  <2> QED
    BY <1>3, <2>1
<1> QED
  BY <1>1, <1>2, <1>4, <1>5, <1>6

-----------------------------------------------------------------------------
(* The sending side.                                                         *)

\* The channel begins with nothing sent and nothing received.
LEMMA InitSsm == Init => SsmInv
<1> SUFFICES ASSUME Init PROVE SsmInv
  OBVIOUS
<1> USE SsmAssumption DEF Init
<1>1. TypeOK
  <2>1. agent \in [expected : 0 .. MaxOut, early : SUBSET OutIds, sent : 0 .. MaxIn, unacked : SUBSET InIds]
    OBVIOUS
  <2>2. writer \in [Writers -> WriterSet]
    BY DEF WriterSet, Nothing
  <2>3. delivered \in Seq(InIds) /\ outBuf \in Seq(OutIds)
    OBVIOUS
  <2>4. attempts \in [OutIds -> 0 .. MaxAttempts]
    OBVIOUS
  <2>5. resend \in [pc : {"idle", "write", "gone"}, num : OutIds \cup {Nothing}]
    OBVIOUS
  <2> QED
    BY <2>1, <2>2, <2>3, <2>4, <2>5 DEF TypeOK, WriterSet
<1>2. FramesOK
  BY DEF FramesOK
<1>3. Elements(outBuf) = {} /\ Len(outBuf) = 0 /\ agent.sent = 0
  BY DEF Elements
<1>4. OrderedBuffer
  BY <1>3 DEF OrderedBuffer, Ascending
<1>5. HoldersOK /\ SentIsTracked
  BY DEF HoldersOK, SentIsTracked, Held, Nothing
<1>6. AcksAreTrue /\ NoInputLost
  BY DEF AcksAreTrue, NoInputLost
<1>7. OnlySent
  BY <1>3 DEF OnlySent, Nothing
<1>8. DeliveredExact /\ AckedIsKept
  BY <1>3 DEF DeliveredExact, AckedIsKept
<1> QED
  BY <1>1, <1>2, <1>4, <1>5, <1>6, <1>7, <1>8 DEF SsmInv, OutInv, InInv

\* A number that is being tracked, for the first time or after a wait.
LEMMA TrackFacts ==
  ASSUME TypeOK, OrderedBuffer, NEW w \in Writers, NEW n \in OutIds,
         n \notin Elements(outBuf), Track(w, n)
  PROVE  /\ outBuf' \in Seq(OutIds) /\ Ascending(outBuf') /\ Len(outBuf') <= OutSize
         /\ Elements(outBuf') \subseteq Elements(outBuf) \cup {n}
         /\ Elements(outBuf) \subseteq Elements(outBuf')
         /\ attempts' \in [OutIds -> 0 .. MaxAttempts]
         /\ writer' \in [Writers -> WriterSet]
         /\ writer'[w].num = n /\ writer'[w].pc \in {"full", "send"}
         /\ \A v \in Writers : v # w => writer'[v] = writer[v]
         /\ writer'[w].pc = "full" => outBuf' = outBuf
         /\ closing = "no" /\ writer'[w].pc = "send" => n \in Elements(outBuf')
<1> DEFINE fits == ~Detached /\ Len(outBuf) < OutSize
           waits == ~Detached /\ ~fits
<1>1. /\ outBuf' = IF fits THEN Inserted(outBuf, n) ELSE outBuf
      /\ attempts' = IF fits THEN [attempts EXCEPT ![n] = 0] ELSE attempts
      /\ writer' = [writer EXCEPT ![w] =
           [pc |-> IF waits THEN "full" ELSE "send", num |-> n, woken |-> FALSE]]
  BY DEF Track
<1>2. outBuf \in Seq(OutIds) /\ attempts \in [OutIds -> 0 .. MaxAttempts] /\ writer \in [Writers -> WriterSet]
  BY DEF TypeOK, WriterSet
<1>3. /\ Inserted(outBuf, n) \in Seq(OutIds) /\ Len(Inserted(outBuf, n)) = Len(outBuf) + 1
      /\ Ascending(Inserted(outBuf, n)) /\ Elements(Inserted(outBuf, n)) = Elements(outBuf) \cup {n}
  BY <1>2, InsertedFacts DEF OrderedBuffer
<1>4. Len(outBuf) \in Nat /\ OutSize \in Nat /\ Len(outBuf) <= OutSize /\ Ascending(outBuf)
  BY <1>2, SsmAssumption DEF OrderedBuffer
<1>5. closing = "no" => ~Detached
  BY DEF Detached
<1>6. [pc |-> IF waits THEN "full" ELSE "send", num |-> n, woken |-> FALSE] \in WriterSet
  BY DEF WriterSet
<1>7. 0 \in 0 .. MaxAttempts
  BY SsmAssumption
<1>8. /\ writer' \in [Writers -> WriterSet]
      /\ writer'[w].num = n /\ writer'[w].pc = (IF waits THEN "full" ELSE "send")
      /\ \A v \in Writers : v # w => writer'[v] = writer[v]
  BY <1>1, <1>2, <1>6
<1>9. attempts' \in [OutIds -> 0 .. MaxAttempts]
  BY <1>1, <1>2, <1>7
<1> HIDE DEF waits
<1>10. waits => ~fits
  BY DEF waits
<1>11. closing = "no" /\ ~waits => fits
  BY <1>5 DEF waits
<1> QED
  BY <1>1, <1>2, <1>3, <1>4, <1>8, <1>9, <1>10, <1>11

\* A writer takes the next number, or tries its own again.
LEMMA WriteOk ==
  ASSUME SsmInv, NEW w \in Writers, WriteMsg(w) \/ WriteRetry(w)
  PROVE  SsmInv'
<1> USE DEF SsmInv
<1>1. UNCHANGED <<resend, inVars, closing, ws, toAgent, toUs, agent>>
  BY DEF WriteMsg, WriteRetry
<1>2. InInv'
  BY <1>1, InKept
<1>3. writer \in [Writers -> WriterSet] /\ seqNum \in 0 .. MaxOut /\ MaxOut \in Nat
  BY SsmAssumption DEF TypeOK, WriterSet
<1>4. FramesOK'
  BY <1>1 DEF FramesOK
<1>5. UNCHANGED <<inSeqNum, inBuf, hand, failed, delivered, late>>
  BY <1>1 DEF inVars
<1>6. CASE closing = "no" \/ WriteMsg(w)
  <2>1. PICK n \in OutIds :
          /\ Track(w, n) /\ n \notin Elements(outBuf)
          /\ seqNum' \in 0 .. MaxOut /\ seqNum <= seqNum' /\ n < seqNum'
          /\ \A v \in Writers : v # w => Held(v) # n
          /\ \A k \in 0 .. seqNum' - 1 : k < seqNum \/ k = n
          /\ Held(w) # Nothing => Held(w) = n
    <3>1. CASE WriteMsg(w)
      <4>1. seqNum \in OutIds /\ Track(w, seqNum) /\ seqNum' = seqNum + 1 /\ writer[w].pc = "idle"
        BY <1>3, <3>1 DEF WriteMsg, OutIds
      <4>2. seqNum \notin Elements(outBuf)
        BY <1>3 DEF OutInv, OrderedBuffer
      <4>3. \A v \in Writers : Held(v) # seqNum
        BY <1>3 DEF OutInv, HoldersOK, Nothing
      <4>4. Held(w) = Nothing
        BY <4>1 DEF OutInv, HoldersOK
      <4>5. seqNum' \in 0 .. MaxOut /\ seqNum <= seqNum' /\ seqNum < seqNum'
        BY <1>3, <4>1 DEF OutIds
      <4>6. \A k \in 0 .. seqNum' - 1 : k < seqNum \/ k = seqNum
        BY <1>3, <4>1
      <4> QED
        BY <4>1, <4>2, <4>3, <4>4, <4>5, <4>6
    <3>2. CASE WriteRetry(w) /\ closing = "no"
      <4>1. writer[w].pc = "full" /\ Track(w, Held(w)) /\ seqNum' = seqNum
        BY <3>2 DEF WriteRetry, Held
      <4>2. Held(w) \in 0 .. seqNum - 1 /\ Held(w) \notin Elements(outBuf)
        BY <4>1 DEF OutInv, HoldersOK
      <4>3. \A v \in Writers : v # w => Held(v) # Held(w)
        BY <1>3, <4>2 DEF OutInv, HoldersOK, Nothing
      <4>4. Held(w) \in OutIds /\ seqNum <= seqNum' /\ Held(w) < seqNum'
        BY <1>3, <4>1, <4>2 DEF OutIds
      <4>5. \A k \in 0 .. seqNum' - 1 : k < seqNum
        BY <1>3, <4>1
      <4> QED
        BY <1>3, <4>1, <4>2, <4>3, <4>4, <4>5
    <3> QED
      BY <1>6, <3>1, <3>2
  <2>2. /\ outBuf' \in Seq(OutIds) /\ Ascending(outBuf') /\ Len(outBuf') <= OutSize
        /\ Elements(outBuf') \subseteq Elements(outBuf) \cup {n}
        /\ Elements(outBuf) \subseteq Elements(outBuf')
        /\ attempts' \in [OutIds -> 0 .. MaxAttempts]
        /\ writer' \in [Writers -> WriterSet]
        /\ writer'[w].num = n /\ writer'[w].pc \in {"full", "send"}
        /\ \A v \in Writers : v # w => writer'[v] = writer[v]
        /\ writer'[w].pc = "full" => outBuf' = outBuf
        /\ closing = "no" /\ writer'[w].pc = "send" => n \in Elements(outBuf')
    BY <2>1, TrackFacts DEF OutInv
  <2>3. TypeOK'
    BY <1>1, <1>5, <2>1, <2>2 DEF TypeOK, WriterSet
  <2>4. Elements(outBuf) \subseteq OutIds /\ \A k \in OutIds : k \in Int
    BY SsmAssumption DEF TypeOK, Elements, OutIds
  <2>5. OrderedBuffer'
    BY <1>3, <2>1, <2>2, <2>4 DEF OutInv, OrderedBuffer
  <2>6. \A v \in Writers : v # w => Held(v)' = Held(v) /\ writer'[v].pc = writer[v].pc
    BY <2>2 DEF Held
  <2>7. Held(w)' = n /\ writer'[w].pc # "idle" /\ n # Nothing /\ n \in 0 .. seqNum' - 1
    BY <2>1, <2>2 DEF Held, Nothing, OutIds
  <2>8. HoldersOK'
    <3>1. \A v \in Writers : writer'[v].pc = "idle" => Held(v)' = Nothing
      BY <2>6, <2>7 DEF OutInv, HoldersOK
    <3>2. \A v \in Writers : writer'[v].pc # "idle" => Held(v)' \in 0 .. seqNum' - 1
      BY <1>3, <2>1, <2>6, <2>7 DEF OutInv, HoldersOK
    <3>3. \A v \in Writers : writer'[v].pc = "full" => Held(v)' \notin Elements(outBuf')
      <4>1. ASSUME NEW v \in Writers, v # w, writer'[v].pc = "full" PROVE Held(v)' \notin Elements(outBuf')
        BY <2>1, <2>2, <2>6, <4>1 DEF OutInv, HoldersOK
      <4>2. ASSUME writer'[w].pc = "full" PROVE Held(w)' \notin Elements(outBuf')
        BY <2>1, <2>2, <2>7, <4>2
      <4> QED
        BY <4>1, <4>2
    <3>4. \A v, u \in Writers : Held(v)' = Held(u)' => v = u \/ Held(v)' = Nothing
      BY <2>1, <2>6, <2>7 DEF OutInv, HoldersOK
    <3> QED
      BY <3>1, <3>2, <3>3, <3>4 DEF HoldersOK
  <2>9. SentIsTracked'
    <3> SUFFICES ASSUME ws, closing = "no", NEW v \in Writers, writer'[v].pc = "send"
                 PROVE  Held(v)' \in Elements(outBuf') \/ AgentHas(Held(v)')
      BY <1>1 DEF SentIsTracked, AgentHas
    <3>1. CASE v = w
      BY <2>2, <2>7, <3>1
    <3>2. CASE v # w
      BY <2>2, <2>6, <3>2 DEF OutInv, SentIsTracked
    <3> QED
      BY <3>1, <3>2
  <2>10. AcksAreTrue'
    BY <1>1 DEF OutInv, AcksAreTrue, AgentHas
  <2>11. NoInputLost'
    <3> SUFFICES ASSUME ws, closing = "no", NEW k \in 0 .. seqNum' - 1
                 PROVE  AgentHas(k) \/ k \in Elements(outBuf') \/ \E v \in Writers : writer'[v].num = k
      BY <1>1 DEF NoInputLost, AgentHas
    <3>1. CASE k = n
      BY <2>2, <3>1
    <3>2. CASE k # n
      <4>1. k \in 0 .. seqNum - 1
        <5>1. k < seqNum
          BY <2>1, <3>2, Zenon
        <5>2. seqNum' \in 0 .. MaxOut
          BY <2>1, Zenon
        <5> QED
          BY <1>3, <5>1, <5>2
      <4>2. AgentHas(k) \/ k \in Elements(outBuf) \/ \E v \in Writers : Held(v) = k
        BY <4>1 DEF OutInv, NoInputLost, Held
      <4>3. Held(w) # k
        BY <2>1, <3>2, <4>1 DEF Nothing
      <4> QED
        BY <2>2, <4>2, <4>3 DEF Held
    <3> QED
      BY <3>1, <3>2
  <2> QED
    BY <1>2, <1>4, <2>3, <2>5, <2>8, <2>9, <2>10, <2>11 DEF OutInv
<1>7. CASE closing # "no" /\ WriteRetry(w)
  <2>1. /\ writer' = [writer EXCEPT ![w] = [pc |-> "idle", num |-> Nothing, woken |-> FALSE]]
        /\ outBuf' = outBuf /\ attempts' = attempts /\ seqNum' = seqNum
    BY <1>7 DEF WriteRetry
  <2>2. [pc |-> "idle", num |-> Nothing, woken |-> FALSE] \in WriterSet
    BY DEF WriterSet
  <2>3. /\ writer' \in [Writers -> WriterSet] /\ writer'[w].pc = "idle" /\ writer'[w].num = Nothing
        /\ \A v \in Writers : v # w => writer'[v] = writer[v]
    BY <1>3, <2>1, <2>2
  <2>4. TypeOK'
    BY <1>1, <1>5, <2>1, <2>3 DEF TypeOK, WriterSet
  <2>5. OrderedBuffer'
    BY <2>1 DEF OutInv, OrderedBuffer
  <2>6. HoldersOK'
    BY <2>1, <2>3 DEF OutInv, HoldersOK, Held
  <2>7. SentIsTracked' /\ NoInputLost'
    BY <1>1, <1>7 DEF SentIsTracked, NoInputLost
  <2>8. AcksAreTrue'
    BY <1>1 DEF OutInv, AcksAreTrue, AgentHas
  <2> QED
    BY <1>2, <1>4, <2>4, <2>5, <2>6, <2>7, <2>8 DEF OutInv
<1> QED
  BY <1>6, <1>7

\* A message is written, or its tracking is given up with the socket.
LEMMA WriteSocketOk ==
  ASSUME SsmInv, NEW w \in Writers, WriteSocket(w)
  PROVE  SsmInv'
<1> USE DEF SsmInv
<1>1. UNCHANGED <<seqNum, resend, inVars, closing, ws, toUs, agent>> /\ writer[w].pc = "send"
  BY DEF WriteSocket
<1>2. writer \in [Writers -> WriterSet] /\ outBuf \in Seq(OutIds) /\ attempts \in [OutIds -> 0 .. MaxAttempts]
  BY DEF TypeOK, WriterSet
<1>3. Held(w) \in 0 .. seqNum - 1 /\ Held(w) \in OutIds
  BY <1>1, SsmAssumption DEF OutInv, HoldersOK, OutIds, TypeOK
<1>4. UNCHANGED <<inSeqNum, inBuf, hand, failed, delivered, late>>
  BY <1>1 DEF inVars
<1> DEFINE done == [writer EXCEPT ![w] = [pc |-> "idle", num |-> Nothing, woken |-> FALSE]]
<1>5. /\ done \in [Writers -> WriterSet] /\ done[w].pc = "idle" /\ done[w].num = Nothing
      /\ \A v \in Writers : v # w => done[v] = writer[v]
  <2>1. [pc |-> "idle", num |-> Nothing, woken |-> FALSE] \in WriterSet
    BY DEF WriterSet
  <2> QED
    BY <1>2, <2>1
<1>6. /\ Woken(done) \in [Writers -> WriterSet]
      /\ \A v \in Writers : Woken(done)[v].pc = done[v].pc /\ Woken(done)[v].num = done[v].num
  <2> HIDE DEF done
  <2> QED
    BY <1>5, WokenFacts DEF WriterSet
<1>7. /\ toAgent' = (IF ws THEN toAgent \cup {Data(Held(w))} ELSE toAgent)
      /\ writer' = (IF ws THEN done ELSE Woken(done))
      /\ outBuf' = (IF ws THEN outBuf ELSE Without(outBuf, Held(w)))
      /\ attempts' = (IF ws THEN attempts ELSE [attempts EXCEPT ![Held(w)] = 0])
  BY DEF WriteSocket, Forgotten, Held
<1> HIDE DEF done
<1>8. /\ writer' \in [Writers -> WriterSet] /\ writer'[w].pc = "idle" /\ writer'[w].num = Nothing
      /\ \A v \in Writers : v # w => writer'[v].pc = writer[v].pc /\ writer'[v].num = writer[v].num
  BY <1>5, <1>6, <1>7
<1>9. /\ outBuf' \in Seq(OutIds) /\ Len(outBuf') <= OutSize /\ Ascending(outBuf')
      /\ Elements(outBuf') \subseteq Elements(outBuf) /\ (ws => outBuf' = outBuf)
  <2>1. Ascending(outBuf) /\ Len(outBuf) <= OutSize
    BY DEF OutInv, OrderedBuffer
  <2>2. /\ Without(outBuf, Held(w)) \in Seq(OutIds) /\ Len(Without(outBuf, Held(w))) <= Len(outBuf)
        /\ Ascending(Without(outBuf, Held(w)))
        /\ Elements(Without(outBuf, Held(w))) = Elements(outBuf) \ {Held(w)}
    BY <1>2, <2>1, WithoutFacts
  <2>3. Len(outBuf) \in Nat /\ OutSize \in Nat /\ Len(Without(outBuf, Held(w))) \in Nat
    BY <1>2, <2>2, SsmAssumption
  <2> QED
    BY <1>2, <1>7, <2>1, <2>2, <2>3
<1>10. Data(Held(w)) \in FrameSet
  BY <1>3 DEF Data, FrameSet
<1>11. TypeOK'
  <2>1. attempts' \in [OutIds -> 0 .. MaxAttempts]
    <3>1. PICK k \in OutIds : k = Held(w)
      BY <1>3
    <3>2. [attempts EXCEPT ![k] = 0] \in [OutIds -> 0 .. MaxAttempts]
      BY <1>2, SsmAssumption
    <3> QED
      BY <1>2, <1>7, <3>1, <3>2, Zenon
  <2>2. toAgent' \subseteq FrameSet
    BY <1>7, <1>10 DEF TypeOK, FrameSet
  <2> QED
    BY <1>1, <1>4, <1>8, <1>9, <2>1, <2>2 DEF TypeOK, WriterSet, FrameSet
<1>12. FramesOK'
  BY <1>1, <1>3, <1>7, FrameFacts DEF FramesOK
<1>13. InInv'
  BY <1>1, <1>7, FrameFacts, InKept
<1>14. OrderedBuffer'
  BY <1>1, <1>9 DEF OutInv, OrderedBuffer
<1>15. HoldersOK'
  BY <1>1, <1>8, <1>9 DEF OutInv, HoldersOK, Held
<1>16. SentIsTracked'
  <2> SUFFICES ASSUME ws, closing = "no", NEW v \in Writers, writer'[v].pc = "send"
               PROVE  Held(v)' \in Elements(outBuf') \/ AgentHas(Held(v)')
    BY <1>1 DEF SentIsTracked, AgentHas
  <2>1. v # w /\ writer[v].pc = "send" /\ Held(v)' = Held(v) /\ outBuf' = outBuf
    BY <1>8, <1>9 DEF Held
  <2> QED
    BY <2>1 DEF OutInv, SentIsTracked
<1>17. AcksAreTrue'
  BY <1>1 DEF OutInv, AcksAreTrue, AgentHas
<1>18. NoInputLost'
  <2> SUFFICES ASSUME ws, closing = "no", NEW k \in 0 .. seqNum - 1
               PROVE  AgentHas(k) \/ k \in Elements(outBuf') \/ \E v \in Writers : writer'[v].num = k
    BY <1>1 DEF NoInputLost, AgentHas
  <2>1. outBuf' = outBuf
    BY <1>9
  <2>2. AgentHas(k) \/ k \in Elements(outBuf) \/ \E v \in Writers : writer[v].num = k
    BY DEF OutInv, NoInputLost
  <2>3. CASE Held(w) = k
    BY <1>1, <2>1, <2>3 DEF OutInv, SentIsTracked
  <2>4. CASE Held(w) # k
    BY <1>8, <2>1, <2>2, <2>4 DEF Held
  <2> QED
    BY <2>3, <2>4
<1> QED
  BY <1>11, <1>12, <1>13, <1>14, <1>15, <1>16, <1>17, <1>18 DEF OutInv

\* An acknowledged number is with the agent and need not be tracked.
LEMMA HandleAckOk ==
  ASSUME SsmInv, NEW n \in OutIds, HandleAck(n)
  PROVE  SsmInv'
<1> USE DEF SsmInv
<1>1. /\ UNCHANGED <<seqNum, resend, inVars, closing, ws, toAgent, agent>>
      /\ AckOf(n) \in toUs /\ toUs' = toUs \ {AckOf(n)}
      /\ outBuf' = Without(outBuf, n) /\ attempts' = [attempts EXCEPT ![n] = 0]
      /\ writer' = Woken(writer)
  BY DEF HandleAck, Forgotten
<1>2. writer \in [Writers -> WriterSet] /\ outBuf \in Seq(OutIds) /\ attempts \in [OutIds -> 0 .. MaxAttempts]
  BY DEF TypeOK, WriterSet
<1>3. AgentHas(n)
  BY <1>1 DEF OutInv, AcksAreTrue
<1>4. UNCHANGED <<inSeqNum, inBuf, hand, failed, delivered, late>>
  BY <1>1 DEF inVars
<1>5. /\ writer' \in [Writers -> WriterSet]
      /\ \A v \in Writers : writer'[v].pc = writer[v].pc /\ writer'[v].num = writer[v].num
  BY <1>1, <1>2, WokenFacts DEF WriterSet
<1>6. /\ outBuf' \in Seq(OutIds) /\ Len(outBuf') <= OutSize /\ Ascending(outBuf')
      /\ Elements(outBuf') = Elements(outBuf) \ {n}
  <2>1. Ascending(outBuf) /\ Len(outBuf) <= OutSize
    BY DEF OutInv, OrderedBuffer
  <2>2. /\ outBuf' \in Seq(OutIds) /\ Len(outBuf') <= Len(outBuf)
        /\ Ascending(outBuf') /\ Elements(outBuf') = Elements(outBuf) \ {n}
    BY <1>1, <1>2, <2>1, WithoutFacts
  <2>3. Len(outBuf) \in Nat /\ OutSize \in Nat /\ Len(outBuf') \in Nat
    BY <1>2, <2>2, SsmAssumption
  <2> QED
    BY <2>1, <2>2, <2>3
<1>7. TypeOK'
  <2>1. attempts' \in [OutIds -> 0 .. MaxAttempts]
    BY <1>1, <1>2, SsmAssumption
  <2>2. toUs' \subseteq toUs
    BY <1>1
  <2> QED
    BY <1>1, <1>4, <1>5, <1>6, <2>1, <2>2 DEF TypeOK, WriterSet
<1>8. FramesOK'
  BY <1>1 DEF FramesOK
<1>9. InInv'
  BY <1>1, InKept
<1>10. OrderedBuffer'
  BY <1>1, <1>6 DEF OutInv, OrderedBuffer
<1>11. HoldersOK'
  BY <1>1, <1>5, <1>6 DEF OutInv, HoldersOK, Held
<1>12. SentIsTracked'
  <2> SUFFICES ASSUME ws, closing = "no", NEW v \in Writers, writer'[v].pc = "send"
               PROVE  Held(v)' \in Elements(outBuf') \/ AgentHas(Held(v)')
    BY <1>1 DEF SentIsTracked, AgentHas
  <2>1. writer[v].pc = "send" /\ Held(v)' = Held(v)
    BY <1>5 DEF Held
  <2> QED
    BY <1>3, <1>6, <2>1 DEF OutInv, SentIsTracked
<1>13. AcksAreTrue'
  BY <1>1 DEF OutInv, AcksAreTrue, AgentHas
<1>14. NoInputLost'
  <2> SUFFICES ASSUME ws, closing = "no", NEW k \in 0 .. seqNum - 1
               PROVE  AgentHas(k) \/ k \in Elements(outBuf') \/ \E v \in Writers : writer'[v].num = k
    BY <1>1 DEF NoInputLost, AgentHas
  <2>1. AgentHas(k) \/ k \in Elements(outBuf) \/ \E v \in Writers : writer[v].num = k
    BY DEF OutInv, NoInputLost
  <2> QED
    BY <1>3, <1>5, <1>6, <2>1
<1> QED
  BY <1>7, <1>8, <1>9, <1>10, <1>11, <1>12, <1>13, <1>14 DEF OutInv

\* The resend loop writes again what is tracked, or gives the socket up.
LEMMA ResendOk ==
  ASSUME SsmInv, Resend
  PROVE  SsmInv'
<1> USE DEF SsmInv
<1>1. UNCHANGED <<seqNum, outBuf, writer, inVars, closing, toUs, agent>> /\ (ws' => ws)
  BY DEF Resend, ResendTick, ResendWrite
<1>2. UNCHANGED <<inSeqNum, inBuf, hand, failed, delivered, late>>
  BY <1>1 DEF inVars
<1>3. /\ attempts' \in [OutIds -> 0 .. MaxAttempts] /\ ws' \in BOOLEAN
      /\ resend' \in [pc : {"idle", "write", "gone"}, num : OutIds \cup {Nothing}]
      /\ resend'.pc = "write" => resend'.num \in OutIds
      /\ \A m \in toAgent' : m \in toAgent \/ \E n \in OutIds : m = Data(n)
  <2>1. CASE ResendTick
    <3>1. toAgent' = toAgent /\ (ws' = ws \/ ws' = FALSE)
      BY <2>1 DEF ResendTick
    <3>2. CASE resend' = [pc |-> "gone", num |-> Nothing] /\ attempts' = attempts
      BY <3>1, <3>2 DEF TypeOK
    <3>3. CASE /\ outBuf # <<>> /\ ~GivesUp(Head(outBuf))
               /\ attempts' = [attempts EXCEPT ![Head(outBuf)] = attempts[Head(outBuf)] + 1]
               /\ resend' = [pc |-> "write", num |-> Head(outBuf)]
      <4>1. PICK n \in OutIds : n = Head(outBuf)
        BY <3>3 DEF TypeOK
      <4>2. attempts[n] \in 0 .. MaxAttempts /\ ~(attempts[n] >= MaxAttempts)
        BY <3>3, <4>1 DEF TypeOK, GivesUp
      <4>3. attempts[n] + 1 \in 0 .. MaxAttempts
        BY <4>2, SsmAssumption
      <4>4. attempts' = [attempts EXCEPT ![n] = attempts[n] + 1] /\ resend' = [pc |-> "write", num |-> n]
        BY <3>3, <4>1
      <4>5. attempts' \in [OutIds -> 0 .. MaxAttempts]
        BY <4>3, <4>4 DEF TypeOK
      <4> QED
        BY <3>1, <4>4, <4>5 DEF TypeOK
    <3> QED
      BY <2>1, <3>2, <3>3 DEF ResendTick
  <2>2. CASE ResendWrite
    <3>1. resend.num \in OutIds
      BY <2>2 DEF ResendWrite, FramesOK
    <3>2. /\ resend' = [pc |-> IF ws THEN "idle" ELSE "gone", num |-> Nothing]
          /\ attempts' = attempts /\ ws' = ws
          /\ toAgent' = IF ws THEN toAgent \cup {Data(resend.num)} ELSE toAgent
      BY <2>2 DEF ResendWrite
    <3> QED
      BY <3>1, <3>2 DEF TypeOK
  <2> QED
    BY <2>1, <2>2 DEF Resend
<1>4. toAgent' \subseteq FrameSet
  <2>1. \A n \in OutIds : Data(n) \in FrameSet
    BY DEF Data, FrameSet
  <2> QED
    BY <1>3, <2>1 DEF TypeOK, FrameSet
<1>5. TypeOK'
  BY <1>1, <1>2, <1>3, <1>4 DEF TypeOK, FrameSet
<1>6. FramesOK'
  BY <1>3, FrameFacts DEF FramesOK
<1>7. InInv'
  BY <1>1, <1>3, FrameFacts, InKept
<1>8. OutInv'
  BY <1>1, OutKept DEF AgentHas
<1> QED
  BY <1>5, <1>6, <1>7, <1>8

-----------------------------------------------------------------------------
(* The receiving side, closing and the network.                              *)

AgentSet == [expected : 0 .. MaxOut, early : SUBSET OutIds, sent : 0 .. MaxIn, unacked : SUBSET InIds]

\* The reading goroutine takes a frame in hand.
LEMMA ReadFrameOk ==
  ASSUME SsmInv, NEW n \in InIds, ReadFrame(n)
  PROVE  SsmInv'
<1> USE DEF SsmInv
<1>1. /\ UNCHANGED <<outVars, inSeqNum, inBuf, failed, delivered, late, closing, ws, toAgent, agent>>
      /\ Data(n) \in toUs /\ toUs' = toUs \ {Data(n)} /\ hand' = n
  BY DEF ReadFrame
<1>2. UNCHANGED <<seqNum, outBuf, attempts, writer, resend>>
  BY <1>1 DEF outVars
<1>3. TypeOK'
  BY <1>1, <1>2 DEF TypeOK
<1>4. FramesOK'
  BY <1>1, <1>2 DEF FramesOK
<1>5. OutInv'
  BY <1>1, <1>2, OutKept DEF AgentHas
<1>6. OnlySent'
  BY <1>1 DEF InInv, OnlySent
<1>7. DeliveredExact' /\ AckedIsKept'
  BY <1>1 DEF InInv, DeliveredExact, AckedIsKept
<1> QED
  BY <1>3, <1>4, <1>5, <1>6, <1>7 DEF InInv

\* What the expected number releases: everything up to the next gap, no more than was sent.
LEMMA ExpectedFacts ==
  ASSUME SsmInv, hand # Nothing, ~Old(hand), ~Early(hand)
  PROVE  LET next == UpTo(hand + 1)
         IN  /\ hand = inSeqNum /\ hand \in InIds /\ next \in Nat /\ hand < next
             /\ next <= agent.sent
             /\ delivered \o [i \in 1 .. next - hand |-> hand + i - 1] = [i \in 1 .. next |-> i - 1]
<1> USE DEF SsmInv
<1>1. hand \in InIds /\ inSeqNum \in 0 .. MaxIn /\ MaxIn \in Nat /\ agent.sent \in 0 .. MaxIn
  BY SsmAssumption DEF TypeOK
<1>2. hand = inSeqNum /\ hand \in Nat
  BY <1>1 DEF Old, Early, InIds
<1>3. PICK next \in Nat : next = UpTo(hand + 1) /\ next >= hand + 1 /\ hand + 1 .. next - 1 \subseteq inBuf
  BY <1>2, UpToFacts
<1>4. next <= agent.sent
  <2>1. CASE next = hand + 1
    BY <1>1, <1>2, <2>1 DEF InInv, OnlySent
  <2>2. CASE next > hand + 1
    <3>1. next - 1 \in hand + 1 .. next - 1
      BY <1>2, <2>2
    <3>2. next - 1 < agent.sent
      BY <1>3, <3>1 DEF InInv, OnlySent
    <3> QED
      BY <1>1, <3>2
  <2> QED
    BY <1>2, <1>3, <2>1, <2>2
<1>5. delivered \o [i \in 1 .. next - hand |-> hand + i - 1] = [i \in 1 .. next |-> i - 1]
  <2> DEFINE a == [i \in 1 .. hand |-> i - 1]
             b == [i \in 1 .. next - hand |-> hand + i - 1]
             c == [i \in 1 .. next |-> i - 1]
  <2>1. delivered = a
    BY <1>2 DEF InInv, DeliveredExact
  <2>2. a \in Seq(Int) /\ Len(a) = hand /\ \A i \in 1 .. hand : a[i] = i - 1
    BY <1>2
  <2>3. b \in Seq(Int) /\ Len(b) = next - hand /\ \A i \in 1 .. next - hand : b[i] = hand + i - 1
    BY <1>2, <1>3
  <2>4. c \in Seq(Int) /\ Len(c) = next /\ \A i \in 1 .. next : c[i] = i - 1
    OBVIOUS
  <2> HIDE DEF a, b, c
  <2>5. /\ a \o b \in Seq(Int) /\ Len(a \o b) = Len(a) + Len(b)
        /\ \A i \in 1 .. Len(a) + Len(b) : (a \o b)[i] = IF i <= Len(a) THEN a[i] ELSE b[i - Len(a)]
    BY <2>2, <2>3, ConcatProperties
  <2>6. Len(a \o b) = next
    BY <1>2, <1>3, <2>2, <2>3, <2>5
  <2>7. ASSUME NEW i \in 1 .. next PROVE (a \o b)[i] = c[i]
    <3>1. (a \o b)[i] = IF i <= hand THEN a[i] ELSE b[i - hand]
      BY <2>2, <2>5, <2>6
    <3>2. CASE i <= hand
      BY <1>2, <2>2, <2>4, <3>1, <3>2
    <3>3. CASE i > hand
      <4>1. i - hand \in 1 .. next - hand /\ hand + (i - hand) - 1 = i - 1
        BY <1>2, <1>3, <3>3
      <4>2. b[i - hand] = i - 1
        BY <2>3, <4>1
      <4> QED
        BY <1>2, <2>4, <3>1, <3>3, <4>2
    <3>4. hand \in Int /\ i \in Int
      BY <1>2
    <3>5. i <= hand \/ i > hand
      BY <3>4
    <3> QED
      BY <3>2, <3>3, <3>5, Zenon
  <2>8. a \o b = c
    BY <2>4, <2>5, <2>6, <2>7, SeqEqual
  <2> QED
    BY <2>1, <2>8 DEF b, c
<1>6. hand < next
  BY <1>2, <1>3
<1>7. next = UpTo(hand + 1)
  BY <1>3
<1> QED
  BY <1>1, <1>2, <1>4, <1>5, <1>6, <1>7, Zenon

\* A frame is acknowledged only when what it brought is handed on or kept.
LEMMA HandleOutputOk ==
  ASSUME SsmInv, HandleOutput
  PROVE  SsmInv'
<1> USE DEF SsmInv
<1>1. /\ UNCHANGED <<outVars, closing, ws, toUs, agent>> /\ hand' = Nothing /\ hand # Nothing
      /\ HandleOld \/ HandleEarly \/ HandleExpected \/ HandleUnbuffered
  BY DEF HandleOutput, HandleOld, HandleEarly, HandleExpected, HandleUnbuffered
<1>2. UNCHANGED <<seqNum, outBuf, attempts, writer, resend>>
  BY <1>1 DEF outVars
<1>3. /\ hand \in InIds /\ hand \in Nat /\ inSeqNum \in 0 .. MaxIn /\ agent.sent \in 0 .. MaxIn
      /\ MaxIn \in Nat /\ hand < agent.sent
  BY <1>1, SsmAssumption DEF TypeOK, InIds, InInv, OnlySent
<1>4. toAgent' = toAgent \/ toAgent' = toAgent \cup {AckOf(hand)}
  BY <1>1 DEF HandleOld, HandleEarly, HandleExpected, HandleUnbuffered, Acknowledge
<1>5. toAgent' \subseteq FrameSet /\ FramesOK'
  <2>1. AckOf(hand) \in FrameSet
    BY <1>3 DEF AckOf, FrameSet
  <2> QED
    BY <1>2, <1>3, <1>4, <2>1, FrameFacts DEF FramesOK, TypeOK, FrameSet
<1>6. OutInv'
  BY <1>1, <1>2, OutKept DEF AgentHas
<1>7. failed' \in BOOLEAN
  <2>1. failed' \in {failed, ~ws, TRUE}
    BY <1>1 DEF HandleOld, HandleEarly, HandleExpected, HandleUnbuffered
  <2> QED
    BY <2>1, Zenon DEF TypeOK
<1>8. \A n : AckOf(n) \in toAgent' => AckOf(n) \in toAgent \/ n = hand
  BY <1>4, FrameFacts
<1>9. 0 .. agent.sent - 1 \subseteq InIds
  BY <1>3 DEF InIds
<1>10. ASSUME inSeqNum' \in 0 .. MaxIn, inBuf' \subseteq InIds, delivered' \in Seq(InIds), late' \subseteq InIds,
              inSeqNum' <= agent.sent, \A n \in inBuf' : n < agent.sent, DeliveredExact',
              closing = "no" /\ AckOf(hand) \in toAgent' =>
                 hand < inSeqNum' \/ hand \in inBuf' \/ AckOf(hand) \in toAgent,
              closing = "no" => \A n \in InIds : n < inSeqNum \/ n \in inBuf => n < inSeqNum' \/ n \in inBuf'
       PROVE  TypeOK' /\ InInv'
  <2>1. TypeOK'
    BY <1>1, <1>2, <1>5, <1>7, <1>10 DEF TypeOK, FrameSet
  <2>2. OnlySent'
    BY <1>1, <1>3, <1>8, <1>10 DEF InInv, OnlySent, Nothing
  <2>3. AckedIsKept'
    <3> SUFFICES ASSUME closing = "no", NEW n \in 0 .. agent.sent - 1,
                        n \notin agent.unacked \/ AckOf(n) \in toAgent'
                 PROVE  n < inSeqNum' \/ n \in inBuf'
      BY <1>1 DEF AckedIsKept
    <3>1. n \in InIds
      BY <1>9
    <3>2. CASE n \notin agent.unacked \/ AckOf(n) \in toAgent
      <4>1. n < inSeqNum \/ n \in inBuf
        BY <3>2 DEF InInv, AckedIsKept
      <4> QED
        BY <1>10, <3>1, <4>1
    <3>3. CASE AckOf(n) \in toAgent' /\ AckOf(n) \notin toAgent
      BY <1>8, <1>10, <3>3
    <3> QED
      BY <3>2, <3>3
  <2> QED
    BY <1>10, <2>1, <2>2, <2>3 DEF InInv
<1>11. CASE HandleOld
  <2>1. UNCHANGED <<inSeqNum, inBuf, delivered, late>> /\ hand < inSeqNum
    BY <1>11 DEF HandleOld, Old
  <2> QED
    BY <1>6, <1>5, <1>10, <2>1 DEF TypeOK, InInv, OnlySent, DeliveredExact
<1>12. CASE HandleEarly
  <2>1. UNCHANGED <<inSeqNum, delivered, late>>
    BY <1>12 DEF HandleEarly
  <2>2. inBuf' = inBuf \cup {hand} \/ (inBuf' = inBuf /\ toAgent' = toAgent)
    BY <1>12 DEF HandleEarly, Buffers
  <2>3. inBuf' \subseteq InIds /\ (\A n \in inBuf' : n < agent.sent) /\ inBuf \subseteq inBuf'
    BY <1>3, <2>2 DEF TypeOK, InInv, OnlySent
  <2>4. AckOf(hand) \in toAgent' => hand \in inBuf' \/ AckOf(hand) \in toAgent
    BY <2>2
  <2>5. inSeqNum' \in 0 .. MaxIn /\ delivered' \in Seq(InIds) /\ late' \subseteq InIds
    BY <2>1 DEF TypeOK
  <2>6. inSeqNum' <= agent.sent /\ DeliveredExact'
    BY <2>1 DEF InInv, OnlySent, DeliveredExact
  <2> QED
    BY <1>5, <1>6, <1>10, <2>1, <2>3, <2>4, <2>5, <2>6
<1>13. CASE HandleExpected
  <2>1. ~Old(hand) /\ ~Early(hand) /\ late' = late
    BY <1>13 DEF HandleExpected
  <2>2. PICK next \in Nat :
          /\ next = UpTo(hand + 1) /\ hand = inSeqNum /\ hand < next /\ next <= agent.sent
          /\ delivered \o [i \in 1 .. next - hand |-> hand + i - 1] = [i \in 1 .. next |-> i - 1]
    BY <1>1, <2>1, ExpectedFacts
  <2>3. CASE ws
    <3>1. inSeqNum' = next /\ inBuf' = inBuf \ (hand .. next - 1) /\ delivered' = [i \in 1 .. next |-> i - 1]
      BY <1>13, <2>2, <2>3 DEF HandleExpected
    <3>2. inSeqNum' \in 0 .. MaxIn /\ inSeqNum' <= agent.sent
      BY <1>3, <2>2, <3>1
    <3>3. DeliveredExact'
      BY <3>1 DEF DeliveredExact
    <3>4. delivered' \in Seq(InIds)
      <4>1. \A i \in 1 .. next : i - 1 \in InIds
        BY <1>3, <2>2 DEF InIds
      <4> QED
        BY <3>1, <4>1
    <3>5. hand < inSeqNum'
      BY <2>2, <3>1
    <3>6. \A n \in InIds : n < inSeqNum \/ n \in inBuf => n < inSeqNum' \/ n \in inBuf'
      <4> SUFFICES ASSUME NEW n \in InIds, n < inSeqNum \/ n \in inBuf PROVE n < inSeqNum' \/ n \in inBuf'
        OBVIOUS
      <4>1. n \in Int
        BY <1>3 DEF InIds
      <4>2. CASE n < next
        BY <3>1, <4>2
      <4>3. CASE n >= next
        <5>1. n \in inBuf
          BY <1>3, <2>2, <4>1, <4>3
        <5> QED
          BY <1>3, <2>2, <3>1, <4>1, <4>3, <5>1
      <4> QED
        BY <2>2, <4>1, <4>2, <4>3
    <3>7. inBuf' \subseteq InIds /\ (\A n \in inBuf' : n < agent.sent) /\ late' \subseteq InIds
      BY <2>1, <3>1 DEF TypeOK, InInv, OnlySent
    <3> QED
      BY <1>5, <1>6, <1>10, <3>2, <3>3, <3>4, <3>5, <3>6, <3>7
  <2>4. CASE ~ws
    <3>1. UNCHANGED <<inSeqNum, inBuf, delivered, late>> /\ toAgent' = toAgent
      BY <1>13, <2>4 DEF HandleExpected, Acknowledge
    <3> QED
      BY <1>5, <1>6, <1>10, <3>1 DEF TypeOK, InInv, OnlySent, DeliveredExact
  <2> QED
    BY <2>3, <2>4
<1>14. CASE HandleUnbuffered
  <2>1. UNCHANGED <<inSeqNum, inBuf, delivered>> /\ late' \subseteq late \cup {hand} /\ closing # "no"
    BY <1>14 DEF HandleUnbuffered, Detached
  <2>2. late' \subseteq InIds
    BY <1>3, <2>1 DEF TypeOK
  <2> QED
    BY <1>5, <1>6, <1>10, <2>1, <2>2 DEF TypeOK, InInv, OnlySent, DeliveredExact
<1> QED
  BY <1>1, <1>11, <1>12, <1>13, <1>14

\* Closing wakes the writers and takes the buffers away; a socket may break.
LEMMA CloseOk ==
  ASSUME SsmInv, Closing \/ SocketBreaks
  PROVE  SsmInv'
<1> USE DEF SsmInv
<1>1. writer \in [Writers -> WriterSet]
  BY DEF TypeOK, WriterSet
<1>2. CASE CloseMark
  <2>1. /\ UNCHANGED <<seqNum, outBuf, attempts, resend, inVars, ws, toAgent, toUs, agent>>
        /\ closing' = "marked" /\ writer' = Woken(writer)
    BY <1>2 DEF CloseMark
  <2>2. /\ writer' \in [Writers -> WriterSet]
        /\ \A v \in Writers : writer'[v].pc = writer[v].pc /\ writer'[v].num = writer[v].num
    BY <1>1, <2>1, WokenFacts DEF WriterSet
  <2>3. TypeOK'
    BY <2>1, <2>2 DEF TypeOK, WriterSet, inVars
  <2>4. FramesOK'
    BY <2>1 DEF FramesOK
  <2>5. OutInv'
    BY <2>1, <2>2, OutKept DEF AgentHas
  <2>6. InInv'
    BY <2>1, InKept
  <2> QED
    BY <2>3, <2>4, <2>5, <2>6
<1>3. CASE CloseDetach
  <2>1. /\ UNCHANGED <<seqNum, attempts, resend, inSeqNum, hand, failed, delivered, late, ws, toAgent, toUs, agent>>
        /\ closing' = "detached" /\ writer' = Woken(writer) /\ outBuf' = <<>> /\ inBuf' = {}
    BY <1>3 DEF CloseDetach
  <2>2. /\ writer' \in [Writers -> WriterSet]
        /\ \A v \in Writers : writer'[v].pc = writer[v].pc /\ writer'[v].num = writer[v].num
    BY <1>1, <2>1, WokenFacts DEF WriterSet
  <2>3. TypeOK'
    BY <2>1, <2>2 DEF TypeOK, WriterSet
  <2>4. FramesOK'
    BY <2>1 DEF FramesOK
  <2>5. Elements(outBuf') = {} /\ Len(outBuf') = 0
    BY <2>1 DEF Elements
  <2>6. OrderedBuffer'
    BY <2>5, SsmAssumption DEF OrderedBuffer, Ascending
  <2>7. HoldersOK'
    BY <2>1, <2>2, <2>5 DEF OutInv, HoldersOK, Held
  <2>8. SentIsTracked' /\ NoInputLost'
    BY <2>1 DEF SentIsTracked, NoInputLost
  <2>9. AcksAreTrue'
    BY <2>1 DEF OutInv, AcksAreTrue, AgentHas
  <2>10. InInv'
    BY <2>1 DEF InInv, OnlySent, DeliveredExact, AckedIsKept
  <2> QED
    BY <2>3, <2>4, <2>6, <2>7, <2>8, <2>9, <2>10 DEF OutInv
<1>4. CASE CloseSocket \/ SocketBreaks
  <2>1. /\ UNCHANGED <<outVars, inVars, toAgent, toUs, agent>> /\ ws' = FALSE
        /\ closing' \in {closing, "closed"}
    BY <1>4 DEF CloseSocket, SocketBreaks
  <2>2. UNCHANGED <<seqNum, outBuf, attempts, writer, resend>>
    BY <2>1 DEF outVars
  <2>3. TypeOK'
    BY <2>1, <2>2 DEF TypeOK, inVars
  <2>4. FramesOK'
    BY <2>1, <2>2 DEF FramesOK
  <2>5. OutInv'
    BY <2>1, <2>2, OutKept DEF AgentHas
  <2>6. InInv'
    BY <2>1, InKept
  <2> QED
    BY <2>3, <2>4, <2>5, <2>6
<1> QED
  BY <1>2, <1>3, <1>4 DEF Closing

\* A lost frame is one that says no more.
LEMMA LoseOk ==
  ASSUME SsmInv, Lose
  PROVE  SsmInv'
<1> USE DEF SsmInv
<1>1. /\ UNCHANGED <<outVars, inVars, closing, ws, agent>>
      /\ toAgent' \subseteq toAgent /\ toUs' \subseteq toUs
  BY DEF Lose
<1>2. UNCHANGED <<seqNum, outBuf, attempts, writer, resend>>
  BY <1>1 DEF outVars
<1>3. TypeOK'
  BY <1>1, <1>2 DEF TypeOK, inVars
<1>4. FramesOK'
  BY <1>1, <1>2 DEF FramesOK
<1>5. OutInv'
  BY <1>1, <1>2, OutKept DEF AgentHas
<1>6. InInv'
  BY <1>1, InKept
<1> QED
  BY <1>3, <1>4, <1>5, <1>6

\* The agent takes a message in and says so, or forgets what was acknowledged.
LEMMA AgentReceivesOk ==
  ASSUME SsmInv, NEW m \in toAgent, AgentReceives(m)
  PROVE  SsmInv'
<1> USE DEF SsmInv
<1>1. UNCHANGED <<outVars, inVars, closing, ws>> /\ toAgent' = toAgent \ {m}
  BY DEF AgentReceives
<1>2. UNCHANGED <<seqNum, outBuf, attempts, writer, resend>>
  BY <1>1 DEF outVars
<1>3. UNCHANGED <<inSeqNum, inBuf, hand, failed, delivered, late>>
  BY <1>1 DEF inVars
<1>4. FramesOK'
  BY <1>1, <1>2 DEF FramesOK
<1>5. agent \in AgentSet /\ m \in FrameSet
  BY DEF TypeOK, AgentSet, FrameSet
<1>6. CASE m.kind = "ack"
  <2>1. agent' = [agent EXCEPT !.unacked = @ \ {m.num}] /\ toUs' = toUs
    BY <1>6 DEF AgentReceives
  <2>2. /\ agent' \in AgentSet /\ agent'.sent = agent.sent /\ agent'.unacked = agent.unacked \ {m.num}
        /\ agent'.expected = agent.expected /\ agent'.early = agent.early
    BY <1>5, <2>1 DEF AgentSet
  <2>3. m = AckOf(m.num)
    BY <1>5, <1>6 DEF FrameSet, AckOf
  <2>4. TypeOK'
    BY <1>1, <1>2, <1>3, <2>1, <2>2 DEF TypeOK, AgentSet
  <2>5. OutInv'
    BY <1>1, <1>2, <2>1, <2>2, OutKept DEF AgentHas
  <2>6. OnlySent' /\ DeliveredExact'
    BY <1>1, <1>3, <2>1, <2>2 DEF InInv, OnlySent, DeliveredExact
  <2>7. AckedIsKept'
    <3> SUFFICES ASSUME closing = "no", NEW n \in 0 .. agent.sent - 1,
                        n \notin agent'.unacked \/ AckOf(n) \in toAgent'
                 PROVE  n < inSeqNum \/ n \in inBuf
      BY <1>1, <1>3, <2>2 DEF AckedIsKept
    <3>1. n \notin agent.unacked \/ AckOf(n) \in toAgent
      BY <1>1, <2>2, <2>3
    <3> QED
      BY <3>1 DEF InInv, AckedIsKept
  <2> QED
    BY <1>4, <2>4, <2>5, <2>6, <2>7 DEF InInv
<1>7. CASE m.kind # "ack"
  <2> DEFINE early == agent.early \cup ({m.num} \ 0 .. agent.expected - 1)
             next == CHOOSE k \in agent.expected .. MaxOut :
                       k \notin early /\ agent.expected .. k - 1 \subseteq early
  <2>1. /\ agent' = [agent EXCEPT !.expected = next, !.early = early \ 0 .. next - 1]
        /\ toUs' = toUs \cup {AckOf(m.num)}
    BY <1>7 DEF AgentReceives
  <2>2. m.num \in OutIds
    <3>1. m.kind = "data"
      BY <1>5, <1>7 DEF FrameSet
    <3> QED
      BY <3>1 DEF FramesOK
  <2>3. agent.expected \in 0 .. MaxOut /\ MaxOut \in Nat
    BY <1>5, SsmAssumption DEF AgentSet
  <2>4. early \in SUBSET OutIds
    BY <1>5, <2>2 DEF AgentSet
  <2>5. next \in agent.expected .. MaxOut
    <3> HIDE DEF early
    <3> QED
      BY <2>3, <2>4, AgentNextFacts
  <2>6. m.num \in early \/ m.num < agent.expected
    BY <2>2, <2>3, SsmAssumption DEF OutIds
  <2>7. agent.early \subseteq early
    OBVIOUS
  <2> HIDE DEF early, next
  <2>8. next \in 0 .. MaxOut /\ agent.expected <= next
    BY <2>3, <2>5
  <2>9. /\ agent' \in AgentSet /\ agent'.sent = agent.sent /\ agent'.unacked = agent.unacked
        /\ agent'.expected = next /\ agent'.early = early \ 0 .. next - 1
    <3>1. \A x \in 0 .. MaxOut, y \in SUBSET OutIds :
            /\ [agent EXCEPT !.expected = x, !.early = y] \in AgentSet
            /\ [agent EXCEPT !.expected = x, !.early = y].sent = agent.sent
            /\ [agent EXCEPT !.expected = x, !.early = y].unacked = agent.unacked
            /\ [agent EXCEPT !.expected = x, !.early = y].expected = x
            /\ [agent EXCEPT !.expected = x, !.early = y].early = y
      BY <1>5 DEF AgentSet
    <3>2. early \ 0 .. next - 1 \in SUBSET OutIds
      BY <2>4
    <3> QED
      BY <2>1, <2>8, <3>1, <3>2, ZenonT(60)
  <2>10. \A n \in OutIds : n \in Nat
    BY SsmAssumption DEF OutIds
  <2>11. \A n \in OutIds : n \in early \/ n < agent.expected => AgentHas(n)'
    <3> SUFFICES ASSUME NEW n \in OutIds, n \in early \/ n < agent.expected PROVE AgentHas(n)'
      OBVIOUS
    <3>1. n < next \/ n \in early \ 0 .. next - 1
      BY <2>3, <2>8, <2>10
    <3> QED
      BY <2>9, <3>1 DEF AgentHas
  <2>12. \A n \in OutIds : AgentHas(n) => AgentHas(n)'
    BY <2>7, <2>11 DEF AgentHas
  <2>13. \A n \in OutIds : AckOf(n) \in toUs' => AckOf(n) \in toUs \/ AgentHas(n)'
    BY <2>1, <2>2, <2>6, <2>11, FrameFacts
  <2>14. OutInv'
    BY <1>1, <1>2, <2>12, <2>13, OutKept
  <2>15. TypeOK'
    <3>1. AckOf(m.num) \in FrameSet
      BY <2>2 DEF AckOf, FrameSet
    <3>2. toUs' \subseteq FrameSet
      BY <2>1, <3>1 DEF TypeOK, FrameSet
    <3> QED
      BY <1>1, <1>2, <1>3, <2>9, <3>2 DEF TypeOK, AgentSet, FrameSet
  <2>16. OnlySent'
    BY <1>1, <1>3, <2>1, <2>9, FrameFacts DEF InInv, OnlySent
  <2>17. DeliveredExact' /\ AckedIsKept'
    BY <1>1, <1>3, <2>9 DEF InInv, DeliveredExact, AckedIsKept
  <2> QED
    BY <1>4, <2>14, <2>15, <2>16, <2>17 DEF InInv
<1> QED
  BY <1>6, <1>7

\* The agent sends a new message, or repeats one that was not acknowledged.
LEMMA AgentSendsOk ==
  ASSUME SsmInv, AgentSends
  PROVE  SsmInv'
<1> USE DEF SsmInv
<1>1. UNCHANGED <<outVars, inVars, closing, ws, toAgent>>
  BY DEF AgentSends
<1>2. UNCHANGED <<seqNum, outBuf, attempts, writer, resend>>
  BY <1>1 DEF outVars
<1>3. UNCHANGED <<inSeqNum, inBuf, hand, failed, delivered, late>>
  BY <1>1 DEF inVars
<1>4. FramesOK'
  BY <1>1, <1>2 DEF FramesOK
<1>5. agent \in AgentSet /\ MaxIn \in Nat /\ agent.sent \in 0 .. MaxIn /\ agent.unacked \in SUBSET InIds
  BY SsmAssumption DEF TypeOK, AgentSet
<1>6. CASE /\ agent.sent < MaxIn /\ toUs' = toUs \cup {Data(agent.sent)}
           /\ agent' = [agent EXCEPT !.sent = @ + 1, !.unacked = @ \cup {agent.sent}]
  <2>1. agent.sent \in InIds /\ agent.sent + 1 \in 0 .. MaxIn /\ agent.unacked \cup {agent.sent} \in SUBSET InIds
    BY <1>5, <1>6 DEF InIds
  <2>2. \A x \in 0 .. MaxIn, y \in SUBSET InIds :
          /\ [agent EXCEPT !.sent = x, !.unacked = y] \in AgentSet
          /\ [agent EXCEPT !.sent = x, !.unacked = y].sent = x
          /\ [agent EXCEPT !.sent = x, !.unacked = y].unacked = y
          /\ [agent EXCEPT !.sent = x, !.unacked = y].expected = agent.expected
          /\ [agent EXCEPT !.sent = x, !.unacked = y].early = agent.early
    BY <1>5 DEF AgentSet
  <2>3. /\ agent' \in AgentSet /\ agent'.expected = agent.expected /\ agent'.early = agent.early
        /\ agent'.sent = agent.sent + 1 /\ agent'.unacked = agent.unacked \cup {agent.sent}
    BY <1>6, <2>1, <2>2, ZenonT(60)
  <2>4. toUs' \subseteq FrameSet
    <3>1. Data(agent.sent) \in FrameSet
      BY <2>1 DEF Data, FrameSet
    <3> QED
      BY <1>6, <3>1 DEF TypeOK, FrameSet
  <2>5. TypeOK'
    BY <1>1, <1>2, <1>3, <2>3, <2>4 DEF TypeOK, AgentSet, FrameSet
  <2>6. OutInv'
    BY <1>1, <1>2, <1>6, <2>3, FrameFacts, OutKept DEF AgentHas
  <2>7. agent.sent < agent'.sent /\ \A x \in Int : x < agent.sent => x < agent'.sent
    BY <1>5, <2>3
  <2>8. /\ hand \in Int /\ inSeqNum \in Int /\ (\A n \in InIds : n \in Int) /\ inBuf \subseteq InIds
    BY SsmAssumption DEF TypeOK, InIds, Nothing
  <2>9. OnlySent'
    <3>1. \A n \in InIds : Data(n) \in toUs' \/ AckOf(n) \in toAgent' => n < agent'.sent
      <4> SUFFICES ASSUME NEW n \in InIds, Data(n) \in toUs' \/ AckOf(n) \in toAgent' PROVE n < agent'.sent
        OBVIOUS
      <4>1. Data(n) \in toUs \/ AckOf(n) \in toAgent \/ n = agent.sent
        BY <1>1, <1>6, FrameFacts
      <4> QED
        BY <2>7, <2>8, <4>1 DEF InInv, OnlySent
    <3>2. hand' < agent'.sent
      BY <1>3, <2>7, <2>8 DEF InInv, OnlySent
    <3>3. inSeqNum' <= agent'.sent
      BY <1>3, <1>5, <2>3, <2>8 DEF InInv, OnlySent
    <3>4. \A n \in inBuf' \cup agent'.unacked : n < agent'.sent
      BY <1>3, <1>5, <2>3, <2>7, <2>8 DEF InInv, OnlySent
    <3> QED
      BY <3>1, <3>2, <3>3, <3>4 DEF OnlySent
  <2>10. DeliveredExact'
    BY <1>3 DEF InInv, DeliveredExact
  <2>11. AckedIsKept'
    <3> SUFFICES ASSUME closing = "no", NEW n \in 0 .. agent'.sent - 1,
                        n \notin agent'.unacked \/ AckOf(n) \in toAgent
                 PROVE  n < inSeqNum \/ n \in inBuf
      BY <1>1, <1>3 DEF AckedIsKept
    <3>1. n \in InIds /\ n \in Int /\ n >= 0
      BY <1>5, <2>1, <2>3 DEF InIds
    <3>2. CASE n = agent.sent
      <4>1. AckOf(n) \in toAgent
        BY <2>3, <3>2
      <4>2. n < agent.sent
        BY <3>1, <4>1 DEF InInv, OnlySent
      <4> QED
        BY <1>5, <3>2, <4>2
    <3>3. CASE n # agent.sent
      <4>1. n \in 0 .. agent.sent - 1
        BY <1>5, <2>3, <3>1, <3>3
      <4>2. n \notin agent.unacked \/ AckOf(n) \in toAgent
        BY <2>3
      <4> QED
        BY <4>1, <4>2 DEF InInv, AckedIsKept
    <3> QED
      BY <3>2, <3>3
  <2> QED
    BY <1>4, <2>5, <2>6, <2>9, <2>10, <2>11 DEF InInv
<1>7. CASE \E n \in agent.unacked : toUs' = toUs \cup {Data(n)} /\ agent' = agent
  <2>1. PICK n \in agent.unacked : toUs' = toUs \cup {Data(n)} /\ agent' = agent
    BY <1>7
  <2>2. n \in InIds /\ n < agent.sent
    BY <1>5 DEF InInv, OnlySent
  <2>3. toUs' \subseteq FrameSet
    <3>1. Data(n) \in FrameSet
      BY <2>2 DEF Data, FrameSet
    <3> QED
      BY <2>1, <3>1 DEF TypeOK, FrameSet
  <2>4. TypeOK'
    BY <1>1, <1>2, <1>3, <2>1, <2>3 DEF TypeOK, FrameSet
  <2>5. OutInv'
    BY <1>1, <1>2, <2>1, FrameFacts, OutKept DEF AgentHas
  <2>6. OnlySent'
    BY <1>1, <1>3, <2>1, <2>2, FrameFacts DEF InInv, OnlySent
  <2>7. DeliveredExact' /\ AckedIsKept'
    BY <1>1, <1>3, <2>1 DEF InInv, DeliveredExact, AckedIsKept
  <2> QED
    BY <1>4, <2>4, <2>5, <2>6, <2>7 DEF InInv
<1> QED
  BY <1>6, <1>7 DEF AgentSends

-----------------------------------------------------------------------------
(* The theorems.                                                             *)

(* The invariant of the data channel holds in every state, whatever the path *)
(* loses, repeats and reorders and whenever the channel is closed.           *)
THEOREM SsmInvariant == Spec => []SsmInv
<1>1. SsmInv /\ [Next]_vars => SsmInv'
  <2> SUFFICES ASSUME SsmInv, [Next]_vars PROVE SsmInv'
    OBVIOUS
  <2>1. CASE UNCHANGED vars
    <3>1. UNCHANGED <<outVars, inVars, closing, ws, toAgent, toUs, agent>>
      BY <2>1 DEF vars
    <3>2. UNCHANGED <<seqNum, outBuf, attempts, writer, resend>>
      BY <3>1 DEF outVars
    <3>3. TypeOK'
      BY <3>1, <3>2 DEF SsmInv, TypeOK, inVars
    <3>4. FramesOK'
      BY <3>1, <3>2 DEF SsmInv, FramesOK
    <3>5. OutInv'
      BY <3>1, <3>2, OutKept DEF SsmInv, AgentHas
    <3>6. InInv'
      BY <3>1, InKept DEF SsmInv
    <3> QED
      BY <3>3, <3>4, <3>5, <3>6 DEF SsmInv
  <2>2. ASSUME NEW w \in Writers, Write(w) PROVE SsmInv'
    BY <2>2, WriteOk, WriteSocketOk DEF Write
  <2>3. CASE Reading
    BY <2>3, HandleOutputOk, ReadFrameOk, HandleAckOk DEF Reading
  <2>4. CASE Agent
    BY <2>4, AgentReceivesOk, AgentSendsOk DEF Agent
  <2> QED
    BY <2>1, <2>2, <2>3, <2>4, ResendOk, CloseOk, LoseOk DEF Next
<1> QED
  BY InitSsm, <1>1, PTL DEF Spec

\* The types of the channel's state.
THEOREM TypeCorrect == Spec => []TypeOK
<1>1. SsmInv => TypeOK
  BY DEF SsmInv
<1> QED
  BY <1>1, SsmInvariant, PTL

(* WriteMsg, the resend loop and HandleMsg together lose no number that was  *)
(* given out: it has arrived, is tracked, or a writer still holds it.        *)
THEOREM InputIsNotLost == Spec => []NoInputLost
<1>1. SsmInv => NoInputLost
  BY DEF SsmInv, OutInv
<1> QED
  BY <1>1, SsmInvariant, PTL

(* HandleMsg acknowledges nothing that it then drops.                        *)
THEOREM AcknowledgedIsKept == Spec => []AckedIsKept
<1>1. SsmInv => AckedIsKept
  BY DEF SsmInv, InInv
<1> QED
  BY <1>1, SsmInvariant, PTL

(* Oldest() returns the front of the list, and the resend relies on it being *)
(* the lowest number not acknowledged (messageBuffer.Add): the outbound      *)
(* buffer is strictly ascending and within its size although a writer that   *)
(* waited for room is overtaken by others.                                   *)
THEOREM OldestIsLowest == Spec => []OrderedBuffer
<1>1. SsmInv => OrderedBuffer
  BY DEF SsmInv, OutInv
<1> QED
  BY <1>1, SsmInvariant, PTL

(* Output reaches the user once and in order: every step of the channel is a *)
(* step of SsmStream, or invisible to its user.                              *)
THEOREM ChannelImplementsStream == Spec => ImplementsStream
<1>1. Init => Stream!Init
  BY DEF Init, Stream!Init, Detached
<1>2. SsmInv /\ [Next]_vars => [Stream!Next]_(Stream!vars)
  <2> SUFFICES ASSUME SsmInv, [Next]_vars
               PROVE  \/ Stream!Next
                      \/ UNCHANGED <<agent.sent, delivered, ~Detached>>
    BY DEF Stream!vars
  <2>1. ASSUME UNCHANGED <<delivered, closing>>, agent'.sent = agent.sent
        PROVE  UNCHANGED <<agent.sent, delivered, ~Detached>>
    BY <2>1 DEF Detached
  <2>2. agent \in AgentSet
    BY DEF SsmInv, TypeOK, AgentSet
  <2>3. CASE UNCHANGED vars
    BY <2>1, <2>3 DEF vars, inVars
  <2>4. ASSUME NEW w \in Writers, Write(w) PROVE UNCHANGED <<agent.sent, delivered, ~Detached>>
    BY <2>1, <2>4 DEF Write, WriteMsg, WriteRetry, WriteSocket, inVars
  <2>5. CASE Resend
    BY <2>1, <2>5 DEF Resend, ResendTick, ResendWrite, inVars
  <2>6. CASE SocketBreaks \/ Lose
    BY <2>1, <2>6 DEF SocketBreaks, Lose, inVars
  <2>7. CASE Reading
    <3>1. ASSUME NEW n \in InIds, ReadFrame(n) PROVE UNCHANGED <<agent.sent, delivered, ~Detached>>
      BY <2>1, <3>1 DEF ReadFrame
    <3>2. ASSUME NEW n \in OutIds, HandleAck(n) PROVE UNCHANGED <<agent.sent, delivered, ~Detached>>
      BY <2>1, <3>2 DEF HandleAck, inVars
    <3>3. CASE HandleOutput
      <4>1. agent' = agent /\ closing' = closing
        BY <3>3 DEF HandleOutput
      <4>2. CASE delivered' = delivered
        BY <2>1, <4>1, <4>2
      <4>3. CASE delivered' # delivered
        <5>1. HandleExpected /\ ws /\ ~Detached /\ hand # Nothing /\ ~Old(hand) /\ ~Early(hand)
          BY <3>3, <4>3 DEF HandleOutput, HandleOld, HandleEarly, HandleExpected, HandleUnbuffered
        <5>2. PICK next \in Nat :
                /\ next = UpTo(hand + 1) /\ hand = inSeqNum /\ hand < next /\ next <= agent.sent
                /\ delivered \o [i \in 1 .. next - hand |-> hand + i - 1] = [i \in 1 .. next |-> i - 1]
          BY <5>1, ExpectedFacts
        <5>3. delivered' = [i \in 1 .. next |-> i - 1]
          BY <5>1, <5>2 DEF HandleExpected
        <5>4. Len(delivered) = hand /\ hand \in Nat /\ agent.sent \in Nat
          BY <5>2, SsmAssumption DEF SsmInv, TypeOK, InInv, DeliveredExact
        <5>5. next \in Len(delivered) + 1 .. agent.sent
          BY <5>2, <5>4
        <5>6. Stream!Deliver
          BY <4>1, <5>1, <5>3, <5>5 DEF Stream!Deliver, Detached
        <5> QED
          BY <5>6 DEF Stream!Next
      <4> QED
        BY <4>2, <4>3
    <3> QED
      BY <2>7, <3>1, <3>2, <3>3 DEF Reading
  <2>8. CASE Closing
    <3>1. CASE CloseMark
      BY <3>1 DEF CloseMark, Detached, inVars
    <3>2. CASE CloseDetach
      BY <3>2 DEF CloseDetach, Detached, Stream!Close, Stream!Next
    <3>3. CASE CloseSocket
      BY <3>3 DEF CloseSocket, Detached, inVars
    <3> QED
      BY <2>8, <3>1, <3>2, <3>3 DEF Closing
  <2>9. CASE Agent
    <3>1. delivered' = delivered /\ closing' = closing
      BY <2>9 DEF Agent, AgentReceives, AgentSends, inVars
    <3>2. ASSUME NEW m \in toAgent, AgentReceives(m) PROVE agent'.sent = agent.sent
      <4>1. agent' = [agent EXCEPT !.unacked = @ \ {m.num}] \/ \E x, y : agent' = [agent EXCEPT !.expected = x, !.early = y]
        BY <3>2 DEF AgentReceives
      <4> QED
        BY <2>2, <4>1 DEF AgentSet
    <3>3. CASE AgentSends
      <4>1. agent' = agent \/ agent'.sent = agent.sent + 1
        BY <2>2, <3>3 DEF AgentSends, AgentSet
      <4>2. CASE agent' = agent
        BY <2>1, <3>1, <4>2
      <4>3. CASE agent'.sent = agent.sent + 1
        BY <3>1, <4>3 DEF Stream!Send, Stream!Next, Detached
      <4> QED
        BY <4>1, <4>2, <4>3
    <3> QED
      BY <2>1, <2>9, <3>1, <3>2, <3>3 DEF Agent
  <2> QED
    BY <2>3, <2>4, <2>5, <2>6, <2>7, <2>8, <2>9 DEF Next
<1> QED
  BY <1>1, <1>2, SsmInvariant, PTL DEF Spec, ImplementsStream, Stream!Spec
=============================================================================
