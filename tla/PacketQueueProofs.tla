-------------------------- MODULE PacketQueueProofs --------------------------
(***************************************************************************)
(* What the operations on the pool's tables do to the packets in them.     *)
(***************************************************************************)
EXTENDS PacketQueue, SequenceTheorems, FiniteSetTheorems, TLAPS

\* A table of entries in which no packet occurs twice.
Distinct(q) == \A i, j \in DOMAIN q : q[i].pkt = q[j].pkt => i = j

(***************************************************************************)
(* The table of free packets.                                              *)
(***************************************************************************)

\* allocNew(): taking the head of a table of distinct packets takes that packet,
\* and only that one, out of it.
LEMMA TailTakesHead ==
  ASSUME NEW P, NEW u \in Seq(P), u # <<>>, IsInjective(u)
  PROVE  /\ Head(u) \in P /\ Head(u) \in ToSet(u)
         /\ Tail(u) \in Seq(P)
         /\ ToSet(Tail(u)) = ToSet(u) \ {Head(u)}
         /\ IsInjective(Tail(u))
<1>1. /\ Len(u) \in Nat /\ Len(u) > 0 /\ DOMAIN u = 1..Len(u)
      /\ Head(u) \in P /\ Head(u) = u[1]
      /\ Tail(u) \in Seq(P) /\ DOMAIN Tail(u) = 1..(Len(u) - 1)
      /\ \A i \in 1..(Len(u) - 1) : Tail(u)[i] = u[i + 1]
  BY EmptySeq, LenProperties, HeadTailProperties
<1>2. Head(u) \in ToSet(u)
  BY <1>1 DEF ToSet
<1>3. IsInjective(Tail(u))
  BY <1>1 DEF IsInjective
<1>4. ToSet(Tail(u)) \subseteq ToSet(u) \ {Head(u)}
  BY <1>1 DEF ToSet, IsInjective
<1>5. ASSUME NEW x \in ToSet(u) \ {Head(u)} PROVE x \in ToSet(Tail(u))
  <2>1. PICK i \in 1..Len(u) : x = u[i]
    BY <1>1 DEF ToSet
  <2>2. i # 1 /\ i - 1 \in 1..(Len(u) - 1)
    BY <1>1, <2>1
  <2>3. x = Tail(u)[i - 1]
    BY <1>1, <2>1, <2>2
  <2> QED BY <1>1, <2>2, <2>3 DEF ToSet
<1> QED BY <1>1, <1>2, <1>3, <1>4, <1>5

\* free(): appending a packet that is not in the table.
LEMMA AppendAdds ==
  ASSUME NEW P, NEW u \in Seq(P), NEW p \in P, p \notin ToSet(u), IsInjective(u)
  PROVE  /\ Append(u, p) \in Seq(P)
         /\ ToSet(Append(u, p)) = ToSet(u) \cup {p}
         /\ IsInjective(Append(u, p))
<1>1. /\ Len(u) \in Nat /\ DOMAIN u = 1..Len(u)
      /\ Append(u, p) \in Seq(P) /\ DOMAIN Append(u, p) = 1..(Len(u) + 1)
      /\ \A i \in 1..Len(u) : Append(u, p)[i] = u[i]
      /\ Append(u, p)[Len(u) + 1] = p
  BY LenProperties, AppendProperties
<1>2. ToSet(Append(u, p)) = ToSet(u) \cup {p}
  BY <1>1 DEF ToSet
<1>3. IsInjective(Append(u, p))
  BY <1>1 DEF ToSet, IsInjective
<1> QED BY <1>1, <1>2, <1>3

LEMMA IntervalSize ==
  ASSUME NEW n \in Nat
  PROVE  IsFiniteSet(1..n) /\ Cardinality(1..n) = n
<1>1. Cardinality(1..n) = IF 1 > n THEN 0 ELSE n - 1 + 1
  BY FS_Interval
<1> QED BY <1>1, FS_Interval

\* A table of distinct packets that lacks one of the pool's has a free slot.
LEMMA RoomForOneMore ==
  ASSUME NEW P, IsFiniteSet(P), NEW u \in Seq(P), IsInjective(u),
         NEW p \in P, p \notin ToSet(u)
  PROVE  Len(u) < Cardinality(P)
<1>1. Len(u) \in Nat /\ u \in [1..Len(u) -> P] /\ DOMAIN u = 1..Len(u)
  BY LenProperties
<1>2. IsFiniteSet(P \ {p}) /\ Cardinality(P \ {p}) = Cardinality(P) - 1
      /\ Cardinality(P) \in Nat
  BY FS_RemoveElement, FS_CardinalityType
<1>3. u \in Injection(1..Len(u), P \ {p})
  BY <1>1 DEF Injection, IsInjective, ToSet
<1>4. Cardinality(1..Len(u)) <= Cardinality(P \ {p})
  BY <1>2, <1>3, FS_Injection
<1>5. Cardinality(1..Len(u)) = Len(u)
  BY <1>1, IntervalSize
<1> QED BY <1>1, <1>2, <1>4, <1>5

(***************************************************************************)
(* The two queues.                                                         *)
(***************************************************************************)

\* A queue of distinct packets that lacks one of the pool's has a free slot.
LEMMA QueueHasRoom ==
  ASSUME NEW P, IsFiniteSet(P), NEW Pri, NEW T, NEW q \in Seq(Entry(P, Pri, T)),
         Distinct(q), NEW p \in P, p \notin PacketsIn(q)
  PROVE  Len(q) < Cardinality(P)
<1> DEFINE u == [i \in 1..Len(q) |-> q[i].pkt]
<1>0. Len(q) \in Nat /\ DOMAIN q = 1..Len(q)
      /\ \A i \in 1..Len(q) : q[i] \in Entry(P, Pri, T)
  BY LenProperties, ElementOfSeq
<1>1. Len(q) \in Nat /\ DOMAIN q = 1..Len(q) /\ \A i \in 1..Len(q) : q[i].pkt \in P
  BY <1>0 DEF Entry
<1>2. u \in Injection(1..Len(q), P \ {p})
  BY <1>1 DEF Injection, IsInjective, PacketsIn, Distinct
<1>3. IsFiniteSet(P \ {p}) /\ Cardinality(P \ {p}) = Cardinality(P) - 1
      /\ Cardinality(P) \in Nat
  BY FS_RemoveElement, FS_CardinalityType
<1>4. Cardinality(1..Len(q)) <= Cardinality(P \ {p})
  BY <1>2, <1>3, FS_Injection
<1>5. Cardinality(1..Len(q)) = Len(q)
  BY <1>1, IntervalSize
<1> QED BY <1>1, <1>3, <1>4, <1>5

LEMMA AddAdds ==
  ASSUME NEW P, NEW Pri, NEW T, NEW q \in Seq(Entry(P, Pri, T)),
         NEW p \in P, NEW pri \in Pri, NEW at \in T
  PROVE  /\ add(q, p, pri, at) \in Seq(Entry(P, Pri, T))
         /\ PacketsIn(add(q, p, pri, at)) = PacketsIn(q) \cup {p}
         /\ Distinct(q) /\ p \notin PacketsIn(q) => Distinct(add(q, p, pri, at))
<1> DEFINE e == [pkt |-> p, pri |-> pri, at |-> at]
           r == Append(q, e)
<1>1. e \in Entry(P, Pri, T) /\ e.pkt = p
  BY DEF Entry
<1>2. /\ Len(q) \in Nat /\ DOMAIN q = 1..Len(q)
      /\ r \in Seq(Entry(P, Pri, T)) /\ DOMAIN r = 1..(Len(q) + 1)
      /\ \A i \in 1..Len(q) : r[i] = q[i]
      /\ r[Len(q) + 1] = e
  BY <1>1, LenProperties, AppendProperties
<1> HIDE DEF e, r
<1>3. PacketsIn(r) = PacketsIn(q) \cup {p}
  BY <1>1, <1>2 DEF PacketsIn
<1>4. Distinct(q) /\ p \notin PacketsIn(q) => Distinct(r)
  BY <1>1, <1>2 DEF PacketsIn, Distinct
<1>5. add(q, p, pri, at) = r
  BY DEF add, e, r
<1> QED BY <1>2, <1>3, <1>4, <1>5

\* What closing the gap at index k leaves.
LEMMA RemoveAtProperties ==
  ASSUME NEW E, NEW q \in Seq(E), NEW k \in 1..Len(q)
  PROVE  /\ RemoveAt(q, k) \in Seq(E)
         /\ DOMAIN RemoveAt(q, k) = 1..(Len(q) - 1)
         /\ \A i \in 1..(Len(q) - 1) :
              RemoveAt(q, k)[i] = IF i < k THEN q[i] ELSE q[i + 1]
<1>0. Len(q) \in Nat /\ \A i \in 1..Len(q) : q[i] \in E
  BY LenProperties, ElementOfSeq
<1>1. PICK n \in Nat : n = Len(q)
  BY <1>0
<1>2. PICK a : a = SubSeq(q, 1, k - 1)
  OBVIOUS
<1>3. PICK b : b = SubSeq(q, k + 1, n)
  OBVIOUS
<1>4. PICK r : r = a \o b
  OBVIOUS
<1>5. RemoveAt(q, k) = r
  BY <1>1, <1>2, <1>3, <1>4 DEF RemoveAt
<1>6. k \in Nat /\ 1 <= k /\ k <= n
  BY <1>1
<1>7. a \in Seq(E) /\ Len(a) = k - 1 /\ \A i \in 1..(k - 1) : a[i] = q[i]
  <2>1. \A i \in 1..(k - 1) : q[i] \in E
    BY <1>0, <1>1, <1>6
  <2>2. /\ SubSeq(q, 1, k - 1) \in Seq(E)
        /\ Len(SubSeq(q, 1, k - 1)) = IF 1 <= k - 1 THEN (k - 1) - 1 + 1 ELSE 0
        /\ \A i \in 1 .. (k - 1) - 1 + 1 : SubSeq(q, 1, k - 1)[i] = q[1 + i - 1]
    BY <1>6, <2>1, SubSeqProperties
  <2> QED BY <1>2, <1>6, <2>2
<1>8. b \in Seq(E) /\ Len(b) = n - k /\ \A i \in 1..(n - k) : b[i] = q[k + i]
  <2>1. \A i \in (k + 1)..n : q[i] \in E
    BY <1>0, <1>1, <1>6
  <2>2. /\ SubSeq(q, k + 1, n) \in Seq(E)
        /\ Len(SubSeq(q, k + 1, n)) = IF k + 1 <= n THEN n - (k + 1) + 1 ELSE 0
        /\ \A i \in 1 .. n - (k + 1) + 1 : SubSeq(q, k + 1, n)[i] = q[(k + 1) + i - 1]
    BY <1>6, <2>1, SubSeqProperties
  <2>3. b \in Seq(E) /\ Len(b) = n - k
    BY <1>3, <1>6, <2>2
  <2>4. ASSUME NEW i \in 1..(n - k) PROVE b[i] = q[k + i]
    <3>1. i \in 1 .. n - (k + 1) + 1 /\ (k + 1) + i - 1 = k + i
      BY <1>6
    <3> QED BY <1>3, <2>2, <3>1
  <2> QED BY <2>3, <2>4
<1>9. /\ r \in Seq(E) /\ Len(r) = n - 1
      /\ \A i \in 1..(n - 1) : r[i] = IF i <= k - 1 THEN a[i] ELSE b[i - (k - 1)]
  <2>1. /\ a \o b \in Seq(E) /\ Len(a \o b) = Len(a) + Len(b)
        /\ \A i \in 1 .. Len(a) + Len(b) :
             (a \o b)[i] = IF i <= Len(a) THEN a[i] ELSE b[i - Len(a)]
    BY <1>7, <1>8, ConcatProperties
  <2> QED BY <1>4, <1>6, <1>7, <1>8, <2>1, SMTT(30)
<1>10. ASSUME NEW i \in 1..(n - 1)
       PROVE  r[i] = IF i < k THEN q[i] ELSE q[i + 1]
  <2>1. CASE i < k
    BY <1>6, <1>7, <1>9, <2>1
  <2>2. CASE i >= k
    <3>1. i - (k - 1) \in 1..(n - k) /\ k + (i - (k - 1)) = i + 1
      BY <1>6, <2>2
    <3>2. r[i] = b[i - (k - 1)]
      BY <1>6, <1>9, <2>2
    <3> QED BY <1>6, <1>8, <2>2, <3>1, <3>2
  <2> QED BY <1>6, <2>1, <2>2
<1>11. DOMAIN r = 1..(n - 1)
  BY <1>9, LenProperties
<1> QED BY <1>1, <1>5, <1>9, <1>10, <1>11

\* The loop that closes the gap shifts out the entry at its index and no other.
LEMMA RemoveByIdxTakesOne ==
  ASSUME NEW P, NEW Pri, NEW T, NEW q \in Seq(Entry(P, Pri, T)),
         NEW k \in DOMAIN q
  PROVE  /\ removeByIdx(q, k) \in Seq(Entry(P, Pri, T))
         /\ q[k].pkt \in P /\ q[k].pkt \in PacketsIn(q)
         /\ PacketsIn(removeByIdx(q, k)) \subseteq PacketsIn(q)
         /\ Distinct(q) =>
              /\ PacketsIn(removeByIdx(q, k)) = PacketsIn(q) \ {q[k].pkt}
              /\ Distinct(removeByIdx(q, k))
<1>0. Len(q) \in Nat /\ DOMAIN q = 1..Len(q) /\ q[k] \in Entry(P, Pri, T)
  BY LenProperties, ElementOfSeq
<1>1. PICK n \in Nat : n = Len(q)
  BY <1>0
<1>2. PICK r : r = removeByIdx(q, k)
  OBVIOUS
<1>3. DOMAIN q = 1..n /\ k \in 1..n /\ k \in Nat
  BY <1>0, <1>1
<1>4. /\ r \in Seq(Entry(P, Pri, T)) /\ DOMAIN r = 1..(n - 1)
      /\ \A i \in 1..(n - 1) : r[i] = IF i < k THEN q[i] ELSE q[i + 1]
  BY <1>0, <1>1, <1>2, RemoveAtProperties DEF removeByIdx
<1>5. q[k].pkt \in P /\ q[k].pkt \in PacketsIn(q)
  BY <1>0 DEF Entry, PacketsIn
<1>6. PacketsIn(r) \subseteq PacketsIn(q)
  <2> SUFFICES ASSUME NEW i \in 1..(n - 1) PROVE r[i].pkt \in PacketsIn(q)
    BY <1>4 DEF PacketsIn
  <2>1. PICK ii \in 1..n : r[i] = q[ii]
    BY <1>3, <1>4
  <2> QED BY <1>3, <2>1 DEF PacketsIn
<1>7. ASSUME Distinct(q)
      PROVE  PacketsIn(r) = PacketsIn(q) \ {q[k].pkt} /\ Distinct(r)
  <2>0. \A i, j \in 1..n : q[i].pkt = q[j].pkt => i = j
    BY <1>3, <1>7 DEF Distinct
  <2>1. Distinct(r)
    <3> SUFFICES ASSUME NEW i \in 1..(n - 1), NEW j \in 1..(n - 1), r[i].pkt = r[j].pkt
                 PROVE  i = j
      BY <1>4 DEF Distinct
    <3>1. /\ i \in 1..n /\ i + 1 \in 1..n /\ j \in 1..n /\ j + 1 \in 1..n
      OBVIOUS
    <3>2. PICK ii \in 1..n : r[i] = q[ii] /\ ii = IF i < k THEN i ELSE i + 1
      BY <1>4, <3>1
    <3>3. PICK jj \in 1..n : r[j] = q[jj] /\ jj = IF j < k THEN j ELSE j + 1
      BY <1>4, <3>1
    <3>4. ii = jj
      BY <2>0, <3>2, <3>3
    <3> QED BY <1>3, <3>2, <3>3, <3>4
  <2>2. q[k].pkt \notin PacketsIn(r)
    <3> SUFFICES ASSUME NEW i \in 1..(n - 1), r[i].pkt = q[k].pkt PROVE FALSE
      BY <1>4 DEF PacketsIn
    <3>1. PICK ii \in 1..n : r[i] = q[ii] /\ ii = IF i < k THEN i ELSE i + 1
      BY <1>4
    <3> QED BY <1>3, <2>0, <3>1
  <2>3. ASSUME NEW x \in PacketsIn(q), x # q[k].pkt PROVE x \in PacketsIn(r)
    <3>1. PICK i \in 1..n : x = q[i].pkt
      BY <1>3, <2>3 DEF PacketsIn
    <3>2. CASE i < k
      <4>1. i \in 1..(n - 1) /\ r[i] = q[i]
        BY <1>3, <1>4, <3>2
      <4> QED BY <1>4, <3>1, <4>1 DEF PacketsIn
    <3>3. CASE i > k
      <4>1. i - 1 \in 1..(n - 1) /\ r[i - 1] = q[i]
        BY <1>3, <1>4, <3>3
      <4> QED BY <1>4, <3>1, <4>1 DEF PacketsIn
    <3> QED BY <1>3, <2>3, <3>1, <3>2, <3>3
  <2> QED BY <1>6, <2>1, <2>2, <2>3
<1> QED BY <1>2, <1>4, <1>5, <1>6, <1>7

\* The passing of time changes no entry's packet.
LEMMA ElapseKeepsPackets ==
  ASSUME NEW P, NEW Pri, NEW q \in Seq(Entry(P, Pri, Nat))
  PROVE  /\ Elapse(q) \in Seq(Entry(P, Pri, Nat))
         /\ PacketsIn(Elapse(q)) = PacketsIn(q)
         /\ Distinct(q) => Distinct(Elapse(q))
<1> DEFINE E == Entry(P, Pri, Nat)
           later(i) == [q[i] EXCEPT !.at = IF @ > 0 THEN @ - 1 ELSE 0]
<1>1. Len(q) \in Nat /\ DOMAIN q = 1..Len(q) /\ \A i \in 1..Len(q) : q[i] \in E
  BY LenProperties, ElementOfSeq
<1>2. \A i \in 1..Len(q) : later(i) \in E /\ later(i).pkt = q[i].pkt
  BY <1>1 DEF Entry
<1>3. Elapse(q) = [i \in 1..Len(q) |-> later(i)]
  BY <1>1 DEF Elapse
<1> HIDE DEF later
<1>4. [i \in 1..Len(q) |-> later(i)] \in Seq(E)
  BY <1>1, <1>2, IsASeq
<1>5. DOMAIN Elapse(q) = 1..Len(q) /\ \A i \in 1..Len(q) : Elapse(q)[i].pkt = q[i].pkt
  BY <1>2, <1>3
<1> QED BY <1>1, <1>3, <1>4, <1>5 DEF PacketsIn, Distinct

(***************************************************************************)
(* The scan of PacketQueue::get().                                         *)
(***************************************************************************)

\* A queue with an entry that is due has a best one: the priorities order a
\* finite set of indices, so the sets of entries not worse than a given one
\* have a smallest member.
LEMMA BestIndexExists ==
  ASSUME NEW P, NEW Pri, Pri \subseteq Nat, NEW T, T \subseteq Int,
         NEW q \in Seq(Entry(P, Pri, T)), NonFuture(q) # {}
  PROVE  /\ BestIndex(q) \in NonFuture(q) /\ BestIndex(q) \in DOMAIN q
         /\ \A j \in NonFuture(q) : Preferred(q, BestIndex(q), j)
<1>1. PICK S : S = NonFuture(q)
  OBVIOUS
<1> DEFINE better(i) == {j \in S : Preferred(q, j, i)}
           F == {better(i) : i \in S}
<1>2. Len(q) \in Nat /\ DOMAIN q = 1..Len(q)
      /\ \A i \in 1..Len(q) : q[i] \in Entry(P, Pri, T)
  BY LenProperties, ElementOfSeq
<1>3. S \subseteq 1..Len(q) /\ S # {}
  BY <1>1, <1>2 DEF NonFuture
<1>4. \A i \in S : i \in Nat /\ q[i].pri \in Nat
  <2> SUFFICES ASSUME NEW i \in S PROVE i \in Nat /\ q[i].pri \in Nat
    OBVIOUS
  <2>1. i \in Nat /\ q[i] \in Entry(P, Pri, T)
    BY <1>2, <1>3
  <2>2. q[i].pri \in Pri
    BY <2>1 DEF Entry
  <2> QED BY <2>1, <2>2
<1>5. IsFiniteSet(S)
  BY <1>2, <1>3, IntervalSize, FS_Subset
<1>6. F \subseteq SUBSET S /\ F # {}
  BY <1>3
<1>7. PICK D \in F : \A C \in F : ~(<<C, D>> \in StrictSubsetOrdering(S))
  <2>1. IsWellFoundedOn(StrictSubsetOrdering(S), SUBSET S)
    BY <1>5, FS_StrictSubsetOrderingWellFounded, FS_FiniteSubsetsOfFinite
  <2> HIDE DEF F
  <2> QED BY <1>6, <2>1, WFMin
<1>8. PICK i \in S : D = better(i)
  OBVIOUS
<1>9. ASSUME NEW j \in S, ~Preferred(q, i, j) PROVE FALSE
  <2>1. better(j) \subseteq better(i)
    BY <1>4, <1>9 DEF Preferred
  <2>2. i \in better(i) /\ i \notin better(j)
    BY <1>4, <1>9 DEF Preferred
  <2>3. better(j) \in F /\ <<better(j), better(i)>> \in StrictSubsetOrdering(S)
    BY <2>1, <2>2 DEF StrictSubsetOrdering
  <2> QED BY <1>7, <1>8, <2>3
<1>10. \E k \in S : \A j \in S : Preferred(q, k, j)
  BY <1>9
<1>11. BestIndex(q) \in S /\ \A j \in S : Preferred(q, BestIndex(q), j)
  BY <1>1, <1>10 DEF BestIndex
<1> QED BY <1>1, <1>2, <1>3, <1>11
=============================================================================
