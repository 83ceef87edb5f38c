----------------------------- MODULE RoomProofs -----------------------------
(***************************************************************************)
(* The room server, whatever its size, its clients and their wishes: its   *)
(* tables stay well formed, and no post is taken for received that was     *)
(* not.  The invariant is stated per entry and per message over the posts  *)
(* P, the nodes A, the newest timestamp K and the one B up to which posts  *)
(* do not count, so that a step which changes only these is dealt with     *)
(* once, in LaterAll.  Over it, a second invariant counts: no text is      *)
(* stored twice, and no silent node is pushed to without end.              *)
(***************************************************************************)
EXTENDS Room, TLAPS, FiniteSetTheorems, WellFoundedInduction

Slots == 0..RingSize - 1
Post == [stamp : Nat, author : Nodes \union {NoNode}]
Peer == [stamp : Int, since : Nat, got : SUBSET Nat, logins : Nat, sent : Seq(Int),
         acked : SUBSET Nat, orders : SUBSET Commands]

\* node c has every post of P after B and up to s that is not its own
Caught(c, s, P, A, B) ==
  \A k \in Slots : P[k].stamp \in B + 1 .. s /\ P[k].author # c => P[k].stamp \in A[c].got

\* What holds of a seat: the client has everything up to `since', and up to the
\* post before the one that it is being pushed.
EntryOK(e, P, A, B, K) ==
  /\ e.since <= K /\ e.failures <= MaxFailures
  /\ e.id \in Nodes => Caught(e.id, e.since, P, A, B)
  /\ e.id = NoNode => e.activity = 0 /\ e.pending = NoAck
  /\ e.pending # NoAck =>
       /\ e.pending.stamp = e.pushed /\ e.pushed \in 1..K /\ e.failures < MaxFailures
       /\ Caught(e.id, e.pushed - 1, P, A, B)

\* the first n seats of T are those of different nodes
TableOK(T, n, P, A, B, K) ==
  /\ T \in [Seats -> Entry] /\ n \in 0..Capacity
  /\ \A i \in 1..n : T[i].id \in Nodes
  /\ \A i, j \in 1..n : T[i].id = T[j].id => i = j
  /\ \A i \in Seats : EntryOK(T[i], P, A, B, K)

\* the posts are in order, from the slot that is overwritten next
RingOK(P, n, L, B, K) ==
  /\ L \in Nat /\ B \in Nat /\ K \in Nat /\ L <= K /\ B <= K /\ K \in {L, B}
  /\ P \in [Slots -> Post] /\ n \in Slots /\ \A k \in Slots : P[k].stamp <= L
  /\ \A j, k \in Slots :
       j < k => \/ P[(n + j) % RingSize].stamp = 0
                \/ P[(n + j) % RingSize].stamp < P[(n + k) % RingSize].stamp

\* What holds of a message: `since' is the node's, who has everything up to it; a
\* push comes after everything before it, and its ack after the push.
MsgOK(m, P, A, B, K) ==
  \/ /\ m.kind \in {"login", "request"}
     /\ m.from \in Nodes /\ m.stamp \in Int /\ m.since \in 0..K /\ Caught(m.from, m.since, P, A, B)
  \/ m.kind = "text" /\ m.from \in Nodes /\ m.stamp \in Int /\ m.text \in Nat
  \/ m.kind = "command" /\ m.from \in Nodes /\ m.stamp \in Int /\ m.cmd \in Commands
  \/ m.kind = "ack" /\ m.to \in Nodes /\ m.text \in Nat
  \/ /\ m.kind = "push"
     /\ m.to \in Nodes /\ m.ack \in Acks /\ m.ack.stamp \in 1..K /\ Caught(m.to, m.ack.stamp - 1, P, A, B)
  \/ /\ m.kind = "pushAck"
     /\ m.from \in Nodes /\ m.ack \in Acks /\ m.ack.stamp \in A[m.from].got /\ m.ack.stamp > 0

PeerOK(c, P, A, B, K) == A[c].since <= K /\ Caught(c, A[c].since, P, A, B)
AppOK(P, A, B, K) == A \in [Nodes -> Peer] /\ \A c \in Nodes : PeerOK(c, P, A, B, K)

FileOK(F, K) ==
  /\ F \in Seq(Entry) /\ Len(F) <= Capacity
  /\ \A i \in DOMAIN F : F[i].id \in Nodes /\ F[i].since <= K
  /\ \A i, j \in DOMAIN F : F[i].id = F[j].id => i = j

IInv ==
  /\ room \in Setting
  /\ TableOK(clients, num, posts, app, past, newest) /\ nextClient \in 0..Capacity - 1
  /\ RingOK(posts, nextPost, last_unique, past, newest)
  /\ FileOK(saved, newest) /\ dirty \in BOOLEAN /\ boots \in Nat
  /\ \A m \in net : MsgOK(m, posts, app, past, newest)
  /\ AppOK(posts, app, past, newest)

-----------------------------------------------------------------------------
(* Numbers *)

\* The sets of smaller numbers are finite, so one of them has no part among the others.
LEMMA MinOf ==
  ASSUME NEW S \in SUBSET Nat, S # {}
  PROVE  Min(S) \in S /\ \A y \in S : Min(S) <= y
<1>1. PICK top \in S : TRUE
  OBVIOUS
<1> DEFINE Below(i) == {j \in 0..top : j < i}
           F == {Below(i) : i \in S \intersect 0..top}
<1>2. IsWellFoundedOn(StrictSubsetOrdering(0..top), SUBSET (0..top))
  <2>1. IsFiniteSet(0..top)
    BY FS_Interval
  <2> QED BY <2>1, FS_StrictSubsetOrderingWellFounded, FS_FiniteSubsetsOfFinite
<1>3. F \subseteq SUBSET (0..top) /\ F # {}
  <2>1. top \in S \intersect 0..top
    BY <1>1
  <2> QED BY <2>1
<1>4. PICK D \in F : \A C \in F : ~(<<C, D>> \in StrictSubsetOrdering(0..top))
  <2> HIDE DEF F
  <2> QED BY <1>2, <1>3, WFMin
<1>5. PICK x \in S \intersect 0..top : D = Below(x)
  OBVIOUS
<1>6. \A y \in S : x <= y
  <2> SUFFICES ASSUME NEW y \in S, y < x PROVE FALSE
    OBVIOUS
  <2>1. y \in 0..top /\ Below(y) \subseteq Below(x) /\ y \in Below(x) /\ y \notin Below(y)
    BY <1>5
  <2>2. Below(y) \in F /\ <<Below(y), Below(x)>> \in StrictSubsetOrdering(0..top)
    BY <2>1 DEF StrictSubsetOrdering
  <2> QED BY <1>4, <1>5, <2>2
<1> QED BY <1>6 DEF Min

\* the slot of a turn, and the turn of a slot
LEMMA Turns ==
  ASSUME NEW n \in Slots, NEW k \in Slots
  PROVE  /\ (n + k) % RingSize = IF n + k < RingSize THEN n + k ELSE n + k - RingSize
         /\ (n + k) % RingSize \in Slots
         /\ (n + 1) % RingSize = IF n + 1 < RingSize THEN n + 1 ELSE 0
         /\ (n + 1) % RingSize \in Slots
<1>1. RingSize \in Nat \ {0} /\ n \in Nat /\ k \in Nat /\ n < RingSize /\ k < RingSize
  BY SizeAssumption DEF Slots
<1>2. \A x \in Nat, y \in Nat \ {0} : x < y => x % y = x
  OBVIOUS
<1>3. \A x \in Nat, y \in Nat \ {0} : x >= y /\ x < y + y => x % y = x - y
  OBVIOUS
<1>4. (n + k) % RingSize = IF n + k < RingSize THEN n + k ELSE n + k - RingSize
  <2>1. PICK x \in Nat : x = n + k
    BY <1>1
  <2>2. x < RingSize + RingSize
    BY <1>1, <2>1
  <2>3. CASE x < RingSize
    BY <1>1, <1>2, <2>1, <2>3
  <2>4. CASE x >= RingSize
    <3>1. x % RingSize = x - RingSize
      BY <1>1, <1>3, <2>2, <2>4
    <3> QED BY <1>1, <2>1, <2>4, <3>1
  <2> QED BY <1>1, <2>1, <2>3, <2>4
<1>5. (n + 1) % RingSize = IF n + 1 < RingSize THEN n + 1 ELSE 0
  <2>1. PICK x \in Nat : x = n + 1
    BY <1>1
  <2>3. CASE x < RingSize
    BY <1>1, <1>2, <2>1, <2>3
  <2>4. CASE x >= RingSize
    <3>1. x = RingSize /\ x < RingSize + RingSize
      BY <1>1, <2>1, <2>4
    <3>2. x % RingSize = x - RingSize
      BY <1>1, <1>3, <2>4, <3>1
    <3> QED BY <1>1, <2>1, <3>1, <3>2
  <2> QED BY <1>1, <2>1, <2>3, <2>4
<1> QED BY <1>1, <1>4, <1>5 DEF Slots

\* Once the slot of the next turn has moved on, every turn comes one earlier.
LEMMA TurnsMoveOn ==
  ASSUME NEW n \in Slots, NEW k \in Slots, NEW n2, n2 = (n + 1) % RingSize
  PROVE  /\ k + 1 < RingSize => /\ k + 1 \in Slots /\ (n2 + k) % RingSize = (n + (k + 1)) % RingSize
                               /\ (n2 + k) % RingSize \in Slots /\ (n2 + k) % RingSize # n
         /\ k + 1 = RingSize => (n2 + k) % RingSize = n
<1>1. n2 \in Slots
  BY SizeAssumption, Turns DEF Slots
<1>2. PICK slot \in Slots : slot = (n2 + k) % RingSize
  BY <1>1, Turns
<1>3. RingSize \in Nat \ {0} /\ n \in Nat /\ k \in Nat /\ n < RingSize /\ k < RingSize
  BY SizeAssumption DEF Slots
<1>4. n2 = IF n + 1 < RingSize THEN n + 1 ELSE 0
  BY Turns
<1>5. slot = IF n2 + k < RingSize THEN n2 + k ELSE n2 + k - RingSize
  BY <1>1, <1>2, Turns
<1>6. CASE k + 1 < RingSize
  <2>1. k + 1 \in Slots
    BY <1>3, <1>6 DEF Slots
  <2>2. PICK x \in Slots : x = (n + (k + 1)) % RingSize
    BY <2>1, Turns
  <2>3. x = IF n + (k + 1) < RingSize THEN n + (k + 1) ELSE n + (k + 1) - RingSize
    BY <2>1, <2>2, Turns
  <2>4. slot = x /\ slot # n
    <3>1. CASE n + 1 < RingSize
      BY <1>3, <1>4, <1>5, <1>6, <2>3, <3>1
    <3>2. CASE ~(n + 1 < RingSize)
      BY <1>3, <1>4, <1>5, <1>6, <2>3, <3>2
    <3> QED BY <3>1, <3>2
  <2>5. k + 1 # RingSize
    BY <1>3, <1>6
  <2> QED BY <1>1, <1>2, <1>6, <2>1, <2>2, <2>4, <2>5
<1>7. CASE k + 1 = RingSize
  <2>1. slot = n
    <3>1. CASE n + 1 < RingSize
      BY <1>3, <1>4, <1>5, <1>7, <3>1
    <3>2. CASE ~(n + 1 < RingSize)
      BY <1>3, <1>4, <1>5, <1>7, <3>2
    <3> QED BY <3>1, <3>2
  <2>2. ~(k + 1 < RingSize)
    BY <1>3, <1>7
  <2> QED BY <1>1, <1>2, <1>7, <2>1, <2>2
<1> QED BY <1>3, <1>6, <1>7

LEMMA SlotsNonEmpty == 0 \in Slots /\ 0 \in 0..Capacity - 1 /\ Capacity \in Nat \ {0} /\ RingSize \in Nat \ {0} /\ MaxFailures \in Nat
BY SizeAssumption DEF Slots

-----------------------------------------------------------------------------
(* New posts, and posts received *)

\* P2, A2, B2 and K2 come after P, A, B and K: posts newer than K, or that do not
\* count, and more received
Later(P, A, B, K, P2, A2, B2, K2) ==
  /\ K \in Nat /\ K2 \in Nat /\ K <= K2 /\ B \in Nat /\ B2 \in Nat /\ B <= B2
  /\ \A k \in Slots :
       P2[k].stamp \in Nat /\ (P2[k] = P[k] \/ P2[k].stamp <= B2 \/ P2[k].stamp > K)
  /\ \A c \in Nodes : A[c].got \subseteq A2[c].got

LEMMA LaterCaught ==
  ASSUME NEW P, NEW A, NEW B, NEW K, NEW P2, NEW A2, NEW B2, NEW K2, Later(P, A, B, K, P2, A2, B2, K2),
         NEW c \in Nodes, NEW s \in Int, s <= K, Caught(c, s, P, A, B)
  PROVE  Caught(c, s, P2, A2, B2)
<1> SUFFICES ASSUME NEW k \in Slots, P2[k].stamp \in B2 + 1 .. s, P2[k].author # c
             PROVE  P2[k].stamp \in A2[c].got
  BY DEF Caught
<1>1. P2[k] = P[k]
  BY DEF Later
<1> QED BY <1>1 DEF Later, Caught

LEMMA LaterEntry ==
  ASSUME NEW P, NEW A, NEW B, NEW K, NEW P2, NEW A2, NEW B2, NEW K2, Later(P, A, B, K, P2, A2, B2, K2),
         NEW e \in Entry, EntryOK(e, P, A, B, K)
  PROVE  EntryOK(e, P2, A2, B2, K2)
<1>1. e.since \in Nat /\ e.since <= K /\ e.since <= K2 /\ K \in Nat /\ K2 \in Nat /\ K <= K2
  BY DEF Entry, EntryOK, Later
<1>2. e.id \in Nodes => Caught(e.id, e.since, P2, A2, B2)
  BY <1>1, LaterCaught DEF EntryOK
<1>3. ASSUME e.pending # NoAck
      PROVE  e.pushed \in 1..K2 /\ Caught(e.id, e.pushed - 1, P2, A2, B2)
  <2>1. e.id \in Nodes /\ e.pushed \in 1..K /\ Caught(e.id, e.pushed - 1, P, A, B)
    BY <1>3 DEF EntryOK, Entry
  <2>2. e.pushed - 1 \in Int /\ e.pushed - 1 <= K /\ e.pushed \in 1..K2
    BY <1>1, <2>1
  <2> QED BY <2>1, <2>2, LaterCaught
<1> QED BY <1>1, <1>2, <1>3 DEF EntryOK

LEMMA LaterTable ==
  ASSUME NEW P, NEW A, NEW B, NEW K, NEW P2, NEW A2, NEW B2, NEW K2, Later(P, A, B, K, P2, A2, B2, K2),
         NEW T, NEW n, TableOK(T, n, P, A, B, K)
  PROVE  TableOK(T, n, P2, A2, B2, K2)
BY LaterEntry DEF TableOK

LEMMA LaterMsg ==
  ASSUME NEW P, NEW A, NEW B, NEW K, NEW P2, NEW A2, NEW B2, NEW K2, Later(P, A, B, K, P2, A2, B2, K2),
         NEW m, MsgOK(m, P, A, B, K)
  PROVE  MsgOK(m, P2, A2, B2, K2)
<1>1. K \in Nat /\ K2 \in Nat /\ K <= K2
  BY DEF Later
<1>2. ASSUME m.from \in Nodes, m.since \in 0..K, Caught(m.from, m.since, P, A, B)
      PROVE  m.since \in 0..K2 /\ Caught(m.from, m.since, P2, A2, B2)
  BY <1>1, <1>2, LaterCaught
<1>3. ASSUME m.to \in Nodes, m.ack.stamp \in 1..K, Caught(m.to, m.ack.stamp - 1, P, A, B)
      PROVE  m.ack.stamp \in 1..K2 /\ Caught(m.to, m.ack.stamp - 1, P2, A2, B2)
  <2>1. m.ack.stamp - 1 \in Int /\ m.ack.stamp - 1 <= K /\ m.ack.stamp \in 1..K2
    BY <1>1, <1>3
  <2> QED BY <1>3, <2>1, LaterCaught
<1>4. ASSUME m.from \in Nodes, m.ack.stamp \in A[m.from].got
      PROVE  m.ack.stamp \in A2[m.from].got
  BY <1>4 DEF Later
<1> QED BY <1>2, <1>3, <1>4 DEF MsgOK

-----------------------------------------------------------------------------
(* The table of clients *)

\* a change to a seat that keeps its owner
LEMMA SeatChanged ==
  ASSUME NEW P, NEW A, NEW B, NEW K, NEW T, NEW n, TableOK(T, n, P, A, B, K),
         NEW i \in Seats, NEW e \in Entry, e.id = T[i].id, EntryOK(e, P, A, B, K)
  PROVE  TableOK([T EXCEPT ![i] = e], n, P, A, B, K)
<1> DEFINE T2 == [T EXCEPT ![i] = e]
<1>1. T2 \in [Seats -> Entry] /\ \A j \in Seats : T2[j] = IF j = i THEN e ELSE T[j]
  BY DEF TableOK
<1>2. n \in 0..Capacity /\ 1..n \subseteq Seats
  BY SlotsNonEmpty DEF TableOK, Seats
<1>3. \A j \in Seats : T2[j].id = T[j].id
  BY <1>1
<1> HIDE DEF T2
<1> QED BY <1>1, <1>2, <1>3 DEF TableOK

\* putClient() finds or makes a seat, also one that has to be taken from another.
LEMMA SeatFound ==
  ASSUME NEW P, NEW A, NEW B, NEW K, TableOK(clients, num, P, A, B, K), NEW id \in Nodes
  PROVE  /\ Holds(id) => SeatOf(id) \in 1..num /\ clients[SeatOf(id)].id = id
         /\ Seat(id) \in Seats
         /\ ~Holds(id) => Seat(id) = IF num < Capacity THEN num + 1 ELSE Oldest
<1>1. num \in Nat /\ Capacity \in Nat \ {0} /\ num <= Capacity
  BY SlotsNonEmpty DEF TableOK
<1>2. Holds(id) => SeatOf(id) \in 1..num /\ clients[SeatOf(id)].id = id
  BY DEF Holds, SeatOf, Taken
<1>3. Oldest \in Seats
  <2> DEFINE others == {i \in Taken : clients[i].perm # "admin"}
             ranks == {clients[i].activity : i \in others}
             first == {i \in others : clients[i].activity = Min(ranks)}
  <2>1. CASE others = {}
    BY <1>1, <2>1 DEF Oldest, Seats
  <2>2. CASE others # {}
    <3>1. others \subseteq Seats /\ \A i \in others : clients[i].activity \in Nat
      <4>1. others \subseteq 1..num /\ 1..num \subseteq Seats
        BY <1>1 DEF Taken, Seats
      <4>2. \A i \in Seats : clients[i].activity \in Nat
        BY DEF TableOK, Entry
      <4> HIDE DEF others
      <4> QED BY <4>1, <4>2
    <3>2. Min(ranks) \in ranks
      <4>1. ranks \in SUBSET Nat /\ ranks # {}
        BY <2>2, <3>1
      <4> HIDE DEF ranks
      <4> QED BY <4>1, MinOf
    <3>3. Min(first) \in first
      <4>1. PICK least : least = Min(ranks)
        OBVIOUS
      <4>2. PICK j \in others : clients[j].activity = least
        BY <3>2, <4>1
      <4> HIDE DEF ranks, others
      <4>3. j \in first
        BY <4>1, <4>2
      <4>4. first = {i \in others : clients[i].activity = least}
        BY <4>1
      <4>5. \A i \in first : i \in others
        BY <4>4
      <4>6. \A i \in others : i \in Nat
        <5>1. \A i \in Seats : i \in Nat
          BY <1>1 DEF Seats
        <5>2. \A i \in others : i \in Seats
          BY <3>1
        <5> QED BY <5>1, <5>2
      <4> HIDE DEF first
      <4>7. first \in SUBSET Nat
        BY <4>5, <4>6
      <4> QED BY <4>3, <4>7, MinOf
    <3>4. Oldest = Min(first)
      BY <2>2 DEF Oldest
    <3>5. first \subseteq Seats
      BY <3>1
    <3> HIDE DEF first
    <3> QED BY <3>3, <3>4, <3>5
  <2> QED BY <2>1, <2>2
<1> QED BY <1>1, <1>2, <1>3 DEF Seat, Seats

LEMMA PutOK ==
  ASSUME NEW P, NEW A, NEW B \in Nat, NEW K \in Nat, \A k \in Slots : P[k].stamp \in Nat,
         TableOK(clients, num, P, A, B, K), NEW t, TableOK(t, num, P, A, B, K),
         \A i \in 1..num : t[i].id = clients[i].id, NEW id \in Nodes,
         NEW put, put = putClient(t, id)
  PROVE  /\ TableOK(put.table, put.num, P, A, B, K)
         /\ Seat(id) \in 1..put.num /\ put.table[Seat(id)].id = id
<1>1. num \in Nat /\ Capacity \in Nat \ {0} /\ num <= Capacity /\ MaxFailures \in Nat
  BY SlotsNonEmpty DEF TableOK
<1>2. CASE Holds(id)
  <2>1. put.table = t /\ put.num = num /\ Seat(id) = SeatOf(id)
    BY <1>2 DEF putClient, Seat
  <2> QED BY <1>2, <2>1, SeatFound
<1>3. CASE ~Holds(id)
  <2> DEFINE s == Seat(id)  e == Blank(id, "guest")
  <2>1. s \in Seats /\ s = IF num < Capacity THEN num + 1 ELSE Oldest
    BY <1>3, SeatFound
  <2>2. put.table = [t EXCEPT ![s] = e] /\ put.num = IF num = Capacity THEN num ELSE num + 1
    BY <1>3 DEF putClient
  <2>3. e \in Entry /\ e.id = id /\ e.since = 0 /\ e.pending = NoAck /\ e.failures = 0
    BY DEF Blank, Entry, Perms, Acks, NoAck
  <2>4. EntryOK(e, P, A, B, K)
    <3>1. Caught(id, 0, P, A, B)
      BY DEF Caught
    <3> QED BY <1>1, <2>3, <3>1, NodeAssumption DEF EntryOK
  <2>5. \A i \in 1..num : t[i].id # id
    BY <1>3 DEF Holds, Taken
  <2> HIDE DEF s, e
  <2>6. put.num \in 0..Capacity /\ s \in 1..put.num /\ 1..put.num \subseteq Seats
    <3>1. CASE num < Capacity
      BY <1>1, <2>1, <2>2, <3>1 DEF Seats
    <3>2. CASE num = Capacity
      BY <1>1, <2>1, <2>2, <3>2 DEF Seats
    <3> QED BY <1>1, <3>1, <3>2
  <2>7. put.table \in [Seats -> Entry] /\ \A j \in Seats : put.table[j] = IF j = s THEN e ELSE t[j]
    BY <2>1, <2>2, <2>3 DEF TableOK
  <2>8. \A j \in 1..put.num : j = s \/ j \in 1..num
    <3>1. CASE num < Capacity
      BY <1>1, <2>1, <2>2, <3>1
    <3>2. CASE num = Capacity
      BY <1>1, <2>2, <3>2
    <3> QED BY <1>1, <3>1, <3>2
  <2>9. \A i \in 1..put.num : put.table[i].id \in Nodes
    BY <2>3, <2>6, <2>7, <2>8 DEF TableOK
  <2>10. ASSUME NEW i \in 1..put.num, NEW j \in 1..put.num, put.table[i].id = put.table[j].id
         PROVE  i = j
    <3>1. i \in Seats /\ j \in Seats
      BY <2>6
    <3>2. CASE i = s
      BY <2>3, <2>5, <2>7, <2>8, <2>10, <3>1, <3>2
    <3>3. CASE j = s
      BY <2>3, <2>5, <2>7, <2>8, <2>10, <3>1, <3>3
    <3>4. CASE i # s /\ j # s
      BY <2>7, <2>8, <2>10, <3>1, <3>4 DEF TableOK
    <3> QED BY <3>2, <3>3, <3>4
  <2>11. \A i \in Seats : EntryOK(put.table[i], P, A, B, K)
    BY <2>4, <2>7 DEF TableOK
  <2>12. put.table[s].id = id
    BY <2>1, <2>3, <2>7
  <2> QED BY <2>6, <2>7, <2>9, <2>10, <2>11, <2>12 DEF TableOK, s
<1> QED BY <1>2, <1>3

\* The ranks of last_activity concern no other field.
LEMMA TouchedOK ==
  ASSUME NEW P, NEW A, NEW B, NEW K, num \in 0..Capacity, NEW T, NEW n, TableOK(T, n, P, A, B, K), NEW i \in 1..n,
         NEW T2, T2 = Touched(T, i)
  PROVE  TableOK(T2, n, P, A, B, K) /\ \A j \in Seats : T2[j].id = T[j].id
<1> DEFINE others == {k \in Taken \ {i} : T[k].activity # 0}
           Rank(j) == Cardinality({k \in others : T[k].activity <= T[j].activity})
           act(j) == IF j = i THEN Cardinality(others) + 1 ELSE IF j \in others THEN Rank(j) ELSE T[j].activity
<1>1. n \in 0..Capacity /\ 1..n \subseteq Seats /\ i \in Seats /\ num \in Nat
  BY SlotsNonEmpty DEF TableOK, Seats
<1>2. Cardinality(others) \in Nat /\ \A j \in Seats : Rank(j) \in Nat
  <2>1. IsFiniteSet(Taken)
    BY <1>1, FS_Interval DEF Taken
  <2>2. others \subseteq Taken /\ \A j \in Seats : {k \in others : T[k].activity <= T[j].activity} \subseteq Taken
    OBVIOUS
  <2> QED BY <2>1, <2>2, FS_Subset, FS_CardinalityType
<1>3. T \in [Seats -> Entry]
  BY DEF TableOK
<1>4. T2 = [j \in Seats |-> [T[j] EXCEPT !.activity = act(j)]]
  BY DEF Touched
<1>5. \A j \in Seats : act(j) \in Nat
  BY <1>2, <1>3 DEF Entry
<1>6. ASSUME NEW j \in Seats
      PROVE  /\ T2[j] \in Entry /\ T2[j].id = T[j].id /\ T2[j].since = T[j].since
             /\ T2[j].failures = T[j].failures /\ T2[j].pending = T[j].pending /\ T2[j].pushed = T[j].pushed
             /\ T2[j].activity = act(j)
  <2> HIDE DEF act
  <2> QED BY <1>3, <1>4, <1>5 DEF Entry
<1>7. ASSUME NEW j \in Seats, T[j].id = NoNode PROVE act(j) = 0
  <2>1. j # i
    BY <1>7, NodeAssumption DEF TableOK
  <2>2. T[j].activity = 0
    BY <1>7 DEF TableOK, EntryOK
  <2> QED BY <2>1, <2>2
<1> HIDE DEF act
<1>8. \A j \in Seats : EntryOK(T2[j], P, A, B, K)
  BY <1>6, <1>7 DEF TableOK, EntryOK
<1> QED BY <1>1, <1>4, <1>6, <1>8 DEF TableOK

LEMMA WithoutOK ==
  ASSUME NEW P, NEW A, NEW B, NEW K, NEW T, TableOK(T, num, P, A, B, K), NEW i \in 1..num,
         NEW T2, T2 = Without(T, i)
  PROVE  TableOK(T2, num - 1, P, A, B, K)
<1>1. num \in Nat \ {0} /\ num - 1 \in 0..Capacity /\ num <= Capacity /\ Capacity \in Nat /\ i \in Nat
  BY SlotsNonEmpty DEF TableOK
<1>2. \A j \in Seats : T2[j] = IF j >= i /\ j < num THEN T[j + 1] ELSE T[j]
  BY DEF Without
<1>3. \A j \in Seats : j >= i /\ j < num => j + 1 \in Seats
  BY <1>1 DEF Seats
<1>4. T2 \in [Seats -> Entry]
  BY <1>3 DEF Without, TableOK
<1>5. \A j \in 1..(num - 1) : j \in Seats /\ j < num /\ j \in Nat /\ j \in 1..num /\ j + 1 \in 1..num
  BY <1>1 DEF Seats
<1>6. \A j \in 1..(num - 1) : T2[j].id \in Nodes
  BY <1>2, <1>5 DEF TableOK
<1>7. \A j, k \in 1..(num - 1) : T2[j].id = T2[k].id => j = k
  <2> SUFFICES ASSUME NEW j \in 1..(num - 1), NEW k \in 1..(num - 1), T2[j].id = T2[k].id PROVE j = k
    OBVIOUS
  <2>1. CASE j >= i /\ k >= i
    <3>1. j + 1 = k + 1
      BY <1>2, <1>5, <2>1 DEF TableOK
    <3> QED BY <3>1, <1>5
  <2>2. CASE j >= i /\ ~(k >= i)
    <3>1. j + 1 = k
      BY <1>2, <1>5, <2>2 DEF TableOK
    <3> QED BY <1>1, <1>5, <2>2, <3>1
  <2>3. CASE ~(j >= i) /\ k >= i
    <3>1. k + 1 = j
      BY <1>2, <1>5, <2>3 DEF TableOK
    <3> QED BY <1>1, <1>5, <2>3, <3>1
  <2>4. CASE ~(j >= i) /\ ~(k >= i)
    BY <1>2, <1>5, <2>4 DEF TableOK
  <2> QED BY <2>1, <2>2, <2>3, <2>4
<1>8. \A j \in Seats : EntryOK(T2[j], P, A, B, K)
  BY <1>2, <1>3 DEF TableOK
<1> QED BY <1>1, <1>4, <1>6, <1>7, <1>8 DEF TableOK

-----------------------------------------------------------------------------
(* The parts of a step *)

\* A step that leaves the posts alone: the table and the messages remain to be shown.
LEMMA Still ==
  ASSUME IInv, UNCHANGED <<room, ring, app>>,
         TableOK(clients', num', posts, app, past, newest), nextClient' \in 0..Capacity - 1,
         FileOK(saved', newest), dirty' \in BOOLEAN /\ boots' \in Nat, \A m \in net' : MsgOK(m, posts, app, past, newest)
  PROVE  IInv'
BY DEF IInv, ring

LEMMA StoreOK ==
  ASSUME IInv, NEW author \in Nodes \union {NoNode}, storePost(author), app' = app
  PROVE  RingOK(posts', nextPost', last_unique', past', newest') /\ Later(posts, app, past, newest, posts', app', past', newest')
<1>1. /\ newest \in Nat /\ past \in Nat /\ last_unique \in Nat /\ last_unique <= newest /\ past <= newest /\ newest \in {last_unique, past}
      /\ posts \in [Slots -> Post] /\ nextPost \in Slots /\ \A k \in Slots : posts[k].stamp <= last_unique
  BY DEF IInv, RingOK
<1> PICK stamp \in getCurrentTimeUnique :
      /\ posts' = [posts EXCEPT ![nextPost] = [stamp |-> stamp, author |-> author]]
      /\ last_unique' = stamp /\ newest' = (IF stamp > newest THEN stamp ELSE newest)
  BY DEF storePost
<1> DEFINE p == [stamp |-> stamp, author |-> author]
<1>2. stamp \in Nat /\ stamp > last_unique /\ p \in Post
  <2>1. room.leap \in Nat
    BY DEF IInv, Setting
  <2> QED BY <1>1, <2>1 DEF getCurrentTimeUnique, Post
<1>3. /\ posts' \in [Slots -> Post] /\ \A k \in Slots : posts'[k] = IF k = nextPost THEN p ELSE posts[k]
      /\ nextPost' = (nextPost + 1) % RingSize /\ past' = past
      /\ newest' \in Nat /\ newest <= newest' /\ stamp <= newest'
  <2>1. posts' = [posts EXCEPT ![nextPost] = p]
    OBVIOUS
  <2>2. nextPost' = (nextPost + 1) % RingSize /\ past' = past
    BY DEF storePost
  <2>3. newest' \in Nat /\ newest <= newest' /\ stamp <= newest'
    BY <1>1, <1>2
  <2> HIDE DEF p
  <2> QED BY <1>1, <1>2, <2>1, <2>2, <2>3
<1>4. nextPost' \in Slots
  BY <1>1, <1>3, Turns
<1>5. \A k \in Slots : posts[k].stamp \in Nat
  BY <1>1 DEF Post
<1>6. \A k \in Slots : posts'[k].stamp <= last_unique' /\ posts'[k].stamp \in Nat
  BY <1>1, <1>2, <1>3, <1>5
<1>7. ASSUME NEW j \in Slots, NEW k \in Slots, j < k
      PROVE  \/ posts'[(nextPost' + j) % RingSize].stamp = 0
             \/ posts'[(nextPost' + j) % RingSize].stamp < posts'[(nextPost' + k) % RingSize].stamp
  <2>1. RingSize \in Nat \ {0} /\ j \in Nat /\ k \in Nat /\ k < RingSize /\ j + 1 < RingSize
    BY <1>7, SizeAssumption DEF Slots
  <2>2. PICK a \in Slots : a = (nextPost' + j) % RingSize /\ a = (nextPost + (j + 1)) % RingSize /\ a # nextPost
    <3>1. nextPost \in Slots /\ nextPost' = (nextPost + 1) % RingSize
      BY <1>1, <1>3
    <3>2. /\ (nextPost' + j) % RingSize = (nextPost + (j + 1)) % RingSize
          /\ (nextPost' + j) % RingSize \in Slots /\ (nextPost' + j) % RingSize # nextPost
      BY <2>1, <3>1, TurnsMoveOn
    <3> QED BY <3>2
  <2>3. posts'[a] = posts[a]
    BY <1>3, <2>2
  <2>4. PICK b \in Slots : b = (nextPost' + k) % RingSize
    BY <1>4, Turns
  <2>5. CASE k + 1 < RingSize
    <3>1. j + 1 \in Slots /\ k + 1 \in Slots /\ j + 1 < k + 1
      BY <1>7, <2>1, <2>5 DEF Slots
    <3>2. b = (nextPost + (k + 1)) % RingSize /\ b # nextPost
      BY <1>1, <1>3, <2>4, <2>5, TurnsMoveOn
    <3>3. posts[a].stamp = 0 \/ posts[a].stamp < posts[b].stamp
      BY <2>2, <3>1, <3>2 DEF IInv, RingOK
    <3>4. posts'[b] = posts[b]
      BY <1>3, <3>2
    <3> QED BY <2>2, <2>3, <2>4, <3>3, <3>4
  <2>6. CASE k + 1 = RingSize
    <3>1. b = nextPost
      BY <1>1, <1>3, <2>4, <2>6, TurnsMoveOn
    <3>2. posts'[b].stamp = stamp
      BY <1>1, <1>3, <3>1
    <3>3. posts[a].stamp < stamp
      BY <1>1, <1>2, <1>5
    <3> QED BY <2>2, <2>3, <2>4, <3>2, <3>3
  <2> QED BY <2>1, <2>5, <2>6
<1>8. RingOK(posts', nextPost', last_unique', past', newest')
  BY <1>1, <1>2, <1>3, <1>4, <1>6, <1>7 DEF RingOK
<1>9. \A k \in Slots : posts'[k] = posts[k] \/ posts'[k].stamp <= past' \/ posts'[k].stamp > newest
  BY <1>1, <1>2, <1>3
<1> QED BY <1>1, <1>3, <1>6, <1>8, <1>9 DEF Later

\* What the other parts of the invariant make of new posts.
LEMMA LaterAll ==
  ASSUME IInv, Later(posts, app, past, newest, posts', app', past', newest'), app' = app
  PROVE  /\ FileOK(saved, newest') /\ AppOK(posts', app', past', newest')
         /\ \A m \in net : MsgOK(m, posts', app', past', newest')
<1>1. newest \in Nat /\ newest' \in Nat /\ newest <= newest'
  BY DEF Later
<1>2. FileOK(saved, newest')
  <2>1. FileOK(saved, newest) /\ \A i \in DOMAIN saved : saved[i] \in Entry
    BY DEF IInv, FileOK
  <2> QED BY <1>1, <2>1 DEF FileOK, Entry
<1>3. ASSUME NEW c \in Nodes PROVE PeerOK(c, posts', app', past', newest')
  <2>1. app[c] \in Peer /\ app[c].since <= newest /\ Caught(c, app[c].since, posts, app, past)
    BY DEF IInv, AppOK, PeerOK
  <2>2. app[c].since \in Int /\ app[c].since <= newest'
    BY <1>1, <2>1 DEF Peer
  <2> QED BY <2>1, <2>2, LaterCaught DEF PeerOK
<1>4. AppOK(posts', app', past', newest')
  BY <1>3 DEF IInv, AppOK
<1>5. \A m \in net : MsgOK(m, posts', app', past', newest')
  BY LaterMsg DEF IInv
<1> QED BY <1>2, <1>4, <1>5

\* A handler that is told of a live node changes none of what the invariant is about.
LEMMA AliveOK ==
  ASSUME IInv, NEW m, m.from \in Nodes, m.stamp \in Int, Holds(m.from),
         NEW T, T = Alive(m)
  PROVE  TableOK(T, num, posts, app, past, newest) /\ \A j \in Seats : T[j].id = clients[j].id
<1> DEFINE i == SeatOf(m.from)
           e == [clients[i] EXCEPT !.last = m.stamp, !.failures = 0]
<1>1. TableOK(clients, num, posts, app, past, newest) /\ num \in 0..Capacity /\ clients \in [Seats -> Entry]
  BY DEF IInv, TableOK
<1>2. i \in 1..num /\ i \in Seats
  BY <1>1, SeatFound, SlotsNonEmpty DEF Seats
<1>3. clients[i] \in Entry /\ EntryOK(clients[i], posts, app, past, newest)
  BY <1>1, <1>2 DEF TableOK
<1>4. e \in Entry /\ e.id = clients[i].id
  BY <1>3 DEF Entry
<1>5. EntryOK(e, posts, app, past, newest)
  BY <1>3, SlotsNonEmpty DEF EntryOK, Entry
<1>6. T = Touched([clients EXCEPT ![i] = e], i)
  BY <1>1, <1>2 DEF Alive
<1> HIDE DEF e, i
<1>7. PICK T1 : T1 = [clients EXCEPT ![i] = e]
  OBVIOUS
<1>8. TableOK(T1, num, posts, app, past, newest) /\ \A j \in Seats : T1[j].id = clients[j].id
  BY <1>1, <1>2, <1>4, <1>5, <1>7, SeatChanged
<1>9. T = Touched(T1, i)
  BY <1>6, <1>7
<1>10. TableOK(T, num, posts, app, past, newest) /\ \A j \in Seats : T[j].id = T1[j].id
  BY <1>1, <1>2, <1>8, <1>9, TouchedOK
<1> QED BY <1>8, <1>10

\* A command changes the table or adds a post.
LEMMA HandleOK ==
  ASSUME IInv, NEW t, TableOK(t, num, posts, app, past, newest), \A j \in Seats : t[j].id = clients[j].id,
         NEW counts, NEW cmd \in Commands, handleCommand(t, counts, cmd), app' = app
  PROVE  /\ TableOK(clients', num', posts', app', past', newest') /\ RingOK(posts', nextPost', last_unique', past', newest')
         /\ Later(posts, app, past, newest, posts', app', past', newest') /\ dirty' \in BOOLEAN
<1>1. /\ newest \in Nat /\ past \in Nat /\ dirty \in BOOLEAN /\ \A k \in Slots : posts[k].stamp \in Nat
      /\ TableOK(clients, num, posts, app, past, newest) /\ 1..num \subseteq Seats
      /\ RingOK(posts, nextPost, last_unique, past, newest)
  BY SlotsNonEmpty DEF IInv, RingOK, Post, TableOK, Seats
<1>2. CASE cmd.op = "post"
  <2>1. storePost(NoNode) /\ clients' = t /\ num' = num /\ dirty' = dirty
    BY <1>2 DEF handleCommand
  <2>2. RingOK(posts', nextPost', last_unique', past', newest') /\ Later(posts, app, past, newest, posts', app', past', newest')
    BY <2>1, StoreOK
  <2> QED BY <1>1, <2>1, <2>2, LaterTable
<1>3. CASE cmd.op # "post"
  <2>1. UNCHANGED ring /\ setperm(t, counts, cmd) /\ cmd.id \in Nodes /\ cmd.perm \in Perms
    BY <1>3 DEF handleCommand, Commands
  <2>2. Later(posts, app, past, newest, posts', app', past', newest') /\ RingOK(posts', nextPost', last_unique', past', newest')
    BY <1>1, <2>1 DEF Later, ring
  <2>3. CASE cmd.perm = "guest" /\ Holds(cmd.id)
    <3>1. clients' = Without(t, SeatOf(cmd.id)) /\ num' = num - 1 /\ dirty' = TRUE
      BY <2>1, <2>3 DEF setperm
    <3>2. SeatOf(cmd.id) \in 1..num
      BY <1>1, <2>1, <2>3, SeatFound
    <3>3. PICK T2 : T2 = Without(t, SeatOf(cmd.id))
      OBVIOUS
    <3>4. TableOK(T2, num - 1, posts, app, past, newest)
      BY <3>2, <3>3, WithoutOK
    <3> QED BY <2>1, <2>2, <3>1, <3>3, <3>4 DEF ring
  <2>4. CASE cmd.perm = "guest" /\ ~Holds(cmd.id)
    BY <1>1, <2>1, <2>2, <2>4 DEF setperm, ring
  <2>5. CASE cmd.perm # "guest"
    <3>1. PICK put : put = putClient(t, cmd.id)
      OBVIOUS
    <3>2. PICK s : s = Seat(cmd.id)
      OBVIOUS
    <3>3. clients' = [put.table EXCEPT ![s].perm = cmd.perm] /\ num' = put.num /\ dirty' = TRUE
      BY <2>1, <2>5, <3>1, <3>2 DEF setperm
    <3>4. TableOK(put.table, put.num, posts, app, past, newest) /\ s \in 1..put.num /\ s \in Seats
      BY <1>1, <2>1, <3>1, <3>2, PutOK, SeatFound
    <3> DEFINE e == [put.table[s] EXCEPT !.perm = cmd.perm]
    <3>5. put.table \in [Seats -> Entry] /\ put.table[s] \in Entry /\ EntryOK(put.table[s], posts, app, past, newest)
      BY <3>4 DEF TableOK
    <3>6. e \in Entry /\ e.id = put.table[s].id /\ EntryOK(e, posts, app, past, newest)
      BY <2>1, <3>5 DEF EntryOK, Entry
    <3>7. clients' = [put.table EXCEPT ![s] = e]
      BY <3>3, <3>4, <3>5
    <3> HIDE DEF e
    <3>8. TableOK([put.table EXCEPT ![s] = e], put.num, posts, app, past, newest)
      BY <3>4, <3>6, SeatChanged
    <3> QED BY <2>1, <2>2, <3>3, <3>7, <3>8 DEF ring
  <2> QED BY <2>3, <2>4, <2>5
<1> QED BY <1>2, <1>3

-----------------------------------------------------------------------------
(* The server's steps *)

\* what every handler starts from
LEMMA Facts ==
  ASSUME IInv
  PROVE  /\ TableOK(clients, num, posts, app, past, newest) /\ num \in 0..Capacity /\ 1..num \subseteq Seats
         /\ clients \in [Seats -> Entry] /\ \A i \in Seats : EntryOK(clients[i], posts, app, past, newest)
         /\ newest \in Nat /\ past \in 0..newest /\ \A k \in Slots : posts[k].stamp \in Nat
         /\ nextClient \in 0..Capacity - 1 /\ FileOK(saved, newest) /\ dirty \in BOOLEAN /\ boots \in Nat
         /\ \A m \in net : MsgOK(m, posts, app, past, newest)
BY SlotsNonEmpty DEF IInv, TableOK, RingOK, Post, Seats

LEMMA LoginStep ==
  ASSUME IInv, NEW m \in net, RecvLogin(m)
  PROVE  IInv'
<1>1. /\ m.kind = "login" /\ m.from \in Nodes /\ m.stamp \in Int /\ m.since \in Nat /\ m.since <= newest
      /\ Caught(m.from, m.since, posts, app, past)
  BY Facts DEF RecvLogin, MsgOK
<1>2. UNCHANGED <<room, ring, app>> /\ net' = net \ {m}
  BY DEF RecvLogin
<1>3. CASE UNCHANGED <<table, disk>>
  BY <1>2, <1>3, Facts, Still DEF table, disk
<1>4. CASE ~UNCHANGED <<table, disk>>
  <2>1. PICK put : put = putClient(clients, m.from)
    OBVIOUS
  <2>2. PICK s : s = Seat(m.from)
    OBVIOUS
  <2>3. PICK e : e = LoggedIn(put.table[s], m)
    OBVIOUS
  <2>4. /\ Granted(m) # "refused" /\ num' = put.num /\ UNCHANGED <<nextClient, saved, boots>>
        /\ \/ clients' = put.table /\ dirty' = dirty
           \/ clients' = Touched([put.table EXCEPT ![s] = e], s) /\ dirty' = TRUE
    <3>1. ~Recognised(m) /\ Granted(m) # "refused"
      BY <1>4 DEF RecvLogin
    <3>2. [put.table EXCEPT ![s] = LoggedIn(@, m)] = [put.table EXCEPT ![s] = LoggedIn(put.table[s], m)]
      OBVIOUS
    <3> QED BY <2>1, <2>2, <2>3, <3>1, <3>2 DEF RecvLogin
  <2>5. TableOK(put.table, put.num, posts, app, past, newest) /\ s \in 1..put.num /\ s \in Seats /\ put.table[s].id = m.from
    BY <1>1, <2>1, <2>2, Facts, PutOK, SeatFound
  <2>6. e \in Entry /\ e.id = put.table[s].id /\ EntryOK(e, posts, app, past, newest)
    <3>1. put.table[s] \in Entry
      BY <2>5 DEF TableOK
    <3>2. Granted(m) \in Perms
      BY <2>4 DEF Granted, Perms
    <3>3. /\ e \in Entry /\ e.id = m.from /\ e.since = m.since /\ e.pending = NoAck /\ e.failures = 0
      BY <1>1, <2>3, <2>5, <3>1, <3>2 DEF LoggedIn, Entry, Acks, NoAck
    <3> QED BY <1>1, <2>5, <3>3, NodeAssumption, SlotsNonEmpty DEF EntryOK
  <2>7. PICK T : T = [put.table EXCEPT ![s] = e]
    OBVIOUS
  <2>8. TableOK(T, put.num, posts, app, past, newest)
    BY <2>5, <2>6, <2>7, SeatChanged
  <2>9. PICK T2 : T2 = Touched(T, s)
    OBVIOUS
  <2>10. TableOK(T2, put.num, posts, app, past, newest)
    BY <2>5, <2>8, <2>9, Facts, TouchedOK
  <2>11. TableOK(clients', num', posts, app, past, newest) /\ dirty' \in BOOLEAN /\ boots' \in Nat
    BY <2>4, <2>5, <2>7, <2>9, <2>10, Facts
  <2> QED BY <1>2, <2>4, <2>11, Facts, Still
<1> QED BY <1>3, <1>4

LEMMA TextStep ==
  ASSUME IInv, NEW m \in net, RecvText(m)
  PROVE  IInv'
<1>1. m.kind = "text" /\ m.from \in Nodes /\ m.stamp \in Int /\ m.text \in Nat
  BY Facts DEF RecvText, MsgOK
<1>2. UNCHANGED <<room, disk, app>>
  BY DEF RecvText
<1>3. CASE ~Holds(m.from) \/ IsReplay(m)
  BY <1>2, <1>3, Facts, Still DEF RecvText, table, disk
<1>4. CASE Holds(m.from) /\ ~IsReplay(m)
  <2>1. PICK T : T = Alive(m)
    OBVIOUS
  <2>2. TableOK(T, num, posts, app, past, newest)
    BY <1>1, <1>4, <2>1, AliveOK
  <2>3. /\ clients' = T /\ UNCHANGED <<num, nextClient, saved, dirty, boots>>
        /\ storePost(m.from) \/ UNCHANGED ring
    BY <1>2, <1>4, <2>1 DEF RecvText, disk
  <2>4. \A x \in net' : x \in net \/ x = [kind |-> "ack", to |-> m.from, text |-> m.text]
    BY <1>4 DEF RecvText
  <2>5. \A P, A, B, K : MsgOK([kind |-> "ack", to |-> m.from, text |-> m.text], P, A, B, K)
    BY <1>1 DEF MsgOK
  <2>6. CASE storePost(m.from)
    <3>1. RingOK(posts', nextPost', last_unique', past', newest') /\ Later(posts, app, past, newest, posts', app', past', newest')
      BY <1>1, <1>2, <2>6, StoreOK
    <3>2. TableOK(clients', num', posts', app', past', newest')
      BY <2>2, <2>3, <3>1, LaterTable
    <3>3. FileOK(saved', newest') /\ AppOK(posts', app', past', newest') /\ \A x \in net' : MsgOK(x, posts', app', past', newest')
      BY <1>2, <2>3, <2>4, <2>5, <3>1, LaterAll
    <3> QED BY <1>2, <2>3, <3>1, <3>2, <3>3 DEF IInv
  <2>7. CASE UNCHANGED ring
    <3>1. \A x \in net' : MsgOK(x, posts, app, past, newest)
      BY <2>4, <2>5, Facts
    <3> QED BY <1>2, <2>2, <2>3, <2>7, <3>1, Facts, Still
  <2> QED BY <2>3, <2>6, <2>7
<1> QED BY <1>3, <1>4

\* a command of an admin or of the console
LEMMA CommandDone ==
  ASSUME IInv, NEW t, TableOK(t, num, posts, app, past, newest), \A j \in Seats : t[j].id = clients[j].id,
         NEW counts, NEW cmd \in Commands, handleCommand(t, counts, cmd),
         room' \in Setting, UNCHANGED <<nextClient, saved, boots, app>>, net' \subseteq net
  PROVE  IInv'
<1>1. /\ TableOK(clients', num', posts', app', past', newest') /\ RingOK(posts', nextPost', last_unique', past', newest')
      /\ Later(posts, app, past, newest, posts', app', past', newest') /\ dirty' \in BOOLEAN /\ boots' \in Nat
  BY HandleOK, Facts
<1>2. /\ FileOK(saved', newest') /\ AppOK(posts', app', past', newest') /\ \A m \in net' : MsgOK(m, posts', app', past', newest')
  BY <1>1, LaterAll
<1> QED BY <1>1, <1>2 DEF IInv

LEMMA CommandStep ==
  ASSUME IInv, NEW m \in net, RecvCommand(m)
  PROVE  IInv'
<1>1. m.kind = "command" /\ m.from \in Nodes /\ m.stamp \in Int /\ m.cmd \in Commands
  BY Facts DEF RecvCommand, MsgOK
<1>2. UNCHANGED <<room, nextClient, saved, boots, app>> /\ net' = net \ {m} /\ room \in Setting
  BY DEF RecvCommand, IInv
<1>3. CASE ~Holds(m.from) \/ IsReplay(m)
  BY <1>2, <1>3, Facts, Still DEF RecvCommand
<1>4. CASE Holds(m.from) /\ ~IsReplay(m)
  <2>1. PICK T : T = Alive(m)
    OBVIOUS
  <2>2. PICK counts : counts = Heard(m.from)
    OBVIOUS
  <2>3. TableOK(T, num, posts, app, past, newest) /\ \A j \in Seats : T[j].id = clients[j].id
    BY <1>1, <1>4, <2>1, AliveOK
  <2>4. CASE handleCommand(T, counts, m.cmd)
    BY <1>1, <1>2, <2>3, <2>4, CommandDone
  <2>5. CASE clients' = T /\ UNCHANGED <<num, ring, dirty>>
    BY <1>2, <2>3, <2>5, Facts, Still
  <2> QED BY <1>4, <2>1, <2>2, <2>4, <2>5 DEF RecvCommand
<1> QED BY <1>3, <1>4

LEMMA ConsoleStep ==
  ASSUME IInv, NEW cmd \in room.console, Console(cmd)
  PROVE  IInv'
<1>1. room \in Setting
  BY DEF IInv
<1>2. cmd \in Commands /\ room' \in Setting
  BY <1>1 DEF Console, Setting
<1>3. PICK T : T = clients
  OBVIOUS
<1>4. PICK counts : counts = tally
  OBVIOUS
<1>5. handleCommand(T, counts, cmd) /\ UNCHANGED <<nextClient, saved, boots, net, app>>
  BY <1>3, <1>4 DEF Console
<1> QED BY <1>2, <1>3, <1>5, Facts, CommandDone

LEMMA RequestStep ==
  ASSUME IInv, NEW m \in net, NEW direct \in BOOLEAN, RecvRequest(m, direct)
  PROVE  IInv'
<1>1. /\ m.kind = "request" /\ m.from \in Nodes /\ m.stamp \in Int /\ m.since \in Nat /\ m.since <= newest
      /\ Caught(m.from, m.since, posts, app, past)
  BY Facts DEF RecvRequest, MsgOK
<1>2. UNCHANGED <<room, num, nextClient, ring, disk, app>> /\ net' = net \ {m}
  BY DEF RecvRequest
<1>3. TableOK(clients', num, posts, app, past, newest)
  <2>1. CASE ~Holds(m.from) \/ IsReplay(m)
    BY <2>1, Facts DEF RecvRequest
  <2>2. CASE Holds(m.from) /\ ~IsReplay(m)
    <3>1. PICK T : T = Alive(m)
      OBVIOUS
    <3>2. PICK i : i = SeatOf(m.from)
      OBVIOUS
    <3>3. TableOK(T, num, posts, app, past, newest) /\ \A j \in Seats : T[j].id = clients[j].id
      BY <1>1, <2>2, <3>1, AliveOK
    <3>4. i \in Seats /\ T[i].id = m.from /\ T \in [Seats -> Entry] /\ T[i] \in Entry /\ EntryOK(T[i], posts, app, past, newest)
      BY <1>1, <2>2, <3>2, <3>3, Facts, SeatFound DEF TableOK
    <3> DEFINE e == [T[i] EXCEPT !.since = IF m.since > 0 THEN m.since ELSE T[i].since, !.pending = NoAck]
    <3>5. /\ e \in Entry /\ e.id = T[i].id /\ e.pending = NoAck /\ e.failures = T[i].failures
          /\ e.activity = T[i].activity /\ e.since = IF m.since > 0 THEN m.since ELSE T[i].since
      BY <1>1, <3>4 DEF Entry, Acks, NoAck
    <3>6. EntryOK(e, posts, app, past, newest)
      <4> HIDE DEF e
      <4> QED BY <1>1, <3>4, <3>5, NodeAssumption DEF EntryOK
    <3>7. clients' = T \/ clients' = [T EXCEPT ![i].since = IF m.since > 0 THEN m.since ELSE @, ![i].pending = NoAck]
      BY <2>2, <3>1, <3>2 DEF RecvRequest
    <3>8. [T EXCEPT ![i].since = IF m.since > 0 THEN m.since ELSE @, ![i].pending = NoAck] = [T EXCEPT ![i] = e]
      BY <3>4
    <3> HIDE DEF e
    <3>9. TableOK([T EXCEPT ![i] = e], num, posts, app, past, newest)
      BY <3>3, <3>4, <3>5, <3>6, SeatChanged
    <3> QED BY <3>3, <3>7, <3>8, <3>9
  <2> QED BY <2>1, <2>2
<1> QED BY <1>2, <1>3, Facts, Still DEF disk

\* The client that acknowledges the post it was pushed has every post up to it.
LEMMA PushAckStep ==
  ASSUME IInv, NEW m \in net, NEW byPath \in BOOLEAN, RecvPushAck(m, byPath)
  PROVE  IInv'
<1>1. m.from \in Nodes /\ m.ack \in Acks /\ m.ack.stamp \in app[m.from].got /\ m.ack.stamp > 0
  BY Facts DEF RecvPushAck, MsgOK
<1>2. UNCHANGED <<room, num, nextClient, ring, disk, app>> /\ net' = net \ {m}
  BY DEF RecvPushAck
<1>3. PICK i : i = SeatOf(m.from)
  OBVIOUS
<1>4. PICK T : T = IF byPath /\ Holds(m.from) THEN Touched(clients, i) ELSE clients
  OBVIOUS
<1>5. Holds(m.from) => i \in 1..num /\ i \in Seats /\ clients[i].id = m.from
  BY <1>1, <1>3, Facts, SeatFound
<1>6. TableOK(T, num, posts, app, past, newest) /\ \A j \in Seats : T[j].id = clients[j].id
  <2>1. CASE byPath /\ Holds(m.from)
    BY <1>4, <1>5, <2>1, Facts, TouchedOK
  <2>2. CASE ~(byPath /\ Holds(m.from))
    BY <1>4, <2>2, Facts
  <2> QED BY <2>1, <2>2
<1>7. TableOK(clients', num, posts, app, past, newest)
  <2>1. CASE ~Awaited(m)
    BY <1>3, <1>4, <1>6, <2>1 DEF RecvPushAck
  <2>2. CASE Awaited(m)
    <3>1. Holds(m.from) /\ clients[i].pending = m.ack
      BY <1>3, <2>2 DEF Awaited
    <3>2. T[i] \in Entry /\ T[i].id = m.from /\ EntryOK(T[i], posts, app, past, newest)
      BY <1>5, <1>6, <3>1 DEF TableOK
    <3>3. T[i].pending = m.ack
      BY <1>4, <1>5, <3>1, Facts DEF Touched
    <3>4. m.ack # NoAck
      BY <1>1 DEF Acks, NoAck
    <3>5. T[i].pushed \in 1..newest /\ T[i].pushed = m.ack.stamp /\ Caught(m.from, T[i].pushed - 1, posts, app, past)
      BY <3>2, <3>3, <3>4 DEF EntryOK
    <3>6. Caught(m.from, T[i].pushed, posts, app, past)
      <4> SUFFICES ASSUME NEW k \in Slots, posts[k].stamp \in past + 1 .. T[i].pushed, posts[k].author # m.from
                   PROVE  posts[k].stamp \in app[m.from].got
        BY DEF Caught
      <4>1. CASE posts[k].stamp = T[i].pushed
        BY <1>1, <3>5, <4>1
      <4>2. CASE posts[k].stamp # T[i].pushed
        <5>1. posts[k].stamp \in past + 1 .. T[i].pushed - 1
          BY <3>5, <4>2, Facts
        <5> QED BY <3>5, <5>1 DEF Caught
      <4> QED BY <4>1, <4>2
    <3>7. PICK e : e = Synced(T[i])
      OBVIOUS
    <3>8. /\ e \in Entry /\ e.id = m.from /\ e.since = T[i].pushed /\ e.pending = NoAck /\ e.failures = 0
      BY <3>2, <3>7 DEF Synced, Entry, Acks, NoAck
    <3>9. EntryOK(e, posts, app, past, newest)
      BY <1>1, <3>5, <3>6, <3>8, Facts, NodeAssumption, SlotsNonEmpty DEF EntryOK
    <3>10. clients' = [T EXCEPT ![i] = Synced(@)]
      BY <1>3, <1>4, <2>2 DEF RecvPushAck
    <3>11. clients' = [T EXCEPT ![i] = e]
      BY <3>7, <3>10
    <3>12. TableOK([T EXCEPT ![i] = e], num, posts, app, past, newest)
      BY <1>5, <1>6, <3>1, <3>2, <3>8, <3>9, SeatChanged
    <3> QED BY <3>11, <3>12
  <2> QED BY <2>1, <2>2
<1> QED BY <1>2, <1>7, Facts, Still DEF disk

\* The oldest post that a client lacks comes after all those it has.
LEMMA DueInOrder ==
  ASSUME IInv, NEW e \in Entry, EntryOK(e, posts, app, past, newest), e.id \in Nodes, DuePosts(e) # {},
         NEW p, p = InTurn(Min(DuePosts(e)))
  PROVE  p.stamp \in 1..newest /\ Caught(e.id, p.stamp - 1, posts, app, past)
<1>1. PICK d : d = Min(DuePosts(e))
  OBVIOUS
<1>2. d \in DuePosts(e) /\ \A k \in DuePosts(e) : d <= k
  <2>1. DuePosts(e) \in SUBSET Nat
    BY SlotsNonEmpty DEF DuePosts
  <2> QED BY <1>1, <2>1, MinOf
<1>3. d \in Slots /\ Unsynced(e, p) /\ p = posts[(nextPost + d) % RingSize]
  BY <1>1, <1>2 DEF DuePosts, InTurn, Slots
<1>4. /\ nextPost \in Slots /\ newest \in Nat /\ past \in Nat /\ e.since \in Nat
      /\ \A k \in Slots : posts[k].stamp \in Nat /\ posts[k].stamp <= newest
  <2>1. last_unique \in Nat /\ last_unique <= newest /\ \A k \in Slots : posts[k].stamp <= last_unique
    BY DEF IInv, RingOK
  <2> QED BY <2>1, Facts DEF IInv, RingOK, Entry
<1>5. (nextPost + d) % RingSize \in Slots
  BY <1>3, <1>4, Turns
<1>6. p.stamp \in 1..newest
  BY <1>3, <1>4, <1>5 DEF Unsynced
<1>7. ASSUME NEW x \in Slots, posts[x].stamp \in past + 1 .. p.stamp - 1, posts[x].author # e.id
      PROVE  posts[x].stamp \in app[e.id].got
  <2>1. PICK k \in Slots : (nextPost + k) % RingSize = x
    <3>1. PICK k \in Slots : nextPost + k = x \/ nextPost + k = x + RingSize
      <4>1. RingSize \in Nat \ {0} /\ nextPost \in 0..RingSize - 1 /\ x \in 0..RingSize - 1
        BY <1>4, SlotsNonEmpty DEF Slots
      <4>2. CASE x >= nextPost
        <5>1. x - nextPost \in Slots
          BY <4>1, <4>2 DEF Slots
        <5> QED BY <4>1, <5>1
      <4>3. CASE x < nextPost
        <5>1. x + RingSize - nextPost \in Slots
          BY <4>1, <4>3 DEF Slots
        <5> QED BY <4>1, <5>1
      <4> QED BY <4>1, <4>2, <4>3
    <3>2. (nextPost + k) % RingSize = IF nextPost + k < RingSize THEN nextPost + k ELSE nextPost + k - RingSize
      BY <1>4, Turns
    <3>3. RingSize \in Nat \ {0} /\ nextPost \in 0..RingSize - 1 /\ x \in 0..RingSize - 1 /\ k \in 0..RingSize - 1
      BY <1>4, SlotsNonEmpty DEF Slots
    <3>4. PICK y \in Slots : y = (nextPost + k) % RingSize
      BY <1>4, Turns
    <3>5. y = x
      BY <3>1, <3>2, <3>3, <3>4
    <3> QED BY <3>4, <3>5
  <2>2. posts[x].stamp # 0 /\ posts[x].stamp < p.stamp /\ posts[x].stamp \in Nat
    BY <1>4, <1>6, <1>7
  <2>3. ~(d < k)
    <3>1. d < k => p.stamp = 0 \/ p.stamp < posts[x].stamp
      BY <1>3, <2>1 DEF IInv, RingOK
    <3> QED BY <1>6, <2>2, <3>1
  <2>4. d # k
    BY <1>3, <2>1, <2>2, <1>6
  <2>5. k \notin DuePosts(e)
    BY <1>2, <1>3, <2>3, <2>4 DEF Slots
  <2>6. ~Unsynced(e, posts[x])
    BY <2>1, <2>5 DEF DuePosts, InTurn, Slots
  <2>7. posts[x].stamp \in past + 1 .. e.since
    BY <1>4, <1>7, <2>2, <2>6 DEF Unsynced
  <2> QED BY <1>7, <2>7 DEF EntryOK, Caught
<1> QED BY <1>6, <1>7 DEF Caught

\* Giving up a push leaves its post for the next turn.
LEMMA TimedOutOK ==
  ASSUME IInv, NEW late, late \subseteq Waiting, NEW T, T = TimedOut(late)
  PROVE  TableOK(T, num, posts, app, past, newest)
<1>1. late \subseteq Seats /\ \A i \in late : clients[i].pending # NoAck
  BY Facts DEF Waiting, Taken
<1>2. ASSUME NEW i \in Seats
      PROVE  T[i] \in Entry /\ T[i].id = clients[i].id /\ EntryOK(T[i], posts, app, past, newest)
  <2>1. clients[i] \in Entry /\ EntryOK(clients[i], posts, app, past, newest)
    BY Facts
  <2>2. CASE i \notin late
    BY <2>1, <2>2 DEF TimedOut
  <2>3. CASE i \in late
    <3>1. PICK e \in Entry : e = clients[i]
      BY <2>1
    <3>2. T[i] = [e EXCEPT !.pending = NoAck, !.failures = e.failures + 1]
      BY <2>3, <3>1 DEF TimedOut
    <3>3. /\ T[i] \in Entry /\ T[i].id = clients[i].id /\ T[i].since = clients[i].since
          /\ T[i].pending = NoAck /\ T[i].failures = clients[i].failures + 1 /\ T[i].activity = clients[i].activity
      <4>1. e.failures + 1 \in Nat /\ NoAck \in Acks
        BY <3>1 DEF Entry, Acks, NoAck
      <4> HIDE DEF NoAck
      <4> QED BY <3>1, <3>2, <4>1 DEF Entry
    <3>4. clients[i].failures < MaxFailures /\ clients[i].failures \in Nat
      BY <1>1, <2>1, <2>3 DEF EntryOK, Entry
    <3> QED BY <2>1, <3>3, <3>4, SlotsNonEmpty DEF EntryOK
  <2> QED BY <2>2, <2>3
<1>3. T \in [Seats -> Entry]
  <2>1. T = [i \in Seats |-> T[i]]
    BY DEF TimedOut
  <2> QED BY <1>2, <2>1
<1> QED BY <1>2, <1>3, Facts DEF TableOK

LEMMA PassStep ==
  ASSUME IInv, NEW late, NEW attempt \in room.attempts, NEW pool, Pass(late, attempt, pool)
  PROVE  IInv'
<1>1. /\ UNCHANGED <<room, num, ring, disk, app>> /\ num > 0 /\ late \subseteq Waiting
      /\ nextClient' = (nextClient + 1) % num /\ attempt \in Nat
  BY DEF Pass, IInv, Setting
<1>2. nextClient' \in 0..Capacity - 1
  <2>1. \A x \in Nat, y \in Nat \ {0} : x % y \in 0..y - 1
    OBVIOUS
  <2>2. PICK x \in Nat : x = nextClient + 1
    BY Facts, SlotsNonEmpty
  <2>3. num \in Nat \ {0} /\ num <= Capacity /\ Capacity \in Nat
    BY <1>1, Facts, SlotsNonEmpty
  <2>4. x % num \in 0..num - 1
    BY <2>1, <2>3
  <2> QED BY <1>1, <2>2, <2>3, <2>4
<1>3. PICK T : T = TimedOut(late)
  OBVIOUS
<1>4. TableOK(T, num, posts, app, past, newest)
  BY <1>1, <1>3, TimedOutOK
<1>5. PICK i \in Seats : i = nextClient + 1
  BY Facts, SlotsNonEmpty DEF Seats
<1>6. PICK due : due = IF Pushable(T[i]) THEN DuePosts(T[i]) ELSE {}
  OBVIOUS
<1>7. CASE due = {}
  <2>1. clients' = T /\ net' = net
    BY <1>3, <1>5, <1>6, <1>7 DEF Pass
  <2> QED BY <1>1, <1>2, <1>4, <2>1, Facts, Still DEF disk
<1>8. CASE due # {}
  <2>1. PICK p : p = InTurn(Min(due))
    OBVIOUS
  <2> DEFINE ack == [stamp |-> p.stamp, boot |-> boots, attempt |-> attempt]
             e == [T[i] EXCEPT !.pushed = p.stamp, !.pending = IF pool THEN ack ELSE NoAck]
             m == [kind |-> "push", to |-> T[i].id, ack |-> ack]
  <2>2. /\ clients' = [T EXCEPT ![i].pushed = p.stamp, ![i].pending = IF pool THEN ack ELSE NoAck]
        /\ net' \subseteq net \union {m}
    <3>1. Push(T, i, p, attempt, pool)
      BY <1>3, <1>5, <1>6, <1>8, <2>1 DEF Pass
    <3> QED BY <3>1 DEF Push
  <2>3. Pushable(T[i]) /\ due = DuePosts(T[i])
    BY <1>6, <1>8
  <2>4. T \in [Seats -> Entry] /\ T[i] \in Entry /\ EntryOK(T[i], posts, app, past, newest)
    BY <1>4 DEF TableOK
  <2>5. T[i].id \in Nodes /\ T[i].failures < MaxFailures
    BY <2>3, <2>4 DEF Pushable, EntryOK, Entry
  <2>6. p.stamp \in 1..newest /\ Caught(T[i].id, p.stamp - 1, posts, app, past)
    BY <1>8, <2>1, <2>3, <2>4, <2>5, DueInOrder
  <2>7. p.stamp \in Nat /\ ack \in Acks /\ ack.stamp = p.stamp
    BY <1>1, <2>6, Facts DEF Acks
  <2>8. /\ e \in Entry /\ e.id = T[i].id /\ e.since = T[i].since /\ e.failures = T[i].failures
        /\ e.pushed = p.stamp /\ e.pending = (IF pool THEN ack ELSE NoAck)
    BY <2>4, <2>7 DEF Entry, Acks, NoAck
  <2>9. MsgOK(m, posts, app, past, newest)
    <3>1. m.kind = "push" /\ m.to = T[i].id /\ m.ack = ack
      OBVIOUS
    <3> HIDE DEF m, ack
    <3> QED BY <2>5, <2>6, <2>7, <3>1 DEF MsgOK
  <2>10. clients' = [T EXCEPT ![i] = e]
    BY <2>2, <2>4
  <2> HIDE DEF m, e
  <2>11. EntryOK(e, posts, app, past, newest)
    <3> HIDE DEF ack
    <3> QED BY <2>4, <2>5, <2>6, <2>7, <2>8, NodeAssumption DEF EntryOK
  <2>12. TableOK(clients', num, posts, app, past, newest)
    BY <1>4, <2>8, <2>10, <2>11, SeatChanged
  <2>13. \A x \in net' : MsgOK(x, posts, app, past, newest)
    BY <2>2, <2>9, Facts
  <2> QED BY <1>1, <1>2, <2>12, <2>13, Facts, Still DEF disk
<1> QED BY <1>7, <1>8

\* What save() writes are entries of different nodes, not more than there are seats.
LEMMA WrittenOK ==
  ASSUME NEW T, NEW n, NEW P, NEW A, NEW B, NEW K, TableOK(T, n, P, A, B, K), T = clients, n = num,
         NEW F, Written(F)
  PROVE  FileOK(F, K)
<1>1. PICK f \in InOrder(Admins) : F = [k \in DOMAIN f |-> clients[f[k]]]
  BY DEF Written
<1>2. num \in 0..Capacity /\ Capacity \in Nat /\ 1..num \subseteq Seats /\ Admins \subseteq 1..num
  BY SlotsNonEmpty DEF TableOK, Admins, Taken, Seats
<1>3. PICK c : c = Cardinality(Admins)
  OBVIOUS
<1>4. c \in Nat /\ c <= Capacity
  <2>1. IsFiniteSet(1..num) /\ Cardinality(1..num) = num
    BY <1>2, FS_Interval
  <2>2. Cardinality(Admins) \in Nat /\ Cardinality(Admins) <= num
    BY <1>2, <2>1, FS_Subset, FS_CardinalityType
  <2> QED BY <1>2, <1>3, <2>2
<1>5. f \in [1..c -> Admins] /\ \A i, j \in 1..c : i < j => f[i] < f[j]
  BY <1>3 DEF InOrder
<1>6. DOMAIN F = 1..c /\ \A k \in 1..c : F[k] = T[f[k]] /\ f[k] \in 1..n /\ f[k] \in Seats /\ f[k] \in Nat
  <2>1. DOMAIN f = 1..c /\ \A k \in 1..c : f[k] \in Admins
    BY <1>5
  <2>2. DOMAIN F = 1..c /\ \A k \in 1..c : F[k] = clients[f[k]]
    BY <1>1, <2>1
  <2>3. \A k \in 1..c : f[k] \in 1..num
    BY <1>2, <2>1
  <2>4. \A x \in 1..num : x \in Seats /\ x \in Nat
    BY <1>2
  <2> QED BY <2>2, <2>3, <2>4
<1>7. F \in Seq(Entry) /\ Len(F) = c
  <2>1. F = [k \in 1..c |-> F[k]] /\ \A k \in 1..c : F[k] \in Entry
    BY <1>1, <1>5, <1>6 DEF TableOK
  <2>2. F \in [1..c -> Entry]
    BY <2>1
  <2> QED BY <1>4, <2>2
<1>8. \A i \in 1..c : F[i].id \in Nodes /\ F[i].since <= K
  BY <1>6 DEF TableOK, EntryOK
<1>9. ASSUME NEW i \in 1..c, NEW j \in 1..c, F[i].id = F[j].id PROVE i = j
  <2>1. f[i] = f[j]
    BY <1>6, <1>9 DEF TableOK
  <2>2. ~(i < j) /\ ~(j < i)
    BY <1>5, <1>6, <2>1
  <2> QED BY <1>4, <2>2
<1> QED BY <1>4, <1>6, <1>7, <1>8, <1>9 DEF FileOK

LEMMA SaveStep ==
  ASSUME IInv, Save
  PROVE  IInv'
<1>1. UNCHANGED <<room, clients, num, nextClient, ring, boots, net, app>> /\ dirty' = FALSE
  BY DEF Save, table
<1>2. PICK F : F = saved'
  OBVIOUS
<1>3. FileOK(F, newest)
  BY <1>2, Facts, WrittenOK DEF Save
<1> QED BY <1>1, <1>2, <1>3, Facts, Still

LEMMA RestartStep ==
  ASSUME IInv, Restart
  PROVE  IInv'
<1>1. /\ UNCHANGED <<room, newest, saved, net, app>> /\ nextClient' = 0 /\ nextPost' = 0 /\ dirty' = FALSE
      /\ num' = Len(saved) /\ posts' = [k \in Slots |-> NoPost]
      /\ last_unique' = 0 /\ past' = newest /\ boots' \in Nat
  BY DEF Restart, IInv, RingOK
<1>2. /\ saved \in Seq(Entry) /\ Len(saved) \in 0..Capacity /\ DOMAIN saved = 1..Len(saved) /\ FileOK(saved, newest)
      /\ 1..Len(saved) \subseteq Seats
  BY Facts, SlotsNonEmpty DEF FileOK, Seats
<1>3. \A k \in Slots : posts'[k] = NoPost /\ posts'[k].stamp = 0
  BY <1>1 DEF NoPost
<1>4. RingOK(posts', nextPost', last_unique', past', newest')
  <2>1. \A k \in Slots : (nextPost' + k) % RingSize \in Slots
    BY <1>1, SlotsNonEmpty, Turns
  <2>2. posts' \in [Slots -> Post]
    BY <1>1 DEF Post, NoPost
  <2> QED BY <1>1, <1>3, <2>1, <2>2, Facts, SlotsNonEmpty DEF RingOK
<1>5. Later(posts, app, past, newest, posts', app', past', newest')
  BY <1>1, <1>3, Facts DEF Later
<1>6. /\ FileOK(saved', newest') /\ AppOK(posts', app', past', newest') /\ \A m \in net' : MsgOK(m, posts', app', past', newest')
  BY <1>1, <1>5, LaterAll
<1>7. ASSUME NEW i \in Seats
      PROVE  /\ clients'[i] \in Entry /\ EntryOK(clients'[i], posts', app', past', newest')
             /\ i <= Len(saved) => clients'[i].id = saved[i].id
  <2>1. CASE i <= Len(saved)
    <3>1. clients'[i] = [Blank(saved[i].id, saved[i].perm) EXCEPT !.since = saved[i].since]
      BY <2>1 DEF Restart
    <3>2. saved[i] \in Entry /\ saved[i].since <= newest
      BY <1>2, <2>1 DEF FileOK, Seats
    <3>3. /\ clients'[i] \in Entry /\ clients'[i].id = saved[i].id /\ clients'[i].since = saved[i].since
          /\ clients'[i].pending = NoAck /\ clients'[i].failures = 0 /\ clients'[i].activity = 0
      BY <3>1, <3>2 DEF Blank, Entry, Acks, NoAck
    <3>4. Caught(clients'[i].id, clients'[i].since, posts', app', past')
      BY <1>1, <1>3, Facts DEF Caught
    <3> QED BY <1>1, <3>2, <3>3, <3>4, SlotsNonEmpty DEF EntryOK
  <2>2. CASE ~(i <= Len(saved))
    <3>1. clients'[i] = Blank(NoNode, "guest")
      BY <2>2 DEF Restart
    <3>2. /\ clients'[i] \in Entry /\ clients'[i].id = NoNode /\ clients'[i].since = 0
          /\ clients'[i].pending = NoAck /\ clients'[i].failures = 0 /\ clients'[i].activity = 0
      BY <3>1 DEF Blank, Entry, Acks, NoAck, Perms
    <3> QED BY <1>1, <2>2, <3>2, Facts, NodeAssumption, SlotsNonEmpty DEF EntryOK
  <2> QED BY <2>1, <2>2
<1>8. TableOK(clients', num', posts', app', past', newest')
  <2>1. clients' = [i \in Seats |-> clients'[i]]
    BY DEF Restart
  <2>2. clients' \in [Seats -> Entry]
    BY <1>7, <2>1
  <2>3. \A i \in 1..Len(saved) : i \in Seats /\ clients'[i].id = saved[i].id
    BY <1>2, <1>7
  <2> QED BY <1>1, <1>2, <1>7, <2>2, <2>3 DEF TableOK, FileOK
<1> QED BY <1>1, <1>4, <1>6, <1>8, SlotsNonEmpty DEF IInv

-----------------------------------------------------------------------------
(* The chat nodes' steps *)

\* A node that changes nothing but itself, and loses nothing, sends what the
\* invariant allows.
LEMMA NodeSteps ==
  ASSUME IInv, UNCHANGED <<room, table, ring, disk>>, NEW c \in Nodes, NEW e \in Peer,
         app' = [app EXCEPT ![c] = e], app[c].got \subseteq e.got,
         e.since <= newest, Caught(c, e.since, posts, app', past),
         \A m \in net' : m \in net \/ MsgOK(m, posts, app', past, newest)
  PROVE  IInv'
<1>1. app \in [Nodes -> Peer] /\ \A d \in Nodes : PeerOK(d, posts, app, past, newest)
  BY DEF IInv, AppOK
<1>2. app' \in [Nodes -> Peer] /\ app'[c] = e /\ \A d \in Nodes : d # c => app'[d] = app[d]
  BY <1>1
<1>3. Later(posts, app, past, newest, posts, app', past, newest)
  BY <1>1, <1>2, Facts DEF Later
<1>4. ASSUME NEW d \in Nodes PROVE PeerOK(d, posts, app', past, newest)
  <2>1. CASE d = c
    BY <1>2, <2>1 DEF PeerOK
  <2>2. CASE d # c
    <3>1. app[d].since \in Nat /\ app[d].since <= newest /\ Caught(d, app[d].since, posts, app, past)
      BY <1>1 DEF PeerOK, Peer
    <3>2. Caught(d, app[d].since, posts, app', past)
      BY <1>3, <3>1, LaterCaught
    <3> QED BY <1>2, <2>2, <3>1, <3>2 DEF PeerOK
  <2> QED BY <2>1, <2>2
<1>5. TableOK(clients, num, posts, app', past, newest) /\ \A m \in net' : MsgOK(m, posts, app', past, newest)
  BY <1>3, Facts, LaterTable, LaterMsg
<1> QED BY <1>2, <1>4, <1>5 DEF IInv, AppOK, table, ring, disk

LEMMA PeerFacts ==
  ASSUME IInv, NEW c \in Nodes
  PROVE  /\ app[c] \in Peer /\ app \in [Nodes -> Peer]
         /\ app[c].since \in 0..newest /\ Caught(c, app[c].since, posts, app, past)
         /\ \A A : A[c].got = app[c].got => Caught(c, app[c].since, posts, A, past)
BY Facts DEF IInv, AppOK, PeerOK, Peer, Caught

LEMMA LoginSentStep ==
  ASSUME IInv, NEW c \in Nodes, NEW password, Login(c, password)
  PROVE  IInv'
<1>1. PICK o \in Peer : o = app[c]
  BY PeerFacts
<1> DEFINE e == [o EXCEPT !.logins = o.logins + 1, !.stamp = o.stamp + 2]
           m == [kind |-> "login", from |-> c, stamp |-> o.stamp + 2, since |-> o.since, password |-> password]
<1>2. o.stamp + 2 \in Int /\ o.logins + 1 \in Nat
  BY DEF Peer
<1>3. e \in Peer /\ e.got = o.got /\ e.since = o.since
  BY <1>2 DEF Peer
<1>4. UNCHANGED <<room, table, ring, disk>> /\ net' = net \union {m} /\ app' = [app EXCEPT ![c] = e]
  BY <1>1, PeerFacts DEF Login, send, Server
<1>5. app'[c].got = app[c].got
  BY <1>1, <1>3, <1>4, PeerFacts
<1>6. Caught(c, o.since, posts, app', past) /\ o.since \in 0..newest
  BY <1>1, <1>5, PeerFacts
<1>7. MsgOK(m, posts, app', past, newest)
  BY <1>2, <1>6 DEF MsgOK
<1> HIDE DEF e, m
<1>8. app[c].got \subseteq e.got /\ e.since <= newest /\ Caught(c, e.since, posts, app', past)
  BY <1>1, <1>3, <1>6, Facts
<1>9. \A x \in net' : x \in net \/ MsgOK(x, posts, app', past, newest)
  BY <1>4, <1>7
<1> QED BY <1>3, <1>4, <1>8, <1>9, NodeSteps

LEMMA TextSentStep ==
  ASSUME IInv, NEW c \in Nodes, NEW stamp \in {app[c].stamp, app[c].stamp + 2}, SendText(c, stamp)
  PROVE  IInv'
<1>1. PICK o \in Peer : o = app[c]
  BY PeerFacts
<1> DEFINE e == [o EXCEPT !.stamp = stamp, !.sent = Append(o.sent, stamp)]
           m == [kind |-> "text", from |-> c, stamp |-> stamp, text |-> Len(o.sent) + 1]
<1>2. stamp \in Int /\ Append(o.sent, stamp) \in Seq(Int) /\ Len(o.sent) + 1 \in Nat
  BY <1>1 DEF Peer
<1>3. e \in Peer /\ e.got = o.got /\ e.since = o.since
  BY <1>2 DEF Peer
<1>4. UNCHANGED <<room, table, ring, disk>> /\ net' = net \union {m} /\ app' = [app EXCEPT ![c] = e]
  BY <1>1, PeerFacts DEF SendText, send
<1>5. app'[c].got = app[c].got
  BY <1>1, <1>3, <1>4, PeerFacts
<1>6. Caught(c, o.since, posts, app', past) /\ o.since \in 0..newest
  BY <1>1, <1>5, PeerFacts
<1>7. MsgOK(m, posts, app', past, newest)
  BY <1>2 DEF MsgOK
<1> HIDE DEF e, m
<1>8. app[c].got \subseteq e.got /\ e.since <= newest /\ Caught(c, e.since, posts, app', past)
  BY <1>1, <1>3, <1>6, Facts
<1>9. \A x \in net' : x \in net \/ MsgOK(x, posts, app', past, newest)
  BY <1>4, <1>7
<1> QED BY <1>3, <1>4, <1>8, <1>9, NodeSteps

LEMMA OrderStep ==
  ASSUME IInv, NEW c \in Nodes, NEW cmd, Order(c, cmd)
  PROVE  IInv'
<1>1. PICK o \in Peer : o = app[c]
  BY PeerFacts
<1> DEFINE e == [o EXCEPT !.stamp = o.stamp + 2, !.orders = o.orders \union {cmd}]
           m == [kind |-> "command", from |-> c, stamp |-> o.stamp + 2, cmd |-> cmd]
<1>2. cmd \in Commands /\ o.stamp + 2 \in Int /\ o.orders \union {cmd} \in SUBSET Commands
  BY DEF Order, IInv, Setting, Peer
<1>3. e \in Peer /\ e.got = o.got /\ e.since = o.since
  BY <1>2 DEF Peer
<1>4. UNCHANGED <<room, table, ring, disk>> /\ net' = net \union {m} /\ app' = [app EXCEPT ![c] = e]
  BY <1>1, PeerFacts DEF Order, send, Server
<1>5. app'[c].got = app[c].got
  BY <1>1, <1>3, <1>4, PeerFacts
<1>6. Caught(c, o.since, posts, app', past) /\ o.since \in 0..newest
  BY <1>1, <1>5, PeerFacts
<1>7. MsgOK(m, posts, app', past, newest)
  BY <1>2, <1>3 DEF MsgOK
<1> HIDE DEF e, m
<1>8. app[c].got \subseteq e.got /\ e.since <= newest /\ Caught(c, e.since, posts, app', past)
  BY <1>1, <1>3, <1>6, Facts
<1>9. \A x \in net' : x \in net \/ MsgOK(x, posts, app', past, newest)
  BY <1>4, <1>7
<1> QED BY <1>3, <1>4, <1>8, <1>9, NodeSteps

LEMMA AgainStep ==
  ASSUME IInv, NEW c \in Nodes, Request(c) \/ \E n \in DOMAIN app[c].sent : Resend(c, n)
  PROVE  IInv'
<1>1. PICK o \in Peer : o = app[c]
  BY PeerFacts
<1>2. CASE Request(c)
  <2> DEFINE m == [kind |-> "request", from |-> c, stamp |-> o.stamp + 1, since |-> o.since]
  <2>1. UNCHANGED <<room, table, ring, disk, app>> /\ net' = net \union {m}
    BY <1>1, <1>2 DEF Request, send, Server
  <2>2. MsgOK(m, posts, app, past, newest)
    BY <1>1, PeerFacts DEF MsgOK, Peer
  <2> HIDE DEF m
  <2> QED BY <2>1, <2>2, Facts, Still DEF table, disk
<1>3. ASSUME NEW n \in DOMAIN o.sent, Resend(c, n) PROVE IInv'
  <2>1. UNCHANGED <<room, table, ring, disk, app>> /\ net' = net \union {Text(c, n)}
    BY <1>3 DEF Resend, send, Server
  <2>2. o.sent[n] \in Int /\ n \in Nat
    BY DEF Peer
  <2>3. MsgOK(Text(c, n), posts, app, past, newest)
    BY <1>1, <2>2 DEF MsgOK, Text
  <2> QED BY <2>1, <2>3, Facts, Still DEF table, disk
<1> QED BY <1>1, <1>2, <1>3

\* The push was for a node that had everything before it.
LEMMA PushStep ==
  ASSUME IInv, NEW m \in net, RecvPush(m)
  PROVE  IInv'
<1>1. PICK c \in Nodes : c = m.to
  BY Facts DEF RecvPush, MsgOK
<1>2. /\ m.ack \in Acks /\ m.ack.stamp \in 1..newest /\ Caught(c, m.ack.stamp - 1, posts, app, past)
  BY <1>1, Facts DEF RecvPush, MsgOK
<1>3. PICK s \in Nat : s = m.ack.stamp
  BY <1>2, Facts
<1>4. PICK o \in Peer : o = app[c]
  BY PeerFacts
<1> DEFINE e == [o EXCEPT !.got = @ \union {s}, !.since = IF s > @ THEN s ELSE @]
           a == [kind |-> "pushAck", from |-> c, ack |-> m.ack]
<1>5. e \in Peer /\ e.got = o.got \union {s} /\ e.since = (IF s > o.since THEN s ELSE o.since)
  BY DEF Peer
<1>6. UNCHANGED <<room, table, ring, disk>> /\ net' = (net \ {m}) \union {a} /\ app' = [app EXCEPT ![c] = e]
  BY <1>1, <1>3, <1>4, PeerFacts DEF RecvPush, Server
<1>7. app'[c].got = o.got \union {s}
  BY <1>4, <1>5, <1>6, PeerFacts
<1>8. MsgOK(a, posts, app', past, newest)
  <2>1. a.kind = "pushAck" /\ a.from = c /\ a.ack = m.ack /\ s > 0
    BY <1>2, <1>3
  <2> HIDE DEF a
  <2> QED BY <1>2, <1>3, <1>7, <2>1 DEF MsgOK
<1>9. o.since \in 0..newest /\ newest \in Nat /\ past \in Nat /\ s \in 1..newest
  BY <1>2, <1>3, <1>4, PeerFacts, Facts
<1>10. ASSUME NEW k \in Slots, posts[k].stamp \in past + 1 .. e.since, posts[k].author # c
       PROVE  posts[k].stamp \in o.got \union {s}
  <2>1. posts[k].stamp \in Nat
    BY Facts
  <2>2. CASE s > o.since
    <3>1. posts[k].stamp = s \/ posts[k].stamp \in past + 1 .. s - 1
      BY <1>5, <1>9, <1>10, <2>1, <2>2
    <3> QED BY <1>2, <1>3, <1>4, <1>10, <3>1 DEF Caught
  <2>3. CASE ~(s > o.since)
    BY <1>4, <1>5, <1>10, <2>3, PeerFacts DEF Caught
  <2> QED BY <2>2, <2>3
<1> HIDE DEF e, a
<1>11. Caught(c, e.since, posts, app', past)
  BY <1>7, <1>10 DEF Caught
<1>12. e.since <= newest
  BY <1>5, <1>9
<1> QED BY <1>4, <1>5, <1>6, <1>8, <1>11, <1>12, NodeSteps

LEMMA AckStep ==
  ASSUME IInv, NEW m \in net, RecvAck(m)
  PROVE  IInv'
<1>1. PICK c \in Nodes : c = m.to /\ m.text \in Nat
  BY Facts DEF RecvAck, MsgOK
<1>2. PICK o \in Peer : o = app[c]
  BY PeerFacts
<1> DEFINE e == [o EXCEPT !.acked = @ \union {m.text}]
<1>3. e \in Peer /\ e.got = o.got /\ e.since = o.since
  BY <1>1 DEF Peer
<1>4. UNCHANGED <<room, table, ring, disk>> /\ net' = net \ {m} /\ app' = [app EXCEPT ![c] = e]
  BY <1>1, <1>2, PeerFacts DEF RecvAck, Server
<1>5. app'[c].got = app[c].got
  BY <1>2, <1>3, <1>4, PeerFacts
<1>6. Caught(c, o.since, posts, app', past) /\ o.since \in 0..newest
  BY <1>2, <1>5, PeerFacts
<1> HIDE DEF e
<1>7. app[c].got \subseteq e.got /\ e.since <= newest /\ Caught(c, e.since, posts, app', past)
  BY <1>2, <1>3, <1>6, Facts
<1> QED BY <1>3, <1>4, <1>7, NodeSteps

LEMMA LoseStep ==
  ASSUME IInv, NEW m \in net, Lose(m)
  PROVE  IInv'
BY Facts, Still DEF Lose, Server, table, disk

-----------------------------------------------------------------------------
(* Counting: what the server stored, and what it pushed to nodes it did not  *)
(* hear.  A second invariant over the first, stated per seat, per node and   *)
(* per message as well.  `due' is the push that a vacated seat may yet cost. *)

Tallies == [stored : [Nodes -> Seq(Nat)], lives : [Nodes -> Nat], unheard : [Nodes -> Nat],
            removals : Nat, ambiguous : [Nodes -> SUBSET Int]]

Stale(x, n) == IF x # 0 /\ x >= n THEN 1 ELSE 0

\* every push that was not answered is under way or counted as a failure
Tried(e, G, due) ==
  e.activity # 0 => G.unheard[e.id] + due <= G.removals + e.failures + IF e.pending = NoAck THEN 0 ELSE 1

\* text n of p may be acknowledged
Settled(p, n, A, G) == G.stored[p][n] > 0 \/ A[p].sent[n] \in G.ambiguous[p]

\* Once the server has noted the stamp s, it takes every text of p with it for stored.
Clear(s, p, A, G) ==
  /\ s <= A[p].stamp + 1
  /\ \A n \in DOMAIN A[p].sent : A[p].sent[n] = s => Settled(p, n, A, G)

\* A text that is new to a seat was not yet stored in this life of its author.
Noted(e, A, G) ==
  /\ Clear(e.last, e.id, A, G) /\ G.lives[e.id] > 0
  /\ \A n \in DOMAIN A[e.id].sent : e.last < A[e.id].sent[n] => G.stored[e.id][n] < G.lives[e.id]

Told(m, A, G) ==
  /\ m.kind \in {"login", "command", "request"} => Clear(m.stamp, m.from, A, G)
  /\ m.kind = "text" => m.text \in DOMAIN A[m.from].sent /\ m.stamp = A[m.from].sent[m.text]
  /\ m.kind = "ack" => m.text \in DOMAIN A[m.to].sent /\ Settled(m.to, m.text, A, G)

Sent(p, A, G) ==
  /\ Len(G.stored[p]) = Len(A[p].sent) /\ A[p].stamp >= 0
  /\ \A n \in DOMAIN A[p].sent : A[p].sent[n] \in 1..A[p].stamp /\ G.stored[p][n] <= G.lives[p]
  /\ \A j, k \in DOMAIN A[p].sent :
       A[p].sent[j] = A[p].sent[k] => j = k \/ A[p].sent[j] \in G.ambiguous[p]
  /\ \A n \in A[p].acked : n \in DOMAIN A[p].sent /\ Settled(p, n, A, G)

Unanswered(p, G, due) == G.unheard[p] + due <= G.removals + MaxFailures

CInv ==
  /\ tally \in Tallies /\ Stale(nextClient, num) <= tally.removals
  /\ \A p \in Nodes : Sent(p, app, tally) /\ Unanswered(p, tally, Stale(nextClient, num))
  /\ \A i \in 1..num : Tried(clients[i], tally, Stale(nextClient, num)) /\ Noted(clients[i], app, tally)
  /\ \A m \in net : Told(m, app, tally)

\* what seats have in common of which one takes the other's place
Like(e, f) ==
  /\ e.id = f.id /\ e.last = f.last /\ e.failures = f.failures /\ e.pending = f.pending
  /\ e.activity # 0 => f.activity # 0

\* Where the content of a seat comes from: from another, from a node that is given a
\* seat, or from one that was just heard.
Comes(e, G) ==
  \/ \E k \in 1..num : Like(e, clients[k])
  \/ e.last = 0 /\ e.activity = 0 /\ G.lives[e.id] > tally.lives[e.id]
  \/ /\ G.unheard[e.id] = 0 /\ Clear(e.last, e.id, app, G)
     /\ \/ G.lives[e.id] > tally.lives[e.id]
        \/ \E k \in 1..num : clients[k].id = e.id /\ clients[k].last <= e.last

\* the counts G2 after G
Onward(G, G2) ==
  /\ G2 \in Tallies /\ G.removals <= G2.removals
  /\ \A p \in Nodes : /\ G2.unheard[p] <= G.unheard[p] /\ G.lives[p] <= G2.lives[p]
                      /\ G.ambiguous[p] \subseteq G2.ambiguous[p]

\* what a step stores: nothing, or a text that no seat takes for new any more
Stores(T, n, G2) ==
  \A p \in Nodes :
    /\ Len(G2.stored[p]) = Len(tally.stored[p])
    /\ \A k \in DOMAIN app[p].sent :
         /\ tally.stored[p][k] <= G2.stored[p][k] /\ G2.stored[p][k] <= G2.lives[p]
         /\ \/ G2.stored[p][k] = tally.stored[p][k]
            \/ \A j \in 1..n : T[j].id = p => ~(T[j].last < app[p].sent[k])

LEMMA CountFacts ==
  ASSUME IInv, CInv
  PROVE  /\ tally \in Tallies /\ tally.removals \in Nat /\ Stale(nextClient, num) \in {0, 1}
         /\ \A p \in Nodes : /\ tally.unheard[p] \in Nat /\ tally.lives[p] \in Nat /\ tally.stored[p] \in Seq(Nat)
                             /\ tally.ambiguous[p] \subseteq Int
                             /\ app[p] \in Peer /\ app[p].stamp \in Int /\ app[p].sent \in Seq(Int)
                             /\ DOMAIN app[p].sent = DOMAIN tally.stored[p]
                             /\ \A n \in DOMAIN app[p].sent : app[p].sent[n] \in Int /\ tally.stored[p][n] \in Nat
         /\ \A i \in 1..num : /\ clients[i] \in Entry /\ clients[i].id \in Nodes /\ clients[i].last \in Int
                              /\ clients[i].failures \in Nat /\ clients[i].activity \in Nat
<1>1. tally \in Tallies /\ app \in [Nodes -> Peer]
  BY DEF CInv, IInv, AppOK
<1>2. ASSUME NEW p \in Nodes
      PROVE  /\ tally.unheard[p] \in Nat /\ tally.lives[p] \in Nat /\ tally.stored[p] \in Seq(Nat)
             /\ tally.ambiguous[p] \subseteq Int
             /\ app[p] \in Peer /\ app[p].stamp \in Int /\ app[p].sent \in Seq(Int)
             /\ DOMAIN app[p].sent = DOMAIN tally.stored[p]
             /\ \A n \in DOMAIN app[p].sent : app[p].sent[n] \in Int /\ tally.stored[p][n] \in Nat
  <2>1. /\ tally.unheard[p] \in Nat /\ tally.lives[p] \in Nat /\ tally.stored[p] \in Seq(Nat)
        /\ tally.ambiguous[p] \subseteq Int
    BY <1>1 DEF Tallies
  <2>2. app[p] \in Peer
    BY <1>1
  <2>3. app[p].stamp \in Int /\ app[p].sent \in Seq(Int)
    BY <2>2 DEF Peer
  <2>4. Len(tally.stored[p]) = Len(app[p].sent)
    BY DEF CInv, Sent
  <2>5. DOMAIN app[p].sent = DOMAIN tally.stored[p]
    BY <2>1, <2>3, <2>4
  <2>6. ASSUME NEW n \in DOMAIN app[p].sent PROVE app[p].sent[n] \in Int /\ tally.stored[p][n] \in Nat
    <3>1. PICK x \in Seq(Int), y \in Seq(Nat) : x = app[p].sent /\ y = tally.stored[p]
      BY <2>1, <2>3
    <3>2. n \in DOMAIN x /\ n \in DOMAIN y
      BY <2>5, <3>1
    <3>3. x[n] \in Int /\ y[n] \in Nat
      BY <3>2
    <3> QED BY <3>1, <3>3
  <2> QED BY <2>1, <2>2, <2>3, <2>5, <2>6
<1>3. \A i \in 1..num : /\ clients[i] \in Entry /\ clients[i].id \in Nodes /\ clients[i].last \in Int
                        /\ clients[i].failures \in Nat /\ clients[i].activity \in Nat
  BY Facts DEF TableOK, Entry
<1>4. tally.removals \in Nat
  BY <1>1 DEF Tallies
<1> QED BY <1>1, <1>2, <1>3, <1>4 DEF Stale

\* What was settled stays so.
LEMMA SettledStays ==
  ASSUME IInv, CInv, NEW G2, Onward(tally, G2), NEW T, NEW n, Stores(T, n, G2), NEW p \in Nodes
  PROVE  /\ \A k \in DOMAIN app[p].sent : Settled(p, k, app, tally) => Settled(p, k, app, G2)
         /\ \A s : Clear(s, p, app, tally) => Clear(s, p, app, G2)
<1>1. ASSUME NEW k \in DOMAIN app[p].sent, Settled(p, k, app, tally) PROVE Settled(p, k, app, G2)
  <2>1. tally.stored[p][k] \in Nat /\ G2.stored[p][k] \in Nat
    <3>1. G2.stored[p] \in Seq(Nat) /\ Len(G2.stored[p]) = Len(tally.stored[p])
      BY DEF Onward, Tallies, Stores
    <3>2. tally.stored[p] \in Seq(Nat) /\ k \in DOMAIN tally.stored[p]
      BY CountFacts
    <3>3. PICK x \in Seq(Nat), y \in Seq(Nat) : x = tally.stored[p] /\ y = G2.stored[p]
      BY <3>1, <3>2
    <3>4. Len(x) = Len(y) /\ k \in DOMAIN x
      BY <3>1, <3>2, <3>3
    <3>5. k \in DOMAIN y
      BY <3>4
    <3>6. x[k] \in Nat /\ y[k] \in Nat
      BY <3>4, <3>5
    <3> QED BY <3>3, <3>6
  <2>2. tally.stored[p][k] <= G2.stored[p][k] /\ tally.ambiguous[p] \subseteq G2.ambiguous[p]
    BY DEF Stores, Onward
  <2> QED BY <1>1, <2>1, <2>2 DEF Settled
<1> QED BY <1>1 DEF Clear

\* A step of the server, but for a push, keeps the counts right when its seats come
\* from where they should.
LEMMA ServerKeeps ==
  ASSUME IInv, IInv', CInv, app' = app, Onward(tally, tally'), Stores(clients', num', tally'),
         Stale(nextClient, num)' + tally.removals <= Stale(nextClient, num) + tally'.removals,
         \A j \in 1..num' : Comes(clients'[j], tally'),
         \A m \in net' : m \in net \/ Told(m, app, tally')
  PROVE  CInv'
<1>a. PICK due \in {0, 1} : due = Stale(nextClient, num)
  BY DEF Stale
<1>b. PICK due2 \in {0, 1} : due2 = Stale(nextClient, num)'
  BY DEF Stale
<1>1. /\ tally.removals \in Nat /\ tally'.removals \in Nat /\ tally' \in Tallies
      /\ due <= tally.removals /\ due2 + tally.removals <= due + tally'.removals
  BY <1>a, <1>b, CountFacts DEF Onward, Tallies, CInv
<1>2. due2 <= tally'.removals
  BY <1>1
<1>3. ASSUME NEW p \in Nodes
      PROVE  /\ tally'.unheard[p] \in Nat /\ tally.unheard[p] \in Nat /\ tally'.unheard[p] <= tally.unheard[p]
             /\ tally'.lives[p] \in Nat /\ tally.lives[p] \in Nat /\ tally.lives[p] <= tally'.lives[p]
  BY CountFacts DEF Onward, Tallies
<1>4. ASSUME NEW p \in Nodes PROVE Sent(p, app, tally')
  <2>1. Sent(p, app, tally)
    BY DEF CInv
  <2>2. \A k \in DOMAIN app[p].sent : Settled(p, k, app, tally) => Settled(p, k, app, tally')
    BY SettledStays
  <2>3. tally.ambiguous[p] \subseteq tally'.ambiguous[p]
    BY DEF Onward
  <2> QED BY <2>1, <2>2, <2>3 DEF Sent, Stores
<1>5. ASSUME NEW p \in Nodes PROVE Unanswered(p, tally', due2)
  <2>1. Unanswered(p, tally, due) /\ MaxFailures \in Nat
    BY <1>a, SizeAssumption DEF CInv
  <2>2. tally.unheard[p] + due <= tally.removals + MaxFailures
    BY <2>1 DEF Unanswered
  <2>3. tally'.unheard[p] + due2 <= tally'.removals + MaxFailures
    BY <1>1, <1>3, <2>1, <2>2
  <2> QED BY <2>3 DEF Unanswered
<1>6. ASSUME NEW j \in 1..num' PROVE Tried(clients'[j], tally', due2) /\ Noted(clients'[j], app, tally')
  <2>1. PICK e \in Entry : e = clients'[j]
    <3>1. clients' \in [Seats -> Entry] /\ num' \in 0..Capacity
      BY DEF IInv, TableOK
    <3>2. j \in Seats
      BY <3>1, SlotsNonEmpty DEF Seats
    <3> QED BY <3>1, <3>2
  <2>2. e.id \in Nodes /\ e.failures \in Nat /\ e.last \in Int
    BY <2>1 DEF IInv, TableOK, Entry
  <2>3. PICK p \in Nodes : p = e.id
    BY <2>2
  <2>4. CASE \E k \in 1..num : Like(e, clients[k])
    <3>1. PICK k \in 1..num : Like(e, clients[k])
      BY <2>4
    <3>2. Tried(clients[k], tally, due) /\ Noted(clients[k], app, tally)
      BY <1>a DEF CInv
    <3>3. clients[k].failures = e.failures /\ clients[k].pending = e.pending /\ clients[k].id = p
          /\ clients[k].last = e.last /\ (e.activity # 0 => clients[k].activity # 0)
      BY <2>3, <3>1 DEF Like
    <3>4. ASSUME e.activity # 0 PROVE tally'.unheard[p] + due2 <= tally'.removals + e.failures + IF e.pending = NoAck THEN 0 ELSE 1
      <4>1. tally.unheard[p] + due <= tally.removals + e.failures + IF e.pending = NoAck THEN 0 ELSE 1
        BY <3>2, <3>3, <3>4 DEF Tried
      <4>2. PICK w \in {0, 1} : w = IF e.pending = NoAck THEN 0 ELSE 1
        OBVIOUS
      <4> QED BY <1>1, <1>3, <2>2, <4>1, <4>2
    <3>5. Clear(e.last, p, app, tally') /\ tally'.lives[p] > 0
      BY <1>3, <3>2, <3>3, SettledStays DEF Noted
    <3>6. ASSUME NEW n \in DOMAIN app[p].sent, e.last < app[p].sent[n]
          PROVE  tally'.stored[p][n] < tally'.lives[p]
      <4>1. tally.stored[p][n] < tally.lives[p] /\ tally.stored[p][n] \in Nat
        BY <3>2, <3>3, <3>6, CountFacts DEF Noted
      <4>2. tally'.stored[p][n] = tally.stored[p][n]
        BY <2>1, <2>3, <3>6 DEF Stores
      <4> QED BY <1>3, <4>1, <4>2
    <3> QED BY <2>1, <2>3, <3>4, <3>5, <3>6 DEF Tried, Noted
  <2>5. CASE e.last = 0 /\ e.activity = 0 /\ tally'.lives[p] > tally.lives[p]
    <3>1. Clear(0, p, app, tally')
      <4>1. app[p].stamp >= 0 /\ \A n \in DOMAIN app[p].sent : app[p].sent[n] \in 1..app[p].stamp
        BY DEF CInv, Sent
      <4>2. app[p].stamp \in Int
        BY CountFacts
      <4> QED BY <4>1, <4>2 DEF Clear
    <3>2. ASSUME NEW n \in DOMAIN app[p].sent, e.last < app[p].sent[n]
          PROVE  tally'.stored[p][n] < tally'.lives[p]
      <4>1. tally.stored[p][n] <= tally.lives[p] /\ tally.stored[p][n] \in Nat
        BY CountFacts DEF CInv, Sent
      <4>2. tally'.stored[p][n] = tally.stored[p][n]
        BY <2>1, <2>3, <3>2 DEF Stores
      <4> QED BY <1>3, <2>5, <4>1, <4>2
    <3>3. tally'.lives[p] > 0
      BY <1>3, <2>5
    <3> QED BY <2>1, <2>3, <2>5, <3>1, <3>2, <3>3 DEF Tried, Noted
  <2>6. CASE /\ tally'.unheard[p] = 0 /\ Clear(e.last, p, app, tally')
             /\ \/ tally'.lives[p] > tally.lives[p]
                \/ \E k \in 1..num : clients[k].id = p /\ clients[k].last <= e.last
    <3>1. Tried(e, tally', due2)
      <4>1. tally'.unheard[e.id] = 0
        BY <2>3, <2>6
      <4>2. PICK w \in {0, 1} : w = IF e.pending = NoAck THEN 0 ELSE 1
        OBVIOUS
      <4> QED BY <1>1, <1>2, <2>2, <4>1, <4>2 DEF Tried
    <3>2. ASSUME NEW n \in DOMAIN app[p].sent, e.last < app[p].sent[n]
          PROVE  tally'.stored[p][n] < tally'.lives[p]
      <4>1. tally.stored[p][n] <= tally.lives[p] /\ tally.stored[p][n] \in Nat /\ app[p].sent[n] \in Int
        BY CountFacts DEF CInv, Sent
      <4>2. tally'.stored[p][n] = tally.stored[p][n]
        BY <2>1, <2>3, <3>2 DEF Stores
      <4>3. CASE tally'.lives[p] > tally.lives[p]
        BY <1>3, <4>1, <4>2, <4>3
      <4>4. ASSUME NEW k \in 1..num, clients[k].id = p, clients[k].last <= e.last
            PROVE  tally.stored[p][n] < tally.lives[p]
        <5>1. clients[k].last \in Int /\ Noted(clients[k], app, tally)
          BY CountFacts DEF CInv
        <5>2. clients[k].last < app[p].sent[n]
          BY <2>2, <3>2, <4>1, <4>4, <5>1
        <5> QED BY <4>4, <5>1, <5>2 DEF Noted
      <4> QED BY <1>3, <2>6, <4>1, <4>2, <4>3, <4>4
    <3>3. tally'.lives[p] > 0
      <4>1. CASE tally'.lives[p] > tally.lives[p]
        BY <1>3, <4>1
      <4>2. ASSUME NEW k \in 1..num, clients[k].id = p PROVE tally.lives[p] > 0
        BY <4>2 DEF CInv, Noted
      <4> QED BY <1>3, <2>6, <4>1, <4>2
    <3> QED BY <2>1, <2>3, <2>6, <3>1, <3>2, <3>3 DEF Noted
  <2> QED BY <2>1, <2>3, <2>4, <2>5, <2>6 DEF Comes
<1>7. ASSUME NEW m \in net' PROVE Told(m, app, tally')
  <2>1. CASE m \in net
    <3>1. Told(m, app, tally) /\ MsgOK(m, posts, app, past, newest)
      BY <2>1, Facts DEF CInv
    <3>2. m.kind \in {"login", "command", "request", "text"} => m.from \in Nodes
      BY <3>1 DEF MsgOK
    <3>3. m.kind = "ack" => m.to \in Nodes
      BY <3>1 DEF MsgOK
    <3> QED BY <3>1, <3>2, <3>3, SettledStays DEF Told
  <2> QED BY <2>1
<1> QED BY <1>b, <1>1, <1>2, <1>4, <1>5, <1>6, <1>7 DEF CInv

-----------------------------------------------------------------------------
(* What the operations on the table and on the counts do to seats and counts *)

LEMMA NothingStored ==
  ASSUME IInv, CInv, NEW G2, Onward(tally, G2), G2.stored = tally.stored, NEW T, NEW n
  PROVE  Stores(T, n, G2)
<1> SUFFICES ASSUME NEW p \in Nodes, NEW k \in DOMAIN app[p].sent
             PROVE  tally.stored[p][k] <= G2.stored[p][k] /\ G2.stored[p][k] <= G2.lives[p]
  BY DEF Stores
<1>1. tally.stored[p][k] \in Nat /\ tally.lives[p] \in Nat /\ tally.stored[p][k] <= tally.lives[p]
  BY CountFacts DEF CInv, Sent
<1>2. G2.lives[p] \in Nat /\ tally.lives[p] <= G2.lives[p]
  BY DEF Onward, Tallies
<1> QED BY <1>1, <1>2

LEMMA SameCounts ==
  ASSUME IInv, CInv
  PROVE  Onward(tally, tally) /\ \A j \in 1..num : Comes(clients[j], tally)
BY CountFacts DEF Onward, Comes, Like

LEMMA HeardCounts ==
  ASSUME IInv, CInv, NEW id \in Nodes
  PROVE  LET G == Heard(id)
         IN /\ Onward(tally, G) /\ G.unheard[id] = 0 /\ G.stored = tally.stored /\ G.lives = tally.lives
            /\ G.removals = tally.removals /\ G.ambiguous = tally.ambiguous
<1>1. PICK G \in Tallies : G = tally
  BY DEF CInv
<1> DEFINE u == [G.unheard EXCEPT ![id] = 0]
<1>2. u \in [Nodes -> Nat] /\ u[id] = 0 /\ \A p \in Nodes : u[p] <= G.unheard[p]
  BY DEF Tallies
<1>3. Heard(id) = [G EXCEPT !.unheard = u]
  BY <1>1, <1>2 DEF Heard, Tallies
<1> HIDE DEF u
<1>4. PICK G2 : G2 = [G EXCEPT !.unheard = u]
  OBVIOUS
<1>5. /\ G2 \in Tallies /\ G2.unheard = u /\ G2.stored = G.stored /\ G2.lives = G.lives
      /\ G2.removals = G.removals /\ G2.ambiguous = G.ambiguous /\ G.removals \in Nat
      /\ \A p \in Nodes : G.lives[p] \in Nat
  BY <1>2, <1>4 DEF Tallies
<1>6. Onward(G, G2)
  BY <1>2, <1>5 DEF Onward
<1> QED BY <1>1, <1>2, <1>3, <1>4, <1>5, <1>6

\* other counts of lives in G
LEMMA LivesCounts ==
  ASSUME NEW G \in Tallies, NEW f \in [Nodes -> Nat], \A p \in Nodes : G.lives[p] <= f[p],
         NEW G2, G2 = [G EXCEPT !.lives = f]
  PROVE  /\ Onward(G, G2) /\ G2.lives = f /\ G2.unheard = G.unheard /\ G2.stored = G.stored
         /\ G2.removals = G.removals /\ G2.ambiguous = G.ambiguous
<1>1. /\ G2 \in Tallies /\ G2.lives = f /\ G2.stored = G.stored /\ G2.unheard = G.unheard
      /\ G2.removals = G.removals /\ G2.ambiguous = G.ambiguous /\ G.removals \in Nat
      /\ \A p \in Nodes : G.unheard[p] \in Nat
  BY DEF Tallies
<1> QED BY <1>1 DEF Onward

LEMMA OnwardTwice ==
  ASSUME NEW G \in Tallies, NEW G2, NEW G3, Onward(G, G2), Onward(G2, G3)
  PROVE  Onward(G, G3)
<1>1. /\ G.removals \in Nat /\ G2.removals \in Nat /\ G3.removals \in Nat /\ G.removals <= G2.removals
      /\ G2.removals <= G3.removals /\ G3 \in Tallies
  BY DEF Onward, Tallies
<1>2. ASSUME NEW p \in Nodes
      PROVE  /\ G3.unheard[p] <= G.unheard[p] /\ G.lives[p] <= G3.lives[p]
             /\ G.ambiguous[p] \subseteq G3.ambiguous[p]
  <2>1. /\ G.unheard[p] \in Nat /\ G2.unheard[p] \in Nat /\ G3.unheard[p] \in Nat
        /\ G.lives[p] \in Nat /\ G2.lives[p] \in Nat /\ G3.lives[p] \in Nat
    BY DEF Onward, Tallies
  <2>2. /\ G2.unheard[p] <= G.unheard[p] /\ G.lives[p] <= G2.lives[p] /\ G.ambiguous[p] \subseteq G2.ambiguous[p]
        /\ G3.unheard[p] <= G2.unheard[p] /\ G2.lives[p] <= G3.lives[p] /\ G2.ambiguous[p] \subseteq G3.ambiguous[p]
    BY DEF Onward
  <2> QED BY <2>1, <2>2
<1>3. G.removals <= G3.removals
  BY <1>1
<1> QED BY <1>1, <1>2, <1>3 DEF Onward

LEMMA LikeComes ==
  ASSUME NEW G, NEW e, NEW f, Comes(f, G), Like(e, f)
  PROVE  Comes(e, G)
<1>1. CASE \E k \in 1..num : Like(f, clients[k])
  BY <1>1 DEF Like, Comes
<1>2. CASE f.last = 0 /\ f.activity = 0 /\ G.lives[f.id] > tally.lives[f.id]
  BY <1>2 DEF Like, Comes
<1>3. CASE /\ G.unheard[f.id] = 0 /\ Clear(f.last, f.id, app, G)
           /\ \/ G.lives[f.id] > tally.lives[f.id]
              \/ \E k \in 1..num : clients[k].id = f.id /\ clients[k].last <= f.last
  BY <1>3 DEF Like, Comes
<1> QED BY <1>1, <1>2, <1>3 DEF Comes

\* More lives, or removals, change nothing about where a seat comes from.
LEMMA ComesLater ==
  ASSUME NEW G, NEW G2, Onward(G, G2), G \in Tallies, tally \in Tallies, G2.stored = G.stored, G2.unheard = G.unheard,
         G2.ambiguous = G.ambiguous, NEW e, e.id \in Nodes, Comes(e, G)
  PROVE  Comes(e, G2)
<1>1. \A s, p : Clear(s, p, app, G) => Clear(s, p, app, G2)
  BY DEF Clear, Settled
<1>2. G.lives[e.id] > tally.lives[e.id] => G2.lives[e.id] > tally.lives[e.id]
  <2>1. G.lives[e.id] <= G2.lives[e.id] /\ G.lives[e.id] \in Nat /\ G2.lives[e.id] \in Nat /\ tally.lives[e.id] \in Nat
    BY DEF Onward, Tallies
  <2> QED BY <2>1
<1> QED BY <1>1, <1>2 DEF Comes

\* Only the seat that is touched may become an active one.
LEMMA TouchedLike ==
  ASSUME NEW T \in [Seats -> Entry], NEW i \in Seats, NEW T2, T2 = Touched(T, i)
  PROVE  /\ \A j \in Seats : j # i => Like(T2[j], T[j])
         /\ T2[i].id = T[i].id /\ T2[i].last = T[i].last
<1> DEFINE others == {k \in Taken \ {i} : T[k].activity # 0}
           Rank(j) == Cardinality({k \in others : T[k].activity <= T[j].activity})
           act(j) == IF j = i THEN Cardinality(others) + 1 ELSE IF j \in others THEN Rank(j) ELSE T[j].activity
<1>1. \A j \in Seats : T2[j] = [T[j] EXCEPT !.activity = act(j)]
  BY DEF Touched
<1>2. \A j \in Seats : j # i /\ T[j].activity = 0 => act(j) = 0
  OBVIOUS
<1> HIDE DEF act
<1>3. ASSUME NEW j \in Seats
      PROVE  /\ T2[j].id = T[j].id /\ T2[j].last = T[j].last /\ T2[j].failures = T[j].failures
             /\ T2[j].pending = T[j].pending /\ T2[j].activity = act(j)
  <2>1. T[j] \in Entry
    OBVIOUS
  <2> QED BY <1>1, <2>1 DEF Entry
<1> QED BY <1>2, <1>3 DEF Like

\* putClient() makes a blank seat in a new life, or none.
LEMMA PutComes ==
  ASSUME IInv, CInv, NEW t \in [Seats -> Entry], NEW G \in Tallies, G.lives = tally.lives,
         \A j \in 1..num : t[j].id \in Nodes /\ Comes(t[j], G), NEW id \in Nodes,
         NEW put, put = putClient(t, id), NEW G2, G2 = [G EXCEPT !.lives = put.lives]
  PROVE  /\ Onward(G, G2) /\ G2.unheard = G.unheard /\ G2.stored = G.stored
         /\ G2.removals = G.removals /\ G2.ambiguous = G.ambiguous
         /\ \A j \in 1..put.num : Comes(put.table[j], G2)
         /\ put.num \in Nat /\ num \in Nat /\ put.num >= num
         /\ ~Holds(id) => G2.lives[id] > tally.lives[id]
         /\ Holds(id) => put.table = t /\ Seat(id) = SeatOf(id)
<1>1. num \in Nat /\ Capacity \in Nat \ {0} /\ num <= Capacity
  BY Facts, SlotsNonEmpty
<1>2. /\ put.lives \in [Nodes -> Nat] /\ \A p \in Nodes : G.lives[p] <= put.lives[p]
      /\ ~Holds(id) => put.lives[id] > tally.lives[id]
  <2>1. tally.lives \in [Nodes -> Nat]
    BY CountFacts DEF Tallies
  <2>2. put.lives = IF Holds(id) THEN tally.lives ELSE [tally.lives EXCEPT ![id] = tally.lives[id] + 1]
    BY DEF putClient
  <2> QED BY <2>1, <2>2
<1>3. /\ Onward(G, G2) /\ G2.lives = put.lives /\ G2.unheard = G.unheard /\ G2.stored = G.stored
      /\ G2.removals = G.removals /\ G2.ambiguous = G.ambiguous
  BY <1>2, LivesCounts
<1>4. \A j \in 1..num : Comes(t[j], G2)
  BY <1>3, CountFacts, ComesLater
<1>5. CASE Holds(id)
  <2>1. put.table = t /\ put.num = num /\ Seat(id) = SeatOf(id)
    BY <1>5 DEF putClient, Seat
  <2> QED BY <1>1, <1>3, <1>4, <1>5, <2>1
<1>6. CASE ~Holds(id)
  <2> DEFINE s == Seat(id)  e == Blank(id, "guest")
  <2>1. s \in Seats /\ s = IF num < Capacity THEN num + 1 ELSE Oldest
    BY <1>6, Facts, SeatFound
  <2>2. put.table = [t EXCEPT ![s] = e] /\ put.num = IF num = Capacity THEN num ELSE num + 1
    BY <1>6 DEF putClient
  <2>3. Comes(e, G2)
    BY <1>2, <1>3, <1>6 DEF Comes, Blank
  <2> HIDE DEF e, s
  <2>4. put.num \in Nat /\ put.num >= num /\ put.num <= Capacity /\ \A j \in 1..put.num : j \in Seats /\ (j = s \/ j \in 1..num)
    <3>1. CASE num < Capacity
      BY <1>1, <2>1, <2>2, <3>1 DEF Seats
    <3>2. CASE num = Capacity
      BY <1>1, <2>2, <3>2 DEF Seats
    <3> QED BY <1>1, <3>1, <3>2
  <2>5. \A j \in Seats : put.table[j] = IF j = s THEN e ELSE t[j]
    BY <2>1, <2>2
  <2>6. \A j \in 1..put.num : Comes(put.table[j], G2)
    BY <1>4, <2>3, <2>4, <2>5
  <2> QED BY <1>1, <1>2, <1>3, <1>6, <2>4, <2>6
<1> QED BY <1>5, <1>6

\* More seats taken: the turn is the less likely on a vacated one.
LEMMA StaleLess ==
  ASSUME NEW x \in Nat, NEW n \in Nat, NEW n2 \in Nat, n2 >= n
  PROVE  Stale(x, n2) <= Stale(x, n)
BY DEF Stale

\* the seat of a node that is heard
LEMMA AliveComes ==
  ASSUME IInv, CInv, NEW m, m.from \in Nodes, m.stamp \in Int, Holds(m.from), ~IsReplay(m),
         NEW T, T = Alive(m), NEW G, G.unheard[m.from] = 0, Clear(m.stamp, m.from, app, G)
  PROVE  \A j \in 1..num : Comes(T[j], G) /\ (T[j].id = m.from => T[j].last = m.stamp)
<1> DEFINE i == SeatOf(m.from)
           e == [clients[i] EXCEPT !.last = m.stamp, !.failures = 0]
<1>1. i \in 1..num /\ clients[i].id = m.from /\ 1..num \subseteq Seats /\ clients \in [Seats -> Entry]
  BY Facts, SeatFound
<1>2. clients[i] \in Entry
  BY <1>1
<1>3. e \in Entry /\ e.id = m.from /\ e.last = m.stamp
  BY <1>1, <1>2 DEF Entry
<1>4. T = Touched([clients EXCEPT ![i] = e], i)
  BY <1>1 DEF Alive
<1>5. clients[i].last <= m.stamp
  BY <1>1, CountFacts DEF IsReplay
<1> HIDE DEF e, i
<1>6. PICK T1 : T1 = [clients EXCEPT ![i] = e]
  OBVIOUS
<1>7. T1 \in [Seats -> Entry] /\ T1[i] = e /\ \A j \in Seats : j # i => T1[j] = clients[j]
  BY <1>1, <1>3, <1>6
<1>8. (\A j \in Seats : j # i => Like(T[j], T1[j])) /\ T[i].id = T1[i].id /\ T[i].last = T1[i].last
  BY <1>1, <1>4, <1>6, <1>7, TouchedLike, ZenonT(30)
<1>9. Comes(T[i], G)
  BY <1>1, <1>3, <1>5, <1>7, <1>8 DEF Comes
<1>10. ASSUME NEW j \in 1..num, j # i PROVE Comes(T[j], G) /\ T[j].id # m.from
  <2>1. Like(T[j], clients[j])
    BY <1>1, <1>7, <1>8, <1>10
  <2>2. clients[j].id # clients[i].id
    BY <1>1, <1>10, Facts DEF TableOK
  <2> QED BY <1>1, <2>1, <2>2 DEF Comes, Like
<1> QED BY <1>3, <1>7, <1>8, <1>9, <1>10

\* A command removes a node, gives one a seat or leaves the seats alone.
LEMMA HandleComes ==
  ASSUME IInv, CInv, NEW t \in [Seats -> Entry], NEW G \in Tallies, G.lives = tally.lives,
         G.removals = tally.removals, G.stored = tally.stored, Onward(tally, G),
         \A j \in 1..num : t[j].id \in Nodes /\ Comes(t[j], G), \A j \in Seats : t[j].id = clients[j].id,
         NEW cmd \in Commands, handleCommand(t, G, cmd), nextClient' = nextClient
  PROVE  /\ Onward(tally, tally') /\ tally'.stored = tally.stored
         /\ \A j \in 1..num' : Comes(clients'[j], tally')
         /\ Stale(nextClient, num)' + tally.removals <= Stale(nextClient, num) + tally'.removals
<1>1. num \in Nat /\ nextClient \in Nat /\ 1..num \subseteq Seats /\ tally.removals \in Nat /\ tally \in Tallies
  BY Facts, SlotsNonEmpty, CountFacts
<1>2. CASE clients' = t /\ tally' = G /\ num' = num
  BY <1>1, <1>2 DEF Stale
<1>3. ASSUME cmd.op # "post", cmd.perm = "guest", Holds(cmd.id), cmd.id \in Nodes, setperm(t, G, cmd)
      PROVE  /\ Onward(tally, tally') /\ tally'.stored = tally.stored
             /\ \A j \in 1..num' : Comes(clients'[j], tally')
             /\ Stale(nextClient, num)' + tally.removals <= Stale(nextClient, num) + tally'.removals
  <2>1. PICK i \in 1..num : i = SeatOf(cmd.id)
    BY <1>3, Facts, SeatFound
  <2>2. clients' = Without(t, i) /\ num' = num - 1 /\ tally' = [G EXCEPT !.removals = G.removals + 1]
    BY <1>3, <2>1 DEF setperm
  <2>3. PICK G2 : G2 = [G EXCEPT !.removals = G.removals + 1]
    OBVIOUS
  <2>4. /\ G2 \in Tallies /\ G2.removals = tally.removals + 1 /\ G2.stored = G.stored /\ G2.unheard = G.unheard
        /\ G2.lives = G.lives /\ G2.ambiguous = G.ambiguous
    <3>1. PICK r \in Nat : r = G.removals + 1
      BY <1>1
    <3>2. G2 = [G EXCEPT !.removals = r]
      BY <2>3, <3>1
    <3>3. G2 \in Tallies /\ G2.removals = r /\ G2.stored = G.stored /\ G2.unheard = G.unheard
          /\ G2.lives = G.lives /\ G2.ambiguous = G.ambiguous
      BY <3>2 DEF Tallies
    <3> QED BY <3>1, <3>3
  <2>5. Onward(G, G2)
    <3>1. \A p \in Nodes : G.lives[p] \in Nat /\ G.unheard[p] \in Nat
      BY DEF Tallies
    <3> QED BY <1>1, <2>4, <3>1 DEF Onward
  <2>6. ASSUME NEW j \in 1..num' PROVE Comes(clients'[j], tally')
    <3>1. PICK k \in 1..num : clients'[j] = t[k]
      <4>1. j \in Seats /\ j \in 1..num /\ (j < num => j + 1 \in 1..num)
        BY <1>1, <2>2
      <4> QED BY <2>2, <4>1 DEF Without
    <3>2. Comes(t[k], G2)
      BY <1>1, <2>4, <2>5, ComesLater
    <3> QED BY <2>2, <2>3, <3>1, <3>2
  <2>7. Stale(nextClient, num)' + tally.removals <= Stale(nextClient, num) + tally'.removals
    <3>1. tally'.removals = tally.removals + 1
      BY <2>2, <2>3, <2>4
    <3>2. Stale(nextClient, num)' \in {0, 1} /\ Stale(nextClient, num) \in {0, 1}
      BY DEF Stale
    <3> QED BY <1>1, <3>1, <3>2
  <2>8. Onward(tally, G2)
    BY <1>1, <2>5, OnwardTwice
  <2> QED BY <2>2, <2>3, <2>4, <2>6, <2>7, <2>8
<1>4. ASSUME cmd.op # "post", cmd.perm # "guest", cmd.id \in Nodes, setperm(t, G, cmd)
      PROVE  /\ Onward(tally, tally') /\ tally'.stored = tally.stored
             /\ \A j \in 1..num' : Comes(clients'[j], tally')
             /\ Stale(nextClient, num)' + tally.removals <= Stale(nextClient, num) + tally'.removals
  <2>1. PICK put : put = putClient(t, cmd.id)
    OBVIOUS
  <2>2. PICK s : s = Seat(cmd.id)
    OBVIOUS
  <2>3. /\ clients' = [put.table EXCEPT ![s].perm = cmd.perm] /\ num' = put.num
        /\ tally' = [G EXCEPT !.lives = put.lives]
    BY <1>4, <2>1, <2>2 DEF setperm
  <2>4. PICK G2 : G2 = [G EXCEPT !.lives = put.lives]
    OBVIOUS
  <2>5. /\ Onward(G, G2) /\ G2.stored = G.stored /\ G2.removals = G.removals
        /\ \A j \in 1..put.num : Comes(put.table[j], G2)
        /\ put.num \in Nat /\ put.num >= num
    BY <1>4, <2>1, <2>4, PutComes
  <2>6. put.table \in [Seats -> Entry] /\ put.num <= Capacity /\ s \in Seats
    <3>1. s \in Seats
      BY <1>4, <2>2, Facts, SeatFound
    <3>2. Blank(cmd.id, "guest") \in Entry
      BY <1>4 DEF Blank, Entry, Perms, Acks, NoAck
    <3>3. put.table = t \/ put.table = [t EXCEPT ![s] = Blank(cmd.id, "guest")]
      BY <2>1, <2>2 DEF putClient
    <3>4. put.num = num \/ (num # Capacity /\ put.num = num + 1)
      BY <2>1 DEF putClient
    <3>5. put.num <= Capacity
      <4>1. num \in 0..Capacity /\ Capacity \in Nat
        BY Facts, SlotsNonEmpty
      <4>2. CASE put.num = num
        BY <4>1, <4>2
      <4>3. CASE num # Capacity /\ put.num = num + 1
        <5>1. num + 1 <= Capacity
          BY <4>1, <4>3
        <5> QED BY <4>3, <5>1
      <4> QED BY <3>4, <4>2, <4>3
    <3>6. put.table \in [Seats -> Entry]
      BY <3>2, <3>3
    <3> QED BY <3>1, <3>5, <3>6
  <2>7. ASSUME NEW j \in 1..num' PROVE Comes(clients'[j], tally')
    <3>1. j \in 1..put.num /\ j \in Seats
      BY <2>3, <2>5, <2>6, SlotsNonEmpty DEF Seats
    <3>2. put.table[j] \in Entry /\ clients'[j] = IF j = s THEN [put.table[j] EXCEPT !.perm = cmd.perm] ELSE put.table[j]
      BY <2>3, <2>6, <3>1
    <3>3. Like(clients'[j], put.table[j])
      BY <3>2 DEF Like, Entry
    <3> QED BY <2>3, <2>4, <2>5, <3>1, <3>3, LikeComes
  <2>8. Stale(nextClient, num)' <= Stale(nextClient, num)
    BY <1>1, <2>3, <2>5, StaleLess DEF Stale
  <2>9. Stale(nextClient, num)' + tally.removals <= Stale(nextClient, num) + tally'.removals
    <3>1. Stale(nextClient, num)' \in {0, 1} /\ Stale(nextClient, num) \in {0, 1}
      BY DEF Stale
    <3>2. tally'.removals = tally.removals
      BY <2>3, <2>4, <2>5
    <3> QED BY <1>1, <2>8, <3>1, <3>2
  <2>10. Onward(tally, G2)
    BY <1>1, <2>5, OnwardTwice
  <2> QED BY <2>3, <2>4, <2>5, <2>7, <2>9, <2>10
<1>5. CASE cmd.op = "post"
  BY <1>2, <1>5 DEF handleCommand
<1>6. CASE cmd.op # "post"
  <2>1. setperm(t, G, cmd) /\ cmd.id \in Nodes
    BY <1>6 DEF handleCommand, Commands
  <2>2. CASE cmd.perm = "guest" /\ ~Holds(cmd.id)
    BY <1>2, <2>1, <2>2 DEF setperm
  <2> QED BY <1>3, <1>4, <1>6, <2>1, <2>2
<1> QED BY <1>5, <1>6

-----------------------------------------------------------------------------
(* The steps, counted *)

LEMMA LoginCounts ==
  ASSUME IInv, IInv', CInv, NEW m \in net, RecvLogin(m)
  PROVE  CInv'
<1>1. m.kind = "login" /\ m.from \in Nodes /\ m.stamp \in Int /\ Clear(m.stamp, m.from, app, tally)
  BY Facts DEF RecvLogin, MsgOK, CInv, Told
<1>2. UNCHANGED app /\ net' \subseteq net
  BY DEF RecvLogin
<1>3. PICK G : G = Heard(m.from)
  OBVIOUS
<1>4. /\ Onward(tally, G) /\ G.unheard[m.from] = 0 /\ G.stored = tally.stored /\ G.lives = tally.lives
      /\ G.removals = tally.removals /\ G.ambiguous = tally.ambiguous /\ G \in Tallies
      /\ tally \in Tallies
  BY <1>1, <1>3, HeardCounts, CountFacts DEF Onward
<1>5. /\ num \in Nat /\ nextClient \in Nat /\ clients \in [Seats -> Entry] /\ tally.removals \in Nat
      /\ \A j \in 1..num : clients[j].id \in Nodes /\ Comes(clients[j], tally)
      /\ \A j \in 1..num : clients[j].id \in Nodes /\ Comes(clients[j], G)
  <2>1. \A j \in 1..num : Comes(clients[j], G)
    BY DEF Comes, Like
  <2> QED BY <2>1, SameCounts, Facts, SlotsNonEmpty, CountFacts
<1>6. CASE UNCHANGED table /\ (tally' = tally \/ tally' = G)
  <2>1. Onward(tally, tally') /\ tally'.stored = tally.stored /\ tally'.removals = tally.removals
    BY <1>4, <1>6, SameCounts
  <2>2. Stores(clients', num', tally')
    BY <2>1, NothingStored
  <2>3. Stale(nextClient, num)' + tally.removals <= Stale(nextClient, num) + tally'.removals
    BY <1>5, <1>6, <2>1 DEF Stale, table
  <2>4. \A j \in 1..num' : Comes(clients'[j], tally')
    BY <1>5, <1>6 DEF table
  <2> QED BY <1>2, <2>1, <2>2, <2>3, <2>4, ServerKeeps
<1>7. CASE ~UNCHANGED table \/ ~(tally' = tally \/ tally' = G)
  <2>1. PICK put : put = putClient(clients, m.from)
    OBVIOUS
  <2>2. PICK s : s = Seat(m.from)
    OBVIOUS
  <2>3. PICK e : e = LoggedIn(put.table[s], m)
    OBVIOUS
  <2>4. /\ Granted(m) # "refused" /\ num' = put.num /\ UNCHANGED nextClient
        /\ \/ clients' = put.table /\ tally' = [tally EXCEPT !.lives = put.lives]
           \/ /\ clients' = Touched([put.table EXCEPT ![s] = e], s) /\ tally' = [G EXCEPT !.lives = put.lives]
              /\ ~(m.stamp <= put.table[s].last)
    <3>1. ~Recognised(m) /\ Granted(m) # "refused"
      BY <1>3, <1>7 DEF RecvLogin
    <3>2. [put.table EXCEPT ![s] = LoggedIn(@, m)] = [put.table EXCEPT ![s] = LoggedIn(put.table[s], m)]
      OBVIOUS
    <3> QED BY <1>3, <2>1, <2>2, <2>3, <3>1, <3>2 DEF RecvLogin
  <2>5. TableOK(put.table, put.num, posts, app, past, newest) /\ s \in 1..put.num /\ s \in Seats /\ put.table[s].id = m.from
    BY <1>1, <2>1, <2>2, Facts, PutOK, SeatFound
  <2>6. CASE clients' = put.table /\ tally' = [tally EXCEPT !.lives = put.lives]
    <3>1. PICK G2 : G2 = [tally EXCEPT !.lives = put.lives]
      OBVIOUS
    <3>2. /\ Onward(tally, G2) /\ G2.stored = tally.stored /\ G2.removals = tally.removals
          /\ \A j \in 1..put.num : Comes(put.table[j], G2)
          /\ put.num \in Nat /\ put.num >= num
      BY <1>1, <1>4, <1>5, <2>1, <3>1, PutComes
    <3>3. Stores(clients', num', tally')
      BY <2>6, <3>1, <3>2, NothingStored
    <3>4. Stale(nextClient, num)' + tally.removals <= Stale(nextClient, num) + tally'.removals
      <4>1. Stale(nextClient, put.num) <= Stale(nextClient, num)
        BY <1>5, <3>2, StaleLess
      <4> QED BY <1>5, <2>4, <2>6, <3>1, <3>2, <4>1 DEF Stale
    <3> QED BY <1>2, <2>4, <2>6, <3>1, <3>2, <3>3, <3>4, ServerKeeps
  <2>7. CASE /\ clients' = Touched([put.table EXCEPT ![s] = e], s) /\ tally' = [G EXCEPT !.lives = put.lives]
             /\ ~(m.stamp <= put.table[s].last)
    <3>1. PICK G2 : G2 = [G EXCEPT !.lives = put.lives]
      OBVIOUS
    <3>2. /\ Onward(G, G2) /\ G2.unheard = G.unheard /\ G2.stored = G.stored
          /\ G2.removals = G.removals /\ G2.ambiguous = G.ambiguous
          /\ \A j \in 1..put.num : Comes(put.table[j], G2)
          /\ put.num \in Nat /\ num \in Nat /\ put.num >= num
          /\ ~Holds(m.from) => G2.lives[m.from] > tally.lives[m.from]
          /\ Holds(m.from) => put.table = clients /\ Seat(m.from) = SeatOf(m.from)
      <4>1. G \in Tallies /\ G.lives = tally.lives /\ clients \in [Seats -> Entry]
            /\ \A j \in 1..num : clients[j].id \in Nodes /\ Comes(clients[j], G)
        BY <1>4, <1>5
      <4>2. PICK T \in [Seats -> Entry] : T = clients
        BY <4>1
      <4>3. /\ \A j \in 1..num : T[j].id \in Nodes /\ Comes(T[j], G)
            /\ put = putClient(T, m.from)
        BY <2>1, <4>1, <4>2
      <4>4. /\ Onward(G, G2) /\ G2.unheard = G.unheard /\ G2.stored = G.stored
            /\ G2.removals = G.removals /\ G2.ambiguous = G.ambiguous
            /\ \A j \in 1..put.num : Comes(put.table[j], G2)
            /\ put.num \in Nat /\ num \in Nat /\ put.num >= num
            /\ ~Holds(m.from) => G2.lives[m.from] > tally.lives[m.from]
            /\ Holds(m.from) => put.table = T /\ Seat(m.from) = SeatOf(m.from)
        <5>1. IInv /\ CInv /\ G \in Tallies /\ G.lives = tally.lives /\ m.from \in Nodes
          BY <1>1, <4>1
        <5>2. /\ Onward(G, G2) /\ G2.unheard = G.unheard /\ G2.stored = G.stored
              /\ G2.removals = G.removals /\ G2.ambiguous = G.ambiguous
          BY <3>1, <4>3, <5>1, PutComes
        <5>3. \A j \in 1..put.num : Comes(put.table[j], G2)
          BY <3>1, <4>3, <5>1, PutComes
        <5>4. put.num \in Nat /\ num \in Nat /\ put.num >= num
          BY <3>1, <4>3, <5>1, PutComes
        <5>5. ~Holds(m.from) => G2.lives[m.from] > tally.lives[m.from]
          <6>1. PICK f \in [Nodes -> Nat] : f = tally.lives
            BY CountFacts DEF Tallies
          <6>2. ~Holds(m.from) => put.lives = [f EXCEPT ![m.from] = f[m.from] + 1]
            BY <2>1, <6>1 DEF putClient
          <6>3. G2.lives = put.lives
            BY <3>1, <5>1 DEF Tallies
          <6> QED BY <5>1, <6>1, <6>2, <6>3
        <5>6. Holds(m.from) => put.table = T /\ Seat(m.from) = SeatOf(m.from)
          BY <3>1, <4>3, <5>1, PutComes
        <5> QED BY <5>2, <5>3, <5>4, <5>5, <5>6
      <4> QED BY <4>2, <4>4
    <3>3. Onward(tally, G2)
      BY <1>4, <3>2, OnwardTwice
    <3>4. Stores(clients', num', tally')
      BY <1>4, <2>7, <3>1, <3>2, <3>3, NothingStored
    <3>5. Stale(nextClient, num)' + tally.removals <= Stale(nextClient, num) + tally'.removals
      <4>1. Stale(nextClient, put.num) <= Stale(nextClient, num)
        BY <1>5, <3>2, StaleLess
      <4> QED BY <1>4, <1>5, <2>4, <2>7, <3>1, <3>2, <4>1 DEF Stale
    <3>6. PICK T : T = [put.table EXCEPT ![s] = e]
      OBVIOUS
    <3>7. put.table \in [Seats -> Entry] /\ put.table[s] \in Entry /\ 1..put.num \subseteq Seats
      BY <2>5, SlotsNonEmpty DEF TableOK, Seats
    <3>8. e \in Entry /\ e.id = m.from /\ e.last = m.stamp
      <4>1. Granted(m) \in Perms
        BY <2>4 DEF Granted, Perms
      <4>2. m.since \in Nat
        BY <1>1, Facts DEF MsgOK
      <4> QED BY <1>1, <2>3, <2>5, <3>7, <4>1, <4>2 DEF LoggedIn, Entry, Acks, NoAck
    <3>9. T \in [Seats -> Entry] /\ T[s] = e /\ \A j \in Seats : j # s => T[j] = put.table[j]
      BY <2>5, <3>6, <3>7, <3>8
    <3>10. PICK T2 : T2 = Touched(T, s)
      OBVIOUS
    <3>11. (\A j \in Seats : j # s => Like(T2[j], T[j])) /\ T2[s].id = m.from /\ T2[s].last = m.stamp
      BY <2>5, <3>8, <3>9, <3>10, TouchedLike
    <3>12. Comes(T2[s], G2)
      <4>1. Clear(m.stamp, m.from, app, G2)
        BY <1>1, <1>4, <3>2 DEF Clear, Settled
      <4>2. G2.unheard[m.from] = 0
        BY <1>4, <3>2
      <4>3. ASSUME Holds(m.from) PROVE \E k \in 1..num : clients[k].id = m.from /\ clients[k].last <= m.stamp
        <5>1. SeatOf(m.from) \in 1..num /\ clients[SeatOf(m.from)].id = m.from
          BY <1>1, <4>3, Facts, SeatFound
        <5>2. s = SeatOf(m.from) /\ put.table = clients /\ clients[s].last \in Int
          BY <2>2, <3>2, <4>3, <5>1, CountFacts
        <5>3. clients[s].last <= m.stamp
          BY <1>1, <2>7, <5>2
        <5> QED BY <5>1, <5>2, <5>3
      <4> QED BY <3>2, <3>11, <4>1, <4>2, <4>3 DEF Comes
    <3>13. ASSUME NEW j \in 1..put.num PROVE Comes(T2[j], G2)
      <4>1. j # s => Like(T2[j], put.table[j])
        BY <3>7, <3>9, <3>11
      <4> QED BY <3>2, <3>12, <4>1, LikeComes
    <3> QED BY <1>2, <2>4, <2>7, <3>1, <3>3, <3>4, <3>5, <3>6, <3>10, <3>13, ServerKeeps
  <2> QED BY <2>4, <2>6, <2>7
<1> QED BY <1>6, <1>7

LEMMA CommandCounts ==
  ASSUME IInv, IInv', CInv, NEW m \in net, RecvCommand(m)
  PROVE  CInv'
<1>1. /\ m.kind = "command" /\ m.from \in Nodes /\ m.stamp \in Int /\ m.cmd \in Commands
      /\ Clear(m.stamp, m.from, app, tally)
  BY Facts DEF RecvCommand, MsgOK, CInv, Told
<1>2. UNCHANGED <<nextClient, app>> /\ net' \subseteq net
  BY DEF RecvCommand
<1>3. num \in Nat /\ nextClient \in Nat /\ tally \in Tallies /\ tally.removals \in Nat
  BY Facts, SlotsNonEmpty, CountFacts
<1>4. CASE ~Holds(m.from) \/ IsReplay(m)
  <2>1. UNCHANGED <<clients, num, tally>>
    BY <1>4 DEF RecvCommand
  <2>2. Onward(tally, tally') /\ Stores(clients', num', tally') /\ \A j \in 1..num' : Comes(clients'[j], tally')
    BY <2>1, SameCounts, NothingStored
  <2>3. Stale(nextClient, num)' + tally.removals <= Stale(nextClient, num) + tally'.removals
    BY <1>2, <1>3, <2>1 DEF Stale
  <2> QED BY <1>2, <2>2, <2>3, ServerKeeps
<1>5. CASE Holds(m.from) /\ ~IsReplay(m)
  <2>1. PICK T : T = Alive(m)
    OBVIOUS
  <2>2. PICK G : G = Heard(m.from)
    OBVIOUS
  <2>3. /\ Onward(tally, G) /\ G.unheard[m.from] = 0 /\ G.stored = tally.stored /\ G.lives = tally.lives
        /\ G.removals = tally.removals /\ G.ambiguous = tally.ambiguous /\ G \in Tallies
    BY <1>1, <2>2, HeardCounts DEF Onward
  <2>4. TableOK(T, num, posts, app, past, newest) /\ \A j \in Seats : T[j].id = clients[j].id
    BY <1>1, <1>5, <2>1, AliveOK
  <2>5. Clear(m.stamp, m.from, app, G)
    BY <1>1, <2>3 DEF Clear, Settled
  <2>6. T \in [Seats -> Entry] /\ \A j \in 1..num : T[j].id \in Nodes /\ Comes(T[j], G)
    BY <1>1, <1>5, <2>1, <2>3, <2>4, <2>5, AliveComes DEF TableOK
  <2>7. CASE handleCommand(T, G, m.cmd)
    <3>1. /\ Onward(tally, tally') /\ tally'.stored = tally.stored
          /\ \A j \in 1..num' : Comes(clients'[j], tally')
          /\ Stale(nextClient, num)' + tally.removals <= Stale(nextClient, num) + tally'.removals
      BY <1>1, <1>2, <2>3, <2>4, <2>6, <2>7, HandleComes
    <3> QED BY <1>2, <3>1, NothingStored, ServerKeeps
  <2>8. CASE clients' = T /\ tally' = G /\ num' = num
    <3>1. Stale(nextClient, num)' + tally.removals <= Stale(nextClient, num) + tally'.removals
      BY <1>2, <1>3, <2>3, <2>8 DEF Stale
    <3>2. Stores(clients', num', tally')
      BY <2>3, <2>8, NothingStored
    <3> QED BY <1>2, <2>3, <2>6, <2>8, <3>1, <3>2, ServerKeeps
  <2> QED BY <1>5, <2>1, <2>2, <2>7, <2>8 DEF RecvCommand
<1> QED BY <1>4, <1>5

LEMMA ConsoleCounts ==
  ASSUME IInv, IInv', CInv, NEW cmd \in room.console, Console(cmd)
  PROVE  CInv'
<1>1. cmd \in Commands /\ UNCHANGED <<nextClient, net, app>>
  BY DEF Console, IInv, Setting
<1>2. PICK T : T = clients
  OBVIOUS
<1>3. PICK G : G = tally
  OBVIOUS
<1>4. handleCommand(T, G, cmd)
  BY <1>2, <1>3 DEF Console
<1>5. /\ G \in Tallies /\ Onward(tally, G) /\ \A j \in 1..num : T[j].id \in Nodes /\ Comes(T[j], G)
      /\ T \in [Seats -> Entry]
  BY <1>2, <1>3, SameCounts, CountFacts, Facts
<1>6. /\ Onward(tally, tally') /\ tally'.stored = tally.stored
      /\ \A j \in 1..num' : Comes(clients'[j], tally')
      /\ Stale(nextClient, num)' + tally.removals <= Stale(nextClient, num) + tally'.removals
  BY <1>1, <1>2, <1>3, <1>4, <1>5, HandleComes
<1> QED BY <1>1, <1>6, NothingStored, ServerKeeps

LEMMA RequestCounts ==
  ASSUME IInv, IInv', CInv, NEW m \in net, NEW direct \in BOOLEAN, RecvRequest(m, direct)
  PROVE  CInv'
<1>1. /\ m.kind = "request" /\ m.from \in Nodes /\ m.stamp \in Int
      /\ Clear(m.stamp, m.from, app, tally)
  BY Facts DEF RecvRequest, MsgOK, CInv, Told
<1>2. UNCHANGED <<num, nextClient, app>> /\ net' \subseteq net
  BY DEF RecvRequest
<1>3. num \in Nat /\ nextClient \in Nat /\ tally \in Tallies /\ tally.removals \in Nat
  BY Facts, SlotsNonEmpty, CountFacts
<1>4. CASE ~Holds(m.from) \/ IsReplay(m)
  <2>1. UNCHANGED <<clients, num, tally>>
    BY <1>2, <1>4 DEF RecvRequest
  <2>2. Onward(tally, tally') /\ Stores(clients', num', tally') /\ \A j \in 1..num' : Comes(clients'[j], tally')
    BY <2>1, SameCounts, NothingStored
  <2>3. Stale(nextClient, num)' + tally.removals <= Stale(nextClient, num) + tally'.removals
    BY <1>2, <1>3, <2>1 DEF Stale
  <2> QED BY <1>2, <2>2, <2>3, ServerKeeps
<1>5. CASE Holds(m.from) /\ ~IsReplay(m)
  <2>1. PICK T : T = Alive(m)
    OBVIOUS
  <2>2. PICK G : G = Heard(m.from)
    OBVIOUS
  <2>3. /\ Onward(tally, G) /\ G.unheard[m.from] = 0 /\ G.stored = tally.stored /\ G.lives = tally.lives
        /\ G.removals = tally.removals /\ G.ambiguous = tally.ambiguous /\ G \in Tallies
    BY <1>1, <2>2, HeardCounts DEF Onward
  <2>4. TableOK(T, num, posts, app, past, newest) /\ \A j \in Seats : T[j].id = clients[j].id
    BY <1>1, <1>5, <2>1, AliveOK
  <2>5. Clear(m.stamp, m.from, app, G)
    BY <1>1, <2>3 DEF Clear, Settled
  <2>6. \A j \in 1..num : Comes(T[j], G) /\ (T[j].id = m.from => T[j].last = m.stamp)
    BY <1>1, <1>5, <2>1, <2>3, <2>5, AliveComes
  <2>7. PICK i \in 1..num : i = SeatOf(m.from) /\ clients[i].id = m.from /\ clients[i].last <= m.stamp
    <3>1. SeatOf(m.from) \in 1..num /\ clients[SeatOf(m.from)].id = m.from
      BY <1>1, <1>5, Facts, SeatFound
    <3>2. clients[SeatOf(m.from)].last \in Int
      BY <3>1, CountFacts
    <3> QED BY <1>1, <1>5, <3>1, <3>2 DEF IsReplay
  <2>8. tally' = G /\ (clients' = T \/ clients' = [T EXCEPT ![i].since = IF m.since > 0 THEN m.since ELSE @, ![i].pending = NoAck])
    BY <1>5, <2>1, <2>2, <2>7 DEF RecvRequest
  <2>9. T \in [Seats -> Entry] /\ 1..num \subseteq Seats
    BY <2>4, Facts DEF TableOK
  <2>10. ASSUME NEW j \in 1..num PROVE Comes(clients'[j], G)
    <3>1. CASE j # i
      <4>1. clients'[j] = T[j]
        BY <2>8, <2>9, <3>1
      <4> QED BY <2>6, <4>1
    <3>2. CASE j = i
      <4>1. T[i] \in Entry /\ T[i].id = m.from /\ T[i].last = m.stamp
        BY <2>4, <2>6, <2>7, <2>9
      <4>2. clients'[i].id = m.from /\ clients'[i].last = m.stamp
        BY <2>8, <2>9, <4>1 DEF Entry
      <4> QED BY <2>3, <2>5, <2>7, <3>2, <4>2 DEF Comes
    <3> QED BY <3>1, <3>2
  <2>11. Stale(nextClient, num)' + tally.removals <= Stale(nextClient, num) + tally'.removals
    BY <1>2, <1>3, <2>3, <2>8 DEF Stale
  <2>12. Stores(clients', num', tally')
    BY <2>3, <2>8, NothingStored
  <2> QED BY <1>2, <2>3, <2>8, <2>10, <2>11, <2>12, ServerKeeps
<1> QED BY <1>4, <1>5

\* A text is stored by a seat it is new to; a retry and a guest's text only move the stamp.
LEMMA TextCounts ==
  ASSUME IInv, IInv', CInv, NEW m \in net, RecvText(m)
  PROVE  CInv'
<1>1. /\ m.kind = "text" /\ m.from \in Nodes /\ m.stamp \in Int
      /\ m.text \in DOMAIN app[m.from].sent /\ m.stamp = app[m.from].sent[m.text]
  BY Facts DEF RecvText, MsgOK, CInv, Told
<1>2. UNCHANGED app
  BY DEF RecvText
<1>3. num \in Nat /\ nextClient \in Nat /\ tally \in Tallies /\ tally.removals \in Nat
  BY Facts, SlotsNonEmpty, CountFacts
<1>4. CASE ~Holds(m.from) \/ IsReplay(m)
  <2>1. UNCHANGED <<clients, num, nextClient, tally>> /\ net' \subseteq net
    BY <1>4 DEF RecvText, table
  <2>2. Onward(tally, tally') /\ Stores(clients', num', tally') /\ \A j \in 1..num' : Comes(clients'[j], tally')
    BY <2>1, SameCounts, NothingStored
  <2>3. Stale(nextClient, num)' + tally.removals <= Stale(nextClient, num) + tally'.removals
    BY <1>3, <2>1 DEF Stale
  <2> QED BY <1>2, <2>1, <2>2, <2>3, ServerKeeps
<1>5. CASE Holds(m.from) /\ ~IsReplay(m)
  <2>1. PICK T : T = Alive(m)
    OBVIOUS
  <2>2. PICK G \in Tallies : G = Heard(m.from)
    BY <1>1, HeardCounts DEF Onward
  <2>3. /\ Onward(tally, G) /\ G.unheard[m.from] = 0 /\ G.stored = tally.stored /\ G.lives = tally.lives
        /\ G.removals = tally.removals /\ G.ambiguous = tally.ambiguous
    BY <1>1, <2>2, HeardCounts
  <2>4. PICK i \in 1..num : i = SeatOf(m.from) /\ clients[i].id = m.from
    BY <1>1, <1>5, Facts, SeatFound
  <2>5. clients[i].last <= m.stamp /\ clients[i].last \in Int /\ Noted(clients[i], app, tally)
    <3>1. clients[i].last \in Int /\ Noted(clients[i], app, tally)
      BY CountFacts DEF CInv
    <3> QED BY <1>1, <1>5, <2>4, <3>1 DEF IsReplay
  <2>6. clients' = T /\ num' = num /\ nextClient' = nextClient
    BY <1>5, <2>1 DEF RecvText
  <2>7. PICK p \in Nodes : p = m.from
    BY <1>1
  <2>8. PICK n \in DOMAIN app[p].sent : n = m.text /\ app[p].sent[n] = m.stamp
    BY <1>1, <2>7
  <2>9. /\ app[p].sent[n] \in 1..app[p].stamp /\ app[p].stamp \in Int
        /\ \A k \in DOMAIN app[p].sent : app[p].sent[k] = m.stamp => k = n \/ m.stamp \in tally.ambiguous[p]
    BY <2>8, CountFacts DEF CInv, Sent
  <2>10. m.stamp <= app[p].stamp + 1
    BY <2>8, <2>9
  \* It remains to show what became of the counts.
  <2>11. SUFFICES /\ Onward(tally, tally') /\ Stores(T, num, tally') /\ tally'.unheard[p] = 0
                  /\ tally'.removals = tally.removals /\ Clear(m.stamp, p, app, tally')
    <3>1. \A j \in 1..num : Comes(T[j], tally')
      BY <1>1, <1>5, <2>1, <2>7, <2>11, AliveComes
    <3>2. Stale(nextClient, num)' + tally.removals <= Stale(nextClient, num) + tally'.removals
      BY <1>3, <2>6, <2>11 DEF Stale
    <3>3. Settled(p, n, app, tally')
      BY <2>8, <2>11 DEF Clear
    <3>4. \A x \in net' : x \in net \/ x = [kind |-> "ack", to |-> p, text |-> n]
      BY <1>5, <2>7, <2>8 DEF RecvText
    <3>5. Told([kind |-> "ack", to |-> p, text |-> n], app, tally')
      BY <3>3 DEF Told
    <3>6. \A x \in net' : x \in net \/ Told(x, app, tally')
      BY <3>4, <3>5
    <3> QED BY <1>2, <2>6, <2>11, <3>1, <3>2, <3>6, ServerKeeps
  <2>12. CASE MayPost(m) /\ ~IsRetry(m)
    <3>1. tally' = [G EXCEPT !.stored[p][n] = @ + 1]
      BY <1>5, <2>2, <2>7, <2>8, <2>12 DEF RecvText
    <3>2. /\ G.stored[p] \in Seq(Nat) /\ n \in DOMAIN G.stored[p] /\ DOMAIN app[p].sent = DOMAIN G.stored[p]
          /\ G.stored \in [Nodes -> Seq(Nat)]
      BY <2>3, CountFacts DEF Tallies
    <3>3. PICK r \in Nat : r = G.stored[p][n] /\ r = tally.stored[p][n] /\ r + 1 \in Nat
      BY <2>3, CountFacts
    <3> DEFINE f == [G.stored[p] EXCEPT ![n] = r + 1]
               F == [G.stored EXCEPT ![p] = f]
    <3>4. f \in Seq(Nat) /\ Len(f) = Len(G.stored[p]) /\ f[n] = r + 1 /\ \A k \in DOMAIN G.stored[p] : k # n => f[k] = G.stored[p][k]
      BY <3>2, <3>3
    <3> HIDE DEF f
    <3>5. F \in [Nodes -> Seq(Nat)] /\ F[p] = f /\ \A q \in Nodes : q # p => F[q] = G.stored[q]
      BY <3>2, <3>4
    <3>6. tally' = [G EXCEPT !.stored = F]
      BY <3>1, <3>2, <3>3 DEF f, Tallies
    <3> HIDE DEF F
    <3>7. PICK G2 : G2 = [G EXCEPT !.stored = F]
      OBVIOUS
    <3>8. /\ G2 \in Tallies /\ G2.stored = F /\ G2.lives = G.lives /\ G2.unheard = G.unheard
          /\ G2.removals = G.removals /\ G2.ambiguous = G.ambiguous
      BY <3>5, <3>7 DEF Tallies
    <3>9. Onward(tally, G2)
      BY <2>3, <3>8 DEF Onward
    <3>10. clients[i].last < m.stamp
      BY <1>1, <2>4, <2>5, <2>12 DEF IsRetry
    <3>11. r < tally.lives[p] /\ tally.lives[p] \in Nat
      <4>1. tally.stored[p][n] < tally.lives[p]
        BY <2>4, <2>5, <2>7, <2>8, <3>10 DEF Noted
      <4> QED BY <3>3, <4>1, CountFacts
    <3>12. Stores(T, num, G2)
      <4> SUFFICES ASSUME NEW q \in Nodes
                   PROVE  /\ Len(G2.stored[q]) = Len(tally.stored[q])
                          /\ \A k \in DOMAIN app[q].sent :
                               /\ tally.stored[q][k] <= G2.stored[q][k] /\ G2.stored[q][k] <= G2.lives[q]
                               /\ \/ G2.stored[q][k] = tally.stored[q][k]
                                  \/ \A j \in 1..num : T[j].id = q => ~(T[j].last < app[q].sent[k])
        BY DEF Stores
      <4>1. Len(G2.stored[q]) = Len(tally.stored[q])
        BY <2>3, <3>4, <3>5, <3>8
      <4>2. ASSUME NEW k \in DOMAIN app[q].sent, q # p \/ k # n
            PROVE  G2.stored[q][k] = tally.stored[q][k]
        BY <2>3, <3>2, <3>4, <3>5, <3>8, <4>2
      <4>3. \A k \in DOMAIN app[q].sent :
              tally.stored[q][k] \in Nat /\ tally.lives[q] \in Nat /\ tally.stored[q][k] <= tally.lives[q]
        BY CountFacts DEF CInv, Sent
      <4>4. \A j \in 1..num : T[j].id = p => ~(T[j].last < app[p].sent[n])
        <5>1. Clear(m.stamp, p, app, G2)
          BY <2>3, <2>9, <2>10, <3>3, <3>4, <3>5, <3>8, SMTT(30) DEF Clear, Settled
        <5>2. \A j \in 1..num : T[j].id = p => T[j].last = m.stamp
          BY <1>1, <1>5, <2>1, <2>3, <2>7, <3>8, <5>1, AliveComes
        <5> QED BY <1>1, <2>8, <5>2
      <4>5. G2.stored[p][n] = r + 1 /\ G2.lives[p] = tally.lives[p]
        BY <2>3, <3>4, <3>5, <3>8
      <4>6. r <= r + 1 /\ r + 1 <= tally.lives[p]
        BY <3>11
      <4>7. G2.lives[q] = tally.lives[q]
        BY <2>3, <3>8
      <4>8. ASSUME NEW k \in DOMAIN app[q].sent
            PROVE  /\ tally.stored[q][k] <= G2.stored[q][k] /\ G2.stored[q][k] <= G2.lives[q]
                   /\ \/ G2.stored[q][k] = tally.stored[q][k]
                      \/ \A j \in 1..num : T[j].id = q => ~(T[j].last < app[q].sent[k])
        <5>1. CASE q = p /\ k = n
          BY <3>3, <4>4, <4>5, <4>6, <5>1
        <5>2. CASE q # p \/ k # n
          BY <4>2, <4>3, <4>7, <5>2
        <5> QED BY <5>1, <5>2
      <4> QED BY <4>1, <4>8
    <3>13. Clear(m.stamp, p, app, G2)
      BY <2>3, <2>9, <2>10, <3>3, <3>4, <3>5, <3>8, SMTT(30) DEF Clear, Settled
    <3> QED BY <2>3, <2>7, <3>6, <3>7, <3>8, <3>9, <3>12, <3>13
  <2>13. CASE ~(MayPost(m) /\ ~IsRetry(m))
    <3> DEFINE S == IF MayPost(m) THEN {} ELSE {m.stamp}
               F == [G.ambiguous EXCEPT ![p] = G.ambiguous[p] \union S]
    <3>1. tally' = [G EXCEPT !.ambiguous[p] = @ \union S]
      BY <1>5, <2>2, <2>7, <2>13 DEF RecvText
    <3>2. F \in [Nodes -> SUBSET Int] /\ F[p] = G.ambiguous[p] \union S /\ \A q \in Nodes : G.ambiguous[q] \subseteq F[q]
      BY <1>1 DEF Tallies
    <3>3. tally' = [G EXCEPT !.ambiguous = F]
      BY <3>1 DEF Tallies
    <3> HIDE DEF F
    <3>4. PICK G2 : G2 = [G EXCEPT !.ambiguous = F]
      OBVIOUS
    <3>5. /\ G2 \in Tallies /\ G2.ambiguous = F /\ G2.lives = G.lives /\ G2.unheard = G.unheard
          /\ G2.removals = G.removals /\ G2.stored = G.stored
      BY <3>2, <3>4 DEF Tallies
    <3>6. Onward(tally, G2)
      BY <2>3, <3>2, <3>5 DEF Onward
    <3>7. Stores(T, num, G2)
      BY <2>3, <3>5, <3>6, NothingStored
    <3>8. Clear(m.stamp, p, app, G2)
      <4>1. CASE MayPost(m)
        <5>1. m.stamp = clients[i].last
          BY <2>4, <2>13, <4>1 DEF IsRetry
        <5>2. Clear(m.stamp, p, app, tally)
          BY <2>4, <2>5, <2>7, <5>1 DEF Noted
        <5> QED BY <3>6, <3>7, <5>2, SettledStays
      <4>2. CASE ~MayPost(m)
        <5>1. m.stamp \in G2.ambiguous[p]
          BY <3>2, <3>5, <4>2
        <5> QED BY <2>10, <5>1 DEF Clear, Settled
      <4> QED BY <4>1, <4>2
    <3> QED BY <2>3, <2>7, <3>3, <3>4, <3>5, <3>6, <3>7, <3>8
  <2> QED BY <2>12, <2>13
<1> QED BY <1>4, <1>5

LEMMA PushAckCounts ==
  ASSUME IInv, IInv', CInv, NEW m \in net, NEW byPath \in BOOLEAN, RecvPushAck(m, byPath)
  PROVE  CInv'
<1>1. m.from \in Nodes /\ UNCHANGED <<num, nextClient, app>> /\ net' \subseteq net
  BY Facts DEF RecvPushAck, MsgOK
<1>2. num \in Nat /\ nextClient \in Nat /\ tally \in Tallies /\ tally.removals \in Nat
      /\ clients \in [Seats -> Entry] /\ 1..num \subseteq Seats
  BY Facts, SlotsNonEmpty, CountFacts
<1>3. PICK i : i = SeatOf(m.from)
  OBVIOUS
<1>4. PICK T : T = IF byPath /\ Holds(m.from) THEN Touched(clients, i) ELSE clients
  OBVIOUS
<1>5. /\ clients' = IF Awaited(m) THEN [T EXCEPT ![i] = Synced(T[i])] ELSE T
      /\ tally' = IF Awaited(m) \/ (byPath /\ Holds(m.from)) THEN Heard(m.from) ELSE tally
  BY <1>3, <1>4 DEF RecvPushAck
<1>6. CASE ~Awaited(m) /\ ~(byPath /\ Holds(m.from))
  <2>1. UNCHANGED <<clients, tally>>
    BY <1>4, <1>5, <1>6
  <2>2. Onward(tally, tally') /\ Stores(clients', num', tally') /\ \A j \in 1..num' : Comes(clients'[j], tally')
    BY <1>1, <2>1, SameCounts, NothingStored
  <2>3. Stale(nextClient, num)' + tally.removals <= Stale(nextClient, num) + tally'.removals
    BY <1>1, <1>2, <2>1 DEF Stale
  <2> QED BY <1>1, <2>2, <2>3, ServerKeeps
<1>7. CASE Awaited(m) \/ (byPath /\ Holds(m.from))
  <2>1. Holds(m.from)
    BY <1>7 DEF Awaited
  <2>2. i \in 1..num /\ i \in Seats /\ clients[i].id = m.from
    BY <1>1, <1>2, <1>3, <2>1, Facts, SeatFound
  <2>3. /\ \A j \in Seats : j # i => Like(T[j], clients[j])
        /\ T[i].id = m.from /\ T[i].last = clients[i].last
        /\ DOMAIN T = Seats
    <3>1. CASE byPath
      <4>1. T = Touched(clients, i)
        BY <1>4, <2>1, <3>1
      <4>2. DOMAIN T = Seats
        BY <4>1 DEF Touched
      <4> QED BY <1>2, <2>2, <4>1, <4>2, TouchedLike
    <3>2. CASE ~byPath
      BY <1>2, <1>4, <2>2, <3>2 DEF Like
    <3> QED BY <3>1, <3>2
  <2>4. PICK G \in Tallies : G = Heard(m.from)
    BY <1>1, HeardCounts DEF Onward
  <2>5. /\ Onward(tally, G) /\ G.unheard[m.from] = 0 /\ G.stored = tally.stored
        /\ G.removals = tally.removals /\ G.ambiguous = tally.ambiguous
    BY <1>1, <2>4, HeardCounts
  <2>6. tally' = G
    BY <1>5, <1>7, <2>4
  <2>7. Clear(clients[i].last, m.from, app, G) /\ clients[i].last \in Int
    <3>1. Clear(clients[i].last, m.from, app, tally)
      BY <2>2 DEF CInv, Noted
    <3> QED BY <2>2, <2>5, <3>1, CountFacts DEF Clear, Settled
  <2>8. clients'[i].id = m.from /\ clients'[i].last = clients[i].last
    <3>1. CASE Awaited(m)
      <4>1. T[i] \in Entry
        <5>1. CASE byPath
          <6>1. T = Touched(clients, i) /\ TableOK(clients, num, posts, app, past, newest) /\ num \in 0..Capacity
            BY <1>4, <2>1, <5>1, Facts
          <6>2. TableOK(T, num, posts, app, past, newest)
            BY <2>2, <6>1, TouchedOK
          <6> QED BY <2>2, <6>2 DEF TableOK
        <5>2. CASE ~byPath
          BY <1>2, <1>4, <2>2, <5>2
        <5> QED BY <5>1, <5>2
      <4>2. clients'[i] = Synced(T[i])
        BY <1>5, <2>2, <2>3, <3>1
      <4> QED BY <2>3, <4>1, <4>2 DEF Synced, Entry
    <3>2. CASE ~Awaited(m)
      BY <1>5, <2>3, <3>2
    <3> QED BY <3>1, <3>2
  <2>9. ASSUME NEW j \in 1..num PROVE Comes(clients'[j], tally')
    <3>1. CASE j # i
      <4>1. clients'[j] = T[j]
        BY <1>2, <1>5, <2>3, <3>1
      <4> QED BY <1>2, <2>3, <3>1, <4>1 DEF Comes
    <3>2. CASE j = i
      BY <2>2, <2>5, <2>6, <2>7, <2>8, <3>2 DEF Comes
    <3> QED BY <3>1, <3>2
  <2>10. Stale(nextClient, num)' + tally.removals <= Stale(nextClient, num) + tally'.removals
    BY <1>1, <1>2, <2>5, <2>6 DEF Stale
  <2>11. Stores(clients', num', tally')
    BY <2>5, <2>6, NothingStored
  <2> QED BY <1>1, <2>5, <2>6, <2>9, <2>10, <2>11, ServerKeeps
<1> QED BY <1>6, <1>7

\* A push counts as unheard; one by a vacated seat ends the turn that was left there.
LEMMA PassCounts ==
  ASSUME IInv, IInv', CInv, NEW late, NEW attempt \in room.attempts, NEW pool, Pass(late, attempt, pool)
  PROVE  CInv'
<1>1. /\ UNCHANGED <<num, app>> /\ num \in Nat \ {0} /\ num <= Capacity /\ nextClient \in Nat /\ late \subseteq Waiting
      /\ nextClient' = (nextClient + 1) % num /\ attempt \in Nat /\ MaxFailures \in Nat
      /\ clients \in [Seats -> Entry] /\ 1..num \subseteq Seats
  BY Facts, SlotsNonEmpty, SMTT(30) DEF Pass, IInv, Setting
<1>2. Stale(nextClient, num)' = 0
  <2>1. \A x \in Nat, y \in Nat \ {0} : x % y \in 0..y - 1
    OBVIOUS
  <2>2. PICK x \in Nat : x = nextClient + 1
    BY <1>1
  <2>3. x % num \in 0..num - 1
    BY <1>1, <2>1
  <2> QED BY <1>1, <2>2, <2>3 DEF Stale
<1>3. PICK due \in {0, 1} : due = Stale(nextClient, num)
  BY DEF Stale
<1>4. PICK i \in Seats : i = nextClient + 1
  BY Facts, SlotsNonEmpty DEF Seats
<1>5. i > num => due = 1
  BY <1>1, <1>3, <1>4 DEF Stale
<1>6. PICK T : T = TimedOut(late)
  OBVIOUS
<1>7. T \in [Seats -> Entry] /\ \A j \in Seats : EntryOK(T[j], posts, app, past, newest)
  BY <1>1, <1>6, TimedOutOK DEF TableOK
<1> DEFINE under(e) == IF e.pending = NoAck THEN 0 ELSE 1
\* what the timeouts leave as it was
<1>8. ASSUME NEW j \in Seats
      PROVE  /\ T[j].id = clients[j].id /\ T[j].last = clients[j].last /\ T[j].activity = clients[j].activity
             /\ T[j].failures \in Nat /\ clients[j].failures \in Nat /\ T[j].activity \in Nat
             /\ T[j].failures + under(T[j]) = clients[j].failures + under(clients[j])
  <2>1. PICK e \in Entry : e = clients[j]
    BY <1>1
  <2>2. T[j] = IF j \in late THEN [e EXCEPT !.pending = NoAck, !.failures = e.failures + 1] ELSE e
    BY <1>6, <2>1 DEF TimedOut
  <2>3. j \in late => e.pending # NoAck
    BY <1>1, <2>1 DEF Waiting
  <2>4. CASE j \in late
    <3>1. /\ T[j].id = e.id /\ T[j].last = e.last /\ T[j].activity = e.activity /\ T[j].pending = NoAck
          /\ T[j].failures = e.failures + 1 /\ e.failures \in Nat /\ e.activity \in Nat
      BY <2>2, <2>4 DEF Entry
    <3> QED BY <2>1, <2>3, <2>4, <3>1
  <2>5. CASE j \notin late
    BY <2>1, <2>2, <2>5 DEF Entry
  <2> QED BY <2>4, <2>5
<1> HIDE DEF under
<1>9. /\ tally \in Tallies /\ tally.removals \in Nat /\ \A p \in Nodes : tally.unheard[p] \in Nat
      /\ due <= tally.removals
  BY <1>3, CountFacts DEF CInv
<1>10. ASSUME NEW j \in 1..num, clients[j].activity # 0
       PROVE  tally.unheard[clients[j].id] + due <= tally.removals + clients[j].failures + under(clients[j])
  BY <1>3, <1>10 DEF CInv, Tried, under
<1>11. ASSUME NEW p \in Nodes PROVE tally.unheard[p] + due <= tally.removals + MaxFailures
  BY <1>3 DEF CInv, Unanswered
<1>12. PICK dues : dues = IF Pushable(T[i]) THEN DuePosts(T[i]) ELSE {}
  OBVIOUS
<1>13. CASE clients' = T /\ tally' = tally /\ net' = net
  <2>1. ASSUME NEW j \in 1..num PROVE Tried(T[j], tally, 0) /\ Noted(T[j], app, tally)
    <3>1. Tried(T[j], tally, 0)
      <4> SUFFICES ASSUME T[j].activity # 0
                   PROVE  tally.unheard[T[j].id] + 0 <= tally.removals + T[j].failures + under(T[j])
        BY DEF Tried, under
      <4>1. tally.unheard[clients[j].id] + due <= tally.removals + clients[j].failures + under(clients[j])
        BY <1>1, <1>8, <1>10
      <4>2. tally.unheard[clients[j].id] \in Nat /\ under(clients[j]) \in Nat /\ under(T[j]) \in Nat
        BY <1>9, CountFacts DEF under
      <4> QED BY <1>1, <1>8, <1>9, <4>1, <4>2
    <3>2. Noted(T[j], app, tally)
      BY <1>1, <1>8 DEF CInv, Noted
    <3> QED BY <3>1, <3>2
  <2>2. ASSUME NEW p \in Nodes PROVE Unanswered(p, tally, 0)
    BY <1>1, <1>9, <1>11 DEF Unanswered
  <2> QED BY <1>1, <1>2, <1>9, <1>13, <2>1, <2>2 DEF CInv
<1>14. ASSUME dues # {}, Push(T, i, InTurn(Min(dues)), attempt, pool) PROVE CInv'
  <2>1. PICK p : p = InTurn(Min(dues))
    OBVIOUS
  <2>2. dues = DuePosts(T[i]) /\ T[i].pending = NoAck /\ T[i].activity # 0 /\ T[i].failures < MaxFailures
    BY <1>12, <1>14 DEF Pushable
  <2>3. PICK c \in Nodes : c = T[i].id /\ c = clients[i].id
    BY <1>7, <1>8, <2>2 DEF EntryOK, Entry
  <2>4. p.stamp \in 1..newest
    BY <1>7, <1>14, <2>1, <2>2, <2>3, DueInOrder
  <2>5. PICK ack : ack = [stamp |-> p.stamp, boot |-> boots, attempt |-> attempt]
    OBVIOUS
  <2>6. ack \in Acks /\ ack # NoAck /\ p.stamp \in Nat
    BY <1>1, <2>4, <2>5, Facts DEF Acks, NoAck
  <2>7. PICK e : e = [T[i] EXCEPT !.pushed = p.stamp, !.pending = IF pool THEN ack ELSE NoAck]
    OBVIOUS
  <2>8. clients' = [T EXCEPT ![i] = e]
    BY <1>14, <2>1, <2>5, <2>7 DEF Push
  <2>9. /\ e.id = c /\ e.last = T[i].last /\ e.failures = T[i].failures /\ e.activity = T[i].activity
        /\ e.pending = IF pool THEN ack ELSE NoAck
    <3>1. T[i] \in Entry
      BY <1>7
    <3> QED BY <2>3, <2>7, <3>1 DEF Entry
  <2>10. PICK G \in Tallies : G = tally'
    <3>1. tally' = IF pool THEN [tally EXCEPT !.unheard[c] = @ + 1] ELSE tally
      BY <1>14, <2>3 DEF Push
    <3>2. [tally EXCEPT !.unheard[c] = @ + 1] \in Tallies
      <4>1. PICK r \in Nat : r = tally.unheard[c] + 1
        BY <1>9
      <4>2. [tally EXCEPT !.unheard[c] = @ + 1] = [tally EXCEPT !.unheard[c] = r]
        BY <4>1
      <4> QED BY <1>9, <4>2 DEF Tallies
    <3> QED BY <1>9, <3>1, <3>2
  <2>11. /\ G.stored = tally.stored /\ G.lives = tally.lives /\ G.removals = tally.removals
         /\ G.ambiguous = tally.ambiguous
         /\ G.unheard[c] = tally.unheard[c] + (IF pool THEN 1 ELSE 0)
         /\ \A q \in Nodes : q # c => G.unheard[q] = tally.unheard[q]
    <3>1. tally' = IF pool THEN [tally EXCEPT !.unheard[c] = @ + 1] ELSE tally
      BY <1>14, <2>3 DEF Push
    <3>2. tally.unheard \in [Nodes -> Nat]
      BY <1>9 DEF Tallies
    <3> QED BY <1>9, <2>10, <3>1, <3>2 DEF Tallies
  <2>12. tally.unheard[c] + 1 <= tally.removals + MaxFailures
    <3>1. CASE i <= num
      <4>1. i \in 1..num
        BY <1>1, <1>4, <3>1 DEF Seats
      <4>2. tally.unheard[c] + due <= tally.removals + clients[i].failures + under(clients[i])
        BY <1>8, <1>10, <2>2, <2>3, <4>1
      <4>3. under(T[i]) = 0 /\ under(clients[i]) \in Nat
        BY <2>2 DEF under
      <4> QED BY <1>1, <1>8, <1>9, <2>2, <4>2, <4>3
    <3>2. CASE i > num
      BY <1>5, <1>11, <3>2
    <3> QED BY <1>1, <1>4, <3>1, <3>2 DEF Seats
  <2>13. ASSUME NEW q \in Nodes PROVE Unanswered(q, G, 0)
    <3>1. tally.unheard[q] \in Nat /\ tally.unheard[q] + due <= tally.removals + MaxFailures
      BY <1>9, <1>11
    <3>2. CASE q = c
      BY <1>1, <1>9, <2>11, <2>12, <3>1, <3>2 DEF Unanswered
    <3>3. CASE q # c
      BY <1>1, <1>9, <2>11, <3>1, <3>3 DEF Unanswered
    <3> QED BY <3>2, <3>3
  <2>14. ASSUME NEW j \in 1..num PROVE Tried(clients'[j], G, 0) /\ Noted(clients'[j], app, G)
    <3>1. j \in Seats /\ clients'[j] = IF j = i THEN e ELSE T[j]
      BY <1>1, <1>7, <2>8
    <3>2. clients'[j].id = clients[j].id /\ clients'[j].last = clients[j].last /\ clients'[j].activity = clients[j].activity
      BY <1>8, <2>3, <2>9, <3>1
    <3>3. Noted(clients'[j], app, G)
      <4>1. Noted(clients[j], app, tally)
        BY DEF CInv
      <4> QED BY <2>11, <3>2, <4>1 DEF Noted, Clear, Settled
    <3>4. ASSUME clients[j].activity # 0
          PROVE  G.unheard[clients[j].id] + 0 <= G.removals + clients'[j].failures + under(clients'[j])
      <4>1. PICK u \in Nat : u = tally.unheard[clients[j].id]
        BY <1>9, CountFacts
      <4>2. u + due <= tally.removals + clients[j].failures + under(clients[j])
        BY <1>10, <3>4, <4>1
      <4>3. under(clients[j]) \in Nat /\ under(T[j]) \in Nat
        BY DEF under
      <4>4. u + due <= tally.removals + T[j].failures + under(T[j]) /\ T[j].failures \in Nat
        <5>1. PICK x \in Nat, y \in Nat : x = clients[j].failures /\ y = under(clients[j])
          BY <1>8, <3>1, <4>3
        <5>2. PICK x2 \in Nat, y2 \in Nat : x2 = T[j].failures /\ y2 = under(T[j])
          BY <1>8, <3>1, <4>3
        <5>3. x2 + y2 = x + y
          BY <1>8, <3>1, <5>1, <5>2
        <5> QED BY <1>9, <4>2, <5>1, <5>2, <5>3
      <4>5. CASE j = i
        <5>1. G.unheard[clients[j].id] = u + (IF pool THEN 1 ELSE 0)
          BY <2>3, <2>11, <4>1, <4>5
        <5>2. under(clients'[j]) = (IF pool THEN 1 ELSE 0) /\ under(T[j]) = 0 /\ clients'[j].failures = T[j].failures
          BY <2>2, <2>6, <2>9, <3>1, <4>5 DEF under
        <5> QED BY <1>9, <2>11, <4>4, <5>1, <5>2
      <4>6. CASE j # i /\ clients[j].id # c
        <5>1. G.unheard[clients[j].id] = u /\ clients'[j] = T[j]
          BY <2>11, <3>1, <4>1, <4>6, CountFacts
        <5> QED BY <1>9, <2>11, <4>3, <4>4, <5>1
      <4>7. CASE j # i /\ clients[j].id = c
        <5>1. ~(i <= num)
          BY <1>1, <1>4, <2>3, <4>7, Facts DEF TableOK, Seats
        <5>2. due = 1
          BY <1>1, <1>4, <1>5, <5>1 DEF Seats
        <5>3. G.unheard[clients[j].id] <= u + 1 /\ G.unheard[clients[j].id] \in Nat /\ clients'[j] = T[j]
          <6>1. G.unheard[c] = u + (IF pool THEN 1 ELSE 0)
            BY <2>11, <4>1, <4>7
          <6> QED BY <3>1, <4>7, <6>1
        <5> QED BY <1>9, <2>11, <4>3, <4>4, <5>2, <5>3
      <4> QED BY <4>5, <4>6, <4>7
    <3> QED BY <3>2, <3>3, <3>4 DEF Tried, under
  <2>15. ASSUME NEW q \in Nodes PROVE Sent(q, app, G)
    BY <2>11 DEF CInv, Sent, Settled
  <2>16. ASSUME NEW m \in net' PROVE Told(m, app, G)
    <3>1. m \in net \/ m.kind = "push"
      BY <1>14 DEF Push
    <3>2. CASE m \in net
      <4>1. Told(m, app, tally)
        BY <3>2 DEF CInv
      <4> QED BY <2>11, <4>1 DEF Told, Clear, Settled
    <3> QED BY <3>1, <3>2 DEF Told
  <2> QED BY <1>1, <1>2, <1>9, <2>10, <2>11, <2>13, <2>14, <2>15, <2>16 DEF CInv
<1>15. \/ clients' = T /\ tally' = tally /\ net' = net
       \/ dues # {} /\ Push(T, i, InTurn(Min(dues)), attempt, pool)
  BY <1>4, <1>6, <1>12 DEF Pass
<1> QED BY <1>13, <1>14, <1>15

\* Every administrator begins a new life.
LEMMA RestartCounts ==
  ASSUME IInv, IInv', CInv, Restart
  PROVE  CInv'
<1>1. UNCHANGED <<net, app>> /\ num' = Len(saved) /\ nextClient' = 0
  BY DEF Restart
<1>2. saved \in Seq(Entry) /\ Len(saved) <= Capacity /\ Len(saved) \in Nat /\ DOMAIN saved = 1..Len(saved)
  BY DEF IInv, FileOK
<1> DEFINE L == [c \in Nodes |-> tally.lives[c] + IF c \in Loaded THEN 1 ELSE 0]
           U == [c \in Nodes |-> 0]
<1>3. /\ tally \in Tallies /\ tally.lives \in [Nodes -> Nat] /\ tally.removals \in Nat
      /\ \A p \in Nodes : tally.unheard[p] \in Nat /\ tally.lives[p] \in Nat
  BY CountFacts DEF Tallies
<1>4. tally' = [tally EXCEPT !.lives = L, !.unheard = U]
  BY DEF Restart
<1>5. L \in [Nodes -> Nat] /\ U \in [Nodes -> Nat] /\ \A p \in Nodes : U[p] = 0 /\ L[p] = tally.lives[p] + IF p \in Loaded THEN 1 ELSE 0
  BY <1>3
<1> HIDE DEF L, U
<1>6. /\ tally' \in Tallies /\ tally'.lives = L /\ tally'.unheard = U /\ tally'.stored = tally.stored
      /\ tally'.removals = tally.removals /\ tally'.ambiguous = tally.ambiguous
  <2>1. PICK G : G = [tally EXCEPT !.lives = L, !.unheard = U]
    OBVIOUS
  <2>2. /\ G \in Tallies /\ G.lives = L /\ G.unheard = U /\ G.stored = tally.stored
        /\ G.removals = tally.removals /\ G.ambiguous = tally.ambiguous
    BY <1>3, <1>5, <2>1 DEF Tallies
  <2> QED BY <1>4, <2>1, <2>2
<1>7. Onward(tally, tally')
  <2>1. ASSUME NEW p \in Nodes
        PROVE  /\ tally'.unheard[p] <= tally.unheard[p] /\ tally.lives[p] <= tally'.lives[p]
               /\ tally.ambiguous[p] \subseteq tally'.ambiguous[p]
    <3>1. tally'.unheard[p] = 0 /\ tally'.lives[p] = tally.lives[p] + IF p \in Loaded THEN 1 ELSE 0
      BY <1>5, <1>6
    <3>2. PICK x \in {0, 1} : x = IF p \in Loaded THEN 1 ELSE 0
      OBVIOUS
    <3>3. tally'.lives[p] = tally.lives[p] + x
      BY <3>1, <3>2
    <3> QED BY <1>3, <1>6, <3>1, <3>3
  <2>2. tally.removals <= tally'.removals
    BY <1>3, <1>6
  <2> QED BY <1>6, <2>1, <2>2 DEF Onward
<1>8. ASSUME NEW j \in 1..num' PROVE Comes(clients'[j], tally')
  <2>1. j \in Seats /\ j <= Len(saved) /\ j \in DOMAIN saved
    BY <1>1, <1>2, SlotsNonEmpty DEF Seats
  <2>2. clients'[j] = [Blank(saved[j].id, saved[j].perm) EXCEPT !.since = saved[j].since]
    BY <2>1 DEF Restart
  <2>3. clients'[j].last = 0 /\ clients'[j].activity = 0 /\ clients'[j].id = saved[j].id
    BY <2>2 DEF Blank
  <2>4. saved[j].id \in Nodes /\ saved[j].id \in Loaded
    BY <2>1 DEF IInv, FileOK, Loaded
  <2>5. L[saved[j].id] > tally.lives[saved[j].id]
    BY <1>3, <1>5, <2>4
  <2> QED BY <1>6, <2>3, <2>5 DEF Comes
<1>9. Stale(nextClient, num)' + tally.removals <= Stale(nextClient, num) + tally'.removals
  <2>1. Stale(nextClient, num)' = 0
    BY <1>1 DEF Stale
  <2>2. PICK due \in {0, 1} : due = Stale(nextClient, num)
    BY DEF Stale
  <2>3. PICK r \in Nat : r = tally.removals /\ r = tally'.removals
    BY <1>3, <1>6
  <2>4. 0 + r <= due + r
    OBVIOUS
  <2> QED BY <2>1, <2>2, <2>3, <2>4
<1>10. Stores(clients', num', tally')
  BY <1>6, <1>7, NothingStored
<1> QED BY <1>1, <1>7, <1>8, <1>9, <1>10, ServerKeeps

\* A step that changes neither the seats nor the counts: what the nodes sent stays,
\* what they were told is settled.
LEMMA PeerCounts ==
  ASSUME IInv, IInv', CInv, UNCHANGED <<table, tally>>,
         \A p \in Nodes : /\ app'[p].sent = app[p].sent /\ app'[p].stamp >= app[p].stamp
                          /\ \A n \in app'[p].acked :
                               n \in app[p].acked \/ (n \in DOMAIN app[p].sent /\ Settled(p, n, app, tally)),
         \A m \in net' : m \in net \/ Told(m, app', tally)
  PROVE  CInv'
<1>1. UNCHANGED <<clients, num, nextClient>> /\ Stale(nextClient, num)' = Stale(nextClient, num)
  BY DEF table, Stale
<1>2. \A p \in Nodes : app'[p].stamp \in Int /\ app[p].stamp \in Int
  BY CountFacts DEF IInv, AppOK, Peer
<1>3. ASSUME NEW p \in Nodes
      PROVE  /\ \A n : Settled(p, n, app, tally) => Settled(p, n, app', tally)
             /\ \A s \in Int : Clear(s, p, app, tally) => Clear(s, p, app', tally)
  BY <1>2 DEF Settled, Clear
<1>4. ASSUME NEW p \in Nodes PROVE Sent(p, app', tally)
  <2>1. app'[p].stamp >= 0
    BY <1>2 DEF CInv, Sent
  <2>2. ASSUME NEW n \in DOMAIN app[p].sent
        PROVE  app'[p].sent[n] \in 1..app'[p].stamp /\ tally.stored[p][n] <= tally.lives[p]
    <3>1. app[p].sent[n] \in 1..app[p].stamp /\ tally.stored[p][n] <= tally.lives[p]
      BY DEF CInv, Sent
    <3> QED BY <1>2, <3>1
  <2>3. \A n \in app'[p].acked : n \in DOMAIN app[p].sent /\ Settled(p, n, app', tally)
    BY <1>3 DEF CInv, Sent
  <2> QED BY <2>1, <2>2, <2>3 DEF CInv, Sent
<1>5. ASSUME NEW i \in 1..num PROVE Tried(clients'[i], tally, Stale(nextClient, num)) /\ Noted(clients'[i], app', tally)
  <2>1. Tried(clients[i], tally, Stale(nextClient, num)) /\ Noted(clients[i], app, tally)
    BY DEF CInv
  <2>2. clients[i].id \in Nodes /\ clients[i].last \in Int
    BY CountFacts
  <2> QED BY <1>1, <1>3, <2>1, <2>2 DEF Noted
<1>6. ASSUME NEW m \in net' PROVE Told(m, app', tally)
  <2>1. CASE m \in net
    <3>1. Told(m, app, tally) /\ MsgOK(m, posts, app, past, newest)
      BY <2>1, Facts DEF CInv
    <3>2. m.kind \in {"login", "command", "request"} => m.from \in Nodes /\ m.stamp \in Int
      BY <3>1 DEF MsgOK
    <3>3. m.kind = "text" => m.from \in Nodes
      BY <3>1 DEF MsgOK
    <3>4. m.kind = "ack" => m.to \in Nodes
      BY <3>1 DEF MsgOK
    <3> QED BY <1>3, <3>1, <3>2, <3>3, <3>4 DEF Told
  <2> QED BY <2>1
<1>7. \A p \in Nodes : Unanswered(p, tally, Stale(nextClient, num))
  BY DEF CInv
<1>8. tally' = tally /\ tally \in Tallies /\ Stale(nextClient, num) <= tally.removals
  BY DEF CInv
<1> QED BY <1>1, <1>4, <1>5, <1>6, <1>7, <1>8 DEF CInv

\* sending: a new stamp comes after all those before it
LEMMA SendCounts ==
  ASSUME IInv, IInv', CInv, NEW c \in Nodes,
         \/ \E password : Login(c, password)
         \/ \E cmd : Order(c, cmd)
         \/ Request(c)
         \/ \E n \in DOMAIN app[c].sent : Resend(c, n)
  PROVE  CInv'
<1>1. PICK o \in Peer : o = app[c]
  BY PeerFacts
<1>2. o.stamp \in Int /\ o.sent \in Seq(Int) /\ app \in [Nodes -> Peer]
  BY PeerFacts DEF Peer, IInv, AppOK
<1>3. \A n \in DOMAIN o.sent : o.sent[n] \in Int /\ o.sent[n] <= o.stamp
  <2>1. \A n \in DOMAIN o.sent : o.sent[n] \in 1..o.stamp
    BY <1>1 DEF CInv, Sent
  <2> QED BY <1>2, <2>1
<1>4. CASE Request(c) \/ \E n \in DOMAIN app[c].sent : Resend(c, n)
  <2>1. UNCHANGED <<table, tally, app>>
    BY <1>4 DEF Request, Resend, Server
  <2>2. \A m \in net' : m \in net \/ Told(m, app', tally)
    <3>1. CASE Request(c)
      <4> DEFINE m == [kind |-> "request", from |-> c, stamp |-> o.stamp + 1, since |-> o.since]
      <4>1. net' = net \union {m}
        BY <1>1, <3>1 DEF Request, send
      <4>2. Clear(o.stamp + 1, c, app, tally)
        <5>1. \A n \in DOMAIN o.sent : o.sent[n] # o.stamp + 1
          BY <1>2, <1>3
        <5>2. o.stamp + 1 <= o.stamp + 1
          BY <1>2
        <5> QED BY <1>1, <5>1, <5>2 DEF Clear
      <4>3. Told(m, app, tally)
        BY <4>2 DEF Told
      <4> HIDE DEF m
      <4> QED BY <2>1, <4>1, <4>3
    <3>2. ASSUME NEW n \in DOMAIN app[c].sent, Resend(c, n) PROVE \A m \in net' : m \in net \/ Told(m, app', tally)
      <4>1. net' = net \union {Text(c, n)}
        BY <3>2 DEF Resend, send
      <4>2. Told(Text(c, n), app, tally)
        BY DEF Told, Text
      <4> QED BY <2>1, <4>1, <4>2
    <3> QED BY <1>4, <3>1, <3>2
  <2>3. \A p \in Nodes : app[p].stamp >= app[p].stamp
    BY CountFacts
  <2> QED BY <2>1, <2>2, <2>3, PeerCounts
<1>5. CASE (\E password : Login(c, password)) \/ (\E cmd : Order(c, cmd))
  <2>1. UNCHANGED <<table, tally>>
    BY <1>5 DEF Login, Order, Server
  <2>2. /\ app'[c].sent = o.sent /\ app'[c].acked = o.acked /\ app'[c].stamp = o.stamp + 2
        /\ \A p \in Nodes : p # c => app'[p] = app[p]
    <3>1. app' = [app EXCEPT ![c] = [o EXCEPT !.logins = @ + 1, !.stamp = @ + 2]] \/
          \E cmd : app' = [app EXCEPT ![c] = [o EXCEPT !.stamp = @ + 2, !.orders = @ \union {cmd}]]
      BY <1>1, <1>2, <1>5, ZenonT(30) DEF Login, Order
    <3> QED BY <1>2, <3>1, ZenonT(30) DEF Peer
  <2>3. Clear(o.stamp + 2, c, app', tally)
    <3>1. \A n \in DOMAIN o.sent : o.sent[n] # o.stamp + 2
      BY <1>2, <1>3
    <3>2. o.stamp + 2 <= (o.stamp + 2) + 1
      BY <1>2
    <3> QED BY <2>2, <3>1, <3>2 DEF Clear
  <2>4. \A m \in net' : m \in net \/ Told(m, app', tally)
    <3>1. ASSUME NEW password, Login(c, password) PROVE \A m \in net' : m \in net \/ Told(m, app', tally)
      <4> DEFINE m == [kind |-> "login", from |-> c, stamp |-> o.stamp + 2, since |-> o.since, password |-> password]
      <4>1. net' = net \union {m}
        BY <1>1, <3>1 DEF Login, send
      <4>2. Told(m, app', tally)
        BY <2>3 DEF Told
      <4> HIDE DEF m
      <4> QED BY <4>1, <4>2
    <3>2. ASSUME NEW cmd, Order(c, cmd) PROVE \A m \in net' : m \in net \/ Told(m, app', tally)
      <4> DEFINE m == [kind |-> "command", from |-> c, stamp |-> o.stamp + 2, cmd |-> cmd]
      <4>1. net' = net \union {m}
        BY <1>1, <3>2 DEF Order, send
      <4>2. Told(m, app', tally)
        BY <2>3 DEF Told
      <4> HIDE DEF m
      <4> QED BY <4>1, <4>2
    <3> QED BY <1>5, <3>1, <3>2
  <2>5. \A p \in Nodes : /\ app'[p].sent = app[p].sent /\ app'[p].stamp >= app[p].stamp /\ app'[p].acked = app[p].acked
    <3>1. o.stamp + 2 >= o.stamp /\ \A p \in Nodes : app[p].stamp >= app[p].stamp
      BY <1>2, CountFacts
    <3> QED BY <1>1, <2>2, <3>1
  <2> QED BY <2>1, <2>4, <2>5, PeerCounts
<1> QED BY <1>4, <1>5

\* The text that shares its stamp with another message is ambiguous from the start.
LEMMA TextSentCounts ==
  ASSUME IInv, IInv', CInv, NEW c \in Nodes, NEW stamp \in {app[c].stamp, app[c].stamp + 2}, SendText(c, stamp)
  PROVE  CInv'
<1>1. PICK o \in Peer : o = app[c]
  BY PeerFacts
<1>2. o.stamp \in Int /\ o.sent \in Seq(Int) /\ app \in [Nodes -> Peer] /\ o.stamp >= 0 /\ stamp \in Int
      /\ stamp >= o.stamp /\ stamp > 0 /\ (stamp = o.stamp \/ stamp = o.stamp + 2)
  <2>1. o.stamp \in Int /\ o.sent \in Seq(Int)
    BY DEF Peer
  <2>2. app \in [Nodes -> Peer]
    BY DEF IInv, AppOK
  <2>3. o.stamp >= 0
    BY <1>1 DEF CInv, Sent
  <2>4. stamp = o.stamp + 2 \/ (stamp = o.stamp /\ stamp > 0)
    BY <1>1 DEF SendText
  <2> QED BY <2>1, <2>2, <2>3, <2>4
<1>3. PICK S \in Seq(Int) : S = o.sent
  BY <1>2
<1>4. PICK N \in Nat : N = Len(S) + 1
  BY <1>3
<1>5. UNCHANGED table /\ clients' = clients /\ num' = num /\ nextClient' = nextClient
      /\ net' = net \union {[kind |-> "text", from |-> c, stamp |-> stamp, text |-> N]}
  BY <1>1, <1>3, <1>4 DEF SendText, send, table
<1>6. /\ app'[c].sent = Append(S, stamp) /\ app'[c].acked = o.acked /\ app'[c].stamp = stamp
      /\ \A p \in Nodes : p # c => app'[p] = app[p]
  <2>1. app' = [app EXCEPT ![c] = [o EXCEPT !.stamp = stamp, !.sent = Append(S, stamp)]]
    BY <1>1, <1>2, <1>3 DEF SendText
  <2> QED BY <1>2, <2>1 DEF Peer
<1>7. PICK Q \in Seq(Nat) : Q = tally.stored[c]
  BY CountFacts
<1>8. Len(Q) = Len(S) /\ DOMAIN Q = 1..Len(S) /\ DOMAIN S = 1..Len(S)
  BY <1>1, <1>3, <1>7 DEF CInv, Sent
<1>9. /\ \A k \in 1..Len(S) : Append(S, stamp)[k] = S[k] /\ Append(Q, 0)[k] = Q[k]
      /\ Append(S, stamp)[N] = stamp /\ Append(Q, 0)[N] = 0
      /\ DOMAIN Append(S, stamp) = 1..N /\ Len(Append(Q, 0)) = N /\ Len(Append(S, stamp)) = N
      /\ Append(Q, 0) \in Seq(Nat)
  <2>1. Append(S, stamp) \in Seq(Int) /\ Len(Append(S, stamp)) = N
    BY <1>2, <1>3, <1>4
  <2>2. \A k \in 1..Len(S) : Append(S, stamp)[k] = S[k]
    BY <1>2, <1>3
  <2>3. Append(S, stamp)[N] = stamp
    BY <1>2, <1>3, <1>4
  <2>4. Append(Q, 0) \in Seq(Nat) /\ Len(Append(Q, 0)) = Len(Q) + 1 /\ Append(Q, 0)[Len(Q) + 1] = 0
    BY <1>7
  <2>5. \A k \in 1..Len(Q) : Append(Q, 0)[k] = Q[k]
    BY <1>7
  <2>6. N = Len(Q) + 1
    BY <1>4, <1>8
  <2>7. DOMAIN Append(S, stamp) = 1..N
    BY <2>1
  <2> QED BY <1>8, <2>1, <2>2, <2>3, <2>4, <2>5, <2>6, <2>7
<1>10. N \notin 1..Len(S) /\ 1..N = 1..Len(S) \union {N}
  BY <1>3, <1>4
<1> DEFINE s2 == Append(S, stamp)  q2 == Append(Q, 0)
           B == tally.ambiguous[c] \union IF stamp = o.stamp THEN {stamp} ELSE {}
<1>11. PICK G \in Tallies : G = tally
  BY DEF CInv
<1>12. PICK G2 : G2 = [G EXCEPT !.stored[c] = q2, !.ambiguous[c] = B]
  OBVIOUS
<1>13. tally' = G2
  BY <1>1, <1>7, <1>11, <1>12 DEF SendText
<1>14. q2 \in Seq(Nat) /\ B \subseteq Int
  BY <1>2, <1>9, CountFacts
<1>15. /\ DOMAIN s2 = 1..N /\ (\A k \in 1..Len(S) : s2[k] = S[k] /\ q2[k] = Q[k]) /\ s2[N] = stamp /\ q2[N] = 0
       /\ Len(q2) = N /\ Len(s2) = N /\ tally.ambiguous[c] \subseteq B /\ (stamp = o.stamp => stamp \in B)
  BY <1>9
<1>16. app'[c].sent = s2
  BY <1>6
<1> HIDE DEF s2, q2, B
<1>17. /\ G2 \in Tallies /\ G2.stored[c] = q2 /\ G2.ambiguous[c] = B /\ G2.lives = tally.lives
       /\ G2.unheard = tally.unheard /\ G2.removals = tally.removals
       /\ \A p \in Nodes : p # c => G2.stored[p] = tally.stored[p] /\ G2.ambiguous[p] = tally.ambiguous[p]
  BY <1>11, <1>12, <1>14 DEF Tallies
<1>18. \A k \in 1..Len(S) : S[k] \in 1..o.stamp /\ Q[k] <= tally.lives[c] /\ S[k] \in Int
  BY <1>1, <1>2, <1>3, <1>7, <1>8 DEF CInv, Sent
\* what was settled, or clear
<1>19. ASSUME NEW p \in Nodes, NEW n \in DOMAIN app[p].sent, Settled(p, n, app, tally)
       PROVE  n \in DOMAIN app'[p].sent /\ Settled(p, n, app', G2)
  <2>1. CASE p = c
    <3>1. n \in 1..Len(S) /\ n \in 1..N
      BY <1>1, <1>3, <1>8, <1>10, <2>1
    <3>2. Q[n] > 0 \/ S[n] \in tally.ambiguous[c]
      BY <1>1, <1>3, <1>7, <1>19, <2>1 DEF Settled
    <3> QED BY <1>15, <1>16, <1>17, <2>1, <3>1, <3>2 DEF Settled
  <2>2. CASE p # c
    BY <1>6, <1>17, <1>19, <2>2 DEF Settled
  <2> QED BY <2>1, <2>2
<1>20. ASSUME NEW p \in Nodes, NEW s \in Int, Clear(s, p, app, tally)
       PROVE  Clear(s, p, app', G2)
  <2>1. CASE p = c
    <3>1. s <= o.stamp + 1 /\ s <= stamp + 1
      BY <1>1, <1>2, <1>20, <2>1 DEF Clear
    <3>2. ASSUME NEW k \in 1..Len(S), s2[k] = s PROVE Settled(c, k, app', G2)
      <4>1. k \in DOMAIN app[c].sent /\ app[c].sent[k] = s
        BY <1>1, <1>3, <1>8, <1>15, <3>2
      <4> QED BY <1>19, <1>20, <2>1, <4>1 DEF Clear
    <3>3. ASSUME s2[N] = s PROVE Settled(c, N, app', G2)
      <4>1. stamp = o.stamp
        BY <1>2, <1>15, <3>1, <3>3
      <4> QED BY <1>15, <1>16, <1>17, <4>1 DEF Settled
    <3>4. \A k \in DOMAIN app'[c].sent : app'[c].sent[k] = s => Settled(c, k, app', G2)
      BY <1>10, <1>15, <1>16, <3>2, <3>3
    <3> QED BY <1>6, <2>1, <3>1, <3>4 DEF Clear
  <2>2. CASE p # c
    <3>1. app'[p] = app[p] /\ \A n : Settled(p, n, app, tally) => Settled(p, n, app', G2)
      BY <1>6, <1>17, <2>2 DEF Settled
    <3> QED BY <1>20, <3>1 DEF Clear
  <2> QED BY <2>1, <2>2
<1>21. ASSUME NEW p \in Nodes PROVE Sent(p, app', G2)
  <2>1. CASE p # c
    <3>1. app'[p] = app[p] /\ G2.stored[p] = tally.stored[p] /\ G2.ambiguous[p] = tally.ambiguous[p] /\ G2.lives = tally.lives
      BY <1>6, <1>17, <2>1
    <3>2. \A n : Settled(p, n, app, tally) => Settled(p, n, app', G2)
      BY <3>1 DEF Settled
    <3> QED BY <3>1, <3>2 DEF CInv, Sent
  <2>2. CASE p = c
    <3>1. Len(G2.stored[c]) = Len(app'[c].sent) /\ app'[c].stamp >= 0
      BY <1>2, <1>6, <1>15, <1>16, <1>17
    <3>2. ASSUME NEW n \in 1..N PROVE s2[n] \in 1..stamp /\ q2[n] <= tally.lives[c]
      <4>1. CASE n = N
        BY <1>2, <1>15, <4>1, CountFacts
      <4>2. CASE n \in 1..Len(S)
        BY <1>2, <1>15, <1>18, <4>2, SMTT(30)
      <4> QED BY <1>10, <4>1, <4>2
    <3>3. ASSUME NEW j \in 1..N, NEW k \in 1..N, s2[j] = s2[k], j # k PROVE s2[j] \in B
      <4>1. ASSUME NEW x \in 1..Len(S), s2[x] = stamp PROVE stamp \in B
        <5>1. S[x] = stamp /\ S[x] <= o.stamp
          BY <1>2, <1>15, <1>18, <4>1
        <5> QED BY <1>2, <1>15, <5>1
      <4>2. CASE j = N
        BY <1>10, <1>15, <3>3, <4>1, <4>2
      <4>3. CASE k = N
        BY <1>10, <1>15, <3>3, <4>1, <4>3
      <4>4. CASE j # N /\ k # N
        <5>1. j \in 1..Len(S) /\ k \in 1..Len(S) /\ S[j] = S[k]
          BY <1>10, <1>15, <3>3, <4>4
        <5>2. S[j] \in tally.ambiguous[c]
          BY <1>1, <1>3, <1>8, <3>3, <5>1 DEF CInv, Sent
        <5> QED BY <1>15, <5>1, <5>2
      <4> QED BY <4>2, <4>3, <4>4
    <3>4. \A n \in app'[c].acked : n \in DOMAIN app'[c].sent /\ Settled(c, n, app', G2)
      BY <1>1, <1>6, <1>19 DEF CInv, Sent
    <3> QED BY <1>6, <1>15, <1>16, <1>17, <2>2, <3>1, <3>2, <3>3, <3>4, SMTT(30) DEF Sent
  <2> QED BY <2>1, <2>2
<1>22. ASSUME NEW i \in 1..num PROVE Tried(clients[i], G2, Stale(nextClient, num)) /\ Noted(clients[i], app', G2)
  <2>1. PICK p \in Nodes : p = clients[i].id /\ clients[i].last \in Int
    BY CountFacts
  <2>2. Tried(clients[i], tally, Stale(nextClient, num)) /\ Noted(clients[i], app, tally)
    BY DEF CInv
  <2>3. Tried(clients[i], G2, Stale(nextClient, num))
    BY <1>17, <2>2 DEF Tried
  <2>4. Clear(clients[i].last, p, app', G2) /\ G2.lives[p] > 0
    BY <1>17, <1>20, <2>1, <2>2 DEF Noted
  <2>5. ASSUME NEW n \in DOMAIN app'[p].sent, clients[i].last < app'[p].sent[n] PROVE G2.stored[p][n] < G2.lives[p]
    <3>1. CASE p # c
      BY <1>6, <1>17, <2>1, <2>2, <2>5, <3>1 DEF Noted
    <3>2. CASE p = c /\ n = N
      BY <1>15, <1>17, <2>1, <2>2, <3>2, CountFacts DEF Noted
    <3>3. CASE p = c /\ n # N
      <4>1. n \in 1..Len(S) /\ clients[i].last < S[n]
        BY <1>10, <1>15, <1>16, <2>5, <3>3, ZenonT(30)
      <4>2. Q[n] < tally.lives[c]
        BY <1>1, <1>3, <1>7, <1>8, <2>1, <2>2, <3>3, <4>1 DEF Noted
      <4> QED BY <1>15, <1>17, <3>3, <4>1, <4>2
    <3> QED BY <3>1, <3>2, <3>3
  <2> QED BY <2>1, <2>3, <2>4, <2>5 DEF Noted
<1>23. ASSUME NEW m \in net' PROVE Told(m, app', G2)
  <2>1. CASE m \in net
    <3>1. Told(m, app, tally) /\ MsgOK(m, posts, app, past, newest)
      BY <2>1, Facts DEF CInv
    <3>2. CASE m.kind \in {"login", "command", "request"}
      <4>1. m.from \in Nodes /\ m.stamp \in Int
        BY <3>1, <3>2 DEF MsgOK
      <4> QED BY <1>20, <3>1, <3>2, <4>1 DEF Told
    <3>3. CASE m.kind = "text"
      <4>1. m.from \in Nodes /\ m.text \in DOMAIN app[m.from].sent /\ m.stamp = app[m.from].sent[m.text]
        BY <3>1, <3>3 DEF MsgOK, Told
      <4>2. m.text \in DOMAIN app'[m.from].sent /\ m.stamp = app'[m.from].sent[m.text]
        <5>1. CASE m.from = c
          <6>1. m.text \in 1..Len(S) /\ m.stamp = S[m.text]
            BY <1>1, <1>3, <1>8, <4>1, <5>1
          <6> QED BY <1>10, <1>15, <1>16, <5>1, <6>1
        <5>2. CASE m.from # c
          BY <1>6, <4>1, <5>2
        <5> QED BY <5>1, <5>2
      <4> QED BY <3>3, <4>2 DEF Told
    <3>4. CASE m.kind = "ack"
      <4>1. m.to \in Nodes
        BY <3>1, <3>4 DEF MsgOK
      <4> QED BY <1>19, <3>1, <3>4, <4>1 DEF Told
    <3> QED BY <3>2, <3>3, <3>4 DEF Told
  <2>2. CASE m = [kind |-> "text", from |-> c, stamp |-> stamp, text |-> N]
    <3>1. N \in DOMAIN app'[c].sent /\ app'[c].sent[N] = stamp
      BY <1>10, <1>15, <1>16
    <3> QED BY <2>2, <3>1 DEF Told
  <2> QED BY <1>5, <2>1, <2>2
<1>24. ASSUME NEW p \in Nodes PROVE Unanswered(p, G2, Stale(nextClient, num))
  BY <1>17 DEF CInv, Unanswered
<1>25. Stale(nextClient, num) <= G2.removals
  BY <1>17 DEF CInv
<1>26. Stale(nextClient, num)' = Stale(nextClient, num)
  BY <1>5 DEF Stale
<1> QED BY <1>5, <1>13, <1>17, <1>21, <1>22, <1>23, <1>24, <1>25, <1>26 DEF CInv

\* A node is shown a post, or told that its text arrived.
LEMMA ReceivedCounts ==
  ASSUME IInv, IInv', CInv, NEW m \in net, RecvPush(m) \/ RecvAck(m) \/ Lose(m)
  PROVE  CInv'
<1>1. UNCHANGED <<table, tally>>
  BY DEF RecvPush, RecvAck, Lose, Server
<1>2. app \in [Nodes -> Peer] /\ \A p \in Nodes : app[p].stamp >= app[p].stamp
  BY CountFacts DEF IInv, AppOK
<1>3. CASE RecvPush(m)
  <2>1. PICK c \in Nodes : c = m.to
    BY <1>3, Facts DEF RecvPush, MsgOK
  <2>2. \A p \in Nodes : app'[p].sent = app[p].sent /\ app'[p].stamp = app[p].stamp /\ app'[p].acked = app[p].acked
    <3>1. PICK o \in Peer : o = app[c]
      BY <1>2
    <3>2. PICK g, s : app' = [app EXCEPT ![c] = [o EXCEPT !.got = g, !.since = s]]
      BY <1>2, <1>3, <2>1, <3>1 DEF RecvPush
    <3> QED BY <1>2, <3>1, <3>2 DEF Peer
  <2>3. \A x \in net' : x \in net \/ x.kind = "pushAck"
    BY <1>3 DEF RecvPush
  <2>4. \A x \in net' : x \in net \/ Told(x, app', tally)
    BY <2>3 DEF Told
  <2> QED BY <1>1, <1>2, <2>2, <2>4, PeerCounts
<1>4. CASE RecvAck(m)
  <2>1. PICK c \in Nodes : c = m.to
    BY <1>4, Facts DEF RecvAck, MsgOK
  <2>2. m.text \in DOMAIN app[c].sent /\ Settled(c, m.text, app, tally)
    BY <1>4, <2>1 DEF RecvAck, CInv, Told
  <2>3. /\ \A p \in Nodes : app'[p].sent = app[p].sent /\ app'[p].stamp = app[p].stamp
        /\ \A p \in Nodes : app'[p].acked = IF p = c THEN app[p].acked \union {m.text} ELSE app[p].acked
    <3>1. PICK o \in Peer : o = app[c]
      BY <1>2
    <3>2. app' = [app EXCEPT ![c] = [o EXCEPT !.acked = o.acked \union {m.text}]]
      BY <1>2, <1>4, <2>1, <3>1 DEF RecvAck
    <3> QED BY <1>2, <3>1, <3>2 DEF Peer
  <2>4. \A x \in net' : x \in net
    BY <1>4 DEF RecvAck
  <2> QED BY <1>1, <1>2, <2>2, <2>3, <2>4, PeerCounts
<1>5. CASE Lose(m)
  <2>1. app' = app /\ \A x \in net' : x \in net
    BY <1>5 DEF Lose
  <2> QED BY <1>1, <1>2, <2>1, PeerCounts
<1> QED BY <1>3, <1>4, <1>5

-----------------------------------------------------------------------------
(* The theorems *)

LEMMA Start ==
  ASSUME Init
  PROVE  IInv
<1>1. room \in Setting /\ Len(room.seated) <= Capacity /\ room.seated \in Seq(Entry)
  BY RoomAssumption DEF Init, Setting
<1>2. PICK S \in Seq(Entry) : S = room.seated
  BY <1>1
<1>3. Len(S) \in Nat /\ DOMAIN S = 1..Len(S) /\ Len(S) <= Capacity
  BY <1>1, <1>2
<1>4. /\ \A i \in 1..Len(S) : S[i] \in Entry /\ Unserved(S[i])
      /\ \A i, j \in 1..Len(S) : S[i].id = S[j].id => i = j
  BY <1>2, <1>3, RoomAssumption DEF Init
<1>5. /\ clients = [i \in Seats |-> IF i <= Len(S) THEN S[i] ELSE Blank(NoNode, "guest")]
      /\ num = Len(S) /\ nextClient = 0 /\ posts = [k \in Slots |-> NoPost] /\ nextPost = 0
      /\ last_unique = 0 /\ newest = 0 /\ past = 0 /\ boots = 0
      /\ Written(saved) /\ dirty = FALSE /\ net = {}
  BY <1>2 DEF Init, Slots
<1>6. \A c : \A s, A : Caught(c, s, posts, A, past)
  BY <1>5 DEF Caught, NoPost
<1>7. RingOK(posts, nextPost, last_unique, past, newest)
  <2>1. \A k \in Slots : (nextPost + k) % RingSize \in Slots
    BY <1>5, SlotsNonEmpty, Turns
  <2>2. posts \in [Slots -> Post] /\ \A k \in Slots : posts[k].stamp = 0
    BY <1>5 DEF Post, NoPost
  <2> QED BY <1>5, <2>1, <2>2, SlotsNonEmpty DEF RingOK
<1>8. ASSUME NEW i \in Seats
      PROVE  clients[i] \in Entry /\ EntryOK(clients[i], posts, app, past, newest)
  <2>1. CASE i <= Len(S)
    <3>1. clients[i] = S[i] /\ i \in 1..Len(S)
      BY <1>3, <1>5, <2>1 DEF Seats
    <3> QED BY <1>4, <1>5, <1>6, <3>1, NodeAssumption, SlotsNonEmpty DEF EntryOK, Unserved
  <2>2. CASE ~(i <= Len(S))
    <3>1. clients[i] = Blank(NoNode, "guest")
      BY <1>5, <2>2
    <3>2. /\ clients[i] \in Entry /\ clients[i].id = NoNode /\ clients[i].since = 0
          /\ clients[i].pending = NoAck /\ clients[i].failures = 0 /\ clients[i].activity = 0
      BY <3>1 DEF Blank, Entry, Acks, NoAck, Perms
    <3> QED BY <1>5, <3>2, NodeAssumption, SlotsNonEmpty DEF EntryOK
  <2> QED BY <2>1, <2>2
<1>9. TableOK(clients, num, posts, app, past, newest)
  <2>1. clients \in [Seats -> Entry]
    BY <1>5, <1>8
  <2>2. \A i \in 1..num : i \in Seats /\ clients[i] = S[i] /\ clients[i].id \in Nodes
    BY <1>3, <1>4, <1>5, SlotsNonEmpty DEF Seats, Unserved
  <2> QED BY <1>3, <1>4, <1>5, <1>8, <2>1, <2>2, SlotsNonEmpty DEF TableOK
<1>10. FileOK(saved, newest)
  <2>1. PICK F : F = saved
    OBVIOUS
  <2> QED BY <1>5, <1>9, <2>1, WrittenOK
<1>11. AppOK(posts, app, past, newest)
  <2>1. app \in [Nodes -> Peer] /\ \A c \in Nodes : app[c].since = 0
    BY DEF Init, Peer
  <2> QED BY <1>5, <1>6, <2>1 DEF AppOK, PeerOK
<1> QED BY <1>1, <1>5, <1>7, <1>9, <1>10, <1>11, SlotsNonEmpty DEF IInv

LEMMA Inductive ==
  ASSUME IInv, [Next]_vars
  PROVE  IInv'
<1>1. ASSUME NEW m \in net, Receive(m) PROVE IInv'
  BY <1>1, LoginStep, TextStep, CommandStep, RequestStep, PushAckStep, PushStep, AckStep DEF Receive
<1>2. ASSUME NEW m \in net, Lose(m) PROVE IInv'
  BY <1>2, LoseStep
<1>3. ASSUME NEW c \in Nodes, Node(c) PROVE IInv'
  BY <1>3, LoginSentStep, TextSentStep, OrderStep, AgainStep DEF Node
<1>4. ASSUME APass PROVE IInv'
  BY <1>4, PassStep DEF APass
<1>5. ASSUME NEW cmd \in room.console, Console(cmd) PROVE IInv'
  BY <1>5, ConsoleStep
<1>6. ASSUME UNCHANGED vars PROVE IInv'
  BY <1>6, Facts, Still DEF vars, table, disk
<1> QED BY <1>1, <1>2, <1>3, <1>4, <1>5, <1>6, SaveStep, RestartStep DEF Next

LEMMA CountStart ==
  ASSUME Init
  PROVE  CInv
<1>1. IInv
  BY Start
<1>2. PICK S \in Seq(Entry) : S = room.seated /\ Len(S) \in Nat
  BY RoomAssumption DEF Init, Setting
<1>3. num = Len(S) /\ nextClient = 0 /\ net = {} /\ DOMAIN S = 1..Len(S) /\ 1..num \subseteq Seats
  BY <1>1, <1>2, Facts DEF Init
<1>4. \A i \in 1..num : Unserved(clients[i]) /\ clients[i].id \in Nodes
  <2>1. \A i \in 1..num : clients[i] = S[i]
    BY <1>2, <1>3 DEF Init, Seats
  <2>2. \A i \in 1..num : Unserved(S[i])
    BY <1>2, <1>3, RoomAssumption DEF Init
  <2> QED BY <2>1, <2>2 DEF Unserved
<1>5. /\ \A p \in Nodes : app[p].stamp = 0 /\ app[p].sent = << >> /\ app[p].acked = {}
      /\ \A p \in Nodes : tally.stored[p] = << >> /\ tally.unheard[p] = 0 /\ tally.ambiguous[p] = {}
      /\ \A p \in Nodes : tally.lives[p] = IF Holds(p) THEN 1 ELSE 0
      /\ tally.removals = 0
  BY DEF Init
<1>6. tally \in Tallies
  BY DEF Init, Tallies
<1>7. Stale(nextClient, num) = 0
  BY <1>3 DEF Stale
<1>8. ASSUME NEW p \in Nodes PROVE Sent(p, app, tally) /\ Unanswered(p, tally, 0)
  BY <1>5, SizeAssumption DEF Sent, Unanswered
<1>9. ASSUME NEW i \in 1..num PROVE Tried(clients[i], tally, 0) /\ Noted(clients[i], app, tally)
  <2>1. Holds(clients[i].id)
    BY DEF Holds, Taken
  <2>2. clients[i].last = 0 /\ clients[i].failures = 0 /\ clients[i].id \in Nodes
    BY <1>4 DEF Unserved
  <2>3. Tried(clients[i], tally, 0)
    BY <1>5, <2>2 DEF Tried
  <2>4. Noted(clients[i], app, tally)
    BY <1>5, <2>1, <2>2 DEF Noted, Clear
  <2> QED BY <2>3, <2>4
<1> QED BY <1>3, <1>5, <1>6, <1>7, <1>8, <1>9 DEF CInv

LEMMA CountInductive ==
  ASSUME IInv, IInv', CInv, [Next]_vars
  PROVE  CInv'
<1>1. ASSUME NEW m \in net, Receive(m) PROVE CInv'
  BY <1>1, LoginCounts, TextCounts, CommandCounts, RequestCounts, PushAckCounts, ReceivedCounts DEF Receive
<1>2. ASSUME NEW m \in net, Lose(m) PROVE CInv'
  BY <1>2, ReceivedCounts
<1>3. ASSUME NEW c \in Nodes, Node(c) PROVE CInv'
  BY <1>3, SendCounts, TextSentCounts DEF Node
<1>4. ASSUME APass PROVE CInv'
  BY <1>4, PassCounts DEF APass, IInv, Setting
<1>5. ASSUME NEW cmd \in room.console, Console(cmd) PROVE CInv'
  BY <1>5, ConsoleCounts
<1>6. ASSUME UNCHANGED <<table, tally, net, app>> PROVE CInv'
  <2>1. \A p \in Nodes : app[p].stamp >= app[p].stamp
    BY CountFacts
  <2> QED BY <1>6, <2>1, PeerCounts
<1> QED BY <1>1, <1>2, <1>3, <1>4, <1>5, <1>6, RestartCounts DEF Next, Save, vars

LEMMA CountsHold ==
  ASSUME IInv, CInv
  PROVE  AckedIsStoredOnce /\ PushesStop
<1>1. AckedIsStoredOnce
  BY DEF CInv, Sent, Settled, AckedIsStoredOnce
<1>2. PushesStop
  <2> SUFFICES ASSUME NEW c \in Nodes PROVE tally.unheard[c] <= MaxFailures + tally.removals
    BY DEF PushesStop
  <2>1. PICK due \in {0, 1} : due = Stale(nextClient, num)
    BY DEF Stale
  <2>2. tally.unheard[c] + due <= tally.removals + MaxFailures
    BY <2>1 DEF CInv, Unanswered
  <2> QED BY <2>2, CountFacts, SizeAssumption
<1> QED BY <1>1, <1>2

LEMMA InvariantsHold ==
  ASSUME IInv
  PROVE  TypeOK /\ NoPostSkipped
<1>1. DOMAIN posts = Slots /\ nextPost \in Slots
  BY DEF IInv, RingOK
<1>2. \A i \in 1..num : clients[i] \in Entry /\ clients[i].id \in Nodes /\ EntryOK(clients[i], posts, app, past, newest)
  BY Facts DEF TableOK
<1>3. TypeOK
  BY <1>1, <1>2, Facts, SlotsNonEmpty DEF TypeOK, Taken, TableOK, FileOK, EntryOK, Entry
<1>4. NoPostSkipped
  BY <1>1, <1>2 DEF NoPostSkipped, Taken, EntryOK, Caught
<1> QED BY <1>3, <1>4

\* The server's table, ring and file keep their shape: no seat is used twice and
\* no client fails more often than the server allows.
THEOREM TypeCorrect == Spec => []TypeOK
<1>1. Spec => []IInv
  BY Start, Inductive, PTL DEF Spec
<1> QED BY <1>1, InvariantsHold, PTL

\* No post is skipped: whatever the network loses or repeats, whoever logs in, is
\* removed or gives way to another, `since' passes a post only when its client has
\* received it.  After a restart that holds of the posts stamped above all those
\* before it (`past'); one that is not, as the clock went back, the server may skip.
THEOREM NoSkip == Spec => []NoPostSkipped
<1>1. Spec => []IInv
  BY Start, Inductive, PTL DEF Spec
<1> QED BY <1>1, InvariantsHold, PTL

\* A text becomes a post once for each seat its author was given, however often it is
\* repeated, and what the author was told is stored is stored, as far as its timestamp
\* tells it from his other messages.
THEOREM StoredOnce == Spec => []AckedIsStoredOnce
<1>1. Spec => [](IInv /\ CInv)
  BY Start, Inductive, CountStart, CountInductive, PTL DEF Spec
<1> QED BY <1>1, CountsHold, PTL

\* The server does not push for ever to a node it does not hear: to the allowed
\* failures, each removal of a seat can add one push.
THEOREM Silence == Spec => []PushesStop
<1>1. Spec => [](IInv /\ CInv)
  BY Start, Inductive, CountStart, CountInductive, PTL DEF Spec
<1> QED BY <1>1, CountsHold, PTL

=============================================================================
