-------------------------- MODULE MqttRingLogProofs --------------------------
(***************************************************************************)
(* Proofs about the publish ring: for any number of brokers and slots and  *)
(* any number of messages, it implements the log of retained messages and  *)
(* its drop counters are exact.                                            *)
(***************************************************************************)
EXTENDS MqttRingLog, FiniteSetTheorems, SequenceTheorems, TLAPS

Counters == [Readers -> Nat]

RingTypes ==
  /\ head_ \in 0..MaxHead
  /\ seq_ \in [0..(Slots - 1) -> 0..MaxHead]
  /\ cursor_ \in Counters /\ dropped_ \in Counters
  /\ renderable \subseteq 1..head_
  /\ unrendered \in Counters /\ skipped \in Counters
  /\ published \in [Readers -> Seq(1..MaxHead)]

TaskTypes ==
  /\ task \in {"app", "publishPacket", "loop"}
  /\ slot \in Nat /\ (slot \in Readers \/ slot - 1 \in Readers)
  /\ draining \in BOOLEAN /\ (draining => task # "app" /\ slot \in Readers)

BrokerTypes ==
  /\ hasClient \in [Readers -> BOOLEAN] /\ up \in [Readers -> BOOLEAN] /\ hasIata \in [Readers -> BOOLEAN]
  /\ reconciling \in [Readers -> BOOLEAN]
  /\ \A r \in Readers : up[r] => hasClient[r]
  /\ first_attach_done \in [Readers -> BOOLEAN]
  /\ pending_resync \in [Readers -> BOOLEAN]

\* No cursor is ahead of the writer, and a resync is only asked for by an attach.
CursorsBehind == \A r \in Readers : cursor_[r] <= head_

ResyncAfterAttach == \A r \in Readers : pending_resync[r] => first_attach_done[r]

\* The last Slots messages are where peek() looks for them.
Retained ==
  \A s \in 1..head_ : s > head_ - Slots => seq_[Index(s)] = s

RingInv == /\ RingTypes /\ TaskTypes /\ BrokerTypes
           /\ CursorsBehind /\ ResyncAfterAttach /\ Retained /\ LossIsCounted

(***************************************************************************)
(* Facts about the ring.                                                   *)
(***************************************************************************)
LEMMA ReaderNumbers ==
  /\ 0 \in Readers
  /\ \A r \in Readers : r \in Nat
<1>1. Cardinality(Readers) \in Nat
  BY ReadersAssumption, FS_CardinalityType
<1> QED BY <1>1, ReadersAssumption

\* Messages less than Slots apart have slots of their own.
LEMMA SlotsApart ==
  ASSUME NEW a \in Nat, NEW b \in Nat, a < b, b - a < Slots
  PROVE  a % Slots # b % Slots
<1> DEFINE N == Slots
<1>1. N \in Nat \ {0}
  BY SlotsAssumption
<1>2. /\ a \div N \in Int /\ a = N * (a \div N) + (a % N)
      /\ b \div N \in Int /\ b = N * (b \div N) + (b % N)
  <2>1. \A x \in Nat, y \in Nat \ {0} : x \div y \in Int /\ x = y * (x \div y) + (x % y)
    OBVIOUS
  <2> HIDE DEF N
  <2> QED BY <1>1, <2>1
<1>3. SUFFICES ASSUME a % N = b % N PROVE FALSE
  OBVIOUS
<1>4. PICK k \in Int : k = (b \div N) - (a \div N)
  BY <1>2
<1>5. b - a = N * k
  <2> DEFINE x == a \div N  y == b \div N  m == a % N
  <2>1. x \in Int /\ y \in Int /\ a = N * x + m /\ b = N * y + m /\ k = y - x
    BY <1>2, <1>3, <1>4
  <2>2. m \in Int
    BY <1>1
  <2> HIDE DEF x, y, m, N
  <2>3. N \in Int
    BY <1>1
  <2> QED BY <2>1, <2>2, <2>3
<1>6. k >= 1
  <2>1. \A n \in Nat, j \in Int : j <= 0 => n * j <= 0
    OBVIOUS
  <2> HIDE DEF N
  <2> QED BY <1>1, <1>4, <1>5, <2>1
<1>7. N * k >= N
  <2>1. \A n \in Nat, j \in Int : j >= 1 => n * j >= n
    OBVIOUS
  <2> HIDE DEF N
  <2> QED BY <1>1, <1>4, <1>6, <2>1
<1> QED BY <1>1, <1>5, <1>7

LEMMA IndexInRange ==
  ASSUME NEW s \in Nat \ {0}
  PROVE  Index(s) \in 0..(Slots - 1)
<1>1. \A x \in Nat, y \in Nat \ {0} : x % y \in 0..(y - 1)
  OBVIOUS
<1> QED BY <1>1, SlotsAssumption DEF Index

\* Where a reader stands: not behind the oldest message kept by more than the one
\* it has passed, and not ahead of the writer.
LEMMA ClampedBounds ==
  ASSUME RingInv, NEW r \in Readers
  PROVE  /\ head_ \in Nat /\ cursor_[r] \in Nat
         /\ Clamped(r) \in cursor_[r]..head_
         /\ Clamped(r) + Slots >= head_
         /\ Clamped(r) = cursor_[r] \/ Clamped(r) + Slots = head_
BY SlotsAssumption
DEF RingInv, RingTypes, Counters, CursorsBehind, Clamped, tailMinus1, tail

\* peek() finds a message unless the reader has caught up.
LEMMA PeekFinds ==
  ASSUME RingInv, NEW r \in Readers
  PROVE  peek(r) <=> Clamped(r) < head_
<1>1. Clamped(r) < head_ => want(r) \in 1..head_ /\ want(r) > head_ - Slots
  BY ClampedBounds, SlotsAssumption DEF want
<1> QED BY <1>1 DEF peek, RingInv, Retained

(***************************************************************************)
(* The inductive invariant.                                                *)
(***************************************************************************)
RingPart == RingTypes /\ CursorsBehind /\ Retained /\ LossIsCounted
BrokerPart == BrokerTypes /\ ResyncAfterAttach

LEMMA InitRingInv == Init => RingInv
<1> SUFFICES ASSUME Init PROVE RingInv
  OBVIOUS
<1>1. RingTypes /\ CursorsBehind /\ Retained /\ LossIsCounted
  <2>1. <<>> \in Seq(1..MaxHead) /\ Len(<<>>) = 0
    OBVIOUS
  <2> QED BY <2>1, SlotsAssumption
      DEF Init, RingTypes, Counters, CursorsBehind, Retained, LossIsCounted
<1>2. TaskTypes
  BY ReaderNumbers DEF Init, TaskTypes
<1>3. BrokerPart
  BY DEF Init, BrokerPart, BrokerTypes, ResyncAfterAttach
<1> QED BY <1>1, <1>2, <1>3 DEF RingInv, BrokerPart

\* publishPacket() puts one message more in the ring, in place of the oldest.
LEMMA AppendKeepsRing ==
  ASSUME RingInv, NEW ok \in BOOLEAN, publishPacket(ok)
  PROVE  RingPart'
<1> DEFINE s == head_ + 1
<1>1. /\ head_ \in Nat /\ head_ < MaxHead /\ head_' = s
      /\ seq_' = [seq_ EXCEPT ![Index(s)] = s]
      /\ renderable' \subseteq renderable \cup {s}
      /\ UNCHANGED <<cursor_, dropped_, history>>
  BY DEF publishPacket, append, RingInv, RingTypes
<1>2. s \in 1..MaxHead /\ s \in Nat \ {0}
  BY <1>1, SlotsAssumption
<1>3. RingTypes'
  <2>1. seq_' \in [0..(Slots - 1) -> 0..MaxHead]
    <3>1. s \in 0..MaxHead /\ seq_ \in [0..(Slots - 1) -> 0..MaxHead]
      BY <1>2 DEF RingInv, RingTypes
    <3> QED BY <1>1, <3>1
  <2> QED BY <1>1, <1>2, <2>1, SlotsAssumption DEF RingInv, RingTypes, history
<1>4. CursorsBehind'
  BY <1>1 DEF RingInv, RingTypes, Counters, CursorsBehind
<1>5. Retained'
  <2> SUFFICES ASSUME NEW t \in 1..head_', t > head_' - Slots
               PROVE  seq_'[Index(t)] = t
    BY DEF Retained, Index
  <2>1. CASE t = s
    BY <1>1, <1>2, <2>1, IndexInRange DEF RingInv, RingTypes
  <2>2. CASE t # s
    <3>1. t \in 1..head_ /\ t > head_ - Slots /\ t < s /\ s - t < Slots
      BY <1>1, <2>2, SlotsAssumption
    <3>2. Index(t) # Index(s)
      <4>1. t - 1 \in Nat /\ s - 1 \in Nat /\ t - 1 < s - 1 /\ (s - 1) - (t - 1) < Slots
        BY <1>1, <3>1, SlotsAssumption
      <4> HIDE DEF s
      <4>2. (t - 1) % Slots # (s - 1) % Slots
        BY <4>1, SlotsApart
      <4> QED BY <4>2 DEF Index
    <3>3. Index(t) \in 0..(Slots - 1) /\ seq_[Index(t)] = t
      BY <3>1, IndexInRange DEF RingInv, Retained
    <3> QED BY <1>1, <3>2, <3>3 DEF RingInv, RingTypes
  <2> QED BY <2>1, <2>2
<1>6. LossIsCounted'
  BY <1>1 DEF RingInv, LossIsCounted, history
<1> QED BY <1>3, <1>4, <1>5, <1>6 DEF RingPart

\* A reader passes a message, having published it or not.
LEMMA CommitKeepsRing ==
  ASSUME RingInv, DropUnrenderable \/ publish
  PROVE  RingPart'
<1>1. slot \in Readers /\ peek(slot) /\ commit(slot) /\ UNCHANGED skipped
  BY DEF DropUnrenderable, publish, RingInv, TaskTypes
<1>2. /\ Clamped(slot) \in cursor_[slot]..head_ /\ Clamped(slot) < head_
      /\ head_ \in Nat /\ cursor_[slot] \in Nat
  BY <1>1, PeekFinds, ClampedBounds
<1>3. /\ cursor_' = [cursor_ EXCEPT ![slot] = want(slot)]
      /\ dropped_' = [dropped_ EXCEPT ![slot] = @ + (Clamped(slot) - cursor_[slot])]
      /\ UNCHANGED <<head_, seq_, renderable>>
  BY <1>2, <1>1 DEF commit
<1>4. want(slot) = Clamped(slot) + 1 /\ want(slot) \in 1..head_
  BY <1>2 DEF want
\* What is published and what is not add up to one message more.
<1>5. /\ published' \in [Readers -> Seq(1..MaxHead)] /\ unrendered' \in Counters
      /\ \A r \in Readers :
           Len(published'[r]) + unrendered'[r]
             = Len(published[r]) + unrendered[r] + (IF r = slot THEN 1 ELSE 0)
  <2>1. /\ published \in [Readers -> Seq(1..MaxHead)] /\ unrendered \in Counters
        /\ \A r \in Readers : Len(published[r]) \in Nat
    BY DEF RingInv, RingTypes
  <2>2. CASE DropUnrenderable
    BY <1>1, <2>1, <2>2 DEF DropUnrenderable, Counters
  <2>3. CASE publish
    <3>1. /\ published' = [published EXCEPT ![slot] = Append(@, want(slot))]
          /\ unrendered' = unrendered
      BY <2>3 DEF publish
    <3>2. want(slot) \in 1..MaxHead
      BY <1>4, SlotsAssumption DEF RingInv, RingTypes
    <3>3. /\ Append(published[slot], want(slot)) \in Seq(1..MaxHead)
          /\ Len(Append(published[slot], want(slot))) = Len(published[slot]) + 1
      BY <1>1, <2>1, <3>2, AppendProperties
    <3> QED BY <1>1, <2>1, <3>1, <3>3 DEF Counters
  <2> QED BY <2>2, <2>3
<1>6. RingTypes'
  <2>1. cursor_' \in Counters
    <3>1. want(slot) \in Nat /\ cursor_ \in Counters
      BY <1>2, <1>4 DEF RingInv, RingTypes
    <3> QED BY <1>3, <3>1 DEF Counters
  <2>2. dropped_' \in Counters
    <3>1. dropped_ \in Counters /\ Clamped(slot) - cursor_[slot] \in Nat
      BY <1>2 DEF RingInv, RingTypes
    <3>2. dropped_[slot] + (Clamped(slot) - cursor_[slot]) \in Nat
      BY <1>1, <3>1 DEF Counters
    <3> QED BY <1>3, <3>1, <3>2 DEF Counters
  <2> QED BY <1>1, <1>3, <1>5, <2>1, <2>2 DEF RingInv, RingTypes
<1>7. CursorsBehind' /\ Retained'
  BY <1>1, <1>3, <1>4 DEF RingInv, RingTypes, Counters, CursorsBehind, Retained, Index
<1>8. LossIsCounted'
  <2> SUFFICES ASSUME NEW r \in Readers
               PROVE  cursor_'[r] = Len(published'[r]) + dropped_'[r] + unrendered'[r]
                                      + skipped'[r]
    BY DEF LossIsCounted
  <2>1. /\ cursor_[r] = Len(published[r]) + dropped_[r] + unrendered[r] + skipped[r]
        /\ cursor_[r] \in Nat /\ Len(published[r]) \in Nat /\ dropped_[r] \in Nat
        /\ unrendered[r] \in Nat /\ skipped[r] \in Nat
    BY DEF RingInv, LossIsCounted, RingTypes, Counters
  <2>2. Len(published'[r]) \in Nat /\ unrendered'[r] \in Nat
    BY <1>5 DEF Counters
  <2> DEFINE
        one == IF r = slot THEN 1 ELSE 0
        gap == IF r = slot THEN Clamped(r) - cursor_[r] ELSE 0
        C == cursor_[r]   P == Len(published[r])   D == dropped_[r]
        U == unrendered[r]   K == skipped[r]
        C2 == cursor_'[r]   P2 == Len(published'[r])   D2 == dropped_'[r]
        U2 == unrendered'[r]   K2 == skipped'[r]
  <2>3. gap \in Nat /\ one \in Nat
    BY <1>2
  <2>4. C2 = C + gap + one /\ D2 = D + gap
    BY <1>2, <1>3, <1>4, <2>1 DEF RingInv, RingTypes, Counters
  <2>5. P2 + U2 = P + U + one /\ K2 = K
    BY <1>1, <1>5
  <2>6. /\ C \in Nat /\ P \in Nat /\ D \in Nat /\ U \in Nat /\ K \in Nat
        /\ C = P + D + U + K /\ P2 \in Nat /\ U2 \in Nat
    BY <2>1, <2>2
  <2> HIDE DEF one, gap, C, P, D, U, K, C2, P2, D2, U2, K2
  <2>7. C2 = P2 + D2 + U2 + K2
    BY <2>3, <2>4, <2>5, <2>6
  <2> QED BY <2>7 DEF C2, P2, D2, U2, K2
<1> QED BY <1>6, <1>7, <1>8 DEF RingPart

\* A reader skips to the head.
LEMMA ResyncKeepsRing ==
  ASSUME RingInv, Resync
  PROVE  RingPart'
<1>1. /\ slot \in Readers
      /\ cursor_' = [cursor_ EXCEPT ![slot] = head_]
      /\ skipped' = [skipped EXCEPT ![slot] = @ + (head_ - cursor_[slot])]
      /\ UNCHANGED <<head_, seq_, renderable, dropped_, published, unrendered>>
  BY DEF Resync, resync, AtSlot
<1>2. head_ \in Nat /\ cursor_[slot] \in 0..head_
  BY <1>1 DEF RingInv, RingTypes, Counters, CursorsBehind
<1>3. RingTypes' /\ CursorsBehind' /\ Retained'
  BY <1>1, <1>2, SMTT(30) DEF RingInv, RingTypes, Counters, CursorsBehind, Retained, Index
<1>4. LossIsCounted'
  <2> SUFFICES ASSUME NEW r \in Readers
               PROVE  cursor_'[r] = Len(published'[r]) + dropped_'[r] + unrendered'[r]
                                      + skipped'[r]
    BY DEF LossIsCounted
  <2>1. /\ cursor_[r] = Len(published[r]) + dropped_[r] + unrendered[r] + skipped[r]
        /\ cursor_[r] \in Nat /\ Len(published[r]) \in Nat /\ dropped_[r] \in Nat
        /\ unrendered[r] \in Nat /\ skipped[r] \in Nat
    BY DEF RingInv, LossIsCounted, RingTypes, Counters
  <2>2. /\ cursor_'[r] = IF r = slot THEN head_ ELSE cursor_[r]
        /\ skipped'[r] = IF r = slot THEN skipped[r] + (head_ - cursor_[r]) ELSE skipped[r]
    BY <1>1 DEF RingInv, RingTypes, Counters
  <2> QED BY <1>1, <1>2, <2>1, <2>2, SMTT(30)
<1> QED BY <1>3, <1>4 DEF RingPart

LEMMA NextRingPart == RingInv /\ [Next]_vars => RingPart'
<1> SUFFICES ASSUME RingInv, [Next]_vars PROVE RingPart'
  OBVIOUS
<1>1. UNCHANGED <<ringVars, history>> => RingPart'
  BY DEF RingInv, RingPart, RingTypes, CursorsBehind, Retained, LossIsCounted, Index,
         ringVars, history
<1>2. \/ \E ok \in BOOLEAN : publishPacket(ok)
      \/ DropUnrenderable \/ publish \/ Resync
      \/ UNCHANGED <<ringVars, history>>
  BY DEF Next, Publishing, loop, EnterDrain, PassSlot, SlotsDone, CaughtUp,
         PublishFails, LeaveDrain, reloadSlot, Reload, Promote, reconcileSlot,
         releaseClient, onConnected, onDisconnected, SetUp, vars
<1> QED BY <1>1, <1>2, AppendKeepsRing, CommitKeepsRing, ResyncKeepsRing

LEMMA NextTaskTypes == RingInv /\ [Next]_vars => TaskTypes'
<1> SUFFICES ASSUME RingInv, [Next]_vars PROVE TaskTypes'
  OBVIOUS
<1>1. TaskTypes /\ 0 \in Readers /\ slot \in Nat
  BY ReaderNumbers DEF RingInv, TaskTypes
<1>2. CASE Publishing
  <2>1. ASSUME NEW ok \in BOOLEAN, publishPacket(ok) PROVE TaskTypes'
    BY <1>1, <2>1 DEF publishPacket, TaskTypes
  <2>2. CASE loop \/ SlotsDone
    BY <1>1, <2>2 DEF loop, SlotsDone, TaskTypes
  <2>3. CASE Resync \/ DropUnrenderable \/ publish
    BY <1>1, <2>3 DEF Resync, DropUnrenderable, publish, TaskTypes
  <2>4. CASE EnterDrain
    BY <1>1, <2>4 DEF EnterDrain, AtSlot, TaskTypes
  <2>5. ASSUME slot \in Readers, slot' = slot + 1, draining' = FALSE, task' = task
        PROVE  TaskTypes'
    <3>1. slot' \in Nat /\ slot' - 1 = slot
      BY <1>1, <2>5
    <3> QED BY <1>1, <2>5, <3>1 DEF TaskTypes
  <2>6. CASE PassSlot \/ CaughtUp \/ PublishFails
    BY <1>1, <2>5, <2>6
    DEF PassSlot, CaughtUp, PublishFails, LeaveDrain, AtSlot, TaskTypes
  <2> QED BY <1>2, <2>1, <2>2, <2>3, <2>4, <2>6 DEF Publishing
<1>3. CASE UNCHANGED <<task, slot, draining>>
  BY <1>1, <1>3 DEF TaskTypes
<1> QED BY <1>2, <1>3
    DEF Next, reloadSlot, Reload, Promote, reconcileSlot, releaseClient, onConnected,
        onDisconnected, SetUp, vars

LEMMA NextBrokerPart == RingInv /\ [Next]_vars => BrokerPart'
<1> SUFFICES ASSUME RingInv, [Next]_vars PROVE BrokerPart'
  OBVIOUS
<1> USE DEF RingInv, BrokerPart, BrokerTypes, ResyncAfterAttach
<1>1. CASE UNCHANGED brokerVars
  BY <1>1 DEF brokerVars
<1>2. CASE Resync
  BY <1>2 DEF Resync, connectionVars
<1>3. ASSUME NEW r \in Readers, reconcileSlot(r),
             reconciling' = reconciling \/ reconciling' = [reconciling EXCEPT ![r] = FALSE]
      PROVE  BrokerPart'
  BY <1>3 DEF reconcileSlot, ResyncDue
<1>4. ASSUME NEW r \in Readers,
             \/ reloadSlot(r) \/ releaseClient(r) \/ onConnected(r) \/ onDisconnected(r)
      PROVE  BrokerPart'
  BY <1>4 DEF reloadSlot, releaseClient, onConnected, onDisconnected, SetUp
<1> QED BY <1>1, <1>2, <1>3, <1>4
    DEF Next, Publishing, publishPacket, loop, EnterDrain, PassSlot, SlotsDone, CaughtUp,
        DropUnrenderable, publish, PublishFails, LeaveDrain, Reload, Promote, vars

LEMMA RingInvariant == Spec => []RingInv
<1>1. RingInv /\ [Next]_vars => RingInv'
  BY NextRingPart, NextTaskTypes, NextBrokerPart DEF RingInv, RingPart, BrokerPart
<1> QED BY <1>1, InitRingInv, PTL DEF Spec

(***************************************************************************)
(* What follows from it.                                                   *)
(***************************************************************************)
\* Every variable keeps to its type: no broker is up without a client, and no
\* cursor or drop counter exceeds the number of messages.
THEOREM TypeCorrect == Spec => []TypeOK
<1>1. RingInv => TypeOK
  <2> SUFFICES ASSUME RingInv PROVE TypeOK
    OBVIOUS
  <2>1. \A r \in Readers : cursor_[r] \in 0..MaxHead /\ dropped_[r] \in 0..MaxHead
    <3> SUFFICES ASSUME NEW r \in Readers
                 PROVE  cursor_[r] \in 0..MaxHead /\ dropped_[r] \in 0..MaxHead
      OBVIOUS
    <3> DEFINE C == cursor_[r]  P == Len(published[r])  D == dropped_[r]
               U == unrendered[r]  K == skipped[r]
    <3>1. /\ C \in Nat /\ P \in Nat /\ D \in Nat /\ U \in Nat /\ K \in Nat
          /\ C = P + D + U + K /\ C <= head_ /\ head_ \in 0..MaxHead /\ MaxHead \in Nat
      BY SlotsAssumption
      DEF RingInv, RingTypes, Counters, CursorsBehind, LossIsCounted
    <3> HIDE DEF C, P, D, U, K
    <3>2. C \in 0..MaxHead /\ D \in 0..MaxHead
      BY <3>1
    <3> QED BY <3>2 DEF C, D
  <2> QED BY <2>1 DEF RingInv, RingTypes, Counters, TaskTypes, BrokerTypes, TypeOK
<1> QED BY <1>1, RingInvariant, PTL

\* droppedCount() is exact for every broker, however often the writer has overrun
\* it between two of its commits.
THEOREM DropsCounted == Spec => []LossIsCounted
<1>1. RingInv => LossIsCounted
  BY DEF RingInv
<1> QED BY <1>1, RingInvariant, PTL

\* A broker that is behind always finds a message to go on with.
THEOREM NoWedge == Spec => []NeverWedged
<1>1. RingInv => NeverWedged
  <2> SUFFICES ASSUME RingInv, NEW r \in Readers, ~peek(r) PROVE cursor_[r] = head_
    BY DEF NeverWedged
  <2>1. Clamped(r) = head_
    BY PeekFinds, ClampedBounds
  <2> QED BY <2>1, ClampedBounds, SlotsAssumption
<1> QED BY <1>1, RingInvariant, PTL

(***************************************************************************)
(* The ring implements the log of retained messages.                       *)
(***************************************************************************)
\* The message peek() finds is the oldest retained one the reader has not passed.
LEMMA WantIsNext ==
  ASSUME RingInv, NEW r \in Readers, peek(r)
  PROVE  want(r) = Log!NextFor(r) /\ cursor_[r] < head_
<1>1. Clamped(r) < head_
  BY PeekFinds
<1>2. head_ > 0 /\ cursor_[r] < head_
  BY <1>1, ClampedBounds
<1> QED BY <1>1, <1>2, ClampedBounds, SlotsAssumption
    DEF want, Clamped, tailMinus1, tail, Log!NextFor

Fresh == {r \in Readers : pending_resync[r] \/ ~first_attach_done[r]}

LEMMA CommitPasses ==
  ASSUME RingInv, DropUnrenderable \/ publish
  PROVE  Log!Deliver(slot) \/ Log!Skip(slot)
<1>1. /\ slot \in Readers /\ peek(slot) /\ commit(slot)
      /\ UNCHANGED <<head_, pending_resync, first_attach_done>>
  BY DEF DropUnrenderable, publish, commit, RingInv, TaskTypes, brokerVars
<1>2. want(slot) = Log!NextFor(slot) /\ cursor_[slot] < head_ /\ Clamped(slot) < head_
  BY <1>1, WantIsNext, PeekFinds
<1>3. Log!Pass(slot)
  BY <1>1, <1>2 DEF commit, Log!Pass
<1>4. CASE publish
  BY <1>1, <1>2, <1>3, <1>4 DEF publish, Log!Deliver
<1>5. CASE DropUnrenderable
  BY <1>1, <1>3, <1>5 DEF DropUnrenderable, Log!Skip
<1> QED BY <1>4, <1>5

LEMMA ResyncStartsAtHead ==
  ASSUME RingInv, Resync, NEW r \in Readers, r = slot
  PROVE  Log!StartAtHead(r)
<1>1. /\ pending_resync[r]
      /\ pending_resync' = [pending_resync EXCEPT ![r] = FALSE]
      /\ cursor_' = [cursor_ EXCEPT ![r] = head_]
      /\ UNCHANGED <<head_, published, first_attach_done>>
  BY DEF Resync, resync, AtSlot, connectionVars
<1>2. first_attach_done[r] /\ pending_resync \in [Readers -> BOOLEAN]
  BY <1>1 DEF RingInv, ResyncAfterAttach, BrokerTypes
<1>3. r \in Fresh /\ Fresh' = Fresh \ {r}
  BY <1>1, <1>2 DEF Fresh
<1> QED BY <1>1, <1>3 DEF Log!StartAtHead, Fresh

\* An attach leaves the brokers that may skip to the head as they are.
LEMMA AttachKeepsFresh ==
  ASSUME RingInv, NEW r \in Readers, reconcileSlot(r)
  PROVE  UNCHANGED <<head_, cursor_, published, Fresh>>
<1>1. /\ first_attach_done' = [first_attach_done EXCEPT ![r] = TRUE]
      /\ pending_resync' =
           [pending_resync EXCEPT ![r] = pending_resync[r] \/ ~first_attach_done[r]]
      /\ UNCHANGED <<head_, cursor_, published>>
  BY DEF reconcileSlot, ResyncDue, ringVars, history
<1>2. /\ pending_resync \in [Readers -> BOOLEAN]
      /\ first_attach_done \in [Readers -> BOOLEAN]
  BY DEF RingInv, BrokerTypes
<1>3. \A q \in Readers : (pending_resync'[q] \/ ~first_attach_done'[q])
                          <=> (pending_resync[q] \/ ~first_attach_done[q])
  BY <1>1, <1>2
<1> QED BY <1>1, <1>3 DEF Fresh

\* Every step of the ring and of the tasks around it is a step of the log or
\* changes nothing the log knows of.
THEOREM RingImplementsLog == Spec => LogSpec
<1>1. Init => Log!Init
  BY DEF Init, Log!Init
<1>2. ASSUME RingInv, [Next]_vars
      PROVE  [Log!Next]_<<head_, cursor_, published, Fresh>>
  <2> USE <1>2
  <2>1. ASSUME NEW ok \in BOOLEAN, publishPacket(ok) PROVE Log!Append1
    BY <2>1 DEF publishPacket, append, history, brokerVars, Log!Append1
  <2>2. CASE DropUnrenderable \/ publish
    BY <2>2, CommitPasses DEF Log!Next, RingInv, TaskTypes, DropUnrenderable, publish
  <2>3. CASE Resync
    <3>1. PICK r \in Readers : r = slot
      BY <2>3 DEF Resync, AtSlot
    <3>2. Log!StartAtHead(r)
      BY <2>3, <3>1, ResyncStartsAtHead
    <3> QED BY <3>2 DEF Log!Next
  <2>4. ASSUME NEW r \in Readers, Reload(r) \/ Promote(r)
        PROVE  UNCHANGED <<head_, cursor_, published, Fresh>>
    BY <2>4, AttachKeepsFresh DEF Reload, Promote
  <2>5. CASE UNCHANGED <<head_, cursor_, published, pending_resync, first_attach_done>>
    BY <2>5 DEF Fresh
  <2>6. CASE \/ loop \/ EnterDrain \/ PassSlot \/ SlotsDone \/ CaughtUp \/ PublishFails
             \/ \E r \in Readers : \/ reloadSlot(r) \/ releaseClient(r)
                                    \/ onConnected(r) \/ onDisconnected(r)
             \/ UNCHANGED vars
    <3>1. UNCHANGED <<head_, cursor_, published, pending_resync, first_attach_done>>
      BY <2>6
      DEF loop, EnterDrain, PassSlot, SlotsDone, CaughtUp, PublishFails, LeaveDrain,
          reloadSlot, releaseClient, onConnected, onDisconnected, SetUp, vars, ringVars,
          brokerVars, history
    <3> QED BY <2>5, <3>1
  <2> QED BY <2>1, <2>2, <2>3, <2>4, <2>6 DEF Next, Publishing, Log!Next
<1>3. [][Log!Next]_<<head_, cursor_, published, Fresh>> /\ Log!Init <=> LogSpec
  BY DEF LogSpec, Log!Spec, Fresh
<1> QED BY <1>1, <1>2, <1>3, RingInvariant, PTL DEF Spec
=============================================================================
