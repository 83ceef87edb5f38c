----------------------------- MODULE MqttRingLog -----------------------------
(***************************************************************************)
(* The publish ring of the WiFi observer (MqttRingLog) and the part of     *)
(* MqttBrokerPool that fills and drains it.  The ring is touched by        *)
(* loopTask only, in publishPacket() and in loop(): drainBroker() is cut   *)
(* at every message, because a broker's state is changed underneath it by  *)
(* the esp-mqtt event task and the lifecycle worker.                       *)
(*                                                                         *)
(* A message is the sequence number append() gives it.  The burst bound of *)
(* drainBroker() never binds: nothing is appended while it runs.  Sequence *)
(* numbers stay below 2^32.                                                *)
(***************************************************************************)
EXTENDS Integers, Sequences, FiniteSets

CONSTANTS
  Readers,          \* broker slots, 0..N-1
  Slots,            \* MQTT_RING_SLOTS
  MaxHead           \* bound of the model: messages appended

ASSUME ReadersAssumption ==
  IsFiniteSet(Readers) /\ Readers # {} /\ Readers = 0..(Cardinality(Readers) - 1)
ASSUME SlotsAssumption == Slots \in Nat \ {0} /\ MaxHead \in Nat

VARIABLES
  head_, seq_, cursor_, dropped_,
  renderable,       \* messages buildPacketJsonFromRecord() can render
  task,             \* loopTask: "app", or inside "publishPacket" or "loop"
  slot,             \* the broker slot it has come to
  draining,         \* whether it is inside drainBroker(slot)
  hasClient, up,    \* brokers that have an esp-mqtt client, and those in state Up
  hasIata,          \* those with an IATA for the topic, of their own or the node's
  reconciling,      \* slots reloadSlot() has handed to the worker
  first_attach_done, pending_resync,
  \* History: what each broker has published, and how many messages its cursor
  \* has passed for another reason than an overrun.
  published, unrendered, skipped

ringVars == <<head_, seq_, cursor_, dropped_, renderable>>
brokerVars == <<hasClient, up, hasIata, reconciling, first_attach_done, pending_resync>>
connectionVars == <<hasClient, up, hasIata, reconciling, first_attach_done>>
history == <<published, unrendered, skipped>>
vars == <<ringVars, task, slot, draining, brokerVars, history>>

Index(s) == (s - 1) % Slots

(***************************************************************************)
(* The ring.                                                               *)
(***************************************************************************)
tail == IF head_ = 0 THEN 0 ELSE IF head_ > Slots THEN head_ - Slots + 1 ELSE 1

tailMinus1 == IF tail = 0 THEN 0 ELSE tail - 1

\* The cursor, or if the writer has overrun it the last message before the
\* oldest kept.
Unclamped(r) == cursor_[r]

Clamped(r) == IF cursor_[r] < tailMinus1 THEN tailMinus1 ELSE cursor_[r]

append(ok) ==
  LET s == head_ + 1
  IN /\ head_' = s
     /\ seq_' = [seq_ EXCEPT ![Index(s)] = s]
     /\ renderable' = IF ok THEN renderable \cup {s} ELSE renderable
     /\ UNCHANGED <<cursor_, dropped_>>

\* Whether there is a message for r, and which.
want(r) == Clamped(r) + 1
peek(r) == Clamped(r) < head_ /\ seq_[Index(want(r))] = want(r)

commitUncounted(r) ==
  /\ cursor_' = [cursor_ EXCEPT ![r] = IF Clamped(r) < head_ THEN want(r) ELSE @]
  /\ UNCHANGED <<head_, seq_, renderable, dropped_>>

commit(r) ==
  /\ dropped_' = [dropped_ EXCEPT ![r] = @ + (Clamped(r) - cursor_[r])]
  /\ cursor_' = [cursor_ EXCEPT ![r] = IF Clamped(r) < head_ THEN want(r) ELSE @]
  /\ UNCHANGED <<head_, seq_, renderable>>

resync(r) ==
  /\ cursor_' = [cursor_ EXCEPT ![r] = head_]
  /\ skipped' = [skipped EXCEPT ![r] = @ + (head_ - cursor_[r])]
  /\ UNCHANGED <<head_, seq_, renderable, dropped_>>

(***************************************************************************)
(* loopTask.                                                               *)
(***************************************************************************)
\* publishPacket(): append once, then go through the slots.
publishPacket(ok) ==
  /\ task = "app" /\ head_ < MaxHead
  /\ append(ok)
  /\ task' = "publishPacket" /\ slot' = 0
  /\ UNCHANGED <<draining, brokerVars, history>>

\* loop() goes through them too, and skips to the head for a broker that has
\* just been attached.
loop ==
  /\ task = "app"
  /\ task' = "loop" /\ slot' = 0
  /\ UNCHANGED <<ringVars, draining, brokerVars, history>>

AtSlot == task # "app" /\ slot \in Readers /\ ~draining

Resync ==
  /\ AtSlot /\ task = "loop" /\ pending_resync[slot]
  /\ pending_resync' = [pending_resync EXCEPT ![slot] = FALSE]
  /\ resync(slot)
  /\ UNCHANGED <<task, slot, draining, connectionVars, published, unrendered>>

NoResyncDue == task = "loop" => ~pending_resync[slot]

\* drainBroker()'s early returns: mid-reconcile, not up, no topic
MayDrain == ~reconciling[slot] /\ up[slot] /\ hasIata[slot]

EnterDrain ==
  /\ AtSlot /\ NoResyncDue /\ MayDrain
  /\ draining' = TRUE
  /\ UNCHANGED <<ringVars, task, slot, brokerVars, history>>

PassSlot ==
  /\ AtSlot /\ NoResyncDue /\ ~MayDrain
  /\ slot' = slot + 1
  /\ UNCHANGED <<ringVars, task, draining, brokerVars, history>>

SlotsDone ==
  /\ task # "app" /\ slot \notin Readers
  /\ task' = "app" /\ slot' = 0
  /\ UNCHANGED <<ringVars, draining, brokerVars, history>>

\* drainBroker()'s loop: caught up, a record that cannot be rendered, a message
\* the broker's client accepts, and one it refuses or that finds the broker down.
LeaveDrain ==
  /\ draining' = FALSE /\ slot' = slot + 1
  /\ UNCHANGED <<task, brokerVars>>

CaughtUp ==
  /\ draining /\ ~peek(slot)
  /\ LeaveDrain /\ UNCHANGED <<ringVars, history>>

DropsNothing ==
  /\ draining /\ peek(slot) /\ want(slot) \notin renderable
  /\ LeaveDrain /\ UNCHANGED <<ringVars, history>>

DropUnrenderable ==
  /\ draining /\ peek(slot) /\ want(slot) \notin renderable
  /\ commit(slot)
  /\ unrendered' = [unrendered EXCEPT ![slot] = @ + 1]
  /\ UNCHANGED <<task, slot, draining, brokerVars, published, skipped>>

publish ==
  /\ draining /\ peek(slot) /\ want(slot) \in renderable
  /\ up[slot]
  /\ commit(slot)
  /\ published' = [published EXCEPT ![slot] = Append(@, want(slot))]
  /\ UNCHANGED <<task, slot, draining, brokerVars, unrendered, skipped>>

PublishFails ==
  /\ draining /\ peek(slot) /\ want(slot) \in renderable
  /\ LeaveDrain /\ UNCHANGED <<ringVars, history>>

\* reloadSlot(), from the operator's command line: the worker does the rest.
reloadSlot(r) ==
  /\ task = "app"
  /\ reconciling' = [reconciling EXCEPT ![r] = TRUE]
  /\ UNCHANGED <<ringVars, task, slot, draining, hasClient, up, hasIata, first_attach_done,
                 pending_resync, history>>

Publishing ==
  \/ \E ok \in BOOLEAN : publishPacket(ok)
  \/ loop
  \/ Resync \/ EnterDrain \/ PassSlot \/ SlotsDone
  \/ CaughtUp \/ DropUnrenderable \/ publish \/ PublishFails

(***************************************************************************)
(* The worker and the esp-mqtt event task.                                 *)
(***************************************************************************)
\* reconcileSlot() replaces the slot's client, unless it has to leave it without
\* one (disabled, no TLS budget, a bad configuration), and takes over the slot's
\* configuration; the first time it asks loop() for a resync.
ResyncEveryTime(r) == TRUE
ResyncDue(r) == ~first_attach_done[r]

reconcileSlot(r) ==
  /\ first_attach_done' = [first_attach_done EXCEPT ![r] = TRUE]
  /\ pending_resync' = [pending_resync EXCEPT ![r] = @ \/ ResyncDue(r)]
  /\ up' = [up EXCEPT ![r] = FALSE]
  /\ \E client, iata \in BOOLEAN :
       /\ hasClient' = [hasClient EXCEPT ![r] = client]
       /\ hasIata' = [hasIata EXCEPT ![r] = iata]
  /\ UNCHANGED <<ringVars, task, slot, draining, history>>

\* workerLoop() calls it for a slot the operator reloaded, and to give a broker
\* that was rotated out a client again.
Reload(r) ==
  /\ reconciling[r] /\ reconcileSlot(r)
  /\ reconciling' = [reconciling EXCEPT ![r] = FALSE]

Promote(r) == ~hasClient[r] /\ reconcileSlot(r) /\ UNCHANGED reconciling

\* rotateTlsIfDue(), and reaping a broker that has failed for good.
releaseClient(r) ==
  /\ hasClient[r]
  /\ hasClient' = [hasClient EXCEPT ![r] = FALSE] /\ up' = [up EXCEPT ![r] = FALSE]
  /\ UNCHANGED <<ringVars, task, slot, draining, hasIata, reconciling, first_attach_done,
                 pending_resync, history>>

SetUp(r, connected) ==
  /\ up' = [up EXCEPT ![r] = connected]
  /\ UNCHANGED <<ringVars, task, slot, draining, hasClient, hasIata, reconciling,
                 first_attach_done, pending_resync, history>>

onConnectedUnguarded(r) == ~up[r] /\ SetUp(r, TRUE)
onConnected(r) == hasClient[r] /\ ~up[r] /\ SetUp(r, TRUE)
onDisconnected(r) == up[r] /\ SetUp(r, FALSE)

Init ==
  /\ head_ = 0 /\ seq_ = [i \in 0..(Slots - 1) |-> 0]
  /\ cursor_ = [r \in Readers |-> 0] /\ dropped_ = [r \in Readers |-> 0]
  /\ renderable = {}
  /\ task = "app" /\ slot = 0 /\ draining = FALSE
  /\ up = [r \in Readers |-> FALSE] /\ reconciling = [r \in Readers |-> FALSE]
  /\ hasClient \in [Readers -> BOOLEAN] /\ hasIata \in [Readers -> BOOLEAN]
  /\ first_attach_done = [r \in Readers |-> FALSE]
  /\ pending_resync = [r \in Readers |-> FALSE]
  /\ published = [r \in Readers |-> <<>>]
  /\ unrendered = [r \in Readers |-> 0] /\ skipped = [r \in Readers |-> 0]

Next ==
  \/ Publishing
  \/ \E r \in Readers :
       \/ reloadSlot(r) \/ Reload(r) \/ Promote(r)
       \/ releaseClient(r) \/ onConnected(r) \/ onDisconnected(r)

\* loopTask and the worker keep running, and the client's outbox, which may refuse
\* a message at any time, does not for ever refuse a broker that is up.
Fairness ==
  /\ WF_vars(Publishing)
  /\ \A r \in Readers : WF_vars(Reload(r)) /\ SF_vars(publish /\ slot = r)

Spec == Init /\ [][Next]_vars /\ Fairness

-----------------------------------------------------------------------------
(***************************************************************************)
(* Properties.                                                             *)
(***************************************************************************)
TypeOK ==
  /\ head_ \in 0..MaxHead
  /\ seq_ \in [0..(Slots - 1) -> 0..MaxHead]
  /\ cursor_ \in [Readers -> 0..MaxHead] /\ dropped_ \in [Readers -> 0..MaxHead]
  /\ renderable \subseteq 1..head_
  /\ task \in {"app", "publishPacket", "loop"}
  /\ slot \in Nat /\ (slot \in Readers \/ slot - 1 \in Readers)
  /\ draining \in BOOLEAN /\ (draining => task # "app" /\ slot \in Readers)
  /\ hasClient \in [Readers -> BOOLEAN] /\ up \in [Readers -> BOOLEAN]
  /\ hasIata \in [Readers -> BOOLEAN] /\ reconciling \in [Readers -> BOOLEAN]
  /\ \A r \in Readers : up[r] => hasClient[r]
  /\ first_attach_done \in [Readers -> BOOLEAN]
  /\ pending_resync \in [Readers -> BOOLEAN]
  /\ published \in [Readers -> Seq(1..MaxHead)]
  /\ unrendered \in [Readers -> Nat] /\ skipped \in [Readers -> Nat]

\* The drop counter is exact: every message a broker's cursor has passed was
\* published to it, could not be rendered, was skipped when it was attached, or
\* is in droppedCount(), however often it was overrun in between.
LossIsCounted ==
  \A r \in Readers :
    cursor_[r] = Len(published[r]) + dropped_[r] + unrendered[r] + skipped[r]

\* What the ring says is retained is there: peek() finds nothing only when the
\* reader has caught up, so a backlog can never wedge a broker.
NeverWedged == \A r \in Readers : ~peek(r) => cursor_[r] = head_

\* The ring and its readers implement the log of retained messages.
Log == INSTANCE RetainedLog WITH
  Retain <- Slots, head <- head_, position <- cursor_, delivered <- published,
  fresh <- {r \in Readers : pending_resync[r] \/ ~first_attach_done[r]}

LogSpec == Log!Spec

\* A broker that stays up and has a topic to publish to catches up once packets stop
\* coming.
BacklogDrains ==
  \A r \in Readers : <>[](up[r] /\ hasIata[r]) => <>[](cursor_[r] = head_)

\* publishPacket(): "a broker that is down (rotated out, backoff, HeldNoHeap) resumes
\* where it left off instead of losing the traffic"; reconcileSlot(): "resync on
\* FIRST attach ONLY -- never on a rotation re-entry".  A broker that has already
\* published is never made to skip a message.
ResumesWhereItLeftOff ==
  [][\A r \in Readers : skipped'[r] # skipped[r] => published[r] = <<>>]_vars
=============================================================================
