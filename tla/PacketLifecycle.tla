-------------------------- MODULE PacketLifecycle --------------------------
(***************************************************************************)
(* What the packet pool and the dispatcher together promise, with no       *)
(* queues, timers or radio: a packet is always in one of five places, it   *)
(* moves between them only along the edges below, one packet at a time is  *)
(* on the air, and the transmitter is always given back.                   *)
(***************************************************************************)
CONSTANT Packets

VARIABLE where

Place == {"free", "app", "rxq", "txq", "air"}

Init == where = [p \in Packets |-> "free"]

Move(p, from, to) ==
  where[p] = from /\ where' = [where EXCEPT ![p] = to]

AirIsFree == \A p \in Packets : where[p] # "air"

\* obtainNewPacket(), and checkRecv() for a packet handled at once.
Allocate(p) == Move(p, "free", "app")

\* releasePacket(), sendPacket() of an invalid packet, ACTION_RELEASE.
Release(p) == Move(p, "app", "free")

\* sendPacket() and ACTION_RETRANSMIT.
Enqueue(p) == Move(p, "app", "txq")

\* checkRecv() puts a weakly heard flood packet aside, loop() takes it up again.
Defer(p) == Move(p, "free", "rxq")
TakeUp(p) == Move(p, "rxq", "app")

\* checkSend(), when the radio accepts the packet and when it does not.
Transmit(p) == AirIsFree /\ Move(p, "txq", "air")
GiveUp(p) == AirIsFree /\ Move(p, "txq", "free")

\* loop(), when the transmission has completed or expired.
Landed(p) == Move(p, "air", "free")

Next == \E p \in Packets :
  \/ Allocate(p) \/ Release(p) \/ Enqueue(p) \/ Defer(p) \/ TakeUp(p)
  \/ Transmit(p) \/ GiveUp(p) \/ Landed(p)

Fairness == \A p \in Packets : WF_where(Landed(p))

Spec == Init /\ [][Next]_where /\ Fairness
=============================================================================
