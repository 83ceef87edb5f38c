---------------------------- MODULE RetainedLog ----------------------------
(***************************************************************************)
(* What the publish ring promises each broker, with no slots, counters or  *)
(* tasks: a log that grows at one end, and readers that go through it      *)
(* forward, one message at a time, missing a message only because more     *)
(* than Retain others came after it, or because it could not be rendered,  *)
(* or because it was there before the reader first arrived.                *)
(***************************************************************************)
EXTENDS Naturals, Sequences

CONSTANTS Readers, Retain

VARIABLES
  head,             \* messages appended so far; a message is its number
  position,         \* the last message each reader is past
  delivered,        \* what each reader has published, in order
  fresh             \* readers that may yet skip to the head, once

Init ==
  /\ head = 0
  /\ position = [r \in Readers |-> 0]
  /\ delivered = [r \in Readers |-> <<>>]
  /\ fresh = Readers

Append1 == head' = head + 1 /\ UNCHANGED <<position, delivered, fresh>>

\* The oldest message r has not passed and that is still kept.
NextFor(r) ==
  LET oldest == IF head > Retain THEN head - Retain + 1 ELSE 1
  IN IF position[r] + 1 < oldest THEN oldest ELSE position[r] + 1

Pass(r) ==
  /\ position[r] < head
  /\ position' = [position EXCEPT ![r] = NextFor(r)]

Deliver(r) ==
  /\ Pass(r)
  /\ delivered' = [delivered EXCEPT ![r] = Append(@, NextFor(r))]
  /\ UNCHANGED <<head, fresh>>

Skip(r) == Pass(r) /\ UNCHANGED <<head, delivered, fresh>>

StartAtHead(r) ==
  /\ r \in fresh /\ fresh' = fresh \ {r}
  /\ position' = [position EXCEPT ![r] = head]
  /\ UNCHANGED <<head, delivered>>

Next == Append1 \/ \E r \in Readers : Deliver(r) \/ Skip(r) \/ StartAtHead(r)

Spec == Init /\ [][Next]_<<head, position, delivered, fresh>>
=============================================================================
