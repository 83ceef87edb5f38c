---------------------------- MODULE PacketQueue ----------------------------
(***************************************************************************)
(* The three tables of StaticPoolPacketManager (unused, send_queue,        *)
(* rx_queue) as operators on sequences.                                    *)
(*                                                                         *)
(* An entry is [pkt, pri, at].  The code keeps the absolute time an entry  *)
(* is scheduled for and compares it with millis(); here "at" is the        *)
(* distance from now to that time, so at > 0 reads "scheduled for the      *)
(* future" and the passing of time (Elapse) moves every entry closer.  The *)
(* two agree as long as an entry is looked at within half a millis() word  *)
(* of its time, which the main loop guarantees by polling.                 *)
(***************************************************************************)
EXTENDS Integers, Sequences, SequencesExt

Entry(Packets, Priorities, Times) ==
  [pkt : Packets, pri : Priorities, at : Times]

\* Indices of the entries that are not scheduled for the future.
NonFuture(q) == {i \in DOMAIN q : q[i].at <= 0}

countBefore(q) == Cardinality(NonFuture(q))

\* PacketQueue::get's choice: the smallest priority number among the entries
\* that are due, and among equals the one that was queued first.
PreferLast(q, i, j) == \/ q[i].pri < q[j].pri
                       \/ q[i].pri = q[j].pri /\ i >= j

Preferred(q, i, j) == \/ q[i].pri < q[j].pri
                      \/ q[i].pri = q[j].pri /\ i <= j

BestIndex(q) ==
  CHOOSE i \in NonFuture(q) : \A j \in NonFuture(q) : Preferred(q, i, j)

\* The entry shifted out by the loop that closes the gap.
keepByIdx(q, i) == q

removeByIdx(q, i) == RemoveAt(q, i)

add(q, p, pri, at) == Append(q, [pkt |-> p, pri |-> pri, at |-> at])

\* The packets a queue holds.
PacketsIn(q) == {q[i].pkt : i \in DOMAIN q}

\* One millisecond passes.
Elapse(q) ==
  [i \in DOMAIN q |-> [q[i] EXCEPT !.at = IF @ > 0 THEN @ - 1 ELSE 0]]
=============================================================================
