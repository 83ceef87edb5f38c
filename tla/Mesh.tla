-------------------------------- MODULE Mesh --------------------------------
(***************************************************************************)
(* mesh::Mesh::onRecvPacket() and the send operations, on a network of     *)
(* nodes: floods, direct packets that follow a path, returned paths, acks, *)
(* traces, and the ring of packet hashes that keeps a node from acting on  *)
(* a packet twice (SimpleMeshTables).  What a chat node does when a packet *)
(* turns out to be for it is BaseChatMesh's.                               *)
(*                                                                         *)
(* The dispatcher under each node is reduced to what it lets through: a    *)
(* packet that was queued is transmitted some time later, in any order     *)
(* (priorities, random delays), and every neighbour that hears it looks at *)
(* it some time later, in any order (score delays).  A packet the pool has *)
(* no room to create, or the radio drops, is one that no neighbour hears.  *)
(*                                                                         *)
(* A payload is a record: two payloads are equal exactly when their bytes  *)
(* are.  "no" is what makes them differ: a timestamp, an attempt number or *)
(* random bytes.  Encryption is left out: a datagram opens at the node it  *)
(* is for, because only the two ends share its secret.  Regions, transport *)
(* codes and the repeaters' loop detection are left out.                   *)
(***************************************************************************)
EXTENDS Integers, Sequences, FiniteSets, SequencesExt

CONSTANTS
  Nodes,
  Networks,         \* the networks considered, each a record:
                    \*   links: two-element sets of nodes that hear each other
                    \*   hash: the path hash of each node, not necessarily unique
                    \*   chats: nodes that run BaseChatMesh, contacts of each other
                    \*   forwarders: nodes whose allowPacketForward() says yes
                    \*   multi_ackers: nodes whose getExtraAckTransmitCount() is 1, not 0
                    \*   traffic: what the applications may send, each once
                    \*   path_max: hashes that fit in a path
                    \*   ring_size: MAX_PACKET_HASHES
                    \*   restarts: bound of the model, restarts of forwarding nodes
                    \*   lossy: whether a neighbour may miss a transmission
  Unknown, NoAck

\* what an application sends: a text to a contact, a channel message, an advert,
\* or a trace along the hashes in its payload
Message(w, t) ==
  /\ t = [type |-> t.type, body |-> t.body] /\ t.body # NoAck /\ t.body.from \in Nodes
  /\ \/ t.type = "TXT" /\ {t.body.from, t.body.to} \subseteq w.chats
     \/ t.type \in {"GRP", "ADVERT"}
     \/ t.type = "TRACE" /\ t.body.hops \in Seq({w.hash[n] : n \in Nodes})

ASSUME NetworksAssumption ==
  \A w \in Networks :
    /\ w.links \subseteq SUBSET Nodes /\ DOMAIN w.hash = Nodes
    /\ w.chats \subseteq Nodes /\ w.forwarders \subseteq Nodes
    /\ w.multi_ackers \subseteq Nodes
    /\ w.path_max \in Nat /\ w.ring_size \in Nat \ {0} /\ w.restarts \in Nat
    /\ w.lossy \in BOOLEAN
    /\ \A t \in w.traffic : Message(w, t)

\* no path is taken for an unknown one
ASSUME UnknownAssumption ==
  \A w \in Networks : Unknown \notin Seq({w.hash[n] : n \in Nodes})

VARIABLES
  net,              \* the network, one of Networks
  todo,             \* what the applications have yet to send
  queue,            \* packets each node has queued for transmission
  inbox,            \* packets each node has heard and not yet looked at
  seen,             \* each node's ring of packet hashes, oldest first
  out_path,         \* path to each contact, or Unknown
  awaiting,         \* texts each node awaits an ack for
  made,             \* payloads each node has made unique
  restarts,
  \* History, kept over restarts: hashes of the packets each node has queued, of
  \* those it has handed to its application, and those for which either happened
  \* more than once; the nodes whose ring has lost a hash for want of room; and
  \* the hashes that each node had acted on when it restarted.
  sent, handed, twice, forgot, before

history == <<sent, handed, twice, forgot, before>>
appVars == <<out_path, awaiting, made>>
vars == <<net, todo, queue, inbox, seen, appVars, restarts, history>>

Neighbours(n) == {m \in Nodes : m # n /\ {m, n} \in net.links}

(***************************************************************************)
(* Packets and the ring of their hashes.                                   *)
(***************************************************************************)
Packet(type, route, path, body) ==
  [type |-> type, route |-> route, path |-> path, body |-> body]

Flood(type, body) == Packet(type, "flood", <<>>, body)
Direct(type, path, body) == Packet(type, "direct", path, body)

isRouteFlood(p) == p.route = "flood"

\* header = 0xFF: no payload type, and the route bits say "direct".
markDoNotRetransmit(p) == [p EXCEPT !.type = "0xFF", !.route = "direct"]

\* The hash covers type and payload, and for a trace how far it has come.
TraceHashedLikeTheRest(p) == <<p.type, p.body>>

calculatePacketHash(p) ==
  IF p.type = "TRACE" THEN <<p.type, p.body, Len(p.path)>> ELSE <<p.type, p.body>>

\* The sender of a multi-ack hashes it with the count that precedes the ack in
\* its payload; whoever receives one hashes the ack alone.
HashAsSent(p) ==
  IF p.type = "MULTI" THEN <<p.type, p.body, "count">> ELSE calculatePacketHash(p)

wasSeen(n, p) == calculatePacketHash(p) \in ToSet(seen[n])

NeverForgets(ring) == ring

Latest(ring) ==
  IF Len(ring) <= net.ring_size THEN ring
  ELSE SubSeq(ring, Len(ring) - net.ring_size + 1, Len(ring))

allowPacketForward(n, p) == n \in net.forwarders

\* What one call does at node n: hashes it marks as seen, in order, packets it
\* queues and hashes of packets it hands to the application.
Does(n, marks, sends, gives) ==
  LET hashes == {calculatePacketHash(p) : p \in sends}
  IN /\ seen' = [seen EXCEPT ![n] = Latest(@ \o marks)]
     /\ queue' = [queue EXCEPT ![n] = @ \cup sends]
     /\ sent' = [sent EXCEPT ![n] = @ \cup hashes]
     /\ handed' = [handed EXCEPT ![n] = @ \cup gives]
     /\ twice' = twice \cup ({n} \X (hashes \cap sent[n]))
                       \cup ({n} \X (gives \cap handed[n]))
     /\ forgot' = forgot \cup IF Len(seen[n] \o marks) > net.ring_size THEN {n} ELSE {}
     /\ UNCHANGED before

DoesNothing == UNCHANGED <<seen, queue, history>>

(***************************************************************************)
(* Sending.  sendFlood() and sendDirect() mark what they send as seen.     *)
(***************************************************************************)
SendsUnmarked(n, packets) == Does(n, <<>>, packets, {})

Sends(n, packets) ==
  Does(n, SetToSeq({HashAsSent(p) : p \in packets}), packets, {})

\* sendMessage(): direct when a path to the contact is known.
SendText(text) ==
  LET n == text.from
      path == out_path[n][text.to]
  IN /\ Sends(n, {IF path = Unknown THEN Flood("TXT", text)
                                    ELSE Direct("TXT", path, text)})
     /\ awaiting' = [awaiting EXCEPT ![n] = @ \cup {text}]
     /\ UNCHANGED <<out_path, made>>

Originate(t) ==
  /\ t \in todo /\ todo' = todo \ {t}
  /\ CASE t.type = "TXT" -> SendText(t.body)
       [] t.type = "TRACE" -> /\ Sends(t.body.from, {Direct("TRACE", <<>>, t.body)})
                              /\ UNCHANGED appVars
       [] OTHER -> Sends(t.body.from, {Flood(t.type, t.body)}) /\ UNCHANGED appVars
  /\ UNCHANGED <<net, inbox, restarts>>

\* createPathReturn() and createAck(), the no-th unique payload of node n.
PathReturn(n, to, path, ack, no) ==
  [from |-> n, to |-> to, path |-> path, ack |-> ack, no |-> no]

Ack(text, no) == [ack |-> text, no |-> no]

\* routeDirectRecvAcks(), and sendAckTo() when a path is known: an ack, before
\* it a multi-ack.
DirectAcks(n, path, body) ==
  {Direct("ACK", path, body)} \cup
  (IF n \in net.multi_ackers THEN {Direct("MULTI", path, body)} ELSE {})

\* sendAckTo()
AckTo(n, text) ==
  LET ack == Ack(text, made[n])
      path == out_path[n][text.from]
  IN IF path = Unknown THEN {Flood("ACK", ack)} ELSE DirectAcks(n, path, ack)

(***************************************************************************)
(* routeRecvPacket(): a flood packet this node passes on.                  *)
(***************************************************************************)
ForwardedUnsigned(n, p) ==
  IF isRouteFlood(p) /\ allowPacketForward(n, p) THEN {p} ELSE {}

routeRecvPacket(n, p) ==
  IF isRouteFlood(p) /\ Len(p.path) + 1 <= net.path_max /\ allowPacketForward(n, p)
    THEN {[p EXCEPT !.path = Append(@, net.hash[n])]}
    ELSE {}

(***************************************************************************)
(* onRecvPacket(), in the order of its tests.                              *)
(***************************************************************************)
\* A trace that has come to the end of the path in its payload is handed over
\* by whoever hears it there.  Before that it goes to the node named next, once
\* per position.  One whose path is full of SNRs is dropped, even at its end.
TraceComes(p) == Len(p.path) < net.path_max
TraceEnds(p) == Len(p.path) >= Len(p.body.hops)

TracePassesOn(n, p) ==
  /\ p.body.hops[Len(p.path) + 1] = net.hash[n]
  /\ allowPacketForward(n, p)
  /\ ~wasSeen(n, p)

RecvTrace(n, p) ==
  /\ p.type = "TRACE"
  /\ \/ TraceComes(p) /\ TraceEnds(p) /\ Does(n, <<>>, {}, {calculatePacketHash(p)})
     \/ /\ TraceComes(p) /\ ~TraceEnds(p) /\ TracePassesOn(n, p)
        /\ Does(n, <<calculatePacketHash(p)>>, {[p EXCEPT !.path = Append(@, "snr")]}, {})
     \/ /\ ~TraceComes(p) \/ (~TraceEnds(p) /\ ~TracePassesOn(n, p))
        /\ DoesNothing
  /\ UNCHANGED appVars

OnTheWay(p) == ~isRouteFlood(p) /\ p.type # "TRACE" /\ p.path # <<>>

\* onAckRecv(): the ack of a text this node awaits is accepted, and the packet
\* goes no further.
Accepts(n, p) == p.body.ack \in awaiting[n]

AfterAck(n, p) == IF Accepts(n, p) THEN markDoNotRetransmit(p) ELSE p

cancelAllAcks(n, ack) == awaiting' = [awaiting EXCEPT ![n] = IF ack \in @ THEN {} ELSE @]

acceptAck(n, ack) == awaiting' = [awaiting EXCEPT ![n] = @ \ {ack}]

removeLastFromPath(p) == [p EXCEPT !.path = Front(@)]

removeSelfFromPath(p) == [p EXCEPT !.path = Tail(@)]

NextHopIs(n, p) == net.hash[n] = Head(p.path) /\ allowPacketForward(n, p)

\* A direct packet with a path: an ack is looked at by whoever overhears it,
\* and the node the path names first passes the packet on, once.
RecvOnTheWay(n, p) ==
  LET q == IF p.type = "ACK" THEN AfterAck(n, p) ELSE p
      next == removeSelfFromPath(q)
  IN /\ OnTheWay(p)
     /\ IF p.type = "ACK" THEN acceptAck(n, p.body.ack) ELSE UNCHANGED awaiting
     /\ IF NextHopIs(n, p) /\ ~wasSeen(n, q)
          THEN Does(n, <<calculatePacketHash(q)>>,
                    IF q.type \in {"ACK", "MULTI"} THEN DirectAcks(n, next.path, q.body)
                                                   ELSE {next}, {})
          ELSE DoesNothing
     /\ UNCHANGED <<out_path, made>>

\* Everything else is dropped if its hash is in the ring, and put there if not.
ForThisNode(p) == p.type # "TRACE" /\ ~OnTheWay(p)

RecvAgain(n, p) ==
  /\ ForThisNode(p) /\ wasSeen(n, p)
  /\ DoesNothing /\ UNCHANGED appVars

First(n, p) == ForThisNode(p) /\ ~wasSeen(n, p)

\* An ack, flooded or at the end of its path.  BaseChatMesh asks whether it came
\* by flood to repair a path the other end does not seem to know.
RecvAck(n, p) ==
  LET q == AfterAck(n, p)
      peer == p.body.ack.to
      repair == Accepts(n, p) /\ isRouteFlood(q) /\ out_path[n][peer] # Unknown
      rpath == IF repair
                 THEN {Direct("PATH", out_path[n][peer],
                              PathReturn(n, peer, p.path, NoAck, made[n]))}
                 ELSE {}
  IN /\ p.type = "ACK" /\ First(n, p)
     /\ Does(n, <<calculatePacketHash(p)>> \o SetToSeq({HashAsSent(r) : r \in rpath}),
             rpath \cup routeRecvPacket(n, q), {})
     /\ acceptAck(n, p.body.ack)
     /\ made' = [made EXCEPT ![n] = @ + Cardinality(rpath)]
     /\ UNCHANGED out_path

\* A multi-ack at the end of its path.
RecvMultiAck(n, p) ==
  /\ p.type = "MULTI" /\ First(n, p)
  /\ Does(n, <<calculatePacketHash(p)>>, {}, {})
  /\ acceptAck(n, p.body.ack)
  /\ UNCHANGED <<out_path, made>>

\* A text for this node is handed over and acknowledged: with the path it came
\* by if it was flooded, which also tells the sender how to reach this node.
RecvText(n, p) ==
  LET reply == IF isRouteFlood(p)
                 THEN {Flood("PATH", PathReturn(n, p.body.from, p.path, p.body, made[n]))}
                 ELSE AckTo(n, p.body)
  IN /\ p.type = "TXT" /\ p.body.to = n /\ First(n, p)
     /\ Does(n, <<calculatePacketHash(p)>> \o SetToSeq({HashAsSent(r) : r \in reply}),
             reply, {calculatePacketHash(p)})
     /\ made' = [made EXCEPT ![n] = @ + 1]
     /\ UNCHANGED <<out_path, awaiting>>

RecvPathUnanswered(n, p) ==
  /\ p.type = "PATH" /\ p.body.to = n /\ First(n, p)
  /\ Does(n, <<calculatePacketHash(p)>>, {}, {})
  /\ out_path' = [out_path EXCEPT ![n][p.body.from] = p.body.path]
  /\ acceptAck(n, p.body.ack)
  /\ UNCHANGED made

\* A path for this node replaces the one it has, and if it came by flood the
\* reciprocal path goes back along it.
RecvPath(n, p) ==
  LET peer == p.body.from
      reciprocal == IF isRouteFlood(p)
                      THEN {Direct("PATH", p.body.path,
                                   PathReturn(n, peer, p.path, NoAck, made[n]))}
                      ELSE {}
  IN /\ p.type = "PATH" /\ p.body.to = n /\ First(n, p)
     /\ Does(n, <<calculatePacketHash(p)>> \o SetToSeq({HashAsSent(r) : r \in reciprocal}),
             reciprocal, {})
     /\ out_path' = [out_path EXCEPT ![n][peer] = p.body.path]
     /\ acceptAck(n, p.body.ack)
     /\ made' = [made EXCEPT ![n] = @ + Cardinality(reciprocal)]

\* A datagram for somebody else.
RecvForOther(n, p) ==
  /\ p.type \in {"TXT", "PATH"} /\ p.body.to # n /\ First(n, p)
  /\ Does(n, <<calculatePacketHash(p)>>, routeRecvPacket(n, p), {})
  /\ UNCHANGED appVars

\* A channel message is handed over and passed on.
RecvGroup(n, p) ==
  /\ p.type = "GRP" /\ First(n, p)
  /\ Does(n, <<calculatePacketHash(p)>>, routeRecvPacket(n, p), {calculatePacketHash(p)})
  /\ UNCHANGED appVars

\* An advert goes no further if it is this node's own, which is not even marked,
\* or if its signature does not verify.
RecvOwnAdvert(n, p) ==
  /\ p.type = "ADVERT" /\ p.body.from = n
  /\ DoesNothing /\ UNCHANGED appVars

RecvAdvert(n, p) ==
  /\ p.type = "ADVERT" /\ p.body.from # n /\ First(n, p)
  /\ IF p.body.signed
       THEN Does(n, <<calculatePacketHash(p)>>, routeRecvPacket(n, p), {calculatePacketHash(p)})
       ELSE Does(n, <<calculatePacketHash(p)>>, {}, {})
  /\ UNCHANGED appVars

onRecvPacket(n, p) ==
  \/ RecvTrace(n, p)
  \/ RecvOnTheWay(n, p)
  \/ RecvOwnAdvert(n, p)
  \/ RecvAgain(n, p)
  \/ RecvAck(n, p) \/ RecvMultiAck(n, p)
  \/ RecvText(n, p) \/ RecvPath(n, p) \/ RecvForOther(n, p)
  \/ RecvGroup(n, p) \/ RecvAdvert(n, p)

Receive(n, p) ==
  /\ p \in inbox[n]
  /\ inbox' = [inbox EXCEPT ![n] = @ \ {p}]
  /\ onRecvPacket(n, p)
  /\ UNCHANGED <<net, todo, restarts>>

(***************************************************************************)
(* The air, and nodes that restart.                                        *)
(***************************************************************************)
\* tryParsePacket() refuses the version number in a header of 0xFF.
Readable(p) == p.type # "0xFF"

Transmit(n, p) ==
  /\ p \in queue[n]
  /\ queue' = [queue EXCEPT ![n] = @ \ {p}]
  /\ \E heard \in IF net.lossy THEN SUBSET Neighbours(n) ELSE {Neighbours(n)} :
       inbox' = [m \in Nodes |-> IF m \in heard /\ Readable(p) THEN inbox[m] \cup {p}
                                                              ELSE inbox[m]]
  /\ UNCHANGED <<net, todo, seen, appVars, restarts, history>>

\* A forwarding node that restarts forgets its ring and its queues; what it did
\* before stays on record.
Restart(n) ==
  /\ n \in net.forwarders \ net.chats /\ restarts < net.restarts
  /\ restarts' = restarts + 1
  /\ seen' = [seen EXCEPT ![n] = <<>>]
  /\ queue' = [queue EXCEPT ![n] = {}]
  /\ inbox' = [inbox EXCEPT ![n] = {}]
  /\ before' = [before EXCEPT ![n] = @ \cup sent[n] \cup handed[n]]
  /\ UNCHANGED <<net, todo, appVars, sent, handed, twice, forgot>>

Init ==
  /\ net \in Networks
  /\ todo = net.traffic
  /\ queue = [n \in Nodes |-> {}] /\ inbox = [n \in Nodes |-> {}]
  /\ seen = [n \in Nodes |-> <<>>]
  /\ out_path = [n \in Nodes |-> [m \in Nodes |-> Unknown]]
  /\ awaiting = [n \in Nodes |-> {}] /\ made = [n \in Nodes |-> 0]
  /\ restarts = 0
  /\ sent = [n \in Nodes |-> {}] /\ handed = [n \in Nodes |-> {}]
  /\ twice = {} /\ forgot = {} /\ before = [n \in Nodes |-> {}]

NodeStep(n) == \/ \E p \in queue[n] : Transmit(n, p)
               \/ \E p \in inbox[n] : Receive(n, p)

Next ==
  \/ \E t \in todo : Originate(t)
  \/ \E n \in Nodes : NodeStep(n) \/ Restart(n)

\* The nodes keep polling their queues: as long as one of them has something to do,
\* some node does something.
Fairness == WF_vars(\E n \in Nodes : NodeStep(n))

Spec == Init /\ [][Next]_vars /\ Fairness

-----------------------------------------------------------------------------
(***************************************************************************)
(* Properties.                                                             *)
(***************************************************************************)
Offered(type) == {t.body : t \in {u \in UNION {w.traffic : w \in Networks} : u.type = type}}
Texts == Offered("TXT")

Issued(type) == {t.body : t \in {u \in net.traffic \ todo : u.type = type}}

Packets == UNION {queue[n] \cup inbox[n] : n \in Nodes}

TypeOK ==
  /\ net \in Networks
  /\ todo \subseteq net.traffic
  /\ \A p \in Packets : /\ DOMAIN p = {"type", "route", "path", "body"}
                        /\ p.route \in {"flood", "direct"}
                        /\ Len(p.path) <= net.path_max
  /\ \A n \in Nodes : /\ Len(seen[n]) <= net.ring_size
                      /\ awaiting[n] \subseteq Texts
                      /\ made[n] \in Nat
  /\ restarts \in 0..net.restarts

\* Whatever is lost, reordered or heard by several ways, no node transmits a
\* packet a second time, its own included, and none hands one to its application
\* a second time, as long as its ring has room for the hashes it meets.  A node
\* that restarts may repeat what it had acted on before the restart, since the
\* ring is in RAM; it repeats nothing else, and nobody else repeats anything
\* because of it.  Only multi-acks make forwarders repeat an ack, which reaches
\* them both as itself and as a multi-ack, and only the end of a trace, for which
\* the ring is not asked, may come twice where two forwarders share a hash.
ActsOnce ==
  \A w \in twice :
    \/ w[1] \in forgot
    \/ w[2] \in before[w[1]]
    \/ net.multi_ackers # {} /\ w[2][1] \in {"ACK", "MULTI"}
    \/ w[2][1] = "TRACE" /\ \E a, b \in net.forwarders : a # b /\ net.hash[a] = net.hash[b]

\* m is the last of the forwarders named by a path, each in reach of the one
\* before, the first in reach of n; or n itself, if the path names none.
Leads(n, path, m) ==
  IF path = <<>> THEN n = m
  ELSE \E via \in [DOMAIN path -> net.forwarders] :
         /\ via[1] \in Neighbours(n) /\ via[Len(path)] = m
         /\ \A i \in DOMAIN path : net.hash[via[i]] = path[i]
         /\ \A i \in 1..(Len(path) - 1) : via[i + 1] \in Neighbours(via[i])

Connects(n, path, m) == \E last \in Nodes : Leads(n, path, last) /\ m \in Neighbours(last)

\* A path learned from the flood of one's own message, or from the answer to it,
\* leads to that contact, in the direction in which it will be used.
LearnedPathsConnect ==
  \A n \in net.chats : \A m \in net.chats \ {n} :
    out_path[n][m] # Unknown => Connects(n, out_path[n][m], m)

\* Wherever a direct packet is queued, what is left of its path leads from there
\* to the node it is for.
Addressee(p) == IF p.type \in {"ACK", "MULTI"} THEN p.body.ack.from ELSE p.body.to

DirectRoutesConnect ==
  \A n \in Nodes : \A p \in queue[n] :
    p.route = "direct" /\ p.type \in {"TXT", "PATH", "ACK", "MULTI"}
        => Connects(n, p.path, Addressee(p))

\* A text the sender no longer awaits an ack for has been handed to the
\* application of the contact it was for.
AckMeansHanded ==
  \A t \in Issued("TXT") : t \notin awaiting[t.from] => <<"TXT", t>> \in handed[t.to]

\* Floods, traces and the replies they cause die out, even where nodes hear
\* each other in a circle and the ring is too short to remember a packet.
Quiet == Packets = {}

EventuallyQuiet == <>[]Quiet

\* Where nothing is lost, a text is acknowledged and both ends come to know a
\* path to each other.
ExchangeCompletes ==
  Quiet /\ ~net.lossy =>
    \A t \in Issued("TXT") : /\ t \notin awaiting[t.from]
                            /\ out_path[t.from][t.to] # Unknown
                            /\ out_path[t.to][t.from] # Unknown

\* A trace that comes back through a node reaches its end: each visit has a hash
\* of its own.
TraceCompletes ==
  Quiet /\ ~net.lossy =>
    \A t \in Issued("TRACE") : <<"TRACE", t, Len(t.hops)>> \in handed[t.from]

\* BaseChatMesh::onAckRecv(): "we have direct path, but other node is still
\* sending flood", so the reciprocal path is sent again.
RepairDue(n, p) ==
  /\ p.type = "ACK" /\ isRouteFlood(p) /\ p \notin inbox'[n]
  /\ p.body.ack \in awaiting[n] \ awaiting'[n]
  /\ out_path[n][p.body.ack.to] # Unknown

FloodedAckRepairsPath ==
  [][\A n \in net.chats : \A p \in inbox[n] :
       RepairDue(n, p) =>
         \E q \in queue'[n] : q.type = "PATH" /\ q.body.to = p.body.ack.to]_vars
=============================================================================
