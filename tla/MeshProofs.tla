----------------------------- MODULE MeshProofs -----------------------------
(***************************************************************************)
(* The mesh, whatever its nodes, links and traffic: an ack means that the  *)
(* text arrived, the paths that nodes learn lead to the contact they are   *)
(* for, and no node acts on a packet twice.  Where nothing is lost, traces *)
(* come to their end and texts are acknowledged.                           *)
(***************************************************************************)
EXTENDS Mesh, TLAPS, FiniteSetTheorems, SequenceTheorems, NaturalsInduction, WellFoundedInduction

Sources == {"TXT", "GRP", "ADVERT", "TRACE"}
Types == Sources \cup {"PATH", "ACK", "MULTI", "0xFF"}
PathBytes == {"snr"} \cup UNION {{w.hash[n] : n \in Nodes} : w \in Networks}
Paths == Seq(PathBytes)

Acks == [ack : Texts, no : Nat]
Returns == [from : Nodes, to : Nodes, path : Paths, ack : Texts \cup {NoAck}, no : Nat]
Bodies == Acks \cup Returns \cup {t.body : t \in UNION {w.traffic : w \in Networks}}
PacketSet == [type : Types, route : {"flood", "direct"}, path : Paths, body : Bodies]
Digests == (Types \X Bodies) \cup (Types \X Bodies \X Nat) \cup (Types \X Bodies \X {"count"})

HashesTyped ==
  /\ seen \in [Nodes -> Seq(Digests)] /\ \A n \in Nodes : Len(seen[n]) <= net.ring_size
  /\ sent \in [Nodes -> SUBSET Digests] /\ handed \in [Nodes -> SUBSET Digests]
  /\ before \in [Nodes -> SUBSET Digests] /\ twice \subseteq Nodes \X Digests

TypeInv ==
  /\ net \in Networks /\ todo \subseteq net.traffic
  /\ queue \in [Nodes -> SUBSET PacketSet] /\ inbox \in [Nodes -> SUBSET PacketSet]
  /\ out_path \in [Nodes -> [Nodes -> Paths \cup {Unknown}]]
  /\ awaiting \in [Nodes -> SUBSET Texts] /\ made \in [Nodes -> Nat]
  /\ restarts \in 0..net.restarts
  /\ HashesTyped

\* The text t is one of the applications' and was handed over.
Arrived(t) == t \in Issued("TXT") /\ <<"TXT", t>> \in handed[t.to]

\* What is true of a packet wherever it is.
Known(p) ==
  /\ Len(p.path) <= net.path_max
  /\ p.type \in Sources => [type |-> p.type, body |-> p.body] \in net.traffic \ todo
  /\ p.type = "TRACE" =>
       p.route = "direct" /\ p.path \in Seq({"snr"}) /\ Len(p.path) <= Len(p.body.hops)
  /\ p.type \in {"ACK", "MULTI"} =>
       p.body \in Acks /\ Arrived(p.body.ack) /\ p.body.no < made[p.body.ack.to]
  /\ p.type = "PATH" =>
       /\ p.body \in Returns /\ p.body.from \in net.chats /\ p.body.to \in net.chats
       /\ p.body.no < made[p.body.from]
       /\ Len(p.body.path) <= net.path_max /\ Connects(p.body.to, p.body.path, p.body.from)
       /\ p.body.ack # NoAck => Arrived(p.body.ack)

Origin(p) == IF p.type = "ACK" THEN p.body.ack.to ELSE p.body.from

\* Two nodes that pass on what the same node sends have different hashes.
HashesDiffer ==
  \A n \in Nodes : \A a, b \in net.forwarders \cap Neighbours(n) : net.hash[a] = net.hash[b] => a = b

Directed(p) == p.route = "direct" /\ p.type \in {"TXT", "PATH", "ACK", "MULTI"}
Spread(p) == isRouteFlood(p) /\ p.type \in {"TXT", "PATH", "ACK"}

\* A flood has come along its path, and a direct packet still has its own to go.
Queued(n, p) ==
  /\ Spread(p) => Leads(Origin(p), p.path, n)
  /\ Directed(p) /\ HashesDiffer => Connects(n, p.path, Addressee(p))

Heard(n, p) ==
  /\ Spread(p) => Connects(Origin(p), p.path, n)
  /\ Directed(p) /\ HashesDiffer =>
       \E m \in Nodes : n \in Neighbours(m) /\ Connects(m, p.path, Addressee(p))

PacketsOK ==
  \A n \in Nodes : /\ \A p \in queue[n] : Known(p) /\ Queued(n, p)
                   /\ \A p \in inbox[n] : Known(p) /\ Heard(n, p)

RoutesOK ==
  \A n, m \in Nodes : out_path[n][m] # Unknown =>
    Connects(n, out_path[n][m], m) /\ Len(out_path[n][m]) <= net.path_max

TextsOK == \A t \in Issued("TXT") : t \in awaiting[t.from] \/ Arrived(t)

IInv == TypeInv /\ PacketsOK /\ RoutesOK /\ TextsOK

\* Hashes that may be used again: an ack comes both as itself and as a multi-ack.
Repeated(h) == net.multi_ackers # {} /\ h[1] \in {"ACK", "MULTI"}

\* What is true of the hash of a packet that a node queued or handed over.
Used(h) ==
  /\ h[1] \in Sources => [type |-> h[1], body |-> h[2]] \in net.traffic \ todo
  /\ h[1] = "PATH" => h[2] \in Returns /\ h[2].no < made[h[2].from]
  /\ h[1] = "ACK" => h[2] \in Acks /\ h[2].no < made[h[2].ack.to]

\* As long as it forgets nothing, the ring of a node has the hash of all it
\* queued or handed over and had not before it restarted: of a trace, the hash
\* under which it came.
InRing(n) ==
  /\ \A h \in sent[n] \ before[n] :
       h[1] # "TRACE" /\ ~Repeated(h) => h \in ToSet(seen[n])
  /\ \A h \in sent[n] \ before[n] :
       h[1] = "TRACE" /\ h[3] > 0 => <<h[1], h[2], h[3] - 1>> \in ToSet(seen[n])
  /\ \A h \in handed[n] \ before[n] : h[1] # "TRACE" => h \in ToSet(seen[n])

NoMulti ==
  net.multi_ackers = {} => \A n \in Nodes : \A p \in queue[n] \cup inbox[n] : p.type # "MULTI"

HashesOK ==
  /\ \A n \in Nodes : \A h \in sent[n] \cup handed[n] : Used(h)
  /\ \A n \in Nodes : n \in forgot \/ InRing(n)
  /\ NoMulti

\* No two forwarders have the same hash.
Unshared == \A a, b \in net.forwarders : net.hash[a] = net.hash[b] => a = b

SameTrace(p, q) == p.type = "TRACE" /\ q.type = "TRACE" /\ p.body = q.body

\* The node that a trace is for next.
Due(n, p) ==
  /\ ~TraceEnds(p) /\ n \in net.forwarders /\ net.hash[n] = p.body.hops[Len(p.path) + 1]

\* A trace is handed on like a token: it is in one queue, or due at one node, or
\* over.  What others overheard of it is behind.
OneQueued ==
  \A n, m \in Nodes : \A p \in queue[n] : \A q \in queue[m] : SameTrace(p, q) => n = m /\ p = q
BehindQueued ==
  \A n, m \in Nodes : \A p \in queue[n] : \A q \in inbox[m] :
    SameTrace(p, q) => Len(q.path) < Len(p.path) /\ ~Due(m, q)
BehindDue ==
  \A n, m \in Nodes : \A p \in inbox[n] : \A q \in inbox[m] :
    SameTrace(p, q) /\ Due(n, p) => Len(q.path) <= Len(p.path)
Over ==
  \A m \in Nodes : \A h \in handed[m] : h[1] = "TRACE" =>
    /\ h[3] = Len(h[2].hops)
    /\ \A n \in Nodes : \A p \in queue[n] : ~(p.type = "TRACE" /\ p.body = h[2])
    /\ \A n \in Nodes : \A p \in inbox[n] :
         p.type = "TRACE" /\ p.body = h[2] => ~Due(n, p) /\ (n = m => Len(p.path) < h[3])

TracesOK == Unshared => OneQueued /\ BehindQueued /\ BehindDue /\ Over

HInv == HashesOK /\ TracesOK /\ ActsOnce

-----------------------------------------------------------------------------
(* Networks and paths *)

\* What is assumed of a network holds of this one.
LEMMA ThisNetwork ==
  ASSUME net \in Networks
  PROVE  /\ net.links \subseteq SUBSET Nodes /\ DOMAIN net.hash = Nodes
         /\ net.chats \subseteq Nodes /\ net.forwarders \subseteq Nodes
         /\ net.path_max \in Nat /\ net.ring_size \in Nat \ {0} /\ net.restarts \in Nat
         /\ \A t \in net.traffic : Message(net, t)
         /\ \A n \in Nodes : net.hash[n] \in PathBytes
<1> PICK w \in Networks : w = net
  OBVIOUS
<1> QED BY NetworksAssumption DEF PathBytes

\* The elements of a finite set in some order.
LEMMA InSomeOrder ==
  ASSUME NEW S, IsFiniteSet(S)
  PROVE  SetToSeq(S) \in Seq(S) /\ ToSet(SetToSeq(S)) = S
<1>1. PICK N \in Nat : N = Cardinality(S)
  BY FS_CardinalityType
<1>2. PICK f \in [1..N -> S] : IsInjective(f)
  BY <1>1, FS_CardinalityType DEF ExistsBijection, Bijection, Injection, IsInjective
<1>3. PICK g \in [1..N -> S] : g = SetToSeq(S) /\ IsInjective(g)
  <2> DEFINE P(h) == h \in [1..N -> S] /\ IsInjective(h)
  <2>1. P(CHOOSE h : P(h))
    <3> HIDE DEF P
    <3>1. \E h : P(h)
      BY <1>2 DEF P
    <3> QED BY <3>1
  <2>2. SetToSeq(S) = CHOOSE h : P(h)
    BY <1>1 DEF SetToSeq
  <2> QED BY <2>1, <2>2
<1>4. g \in Seq(S)
  BY SeqDef
<1>5. g \in Injection(1..N, S)
  BY <1>3 DEF Injection, IsInjective
<1>6. IsFiniteSet(1..N) /\ Cardinality(1..N) = N
  BY FS_Interval
<1>7. g \in Surjection(1..N, S)
  BY <1>1, <1>5, <1>6, FS_Injection
<1> QED BY <1>3, <1>4, <1>7 DEF ToSet, Surjection

\* A flood that a forwarder passes on has come to that forwarder.
LEMMA OneMoreHop ==
  ASSUME net \in Networks, NEW o \in Nodes, NEW path \in Paths,
         NEW m \in net.forwarders, Connects(o, path, m)
  PROVE  Leads(o, Append(path, net.hash[m]), m)
<1>1. m \in Nodes /\ net.hash[m] \in PathBytes
  BY ThisNetwork
<1> DEFINE longer == Append(path, net.hash[m])
<1>2. /\ longer \in Seq(PathBytes) /\ longer # <<>> /\ Len(longer) = Len(path) + 1
      /\ \A i \in 1..Len(path) : longer[i] = path[i]
      /\ longer[Len(path) + 1] = net.hash[m] /\ Len(path) \in Nat
      /\ DOMAIN longer = 1..(Len(path) + 1) /\ DOMAIN path = 1..Len(path)
  BY <1>1 DEF Paths
<1>3. PICK last \in Nodes : Leads(o, path, last) /\ m \in Neighbours(last)
  BY DEF Connects
<1> HIDE DEF longer
<1> SUFFICES Leads(o, longer, m)
  BY DEF longer
<1>4. CASE path = <<>>
  <2> DEFINE via == [i \in DOMAIN longer |-> m]
  <2>1. o = last /\ Len(path) = 0
    BY <1>3, <1>4 DEF Leads
  <2>2. /\ via \in [DOMAIN longer -> net.forwarders] /\ via[1] = m /\ via[Len(longer)] = m
        /\ \A i \in DOMAIN longer : net.hash[via[i]] = longer[i]
        /\ 1..(Len(longer) - 1) = {}
    BY <1>2, <2>1
  <2> HIDE DEF via
  <2> QED BY <1>2, <1>3, <2>1, <2>2 DEF Leads
<1>5. CASE path # <<>>
  <2>1. PICK old \in [DOMAIN path -> net.forwarders] :
           /\ old[1] \in Neighbours(o) /\ old[Len(path)] = last
           /\ \A i \in DOMAIN path : net.hash[old[i]] = path[i]
           /\ \A i \in 1..(Len(path) - 1) : old[i + 1] \in Neighbours(old[i])
    BY <1>3, <1>5 DEF Leads
  <2>2. Len(path) > 0
    BY <1>5 DEF Paths
  <2> DEFINE via == [i \in DOMAIN longer |-> IF i = Len(path) + 1 THEN m ELSE old[i]]
  <2>3. via \in [DOMAIN longer -> net.forwarders]
    BY <1>2, <2>1
  <2>4. via[1] \in Neighbours(o) /\ via[Len(longer)] = m
    BY <1>2, <2>1, <2>2
  <2>5. \A i \in DOMAIN longer : net.hash[via[i]] = longer[i]
    BY <1>2, <2>1
  <2>6. ASSUME NEW i \in 1..(Len(longer) - 1)
        PROVE  via[i + 1] \in Neighbours(via[i])
    BY <1>2, <1>3, <2>1, <2>2
  <2> HIDE DEF via
  <2> QED BY <1>2, <2>3, <2>4, <2>5, <2>6 DEF Leads
<1> QED BY <1>4, <1>5

\* Where hashes differ, the node that a path names first is the one it leads
\* through.
LEMMA OneLessHop ==
  ASSUME net \in Networks, HashesDiffer, NEW o \in Nodes, NEW path \in Paths, NEW a \in Nodes,
         path # <<>>, Connects(o, path, a),
         NEW m \in net.forwarders, m \in Neighbours(o), net.hash[m] = Head(path)
  PROVE  Connects(m, Tail(path), a)
<1>1. net.forwarders \subseteq Nodes
  BY ThisNetwork
<1>2. PICK last \in Nodes : Leads(o, path, last) /\ a \in Neighbours(last)
  BY DEF Connects
<1>3. PICK via \in [DOMAIN path -> net.forwarders] :
         /\ via[1] \in Neighbours(o) /\ via[Len(path)] = last
         /\ \A i \in DOMAIN path : net.hash[via[i]] = path[i]
         /\ \A i \in 1..(Len(path) - 1) : via[i + 1] \in Neighbours(via[i])
  BY <1>2 DEF Leads
<1> DEFINE rest == Tail(path)
<1>4. /\ rest \in Seq(PathBytes) /\ Len(rest) = Len(path) - 1 /\ Len(path) \in Nat \ {0}
      /\ DOMAIN rest = 1..Len(rest) /\ DOMAIN path = 1..Len(path)
      /\ \A i \in 1..Len(rest) : rest[i] = path[i + 1]
      /\ Head(path) = path[1] /\ (rest = <<>> <=> Len(path) = 1)
  <2> PICK s \in Seq(PathBytes) : s = path
    BY DEF Paths
  <2>1. s # <<>> /\ Len(s) \in Nat \ {0}
    OBVIOUS
  <2>2. Tail(s) \in Seq(PathBytes) /\ Len(Tail(s)) = Len(s) - 1 /\ Head(s) = s[1]
    BY <2>1
  <2>3. \A i \in 1..Len(Tail(s)) : Tail(s)[i] = s[i + 1]
    BY <2>1
  <2>4. Tail(s) = <<>> <=> Len(s) = 1
    BY <2>1, <2>2
  <2> QED BY <2>1, <2>2, <2>3, <2>4
<1>5. via[1] = m
  BY <1>3, <1>4 DEF HashesDiffer
<1> HIDE DEF rest
<1> SUFFICES Leads(m, rest, last)
  BY <1>2 DEF Connects, rest
<1>6. CASE rest = <<>>
  BY <1>3, <1>4, <1>5, <1>6 DEF Leads
<1>7. CASE rest # <<>>
  <2> DEFINE on == [i \in DOMAIN rest |-> via[i + 1]]
  <2>1. on \in [DOMAIN rest -> net.forwarders]
    BY <1>3, <1>4
  <2>2. on[1] \in Neighbours(m) /\ on[Len(rest)] = last
    BY <1>3, <1>4, <1>5, <1>7
  <2>3. \A i \in DOMAIN rest : net.hash[on[i]] = rest[i]
    BY <1>3, <1>4
  <2>4. ASSUME NEW i \in 1..(Len(rest) - 1)
        PROVE  on[i + 1] \in Neighbours(on[i])
    BY <1>3, <1>4
  <2> HIDE DEF on
  <2> QED BY <1>7, <2>1, <2>2, <2>3, <2>4 DEF Leads
<1> QED BY <1>6, <1>7

-----------------------------------------------------------------------------
(* What is said of packets *)

\* A text has two ends, both of them chat nodes of the network it is sent in.
LEMMA TextEnds ==
  /\ \A t \in Texts : t.from \in Nodes /\ t.to \in Nodes /\ t # NoAck
  /\ net \in Networks =>
       \A t \in Issued("TXT") : t \in Texts /\ t.from \in net.chats /\ t.to \in net.chats
<1>1. ASSUME NEW t \in Texts
      PROVE  t.from \in Nodes /\ t.to \in Nodes /\ t # NoAck
  <2>1. PICK w \in Networks : \E u \in w.traffic : u.type = "TXT" /\ t = u.body
    BY DEF Texts, Offered
  <2>2. PICK u \in w.traffic : u.type = "TXT" /\ t = u.body
    BY <2>1
  <2>3. Message(w, u) /\ w.chats \subseteq Nodes
    BY NetworksAssumption
  <2> QED BY <2>2, <2>3 DEF Message
<1>2. ASSUME net \in Networks, NEW t \in Issued("TXT")
      PROVE  t \in Texts /\ t.from \in net.chats /\ t.to \in net.chats
  <2>1. PICK u \in net.traffic : u.type = "TXT" /\ t = u.body
    BY DEF Issued
  <2>2. t \in Texts
    BY <1>2, <2>1 DEF Texts, Offered
  <2>3. Message(net, u)
    BY <1>2, ThisNetwork
  <2> QED BY <2>1, <2>2, <2>3 DEF Message
<1> QED BY <1>1, <1>2

\* Nothing is taken back: texts stay issued, what a chat node was handed stays handed.
Grows ==
  /\ net' = net /\ todo' \subseteq todo
  /\ made' \in [Nodes -> Nat] /\ \A n \in Nodes : made'[n] >= made[n]
  /\ \A n \in net.chats : handed[n] \subseteq handed'[n]

LEMMA ArrivedStays ==
  ASSUME TypeInv, Grows, NEW t, Arrived(t)
  PROVE  Arrived(t)'
<1>1. t \in Issued("TXT")'
  BY DEF Arrived, Issued, Grows
<1>2. t.to \in net.chats
  BY TextEnds DEF TypeInv, Arrived
<1> QED BY <1>1, <1>2 DEF Arrived, Grows

\* Where paths lead depends on the network alone.
LEMMA SamePlaces ==
  ASSUME net' = net
  PROVE  /\ \A n, path, m : Leads(n, path, m)' <=> Leads(n, path, m)
         /\ \A n, path, m : Connects(n, path, m)' <=> Connects(n, path, m)
         /\ HashesDiffer' <=> HashesDiffer
<1>1. ASSUME NEW n PROVE Neighbours(n)' = Neighbours(n)
  BY DEF Neighbours
<1>2. ASSUME NEW n, NEW path, NEW m PROVE Leads(n, path, m)' <=> Leads(n, path, m)
  BY <1>1, Zenon DEF Leads
<1>3. ASSUME NEW n, NEW path, NEW m PROVE Connects(n, path, m)' <=> Connects(n, path, m)
  BY <1>1, <1>2, Zenon DEF Connects
<1>4. HashesDiffer' <=> HashesDiffer
  BY <1>1, Zenon DEF HashesDiffer
<1> QED BY <1>2, <1>3, <1>4

LEMMA KnownStays ==
  ASSUME TypeInv, Grows, NEW p, Known(p)
  PROVE  Known(p)'
<1>1. Len(p.path) <= net'.path_max
  BY DEF Known, Grows
<1>2. p.type \in Sources => [type |-> p.type, body |-> p.body] \in net'.traffic \ todo'
  BY DEF Known, Grows
<1>3. p.type = "TRACE" => p.path \in Seq({"snr"}) /\ Len(p.path) <= Len(p.body.hops)
  BY DEF Known
<1>4. ASSUME p.type \in {"ACK", "MULTI"}
      PROVE  p.body \in Acks /\ Arrived(p.body.ack)' /\ p.body.no < made'[p.body.ack.to]
  <2>1. p.body \in Acks /\ Arrived(p.body.ack) /\ p.body.no < made[p.body.ack.to]
    BY <1>4 DEF Known
  <2>2. p.body.ack.to \in Nodes /\ p.body.no \in Nat
    BY <2>1, TextEnds DEF Acks
  <2>3. PICK to \in Nodes, no \in Nat : to = p.body.ack.to /\ no = p.body.no
    BY <2>2
  <2>4. made[to] \in Nat /\ made'[to] \in Nat /\ made'[to] >= made[to] /\ no < made[to]
    BY <2>1, <2>3 DEF TypeInv, Grows
  <2>5. no < made'[to]
    BY <2>4, <2>3
  <2> QED BY <2>1, <2>3, <2>5, ArrivedStays
<1>5. ASSUME p.type = "PATH"
      PROVE  /\ p.body \in Returns /\ p.body.from \in net'.chats /\ p.body.to \in net'.chats
             /\ p.body.no < made'[p.body.from]
             /\ Len(p.body.path) <= net'.path_max /\ Connects(p.body.to, p.body.path, p.body.from)'
             /\ p.body.ack # NoAck => Arrived(p.body.ack)'
  <2>1. /\ p.body \in Returns /\ p.body.from \in net.chats /\ p.body.to \in net.chats
        /\ p.body.no < made[p.body.from]
        /\ Len(p.body.path) <= net.path_max /\ Connects(p.body.to, p.body.path, p.body.from)
        /\ p.body.ack # NoAck => Arrived(p.body.ack)
    BY <1>5 DEF Known
  <2>2. PICK from \in Nodes, no \in Nat : from = p.body.from /\ no = p.body.no
    BY <2>1 DEF Returns
  <2>3. made[from] \in Nat /\ made'[from] \in Nat /\ made'[from] >= made[from] /\ no < made[from]
    BY <2>1, <2>2 DEF TypeInv, Grows
  <2>4. no < made'[from]
    BY <2>3, <2>2
  <2>5. net' = net
    BY DEF Grows
  <2> QED BY <2>1, <2>2, <2>4, <2>5, SamePlaces, ArrivedStays
<1> QED BY <1>1, <1>2, <1>3, <1>4, <1>5 DEF Known

LEMMA PlacesStay ==
  ASSUME net' = net, NEW n, NEW p
  PROVE  (Queued(n, p)' <=> Queued(n, p)) /\ (Heard(n, p)' <=> Heard(n, p))
<1>1. /\ Spread(p)' <=> Spread(p) 
      /\ Directed(p)' <=> Directed(p)
      /\ Origin(p)' = Origin(p) /\ Addressee(p)' = Addressee(p)
      /\ \A m : Neighbours(m)' = Neighbours(m)
  BY DEF Spread, Directed, Origin, Addressee, isRouteFlood, Neighbours
<1>2. Queued(n, p)' <=> Queued(n, p)
  BY <1>1, SamePlaces, Zenon DEF Queued
<1>3. Heard(n, p)' <=> Heard(n, p)
  BY <1>1, SamePlaces, Zenon DEF Heard
<1> QED BY <1>2, <1>3

\* Every packet has a hash, and so has every digest its place in the ring.
LEMMA HashTyped ==
  ASSUME NEW p \in PacketSet
  PROVE  calculatePacketHash(p) \in Digests /\ HashAsSent(p) \in Digests
<1>1. p.type \in Types /\ p.body \in Bodies /\ p.path \in Paths
  BY DEF PacketSet
<1>2. Len(p.path) \in Nat
  BY <1>1 DEF Paths
<1>3. calculatePacketHash(p) \in Digests
  BY <1>1, <1>2 DEF calculatePacketHash, Digests
<1> QED BY <1>1, <1>3 DEF HashAsSent, Digests

\* What a handler does to ring and queue keeps their types.
LEMMA DoesTyped ==
  ASSUME TypeInv, NEW n \in Nodes, net' = net, NEW marks \in Seq(Digests),
         NEW sends \in SUBSET PacketSet, NEW gives \in SUBSET Digests,
         Does(n, marks, sends, gives)
  PROVE  /\ HashesTyped' /\ queue' = [queue EXCEPT ![n] = @ \cup sends]
         /\ \A m \in Nodes : handed[m] \subseteq handed'[m]
         /\ gives \subseteq handed'[n]
<1> DEFINE ring == seen[n] \o marks
<1>1. seen[n] \in Seq(Digests) /\ ring \in Seq(Digests) /\ Len(ring) \in Nat
  BY DEF TypeInv, HashesTyped
<1>2. net.ring_size \in Nat \ {0}
  BY ThisNetwork DEF TypeInv
<1>3. Latest(ring) \in Seq(Digests) /\ Len(Latest(ring)) <= net.ring_size
  <2> HIDE DEF ring
  <2> PICK size \in Nat \ {0} : size = net.ring_size
    BY <1>2
  <2>1. CASE Len(ring) <= size
    BY <1>1, <2>1 DEF Latest
  <2>2. CASE Len(ring) > size
    <3> DEFINE from == Len(ring) - size + 1
    <3>1. from \in 1..Len(ring) /\ Len(ring) \in 1..Len(ring) /\ Len(ring) - from + 1 = size
      BY <1>1, <2>2
    <3>2. SubSeq(ring, from, Len(ring)) \in Seq(Digests)
      BY <1>1, <3>1, SMTT(30)
    <3>3. Len(SubSeq(ring, from, Len(ring))) = size
      BY <1>1, <3>1
    <3> QED BY <1>1, <2>2, <3>2, <3>3 DEF Latest
  <2> QED BY <1>1, <2>1, <2>2
<1>4. seen' = [seen EXCEPT ![n] = Latest(ring)]
  BY DEF Does
<1>5. seen' \in [Nodes -> Seq(Digests)] /\ \A m \in Nodes : Len(seen'[m]) <= net'.ring_size
  <2> HIDE DEF ring
  <2> QED BY <1>3, <1>4 DEF TypeInv, HashesTyped
<1>6. {calculatePacketHash(q) : q \in sends} \subseteq Digests
  BY HashTyped
<1>7. sent' \in [Nodes -> SUBSET Digests]
  BY <1>6 DEF Does, TypeInv, HashesTyped
<1>8. /\ handed' \in [Nodes -> SUBSET Digests]
      /\ \A m \in Nodes : handed[m] \subseteq handed'[m]
      /\ gives \subseteq handed'[n]
  BY DEF Does, TypeInv, HashesTyped
<1>9. before' \in [Nodes -> SUBSET Digests] /\ twice' \subseteq Nodes \X Digests
  BY DEF Does, TypeInv, HashesTyped
<1>10. queue' = [queue EXCEPT ![n] = @ \cup sends]
  BY DEF Does
<1> QED BY <1>5, <1>7, <1>8, <1>9, <1>10 DEF HashesTyped

LEMMA NothingDone ==
  ASSUME TypeInv, NEW n \in Nodes, net' = net, DoesNothing
  PROVE  /\ HashesTyped' /\ queue' = [queue EXCEPT ![n] = @ \cup {}]
         /\ \A m \in Nodes : handed[m] \subseteq handed'[m]
<1>1. queue' = [queue EXCEPT ![n] = @ \cup {}]
  BY DEF DoesNothing, TypeInv
<1> QED BY <1>1 DEF DoesNothing, TypeInv, HashesTyped, history

\* Marks by name: none, one, and one before others.
LEMMA Marks ==
  /\ \E marks \in Seq(Digests) : marks = <<>>
  /\ \A d \in Digests : \E marks \in Seq(Digests) : marks = <<d>>
  /\ \A d \in Digests : \A more \in Seq(Digests) :
       \E marks \in Seq(Digests) : marks = <<d>> \o more
<1>1. <<>> \in Seq(Digests)
  OBVIOUS
<1>2. ASSUME NEW d \in Digests
      PROVE  <<d>> \in Seq(Digests) /\ \A more \in Seq(Digests) : <<d>> \o more \in Seq(Digests)
  OBVIOUS
<1> QED BY <1>1, <1>2, Zenon

\* The marks of what is sent are a sequence of digests.
LEMMA MarksTyped ==
  ASSUME NEW sends \in SUBSET PacketSet, IsFiniteSet(sends)
  PROVE  /\ SetToSeq({HashAsSent(q) : q \in sends}) \in Seq(Digests)
         /\ ToSet(SetToSeq({HashAsSent(q) : q \in sends})) = {HashAsSent(q) : q \in sends}
<1> DEFINE S == {HashAsSent(q) : q \in sends}
<1>1. IsFiniteSet(S)
  <2> DEFINE f == [q \in sends |-> HashAsSent(q)]
  <2>1. f \in Surjection(sends, S)
    BY DEF Surjection
  <2> QED BY <2>1, FS_Surjection
<1>2. S \subseteq Digests
  BY HashTyped
<1>3. SetToSeq(S) \in Seq(S) /\ ToSet(SetToSeq(S)) = S
  BY <1>1, InSomeOrder
<1> QED BY <1>2, <1>3

-----------------------------------------------------------------------------
(* What a step has to show *)

LEMMA PacketsKeep ==
  ASSUME TypeInv, PacketsOK, Grows,
         \A m \in Nodes : \A q \in queue'[m] : q \in queue[m] \/ (Known(q)' /\ Queued(m, q)),
         \A m \in Nodes : \A q \in inbox'[m] : q \in inbox[m] \/ (Known(q)' /\ Heard(m, q))
  PROVE  PacketsOK'
<1>1. ASSUME NEW m \in Nodes, NEW q \in queue'[m]
      PROVE  Known(q)' /\ Queued(m, q)'
  BY <1>1, KnownStays, PlacesStay DEF PacketsOK, Grows
<1>2. ASSUME NEW m \in Nodes, NEW q \in inbox'[m]
      PROVE  Known(q)' /\ Heard(m, q)'
  BY <1>2, KnownStays, PlacesStay DEF PacketsOK, Grows
<1> QED BY <1>1, <1>2 DEF PacketsOK

LEMMA TextsKeep ==
  ASSUME TypeInv, TextsOK, Grows, todo' = todo,
         \A m \in Nodes : \A t \in awaiting[m] \ awaiting'[m] : Arrived(t)
  PROVE  TextsOK'
<1> SUFFICES ASSUME NEW t \in Issued("TXT")' PROVE t \in awaiting'[t.from] \/ Arrived(t)'
  BY DEF TextsOK
<1>1. t \in Issued("TXT")
  BY DEF Issued, Grows
<1>2. t.from \in Nodes
  BY <1>1, TextEnds DEF TypeInv
<1> QED BY <1>1, <1>2, ArrivedStays DEF TextsOK

LEMMA RoutesKeep ==
  ASSUME RoutesOK, net' = net, out_path' = out_path
  PROVE  RoutesOK'
BY SamePlaces DEF RoutesOK

\* A node looks at a packet it heard.
Looks(n, p) ==
  /\ p \in inbox[n] /\ inbox' = [inbox EXCEPT ![n] = @ \ {p}]
  /\ UNCHANGED <<net, todo, restarts>>

LEMMA LooksAt ==
  ASSUME IInv, NEW n \in Nodes, NEW p, Looks(n, p)
  PROVE  p \in PacketSet /\ Known(p) /\ Heard(n, p) /\ net' = net /\ net \in Networks
BY DEF IInv, TypeInv, PacketsOK, Looks

\* What a handler does to what the application knows may stay.
AppsKeep ==
  /\ made' \in [Nodes -> Nat] /\ \A m \in Nodes : made'[m] >= made[m]
  /\ awaiting' \in [Nodes -> SUBSET Texts]
  /\ \A m \in Nodes : \A t \in awaiting[m] \ awaiting'[m] : Arrived(t)
  /\ out_path' \in [Nodes -> [Nodes -> Paths \cup {Unknown}]] /\ RoutesOK'

LEMMA LookKeeps ==
  ASSUME IInv, NEW n \in Nodes, NEW p, Looks(n, p), AppsKeep,
         HashesTyped', \A m \in Nodes : handed[m] \subseteq handed'[m],
         NEW sends \in SUBSET PacketSet, queue' = [queue EXCEPT ![n] = @ \cup sends],
         \A q \in sends : Known(q)' /\ Queued(n, q)
  PROVE  IInv' /\ Grows
<1>1. Grows
  BY ThisNetwork DEF Grows, Looks, IInv, TypeInv, AppsKeep
<1>2. /\ queue' \in [Nodes -> SUBSET PacketSet] /\ inbox' \in [Nodes -> SUBSET PacketSet]
      /\ \A m \in Nodes : inbox'[m] \subseteq inbox[m]
      /\ \A m \in Nodes : queue'[m] = IF m = n THEN queue[m] \cup sends ELSE queue[m]
  BY DEF Looks, IInv, TypeInv
<1>3. TypeInv'
  BY <1>2 DEF Looks, IInv, TypeInv, AppsKeep
<1>4. PacketsOK'
  BY <1>1, <1>2, PacketsKeep DEF IInv
<1>5. TextsOK'
  BY <1>1, TextsKeep DEF IInv, Looks, AppsKeep
<1> QED BY <1>1, <1>3, <1>4, <1>5 DEF IInv, AppsKeep

\* A handler that does something, and one that does nothing.
LEMMA ActKeeps ==
  ASSUME IInv, NEW n \in Nodes, NEW p, Looks(n, p), AppsKeep,
         NEW marks \in Seq(Digests), NEW sends \in SUBSET PacketSet, NEW gives \in SUBSET Digests,
         Does(n, marks, sends, gives),
         \A q \in sends : Known(q)' /\ Queued(n, q)
  PROVE  IInv' /\ Grows
<1>1. TypeInv /\ net' = net
  BY DEF IInv, Looks
<1>2. /\ HashesTyped' /\ queue' = [queue EXCEPT ![n] = @ \cup sends]
      /\ \A m \in Nodes : handed[m] \subseteq handed'[m]
  BY <1>1, DoesTyped
<1> QED BY <1>2, LookKeeps

LEMMA IdleKeeps ==
  ASSUME IInv, NEW n \in Nodes, NEW p, Looks(n, p), AppsKeep, DoesNothing
  PROVE  IInv' /\ Grows
<1>1. TypeInv /\ net' = net
  BY DEF IInv, Looks
<1>2. PICK none \in SUBSET PacketSet : none = {}
  OBVIOUS
<1>3. /\ HashesTyped' /\ queue' = [queue EXCEPT ![n] = @ \cup none]
      /\ \A m \in Nodes : handed[m] \subseteq handed'[m]
  BY <1>1, <1>2, NothingDone
<1>4. \A q \in none : Known(q)' /\ Queued(n, q)
  BY <1>2
<1> QED BY <1>3, <1>4, LookKeeps

\* An ack is accepted only of a text that arrived.
LEMMA AckAccepted ==
  ASSUME TypeInv, NEW n \in Nodes, NEW a, a # NoAck => Arrived(a), acceptAck(n, a)
  PROVE  /\ awaiting' \in [Nodes -> SUBSET Texts]
         /\ \A m \in Nodes : \A t \in awaiting[m] \ awaiting'[m] : Arrived(t)
<1>1. /\ awaiting' \in [Nodes -> SUBSET Texts]
      /\ \A m \in Nodes : \A t \in awaiting[m] \ awaiting'[m] : t = a /\ t \in Texts
  BY DEF acceptAck, TypeInv
<1> QED BY <1>1, TextEnds

LEMMA NoAckAccepted ==
  ASSUME TypeInv, awaiting' = awaiting
  PROVE  /\ awaiting' \in [Nodes -> SUBSET Texts]
         /\ \A m \in Nodes : \A t \in awaiting[m] \ awaiting'[m] : Arrived(t)
BY DEF TypeInv

LEMMA CountKept ==
  ASSUME TypeInv, made' = made
  PROVE  made' \in [Nodes -> Nat] /\ \A m \in Nodes : made'[m] >= made[m]
BY DEF TypeInv

LEMMA CountGrows ==
  ASSUME TypeInv, NEW n \in Nodes, NEW k \in Nat, made' = [made EXCEPT ![n] = @ + k]
  PROVE  /\ made' \in [Nodes -> Nat] /\ \A m \in Nodes : made'[m] >= made[m]
         /\ made'[n] = made[n] + k
BY DEF TypeInv

LEMMA PathsKept ==
  ASSUME TypeInv, RoutesOK, net' = net, out_path' = out_path
  PROVE  out_path' \in [Nodes -> [Nodes -> Paths \cup {Unknown}]] /\ RoutesOK'
BY RoutesKeep DEF TypeInv

LEMMA AppsUntouched ==
  ASSUME TypeInv, RoutesOK, net' = net, UNCHANGED appVars
  PROVE  AppsKeep
BY PathsKept, NoAckAccepted, CountKept DEF AppsKeep, appVars

-----------------------------------------------------------------------------
(* Looking at a packet *)

LEMMA ForwardedFlood ==
  ASSUME TypeInv, NEW n \in Nodes, NEW p \in PacketSet, NEW q \in routeRecvPacket(n, p)
  PROVE  /\ q \in PacketSet /\ q.type = p.type /\ q.body = p.body /\ isRouteFlood(p)
         /\ isRouteFlood(q) /\ q.path = Append(p.path, net.hash[n]) /\ n \in net.forwarders
         /\ Len(q.path) <= net.path_max
<1>1. /\ isRouteFlood(p) /\ Len(p.path) + 1 <= net.path_max /\ n \in net.forwarders
      /\ q = [p EXCEPT !.path = Append(@, net.hash[n])]
  BY DEF routeRecvPacket, allowPacketForward
<1>2. net.hash[n] \in PathBytes
  BY ThisNetwork DEF TypeInv
<1>3. PICK path \in Seq(PathBytes) : path = p.path
  BY DEF PacketSet, Paths
<1>4. Append(path, net.hash[n]) \in Paths /\ Len(Append(path, net.hash[n])) = Len(path) + 1
  BY <1>2 DEF Paths
<1>5. q = [type |-> p.type, route |-> p.route, path |-> Append(p.path, net.hash[n]), body |-> p.body]
  BY <1>1 DEF PacketSet
<1> QED BY <1>1, <1>3, <1>4, <1>5 DEF PacketSet, isRouteFlood

\* A flood that came this far, and so did what a forwarder makes of it.
LEMMA ForwardedOK ==
  ASSUME TypeInv, NEW n \in Nodes, NEW p \in PacketSet, Heard(n, p), Known(p)',
         net' = net, NEW q \in routeRecvPacket(n, p),
         p.type \in {"TXT", "GRP", "ADVERT", "PATH", "ACK"}
  PROVE  q \in PacketSet /\ Known(q)' /\ Queued(n, q)
<1>1. /\ q \in PacketSet /\ q.type = p.type /\ q.body = p.body /\ isRouteFlood(p)
      /\ isRouteFlood(q) /\ q.path = Append(p.path, net.hash[n]) /\ n \in net.forwarders
      /\ Len(q.path) <= net.path_max
  BY ForwardedFlood
<1>2. Known(q)'
  BY <1>1 DEF Known
<1>3. ~Directed(q)
  BY <1>1 DEF Directed, isRouteFlood
<1>4. ASSUME Spread(q) PROVE Leads(Origin(q), q.path, n)
  <2>1. Spread(p) /\ Origin(q) = Origin(p)
    BY <1>1, <1>4 DEF Spread, Origin
  <2>2. Connects(Origin(p), p.path, n)
    BY <2>1 DEF Heard
  <2>3. Origin(p) \in Nodes
    <3>1. CASE p.type = "TXT"
      <4>1. p.body \in Issued("TXT")'
        BY <3>1 DEF Known, Sources, Issued
      <4>2. p.body.from \in Nodes
        <5>1. PICK u \in net.traffic : u.type = "TXT" /\ u.body = p.body
          BY <4>1 DEF Issued
        <5>2. Message(net, u)
          BY ThisNetwork DEF TypeInv
        <5> QED BY <5>1, <5>2 DEF Message
      <4> QED BY <3>1, <4>2 DEF Origin
    <3>2. CASE p.type = "PATH"
      BY <3>2 DEF Known, Origin, Returns
    <3>3. CASE p.type = "ACK"
      BY <3>3, TextEnds DEF Known, Origin, Acks
    <3> QED BY <2>1, <3>1, <3>2, <3>3 DEF Spread
  <2>4. p.path \in Paths
    BY DEF PacketSet
  <2> QED BY <1>1, <2>1, <2>2, <2>3, <2>4, OneMoreHop DEF TypeInv
<1> QED BY <1>1, <1>2, <1>3, <1>4 DEF Queued

LEMMA OneOrNone ==
  ASSUME TypeInv, NEW n \in Nodes, NEW p \in PacketSet
  PROVE  IsFiniteSet(routeRecvPacket(n, p)) /\ routeRecvPacket(n, p) \in SUBSET PacketSet
<1>1. routeRecvPacket(n, p) \subseteq PacketSet
  BY ForwardedFlood
<1> QED BY <1>1, FS_Singleton, FS_EmptySet DEF routeRecvPacket

\* Traces
LEMMA TraceKeeps ==
  ASSUME IInv, NEW n \in Nodes, NEW p, Looks(n, p), RecvTrace(n, p)
  PROVE  IInv' /\ Grows
<1>1. /\ TypeInv /\ RoutesOK /\ net' = net /\ p \in PacketSet /\ Known(p) /\ p.type = "TRACE"
      /\ out_path' = out_path /\ awaiting' = awaiting /\ made' = made
  BY LooksAt DEF IInv, RecvTrace, appVars
<1>2. AppsKeep
  BY <1>1, AppsUntouched DEF RecvTrace
<1>3. calculatePacketHash(p) \in Digests
  BY <1>1, HashTyped
<1>4. CASE Does(n, <<>>, {}, {calculatePacketHash(p)})
  <2> PICK marks \in Seq(Digests) : marks = <<>>
    BY Marks
  <2> PICK none \in SUBSET PacketSet : none = {}
    OBVIOUS
  <2> PICK gives \in SUBSET Digests : gives = {calculatePacketHash(p)}
    BY <1>3
  <2> QED BY <1>2, <1>4, ActKeeps
<1>5. CASE /\ TraceComes(p) /\ ~TraceEnds(p)
           /\ Does(n, <<calculatePacketHash(p)>>, {[p EXCEPT !.path = Append(@, "snr")]}, {})
  <2> DEFINE q == [p EXCEPT !.path = Append(@, "snr")]
  <2>1. PICK path \in Seq({"snr"}) : path = p.path
    BY <1>1 DEF Known
  <2>2. Append(path, "snr") \in Seq({"snr"}) /\ Len(Append(path, "snr")) = Len(path) + 1
    OBVIOUS
  <2>3. Append(path, "snr") \in Paths
    BY <2>2 DEF Paths, PathBytes
  <2>4. q = [type |-> p.type, route |-> p.route, path |-> Append(path, "snr"), body |-> p.body]
    BY <1>1, <2>1 DEF PacketSet
  <2>5. q \in PacketSet /\ q.type = "TRACE" /\ q.body = p.body /\ q.path = Append(path, "snr")
    BY <1>1, <2>3, <2>4 DEF PacketSet
  <2>6. Len(q.path) <= net.path_max /\ Len(q.path) <= Len(p.body.hops)
    <3>1. PICK max \in Nat : max = net.path_max
      BY <1>1, ThisNetwork DEF TypeInv
    <3>2. Len(p.body.hops) \in Nat
      <4>1. PICK u \in net.traffic : u.type = "TRACE" /\ u.body = p.body
        BY <1>1 DEF Known, Sources
      <4>2. Message(net, u)
        BY <1>1, ThisNetwork DEF TypeInv
      <4> QED BY <4>1, <4>2 DEF Message
    <3>3. Len(path) < max /\ Len(path) < Len(p.body.hops)
      BY <1>5, <2>1, <3>1, <3>2 DEF TraceComes, TraceEnds
    <3> QED BY <2>2, <2>5, <3>1, <3>2, <3>3
  <2>7. Known(q)'
    BY <1>1, <2>2, <2>5, <2>6 DEF Known, Looks
  <2>8. Queued(n, q)
    BY <2>5 DEF Queued, Spread, Directed
  <2> HIDE DEF q
  <2> PICK marks \in Seq(Digests) : marks = <<calculatePacketHash(p)>>
    BY <1>3, Marks, Zenon
  <2> PICK sends \in SUBSET PacketSet : sends = {q}
    BY <2>5
  <2> PICK none \in SUBSET Digests : none = {}
    OBVIOUS
  <2>10. Does(n, marks, sends, none) /\ \A r \in sends : Known(r)' /\ Queued(n, r)
    BY <1>5, <2>7, <2>8 DEF q
  <2> QED BY <1>2, <2>10, ActKeeps
<1>6. CASE DoesNothing
  BY <1>2, <1>6, IdleKeeps
<1> QED BY <1>4, <1>5, <1>6 DEF RecvTrace

\* Marks the packet, queues what is in order, and may hand it over.
LEMMA MarkKeeps ==
  ASSUME IInv, NEW n \in Nodes, NEW p, Looks(n, p), AppsKeep,
         NEW sends \in SUBSET PacketSet, NEW gives \in SUBSET {calculatePacketHash(p)},
         Does(n, <<calculatePacketHash(p)>>, sends, gives),
         \A q \in sends : Known(q)' /\ Queued(n, q)
  PROVE  IInv' /\ Grows
<1>1. calculatePacketHash(p) \in Digests
  BY LooksAt, HashTyped
<1> PICK marks \in Seq(Digests) : marks = <<calculatePacketHash(p)>>
  BY <1>1, Marks, Zenon
<1>2. gives \in SUBSET Digests
  BY <1>1
<1> QED BY <1>2, ActKeeps

\* The same, with replies, which are marked as well.
LEMMA ReplyKeeps ==
  ASSUME IInv, NEW n \in Nodes, NEW p, Looks(n, p), AppsKeep,
         NEW sends \in SUBSET PacketSet, NEW gives \in SUBSET {calculatePacketHash(p)},
         NEW reply \in SUBSET sends, IsFiniteSet(reply),
         Does(n, <<calculatePacketHash(p)>> \o SetToSeq({HashAsSent(r) : r \in reply}),
              sends, gives),
         \A q \in sends : Known(q)' /\ Queued(n, q)
  PROVE  IInv' /\ Grows
<1>1. calculatePacketHash(p) \in Digests
  BY LooksAt, HashTyped
<1> DEFINE more == SetToSeq({HashAsSent(r) : r \in reply})
<1>2. more \in Seq(Digests)
  BY MarksTyped
<1> HIDE DEF more
<1> PICK marks \in Seq(Digests) : marks = <<calculatePacketHash(p)>> \o more
  BY <1>1, <1>2, Marks, Zenon
<1>3. gives \in SUBSET Digests
  BY <1>1
<1>4. Does(n, marks, sends, gives)
  BY DEF more
<1> QED BY <1>3, <1>4, ActKeeps

\* A handler that only marks the packet, or only marks it and hands it over.
LEMMA OnlyMarkKeeps ==
  ASSUME IInv, NEW n \in Nodes, NEW p, Looks(n, p), AppsKeep,
         NEW gives \in SUBSET {calculatePacketHash(p)},
         Does(n, <<calculatePacketHash(p)>>, {}, gives)
  PROVE  IInv' /\ Grows
<1> PICK none \in SUBSET PacketSet : none = {}
  OBVIOUS
<1>1. \A q \in none : Known(q)' /\ Queued(n, q)
  OBVIOUS
<1>2. Does(n, <<calculatePacketHash(p)>>, none, gives)
  OBVIOUS
<1> QED BY <1>1, <1>2, MarkKeeps

\* Somebody else's datagram, channel messages and adverts
LEMMA PassedOnKeeps ==
  ASSUME IInv, NEW n \in Nodes, NEW p, Looks(n, p), UNCHANGED appVars,
         NEW gives \in SUBSET {calculatePacketHash(p)},
         Does(n, <<calculatePacketHash(p)>>, routeRecvPacket(n, p), gives),
         p.type \in {"TXT", "GRP", "ADVERT", "PATH", "ACK"}
  PROVE  IInv' /\ Grows
<1>1. TypeInv /\ RoutesOK /\ net' = net /\ p \in PacketSet /\ Known(p) /\ Heard(n, p)
  BY LooksAt DEF IInv
<1>2. AppsKeep
  BY <1>1, AppsUntouched
<1>3. Grows
  BY <1>1, <1>2, ThisNetwork DEF Grows, Looks, AppsKeep, TypeInv, HashesTyped, Does
<1>4. Known(p)'
  BY <1>1, <1>3, KnownStays
<1>5. \A q \in routeRecvPacket(n, p) : Known(q)' /\ Queued(n, q)
  BY <1>1, <1>4, ForwardedOK
<1>6. routeRecvPacket(n, p) \in SUBSET PacketSet
  BY <1>1, OneOrNone
<1> QED BY <1>2, <1>5, <1>6, MarkKeeps

LEMMA ForOtherKeeps ==
  ASSUME IInv, NEW n \in Nodes, NEW p, Looks(n, p), RecvForOther(n, p)
  PROVE  IInv' /\ Grows
<1> PICK gives \in SUBSET {calculatePacketHash(p)} : gives = {}
  OBVIOUS
<1> QED BY PassedOnKeeps DEF RecvForOther

LEMMA GroupKeeps ==
  ASSUME IInv, NEW n \in Nodes, NEW p, Looks(n, p), RecvGroup(n, p)
  PROVE  IInv' /\ Grows
<1> PICK gives \in SUBSET {calculatePacketHash(p)} : gives = {calculatePacketHash(p)}
  OBVIOUS
<1> QED BY PassedOnKeeps DEF RecvGroup

LEMMA AdvertKeeps ==
  ASSUME IInv, NEW n \in Nodes, NEW p, Looks(n, p), RecvAdvert(n, p)
  PROVE  IInv' /\ Grows
<1>1. CASE p.body.signed
  <2> PICK gives \in SUBSET {calculatePacketHash(p)} : gives = {calculatePacketHash(p)}
    OBVIOUS
  <2> QED BY <1>1, PassedOnKeeps DEF RecvAdvert
<1>2. CASE ~p.body.signed
  <2> PICK gives \in SUBSET {calculatePacketHash(p)} : gives = {}
    OBVIOUS
  <2>1. AppsKeep
    BY AppsUntouched, LooksAt DEF IInv, RecvAdvert
  <2> QED BY <1>2, <2>1, OnlyMarkKeeps DEF RecvAdvert
<1> QED BY <1>1, <1>2

LEMMA OwnAdvertKeeps ==
  ASSUME IInv, NEW n \in Nodes, NEW p, Looks(n, p), RecvOwnAdvert(n, p) \/ RecvAgain(n, p)
  PROVE  IInv' /\ Grows
<1>1. AppsKeep
  BY AppsUntouched, LooksAt DEF IInv, RecvOwnAdvert, RecvAgain
<1> QED BY <1>1, IdleKeeps DEF RecvOwnAdvert, RecvAgain

\* Acks and paths
LEMMA MultiAckKeeps ==
  ASSUME IInv, NEW n \in Nodes, NEW p, Looks(n, p), RecvMultiAck(n, p)
  PROVE  IInv' /\ Grows
<1>1. TypeInv /\ RoutesOK /\ net' = net /\ Known(p)
  BY LooksAt DEF IInv
<1>2. Arrived(p.body.ack) /\ acceptAck(n, p.body.ack) /\ made' = made /\ out_path' = out_path
  BY <1>1 DEF RecvMultiAck, Known
<1>3. AppsKeep
  BY <1>1, <1>2, PathsKept, AckAccepted, CountKept DEF AppsKeep
<1> PICK gives \in SUBSET {calculatePacketHash(p)} : gives = {}
  OBVIOUS
<1> QED BY <1>3, OnlyMarkKeeps DEF RecvMultiAck

\* The ack of a text this node awaited stops here, and the path is not repaired:
\* markDoNotRetransmit() has made the packet look direct.
LEMMA AckKeeps ==
  ASSUME IInv, NEW n \in Nodes, NEW p, Looks(n, p), RecvAck(n, p)
  PROVE  IInv' /\ Grows
<1>1. TypeInv /\ RoutesOK /\ net' = net /\ p \in PacketSet /\ Known(p) /\ Heard(n, p)
  BY LooksAt DEF IInv
<1> DEFINE q == AfterAck(n, p)
           onwards == routeRecvPacket(n, q)
<1>2. q = IF Accepts(n, p) THEN markDoNotRetransmit(p) ELSE p
  BY DEF AfterAck
<1>3. Accepts(n, p) => ~isRouteFlood(q)
  BY <1>1, <1>2 DEF markDoNotRetransmit, isRouteFlood, PacketSet
<1> PICK reply \in SUBSET PacketSet : reply = {}
  OBVIOUS
<1>4. /\ Does(n, <<calculatePacketHash(p)>> \o SetToSeq({HashAsSent(r) : r \in reply}),
              onwards, {})
      /\ made' = [made EXCEPT ![n] = @ + Cardinality(reply)]
  BY <1>3 DEF RecvAck
<1>5. Cardinality(reply) = 0 /\ IsFiniteSet(reply)
  BY FS_EmptySet
<1>6. made' = made
  BY <1>1, <1>4, <1>5 DEF TypeInv
<1>7. /\ Arrived(p.body.ack) /\ acceptAck(n, p.body.ack) /\ out_path' = out_path
      /\ p.type = "ACK"
  BY <1>1 DEF RecvAck, Known
<1>8. AppsKeep
  BY <1>1, <1>6, <1>7, PathsKept, AckAccepted, CountKept DEF AppsKeep
<1>9. Grows
  BY <1>1, <1>8, ThisNetwork DEF Grows, Looks, AppsKeep, TypeInv, HashesTyped, RecvAck, Does
<1>10. Known(p)'
  BY <1>1, <1>9, KnownStays
<1>11. onwards \in SUBSET PacketSet /\ \A r \in onwards : Known(r)' /\ Queued(n, r)
  <2>1. CASE Accepts(n, p)
    BY <1>3, <2>1 DEF routeRecvPacket
  <2>2. CASE ~Accepts(n, p)
    BY <1>1, <1>2, <1>7, <1>10, <2>2, OneOrNone, ForwardedOK
  <2> QED BY <2>1, <2>2
<1> PICK gives \in SUBSET {calculatePacketHash(p)} : gives = {}
  OBVIOUS
<1> HIDE DEF onwards, q
<1>12. reply \in SUBSET onwards
  OBVIOUS
<1> QED BY <1>4, <1>5, <1>8, <1>11, <1>12, ReplyKeeps

LEMMA DirectTyped ==
  ASSUME NEW type \in Types, NEW path \in Paths, NEW body \in Bodies
  PROVE  /\ Direct(type, path, body) \in PacketSet /\ Flood(type, body) \in PacketSet
         /\ Direct(type, path, body).type = type /\ Direct(type, path, body).route = "direct"
         /\ Direct(type, path, body).path = path /\ Direct(type, path, body).body = body
         /\ Flood(type, body).type = type /\ Flood(type, body).route = "flood"
         /\ Flood(type, body).path = <<>> /\ Flood(type, body).body = body
<1>1. <<>> \in Paths
  BY DEF Paths
<1> QED BY <1>1 DEF Direct, Flood, Packet, PacketSet

\* Acks along a path that leads to the one who awaits them.
LEMMA DirectAcksOK ==
  ASSUME net \in Networks, net' = net, NEW n \in Nodes, NEW path \in Paths, NEW body \in Acks,
         Len(path) <= net.path_max, Arrived(body.ack)', body.no < made'[body.ack.to],
         HashesDiffer => Connects(n, path, body.ack.from)
  PROVE  /\ DirectAcks(n, path, body) \in SUBSET PacketSet /\ IsFiniteSet(DirectAcks(n, path, body))
         /\ \A q \in DirectAcks(n, path, body) : Known(q)' /\ Queued(n, q)
<1>1. body \in Bodies
  BY DEF Bodies
<1>2. ASSUME NEW q, q = Direct("ACK", path, body) \/ q = Direct("MULTI", path, body)
      PROVE  q \in PacketSet /\ Known(q)' /\ Queued(n, q)
  <2>1. /\ q \in PacketSet /\ q.type \in {"ACK", "MULTI"} /\ q.route = "direct"
        /\ q.path = path /\ q.body = body
    <3>1. "ACK" \in Types /\ "MULTI" \in Types
      BY DEF Types
    <3>2. CASE q = Direct("ACK", path, body)
      BY <1>1, <3>1, <3>2, DirectTyped
    <3>3. CASE q = Direct("MULTI", path, body)
      BY <1>1, <3>1, <3>3, DirectTyped
    <3> QED BY <1>2, <3>2, <3>3
  <2>2. Known(q)'
    BY <2>1 DEF Known, Sources
  <2>3. ~Spread(q) /\ Addressee(q) = body.ack.from
    BY <2>1 DEF Spread, isRouteFlood, Addressee
  <2> QED BY <2>1, <2>2, <2>3 DEF Queued
<1>3. IsFiniteSet(DirectAcks(n, path, body))
  <2>1. IsFiniteSet({Direct("ACK", path, body)}) /\ IsFiniteSet({})
    BY FS_Singleton, FS_EmptySet
  <2>2. IsFiniteSet({Direct("ACK", path, body)} \cup {Direct("MULTI", path, body)})
    BY <2>1, FS_AddElement
  <2>3. \/ DirectAcks(n, path, body) = {Direct("ACK", path, body)}
        \/ DirectAcks(n, path, body) = {Direct("ACK", path, body)} \cup {Direct("MULTI", path, body)}
    BY DEF DirectAcks
  <2> QED BY <2>1, <2>2, <2>3
<1>4. \A q \in DirectAcks(n, path, body) : q = Direct("ACK", path, body) \/ q = Direct("MULTI", path, body)
  BY DEF DirectAcks
<1> QED BY <1>2, <1>3, <1>4

\* A direct packet on its way
LEMMA OnTheWayKeeps ==
  ASSUME IInv, NEW n \in Nodes, NEW p, Looks(n, p), RecvOnTheWay(n, p)
  PROVE  IInv' /\ Grows
<1>1. TypeInv /\ RoutesOK /\ net' = net /\ net \in Networks /\ p \in PacketSet /\ Known(p) /\ Heard(n, p)
  BY LooksAt DEF IInv
<1> DEFINE q == IF p.type = "ACK" THEN AfterAck(n, p) ELSE p
           next == removeSelfFromPath(q)
           sends == IF q.type \in {"ACK", "MULTI"} THEN DirectAcks(n, next.path, q.body) ELSE {next}
<1>2. /\ OnTheWay(p)
      /\ IF p.type = "ACK" THEN acceptAck(n, p.body.ack) ELSE awaiting' = awaiting
      /\ IF NextHopIs(n, p) /\ ~wasSeen(n, q)
           THEN Does(n, <<calculatePacketHash(q)>>, sends, {}) ELSE DoesNothing
      /\ out_path' = out_path /\ made' = made
  BY Zenon DEF RecvOnTheWay
<1>3. AppsKeep
  <2>1. CASE p.type = "ACK"
    <3>1. Arrived(p.body.ack) /\ acceptAck(n, p.body.ack)
      BY <1>1, <1>2, <2>1 DEF Known
    <3> QED BY <1>1, <1>2, <3>1, PathsKept, AckAccepted, CountKept DEF AppsKeep
  <2>2. CASE p.type # "ACK"
    BY <1>1, <1>2, <2>2, PathsKept, NoAckAccepted, CountKept DEF AppsKeep
  <2> QED BY <2>1, <2>2
<1>4. CASE DoesNothing
  BY <1>3, <1>4, IdleKeeps
<1>5. CASE NextHopIs(n, p) /\ Does(n, <<calculatePacketHash(q)>>, sends, {})
  <2>1. /\ q \in PacketSet /\ q.path = p.path /\ q.body = p.body
        /\ \/ q = p
           \/ q.type = "0xFF" /\ q.route = "direct"
    <3>1. CASE q = p
      BY <1>1, <3>1
    <3>2. CASE q = markDoNotRetransmit(p)
      <4>1. q = [type |-> "0xFF", route |-> "direct", path |-> p.path, body |-> p.body]
        BY <1>1, <3>2 DEF markDoNotRetransmit, PacketSet
      <4> QED BY <1>1, <4>1 DEF PacketSet, Types
    <3> QED BY <3>1, <3>2 DEF AfterAck
  <2> HIDE DEF q
  <2>2. PICK path \in Paths : path = p.path /\ path # <<>>
    BY <1>1, <1>2 DEF OnTheWay, PacketSet
  <2>3. Tail(path) \in Paths /\ Len(Tail(path)) <= net.path_max
    <3>1. PICK max \in Nat : max = net.path_max
      BY <1>1, ThisNetwork
    <3>2. Len(path) <= max
      BY <1>1, <2>2, <3>1 DEF Known
    <3> QED BY <2>2, <3>1, <3>2 DEF Paths
  <2>4. PICK nx \in PacketSet :
           /\ nx = next /\ nx.type = q.type /\ nx.route = q.route
           /\ nx.path = Tail(path) /\ nx.body = p.body
    <3>1. next = [type |-> q.type, route |-> q.route, path |-> Tail(path), body |-> p.body]
      BY <2>1, <2>2 DEF removeSelfFromPath, PacketSet
    <3> DEFINE r == [type |-> q.type, route |-> q.route, path |-> Tail(path), body |-> p.body]
    <3>2. /\ r \in PacketSet /\ r.type = q.type /\ r.route = q.route
          /\ r.path = Tail(path) /\ r.body = p.body
      BY <2>1, <2>3 DEF PacketSet
    <3>3. r = next
      BY <3>1
    <3> HIDE DEF r, next
    <3> QED BY <3>2, <3>3
  <2> HIDE DEF next
  <2>5. /\ p.route = "direct" /\ p.type # "TRACE"
    BY <1>1, <1>2 DEF OnTheWay, isRouteFlood, PacketSet
  <2>6. Grows
    BY <1>1, <1>3, <1>5, ThisNetwork DEF Grows, Looks, AppsKeep, TypeInv, HashesTyped, Does
  <2>7. Known(p)'
    BY <1>1, <2>6, KnownStays
  <2>8. ASSUME Directed(p), HashesDiffer
        PROVE  Connects(n, Tail(path), Addressee(p))
    <3>1. PICK m \in Nodes : n \in Neighbours(m) /\ Connects(m, path, Addressee(p))
      BY <1>1, <2>2, <2>8 DEF Heard
    <3>2. n \in net.forwarders /\ net.hash[n] = Head(path)
      BY <1>5, <2>2 DEF NextHopIs, allowPacketForward
    <3>3. Addressee(p) \in Nodes
      <4>1. CASE p.type \in {"ACK", "MULTI"}
        <5>1. p.body \in Acks
          BY <1>1, <4>1 DEF Known
        <5> QED BY <4>1, <5>1, TextEnds DEF Addressee, Acks
      <4>2. CASE p.type = "PATH"
        BY <1>1, <4>2 DEF Known, Addressee, Returns
      <4>3. CASE p.type = "TXT"
        <5>1. PICK u \in net.traffic : u.type = "TXT" /\ u.body = p.body
          BY <1>1, <4>3 DEF Known, Sources
        <5>2. Message(net, u)
          BY <1>1, ThisNetwork
        <5> QED BY <1>1, <4>3, <5>1, <5>2, ThisNetwork DEF Message, Addressee
      <4> QED BY <2>8, <4>1, <4>2, <4>3 DEF Directed
    <3> QED BY <1>1, <2>2, <2>8, <3>1, <3>2, <3>3, OneLessHop
  <2>9. CASE q.type \in {"ACK", "MULTI"}
    <3>1. q = p /\ p.type \in {"ACK", "MULTI"} /\ Directed(p) /\ Addressee(p) = p.body.ack.from
      BY <2>1, <2>5, <2>9 DEF Directed, Addressee
    <3>2. p.body \in Acks /\ Arrived(p.body.ack)' /\ p.body.no < made'[p.body.ack.to]
      BY <2>7, <3>1 DEF Known
    <3>3. /\ DirectAcks(n, Tail(path), p.body) \in SUBSET PacketSet
          /\ \A r \in DirectAcks(n, Tail(path), p.body) : Known(r)' /\ Queued(n, r)
      BY <1>1, <2>3, <2>8, <3>1, <3>2, DirectAcksOK
    <3>4. sends = DirectAcks(n, Tail(path), p.body)
      BY <2>1, <2>4, <2>9
    <3> HIDE DEF sends
    <3> PICK gives \in SUBSET {calculatePacketHash(p)} : gives = {}
      OBVIOUS
    <3> QED BY <1>3, <1>5, <3>1, <3>3, <3>4, MarkKeeps
  <2>10. CASE q.type \notin {"ACK", "MULTI"}
    <3>1. sends = {nx}
      BY <2>4, <2>10
    <3>2. Known(nx)'
      <4>1. CASE q = p
        BY <1>1, <2>3, <2>4, <2>5, <2>7, <2>10, <4>1 DEF Known
      <4>2. CASE q.type = "0xFF"
        BY <1>1, <2>3, <2>4, <4>2 DEF Known, Sources
      <4> QED BY <2>1, <4>1, <4>2
    <3>3. Queued(n, nx)
      <4>1. ~Spread(nx)
        BY <2>1, <2>4, <2>5 DEF Spread, isRouteFlood
      <4>2. Directed(nx) => Directed(p) /\ Addressee(nx) = Addressee(p)
        BY <2>1, <2>4, <2>5 DEF Directed, Addressee
      <4> QED BY <2>4, <2>8, <4>1, <4>2 DEF Queued
    <3>4. nx \in PacketSet
      BY <2>4
    <3> HIDE DEF sends
    <3> PICK out \in SUBSET PacketSet : out = {nx}
      BY <3>4
    <3> PICK none \in SUBSET Digests : none = {}
      OBVIOUS
    <3> PICK marks \in Seq(Digests) : marks = <<calculatePacketHash(q)>>
      BY <2>1, HashTyped, Marks, Zenon
    <3>5. Does(n, marks, out, none)
      BY <1>5, <3>1
    <3>6. \A r \in out : Known(r)' /\ Queued(n, r)
      BY <3>2, <3>3
    <3> QED BY <1>3, <3>5, <3>6, ActKeeps
  <2> QED BY <2>9, <2>10
<1> QED BY <1>2, <1>4, <1>5

\* A returned path that leads where it says.
LEMMA PathReturnOK ==
  ASSUME net \in Networks, net' = net, NEW n \in net.chats, NEW to \in net.chats,
         NEW path \in Paths, NEW ack \in Texts \cup {NoAck}, NEW no \in Nat,
         Len(path) <= net.path_max, Connects(to, path, n),
         ack # NoAck => Arrived(ack)', no < made'[n],
         NEW q \in PacketSet, q.type = "PATH", q.body = PathReturn(n, to, path, ack, no),
         Len(q.path) <= net.path_max
  PROVE  Known(q)'
<1>1. n \in Nodes /\ to \in Nodes
  BY ThisNetwork
<1>2. /\ q.body \in Returns /\ q.body.from = n /\ q.body.to = to /\ q.body.path = path
      /\ q.body.ack = ack /\ q.body.no = no
  BY <1>1 DEF PathReturn, Returns
<1>3. Connects(to, path, n)'
  BY SamePlaces
<1> QED BY <1>2, <1>3 DEF Known, Sources

\* What is sent by flood starts at its origin, and has no path yet.
LEMMA FloodStarts ==
  ASSUME NEW n, NEW q, q.route = "flood", q.path = <<>>, Spread(q) => Origin(q) = n
  PROVE  Queued(n, q)
BY DEF Queued, Leads, Directed

\* A text for this node
LEMMA TextKeeps ==
  ASSUME IInv, NEW n \in Nodes, NEW p, Looks(n, p), RecvText(n, p)
  PROVE  IInv' /\ Grows
<1>1. TypeInv /\ RoutesOK /\ net' = net /\ net \in Networks /\ p \in PacketSet /\ Known(p) /\ Heard(n, p)
  BY LooksAt DEF IInv
<1> PICK reply :
      /\ reply = (IF isRouteFlood(p)
                    THEN {Flood("PATH", PathReturn(n, p.body.from, p.path, p.body, made[n]))}
                    ELSE AckTo(n, p.body))
      /\ Does(n, <<calculatePacketHash(p)>> \o SetToSeq({HashAsSent(r) : r \in reply}),
              reply, {calculatePacketHash(p)})
  BY DEF RecvText
<1>2. /\ p.type = "TXT" /\ p.body.to = n /\ made' = [made EXCEPT ![n] = @ + 1]
      /\ out_path' = out_path /\ awaiting' = awaiting
  BY DEF RecvText
<1>3. AppsKeep /\ made'[n] = made[n] + 1 /\ made[n] \in Nat
  BY <1>1, <1>2, PathsKept, NoAckAccepted, CountGrows DEF AppsKeep, TypeInv
<1>4. Grows
  BY <1>1, <1>3, ThisNetwork DEF Grows, Looks, AppsKeep, TypeInv, HashesTyped, Does
<1>5. p.body \in Issued("TXT")
  BY <1>1, <1>2 DEF Known, Sources, Issued
<1>6. PICK from \in net.chats : from = p.body.from /\ from \in Nodes
  BY <1>1, <1>5, TextEnds, ThisNetwork
<1>7. n \in net.chats /\ p.body \in Texts
  BY <1>1, <1>2, <1>5, TextEnds
<1>8. Arrived(p.body)'
  <2>1. <<"TXT", p.body>> \in handed'[n]
    BY <1>1, <1>2 DEF Does, TypeInv, HashesTyped, calculatePacketHash
  <2>2. p.body \in Issued("TXT")'
    BY <1>5 DEF Issued, Looks
  <2> QED BY <1>2, <2>1, <2>2 DEF Arrived
<1>9. PICK no \in Nat : no = made[n] /\ no < made'[n]
  BY <1>3
<1>10. PICK path \in Paths : path = p.path /\ Len(path) <= net.path_max
  BY <1>1 DEF PacketSet, Known
<1>11. /\ reply \in SUBSET PacketSet /\ IsFiniteSet(reply)
       /\ \A q \in reply : Known(q)' /\ Queued(n, q)
  <2>1. CASE isRouteFlood(p)
    <3>1. PICK body : body = PathReturn(n, from, path, p.body, no)
      OBVIOUS
    <3>2. body \in Returns /\ body \in Bodies /\ body.from = n
      BY <1>6, <1>7, <3>1 DEF PathReturn, Returns, Bodies
    <3>3. PICK q \in PacketSet : /\ q = Flood("PATH", body) /\ q.type = "PATH" /\ q.route = "flood"
                                 /\ q.path = <<>> /\ q.body = body
      <4>1. "PATH" \in Types /\ <<>> \in Paths
        BY DEF Types, Paths
      <4> QED BY <3>2, <4>1, DirectTyped
    <3>4. Connects(from, path, n)
      BY <1>1, <1>2, <1>6, <1>10, <2>1 DEF Heard, Spread, Origin
    <3>5. Len(q.path) <= net.path_max
      BY <1>1, <3>3, ThisNetwork
    <3>6. Known(q)'
      BY <1>1, <1>6, <1>7, <1>8, <1>9, <1>10, <3>1, <3>3, <3>4, <3>5, PathReturnOK
    <3>7. Queued(n, q)
      BY <3>2, <3>3, FloodStarts DEF Origin
    <3>8. reply = {q}
      BY <1>6, <1>9, <1>10, <2>1, <3>1, <3>3
    <3> QED BY <3>6, <3>7, <3>8, FS_Singleton
  <2>2. CASE ~isRouteFlood(p)
    <3>1. PICK body \in Acks : /\ body = Ack(p.body, no) /\ body.ack = p.body /\ body.no = no
                               /\ body \in Bodies
      <4>1. [ack |-> p.body, no |-> no] \in Acks
        BY <1>7 DEF Acks
      <4> QED BY <4>1 DEF Ack, Bodies
    <3>2. reply = IF out_path[n][from] = Unknown THEN {Flood("ACK", body)}
                  ELSE DirectAcks(n, out_path[n][from], body)
      BY <1>6, <1>9, <2>2, <3>1 DEF AckTo
    <3>3. CASE out_path[n][from] = Unknown
      <4>1. PICK q \in PacketSet : /\ q = Flood("ACK", body) /\ q.type = "ACK" /\ q.route = "flood"
                                   /\ q.path = <<>> /\ q.body = body
        <5>1. "ACK" \in Types /\ <<>> \in Paths
          BY DEF Types, Paths
        <5> QED BY <3>1, <5>1, DirectTyped
      <4>2. Len(q.path) <= net.path_max
        BY <1>1, <4>1, ThisNetwork
      <4>3. Known(q)'
        BY <1>1, <1>2, <1>8, <1>9, <3>1, <4>1, <4>2 DEF Known, Sources
      <4>4. Queued(n, q)
        BY <1>2, <3>1, <4>1, FloodStarts DEF Origin
      <4>5. reply = {q}
        BY <3>2, <3>3, <4>1
      <4> QED BY <4>3, <4>4, <4>5, FS_Singleton
    <3>4. CASE out_path[n][from] # Unknown
      <4>1. PICK route \in Paths : route = out_path[n][from]
        BY <1>1, <1>6, <3>4 DEF TypeInv
      <4>2. Connects(n, route, from) /\ Len(route) <= net.path_max
        BY <1>1, <1>6, <3>4, <4>1 DEF RoutesOK
      <4>3. /\ DirectAcks(n, route, body) \in SUBSET PacketSet /\ IsFiniteSet(DirectAcks(n, route, body))
            /\ \A q \in DirectAcks(n, route, body) : Known(q)' /\ Queued(n, q)
        BY <1>1, <1>2, <1>6, <1>8, <1>9, <3>1, <4>2, DirectAcksOK
      <4> QED BY <3>2, <3>4, <4>1, <4>3
    <3> QED BY <3>3, <3>4
  <2> QED BY <2>1, <2>2
<1> PICK gives \in SUBSET {calculatePacketHash(p)} : gives = {calculatePacketHash(p)}
  OBVIOUS
<1>12. Does(n, <<calculatePacketHash(p)>> \o SetToSeq({HashAsSent(r) : r \in reply}), reply, gives)
  OBVIOUS
<1> QED BY <1>3, <1>11, <1>12, ReplyKeeps

\* A path for this node
LEMMA PathKeeps ==
  ASSUME IInv, NEW n \in Nodes, NEW p, Looks(n, p), RecvPath(n, p)
  PROVE  IInv' /\ Grows
<1>1. TypeInv /\ RoutesOK /\ net' = net /\ net \in Networks /\ p \in PacketSet /\ Known(p) /\ Heard(n, p)
  BY LooksAt DEF IInv
<1> PICK reply :
      /\ reply = (IF isRouteFlood(p)
                    THEN {Direct("PATH", p.body.path,
                                 PathReturn(n, p.body.from, p.path, NoAck, made[n]))}
                    ELSE {})
      /\ Does(n, <<calculatePacketHash(p)>> \o SetToSeq({HashAsSent(r) : r \in reply}), reply, {})
      /\ made' = [made EXCEPT ![n] = @ + Cardinality(reply)]
  BY DEF RecvPath
<1>2. /\ p.type = "PATH" /\ p.body.to = n /\ acceptAck(n, p.body.ack)
      /\ out_path' = [out_path EXCEPT ![n][p.body.from] = p.body.path]
  BY DEF RecvPath
<1>3. PICK from \in net.chats, route \in Paths :
         /\ from = p.body.from /\ route = p.body.path /\ n \in net.chats /\ from \in Nodes
         /\ Len(route) <= net.path_max /\ Connects(n, route, from)
         /\ p.body.ack # NoAck => Arrived(p.body.ack)
  BY <1>1, <1>2 DEF Known, Returns
<1>4. PICK path \in Paths : path = p.path /\ Len(path) <= net.path_max
  BY <1>1 DEF PacketSet, Known
<1>5. out_path' \in [Nodes -> [Nodes -> Paths \cup {Unknown}]] /\ RoutesOK'
  <2>1. out_path' = [out_path EXCEPT ![n] = [@ EXCEPT ![from] = route]]
    BY <1>2, <1>3
  <2>2. out_path \in [Nodes -> [Nodes -> Paths \cup {Unknown}]]
    BY <1>1 DEF TypeInv
  <2>3. \A a, b \in Nodes : out_path'[a][b] = IF a = n /\ b = from THEN route ELSE out_path[a][b]
    BY <1>3, <2>1, <2>2
  <2>4. out_path' \in [Nodes -> [Nodes -> Paths \cup {Unknown}]]
    BY <1>3, <2>1, <2>2
  <2>5. ASSUME NEW a \in Nodes, NEW b \in Nodes, out_path'[a][b] # Unknown
        PROVE  (Connects(a, out_path[a][b], b) /\ Len(out_path[a][b]) <= net.path_max)'
    <3>1. PICK known : known = out_path'[a][b]
      OBVIOUS
    <3>2. Connects(a, known, b) /\ Len(known) <= net.path_max
      BY <1>1, <1>3, <2>3, <2>5, <3>1 DEF RoutesOK
    <3> QED BY <1>1, <3>1, <3>2, SamePlaces
  <2> QED BY <2>4, <2>5 DEF RoutesOK
<1>6. Cardinality(reply) \in {0, 1} /\ IsFiniteSet(reply) /\ (isRouteFlood(p) => Cardinality(reply) = 1)
  BY FS_Singleton, FS_EmptySet
<1>7. PICK k \in {0, 1} : k = Cardinality(reply)
  BY <1>6
<1>8. AppsKeep /\ made'[n] = made[n] + k /\ made[n] \in Nat
  <2>1. made' = [made EXCEPT ![n] = @ + k] /\ k \in Nat
    BY <1>7
  <2> QED BY <1>1, <1>2, <1>3, <1>5, <2>1, AckAccepted, CountGrows DEF AppsKeep, TypeInv
<1>9. reply \in SUBSET PacketSet /\ \A q \in reply : Known(q)' /\ Queued(n, q)
  <2>1. CASE isRouteFlood(p)
    <3>1. PICK no \in Nat : no = made[n] /\ no < made'[n]
      BY <1>6, <1>7, <1>8, <2>1
    <3>2. PICK body : body = PathReturn(n, from, path, NoAck, no)
      OBVIOUS
    <3>3. body \in Returns /\ body \in Bodies /\ body.to = from
      BY <1>3, <3>2 DEF PathReturn, Returns, Bodies
    <3>4. PICK q \in PacketSet : /\ q = Direct("PATH", route, body) /\ q.type = "PATH"
                                 /\ q.route = "direct" /\ q.path = route /\ q.body = body
      <4>1. "PATH" \in Types
        BY DEF Types
      <4> QED BY <3>3, <4>1, DirectTyped
    <3>5. Connects(from, path, n)
      BY <1>1, <1>2, <1>3, <1>4, <2>1 DEF Heard, Spread, Origin
    <3> PICK ack \in Texts \cup {NoAck} : ack = NoAck
      OBVIOUS
    <3>6. Known(q)'
      <4>1. q.body = PathReturn(n, from, path, ack, no) /\ Len(q.path) <= net.path_max
        BY <1>3, <3>2, <3>4
      <4> QED BY <1>1, <1>3, <1>4, <3>1, <3>4, <3>5, <4>1, PathReturnOK, ZenonT(60)
    <3>7. Queued(n, q)
      BY <1>3, <3>3, <3>4 DEF Queued, Spread, isRouteFlood, Addressee
    <3>8. reply = {q}
      BY <1>3, <1>4, <2>1, <3>1, <3>2, <3>4
    <3> QED BY <3>6, <3>7, <3>8
  <2>2. CASE ~isRouteFlood(p)
    BY <2>2
  <2> QED BY <2>1, <2>2
<1> PICK gives \in SUBSET {calculatePacketHash(p)} : gives = {}
  OBVIOUS
<1>10. Does(n, <<calculatePacketHash(p)>> \o SetToSeq({HashAsSent(r) : r \in reply}), reply, gives)
  OBVIOUS
<1> QED BY <1>6, <1>8, <1>9, <1>10, ReplyKeeps

LEMMA ReceiveKeeps ==
  ASSUME IInv, NEW n \in Nodes, NEW p \in inbox[n], Receive(n, p)
  PROVE  IInv' /\ Grows
<1>1. Looks(n, p) /\ onRecvPacket(n, p)
  BY DEF Receive, Looks
<1> QED BY <1>1, TraceKeeps, OnTheWayKeeps, OwnAdvertKeeps, AckKeeps, MultiAckKeeps, TextKeeps,
           PathKeeps, ForOtherKeeps, GroupKeeps, AdvertKeeps DEF onRecvPacket

-----------------------------------------------------------------------------
(* Sending, the air and restarts *)

\* A packet an application sends.
LEMMA SendsKeeps ==
  ASSUME IInv, NEW t \in todo, todo' = todo \ {t}, UNCHANGED <<net, inbox, restarts, made, out_path>>,
         t.body.from \in Nodes, NEW q \in PacketSet, Sends(t.body.from, {q}),
         Known(q)', Queued(t.body.from, q),
         awaiting' = IF t.type = "TXT" THEN [awaiting EXCEPT ![t.body.from] = @ \cup {t.body}]
                                       ELSE awaiting
  PROVE  IInv' /\ Grows
<1> PICK n \in Nodes : n = t.body.from
  OBVIOUS
<1>1. TypeInv /\ PacketsOK /\ RoutesOK /\ TextsOK /\ net \in Networks /\ todo \subseteq net.traffic
  BY DEF IInv, TypeInv
<1> PICK sends \in SUBSET PacketSet : sends = {q}
  OBVIOUS
<1>2. IsFiniteSet(sends)
  BY FS_Singleton
<1> DEFINE marks == SetToSeq({HashAsSent(r) : r \in sends})
<1>3. marks \in Seq(Digests)
  BY <1>2, MarksTyped
<1>4. Does(n, marks, sends, {})
  BY DEF Sends
<1> HIDE DEF marks
<1> PICK gives \in SUBSET Digests : gives = {}
  OBVIOUS
<1>5. /\ HashesTyped' /\ queue' = [queue EXCEPT ![n] = @ \cup sends]
      /\ \A m \in Nodes : handed[m] \subseteq handed'[m]
  <2>1. Does(n, marks, sends, gives)
    BY <1>4
  <2> QED BY <1>1, <1>3, <2>1, DoesTyped
<1>6. Grows
  BY <1>1, <1>5, ThisNetwork DEF Grows, TypeInv
<1>7. /\ queue' \in [Nodes -> SUBSET PacketSet]
      /\ \A m \in Nodes : queue'[m] = IF m = n THEN queue[m] \cup sends ELSE queue[m]
  BY <1>1, <1>5 DEF TypeInv
<1>8. PacketsOK'
  BY <1>1, <1>6, <1>7, PacketsKeep
<1>9. t.type = "TXT" => t.body \in Texts
  BY <1>1 DEF Texts, Offered
<1>10. awaiting' \in [Nodes -> SUBSET Texts] /\ \A m \in Nodes : awaiting[m] \subseteq awaiting'[m]
  BY <1>1, <1>9 DEF TypeInv
<1>11. TypeInv'
  BY <1>1, <1>5, <1>7, <1>10 DEF TypeInv
<1>12. RoutesOK'
  BY <1>1, RoutesKeep
<1>13. TextsOK'
  <2> SUFFICES ASSUME NEW x \in Issued("TXT")' PROVE x \in awaiting'[x.from] \/ Arrived(x)'
    BY DEF TextsOK
  <2>1. PICK u \in net.traffic \ todo' : u.type = "TXT" /\ u.body = x
    BY DEF Issued
  <2>2. CASE u = t
    BY <1>1, <2>1, <2>2 DEF TypeInv
  <2>3. CASE u # t
    <3>1. x \in Issued("TXT")
      BY <2>1, <2>3 DEF Issued
    <3>2. x.from \in Nodes
      BY <1>1, <3>1, TextEnds
    <3> QED BY <1>1, <1>6, <1>10, <3>1, <3>2, ArrivedStays DEF TextsOK
  <2> QED BY <2>2, <2>3
<1> QED BY <1>6, <1>8, <1>11, <1>12, <1>13 DEF IInv

LEMMA OriginateKeeps ==
  ASSUME IInv, NEW t \in todo, Originate(t)
  PROVE  IInv' /\ Grows
<1>1. /\ TypeInv /\ RoutesOK /\ net \in Networks /\ t \in net.traffic
      /\ todo' = todo \ {t} /\ UNCHANGED <<net, inbox, restarts>>
  BY DEF IInv, TypeInv, Originate
<1>2. Message(net, t)
  BY <1>1, ThisNetwork
<1> PICK n \in Nodes : n = t.body.from
  BY <1>2 DEF Message
<1>3. t = [type |-> t.type, body |-> t.body] /\ t \in net'.traffic \ todo'
  BY <1>1, <1>2 DEF Message
<1>4. t.body \in Bodies /\ t.type \in Sources /\ <<>> \in Paths
  BY <1>1, <1>2 DEF Bodies, Message, Sources, Paths
<1>5. 0 <= net.path_max /\ Len(<<>>) = 0
  BY <1>1, ThisNetwork
<1>6. CASE t.type = "TXT"
  <2>1. SendText(t.body)
    BY <1>6 DEF Originate
  <2>2. PICK to \in Nodes : to = t.body.to
    BY <1>1, <1>2, <1>6, ThisNetwork DEF Message
  <2>3. PICK q : /\ q = (IF out_path[n][to] = Unknown THEN Flood("TXT", t.body)
                                                       ELSE Direct("TXT", out_path[n][to], t.body))
                 /\ Sends(n, {q})
    BY <2>1, <2>2 DEF SendText
  <2>4. /\ awaiting' = [awaiting EXCEPT ![n] = @ \cup {t.body}]
        /\ out_path' = out_path /\ made' = made
    BY <2>1 DEF SendText
  <2>5. CASE out_path[n][to] = Unknown
    <3>1. /\ q \in PacketSet /\ q.type = "TXT" /\ q.route = "flood" /\ q.path = <<>>
          /\ q.body = t.body
      BY <1>4, <2>3, <2>5, DirectTyped DEF Types, Sources
    <3>2. Known(q)'
      BY <1>1, <1>3, <1>5, <1>6, <3>1 DEF Known
    <3>3. Queued(n, q)
      BY <3>1, FloodStarts DEF Origin
    <3> QED BY <1>1, <1>6, <2>3, <2>4, <3>1, <3>2, <3>3, SendsKeeps
  <2>6. CASE out_path[n][to] # Unknown
    <3>1. PICK route \in Paths : route = out_path[n][to]
      BY <1>1, <2>2, <2>6 DEF TypeInv
    <3>2. Connects(n, route, to) /\ Len(route) <= net.path_max
      BY <1>1, <2>2, <2>6, <3>1 DEF RoutesOK
    <3>3. /\ q \in PacketSet /\ q.type = "TXT" /\ q.route = "direct" /\ q.path = route
          /\ q.body = t.body
      BY <1>4, <2>3, <2>6, <3>1, DirectTyped DEF Types, Sources
    <3>4. Known(q)'
      BY <1>1, <1>3, <1>6, <3>2, <3>3 DEF Known
    <3>5. Queued(n, q)
      BY <2>2, <3>2, <3>3 DEF Queued, Spread, isRouteFlood, Addressee
    <3> QED BY <1>1, <1>6, <2>3, <2>4, <3>3, <3>4, <3>5, SendsKeeps
  <2> QED BY <2>5, <2>6
<1>7. CASE t.type = "TRACE"
  <2>1. PICK q : q = Direct("TRACE", <<>>, t.body) /\ Sends(n, {q}) /\ UNCHANGED appVars
    BY <1>7 DEF Originate
  <2>2. /\ q \in PacketSet /\ q.type = "TRACE" /\ q.route = "direct" /\ q.path = <<>>
        /\ q.body = t.body
    BY <1>4, <1>7, <2>1, DirectTyped DEF Types, Sources
  <2>3. Known(q)'
    <3>1. Len(t.body.hops) \in Nat
      BY <1>2, <1>7 DEF Message
    <3> QED BY <1>1, <1>3, <1>5, <1>7, <2>2, <3>1 DEF Known
  <2>4. Queued(n, q)
    BY <2>2 DEF Queued, Spread, Directed
  <2> QED BY <1>1, <1>7, <2>1, <2>2, <2>3, <2>4, SendsKeeps DEF appVars
<1>8. CASE t.type \in {"GRP", "ADVERT"}
  <2>1. PICK q : q = Flood(t.type, t.body) /\ Sends(n, {q}) /\ UNCHANGED appVars
    BY <1>8 DEF Originate
  <2>2. /\ q \in PacketSet /\ q.type = t.type /\ q.route = "flood" /\ q.path = <<>>
        /\ q.body = t.body
    BY <1>4, <1>8, <2>1, DirectTyped DEF Types, Sources
  <2>3. Known(q)'
    BY <1>1, <1>3, <1>5, <1>8, <2>2 DEF Known
  <2>4. Queued(n, q)
    BY <1>8, <2>2 DEF Queued, Spread, Directed
  <2> QED BY <1>1, <1>8, <2>1, <2>2, <2>3, <2>4, SendsKeeps DEF appVars
<1> QED BY <1>4, <1>6, <1>7, <1>8 DEF Sources

\* What the neighbours of a node hear has come, or has to go, one hop further.
LEMMA TransmitKeeps ==
  ASSUME IInv, NEW n \in Nodes, NEW p \in queue[n], Transmit(n, p)
  PROVE  IInv' /\ Grows
<1>1. /\ TypeInv /\ PacketsOK /\ RoutesOK /\ TextsOK /\ net' = net /\ todo' = todo
      /\ out_path' = out_path /\ awaiting' = awaiting /\ made' = made /\ seen' = seen
      /\ sent' = sent /\ handed' = handed /\ restarts' = restarts
      /\ before' = before /\ twice' = twice
  BY DEF IInv, Transmit, appVars, history
<1>2. p \in PacketSet /\ Known(p) /\ Queued(n, p)
  BY <1>1 DEF TypeInv, PacketsOK
<1>3. Grows
  BY <1>1, ThisNetwork DEF Grows, TypeInv
<1>4. PICK heard \in SUBSET Neighbours(n) :
         inbox' = [m \in Nodes |-> IF m \in heard /\ Readable(p) THEN inbox[m] \cup {p} ELSE inbox[m]]
  BY DEF Transmit
<1>5. /\ queue' \in [Nodes -> SUBSET PacketSet] /\ \A m \in Nodes : queue'[m] \subseteq queue[m]
  BY <1>1 DEF Transmit, TypeInv
<1>6. inbox' \in [Nodes -> SUBSET PacketSet]
  BY <1>1, <1>2, <1>4 DEF TypeInv
<1>7. ASSUME NEW m \in Neighbours(n)
      PROVE  Heard(m, p)
  <2>1. ASSUME Spread(p) PROVE Connects(Origin(p), p.path, m)
    BY <1>2, <2>1 DEF Queued, Connects
  <2>2. ASSUME Directed(p), HashesDiffer
        PROVE  \E x \in Nodes : m \in Neighbours(x) /\ Connects(x, p.path, Addressee(p))
    BY <1>2, <2>2 DEF Queued
  <2> QED BY <2>1, <2>2 DEF Heard
<1>8. \A m \in Nodes : \A q \in inbox'[m] : q \in inbox[m] \/ (Known(q)' /\ Heard(m, q))
  BY <1>1, <1>2, <1>3, <1>4, <1>7, KnownStays
<1>9. PacketsOK'
  BY <1>1, <1>3, <1>5, <1>8, PacketsKeep
<1>10. TypeInv'
  BY <1>1, <1>5, <1>6 DEF TypeInv, HashesTyped
<1>11. TextsOK' /\ RoutesOK'
  BY <1>1, <1>3, TextsKeep, RoutesKeep
<1> QED BY <1>3, <1>9, <1>10, <1>11 DEF IInv

\* A node that restarts stops doing what it was about to do.
LEMMA RestartKeeps ==
  ASSUME IInv, NEW n \in Nodes, Restart(n)
  PROVE  IInv' /\ Grows
<1>1. /\ TypeInv /\ PacketsOK /\ RoutesOK /\ TextsOK /\ net' = net /\ todo' = todo
      /\ out_path' = out_path /\ awaiting' = awaiting /\ made' = made
  BY DEF IInv, Restart, appVars
<1>2. handed' = handed
  BY DEF Restart
<1>3. Grows
  BY <1>1, <1>2, ThisNetwork DEF Grows, TypeInv, HashesTyped
<1>4. /\ queue' \in [Nodes -> SUBSET PacketSet] /\ inbox' \in [Nodes -> SUBSET PacketSet]
      /\ \A m \in Nodes : queue'[m] \subseteq queue[m] /\ inbox'[m] \subseteq inbox[m]
  BY <1>1 DEF Restart, TypeInv
<1>5. PacketsOK'
  BY <1>1, <1>3, <1>4, PacketsKeep
<1>6. HashesTyped'
  <2>1. <<>> \in Seq(Digests) /\ Len(<<>>) = 0 /\ net.ring_size \in Nat
    BY <1>1, ThisNetwork DEF TypeInv
  <2> QED BY <1>1, <2>1 DEF Restart, TypeInv, HashesTyped
<1>7. restarts' \in 0..net'.restarts
  <2> PICK max \in Nat : max = net.restarts
    BY <1>1, ThisNetwork DEF TypeInv
  <2> QED BY <1>1 DEF Restart, TypeInv
<1>8. TypeInv'
  BY <1>1, <1>4, <1>6, <1>7 DEF TypeInv
<1>9. TextsOK' /\ RoutesOK'
  BY <1>1, <1>3, TextsKeep, RoutesKeep
<1> QED BY <1>3, <1>5, <1>8, <1>9 DEF IInv

LEMMA Starts == Init => IInv
<1> SUFFICES ASSUME Init PROVE IInv
  OBVIOUS
<1>1. net \in Networks
  BY DEF Init
<1>2. <<>> \in Seq(Digests) /\ Len(<<>>) = 0 /\ net.ring_size \in Nat /\ net.restarts \in Nat
  BY <1>1, ThisNetwork
<1>3. HashesTyped
  BY <1>2 DEF Init, HashesTyped
<1>4. TypeInv
  BY <1>2, <1>3 DEF Init, TypeInv
<1>5. PacketsOK /\ RoutesOK
  BY DEF Init, PacketsOK, RoutesOK
<1>6. Issued("TXT") = {}
  BY DEF Init, Issued
<1> QED BY <1>4, <1>5, <1>6 DEF IInv, TextsOK

LEMMA Stutters ==
  ASSUME IInv, UNCHANGED vars
  PROVE  IInv' /\ Grows
<1>1. /\ TypeInv /\ PacketsOK /\ RoutesOK /\ TextsOK /\ net' = net /\ todo' = todo
      /\ queue' = queue /\ inbox' = inbox /\ seen' = seen /\ sent' = sent /\ handed' = handed
      /\ out_path' = out_path /\ awaiting' = awaiting /\ made' = made /\ restarts' = restarts
      /\ before' = before /\ twice' = twice
  BY DEF IInv, vars, appVars, history
<1>2. Grows
  BY <1>1, ThisNetwork DEF Grows, TypeInv
<1>3. TypeInv'
  BY <1>1 DEF TypeInv, HashesTyped
<1>4. PacketsOK'
  BY <1>1, <1>2, PacketsKeep
<1> QED BY <1>1, <1>2, <1>3, <1>4, TextsKeep, RoutesKeep DEF IInv

-----------------------------------------------------------------------------
(* Acting once *)

LEMMA RangeOfBoth ==
  ASSUME NEW S, NEW s \in Seq(S), NEW t \in Seq(S)
  PROVE  ToSet(s \o t) = ToSet(s) \cup ToSet(t)
<1>1. /\ s \o t \in Seq(S) /\ Len(s \o t) = Len(s) + Len(t) /\ Len(s) \in Nat /\ Len(t) \in Nat
      /\ \A i \in 1..Len(s) : (s \o t)[i] = s[i]
      /\ \A i \in 1..Len(t) : (s \o t)[Len(s) + i] = t[i]
      /\ DOMAIN s = 1..Len(s) /\ DOMAIN t = 1..Len(t) /\ DOMAIN (s \o t) = 1..(Len(s) + Len(t))
  OBVIOUS
<1>2. PICK both : both = s \o t
  OBVIOUS
<1>3. ASSUME NEW i \in DOMAIN both PROVE both[i] \in ToSet(s) \cup ToSet(t)
  <2>1. CASE i \in 1..Len(s)
    BY <1>1, <1>2, <2>1 DEF ToSet
  <2>2. CASE i \notin 1..Len(s)
    <3>1. PICK j \in 1..Len(t) : i = Len(s) + j
      <4>1. i - Len(s) \in 1..Len(t) /\ i = Len(s) + (i - Len(s))
        BY <1>1, <1>2, <2>2
      <4> QED BY <4>1
    <3> QED BY <1>1, <1>2, <3>1 DEF ToSet
  <2> QED BY <2>1, <2>2
<1>4. ASSUME NEW i \in DOMAIN s PROVE s[i] \in ToSet(both)
  <2>1. i \in DOMAIN both /\ both[i] = s[i]
    BY <1>1, <1>2
  <2> QED BY <2>1 DEF ToSet
<1>5. ASSUME NEW i \in DOMAIN t PROVE t[i] \in ToSet(both)
  <2>1. Len(s) + i \in DOMAIN both /\ both[Len(s) + i] = t[i]
    BY <1>1, <1>2
  <2> QED BY <2>1 DEF ToSet
<1>6. ToSet(both) \subseteq ToSet(s) \cup ToSet(t)
  <2> SUFFICES ASSUME NEW x \in ToSet(both) PROVE x \in ToSet(s) \cup ToSet(t)
    OBVIOUS
  <2>1. PICK i \in DOMAIN both : x = both[i]
    BY DEF ToSet
  <2> QED BY <1>3, <2>1
<1>7. ToSet(s) \subseteq ToSet(both)
  <2> SUFFICES ASSUME NEW x \in ToSet(s) PROVE x \in ToSet(both)
    OBVIOUS
  <2>1. PICK i \in DOMAIN s : x = s[i]
    BY DEF ToSet
  <2> QED BY <1>4, <2>1
<1>8. ToSet(t) \subseteq ToSet(both)
  <2> SUFFICES ASSUME NEW x \in ToSet(t) PROVE x \in ToSet(both)
    OBVIOUS
  <2>1. PICK i \in DOMAIN t : x = t[i]
    BY DEF ToSet
  <2> QED BY <1>5, <2>1
<1> QED BY <1>2, <1>6, <1>7, <1>8

LEMMA UsedStays ==
  ASSUME TypeInv, Grows, NEW h, Used(h)
  PROVE  Used(h)'
<1>1. h[1] \in Sources => [type |-> h[1], body |-> h[2]] \in net'.traffic \ todo'
  BY DEF Used, Grows
<1>2. ASSUME h[1] = "PATH"
      PROVE  h[2] \in Returns /\ h[2].no < made'[h[2].from]
  <2>1. h[2] \in Returns /\ h[2].no < made[h[2].from]
    BY <1>2 DEF Used
  <2>2. PICK from \in Nodes, no \in Nat : from = h[2].from /\ no = h[2].no
    BY <2>1 DEF Returns
  <2>3. made[from] \in Nat /\ made'[from] \in Nat /\ made'[from] >= made[from] /\ no < made[from]
    BY <2>1, <2>2 DEF TypeInv, Grows
  <2>4. no < made'[from]
    BY <2>3, <2>2
  <2> QED BY <2>1, <2>2, <2>4
<1>3. ASSUME h[1] = "ACK"
      PROVE  h[2] \in Acks /\ h[2].no < made'[h[2].ack.to]
  <2>1. h[2] \in Acks /\ h[2].no < made[h[2].ack.to]
    BY <1>3 DEF Used
  <2>2. h[2].ack.to \in Nodes /\ h[2].no \in Nat
    BY <2>1, TextEnds DEF Acks
  <2>3. PICK to \in Nodes, no \in Nat : to = h[2].ack.to /\ no = h[2].no
    BY <2>2
  <2>4. made[to] \in Nat /\ made'[to] \in Nat /\ made'[to] >= made[to] /\ no < made[to]
    BY <2>1, <2>3 DEF TypeInv, Grows
  <2>5. no < made'[to]
    BY <2>3, <2>4
  <2> QED BY <2>1, <2>3, <2>5
<1> QED BY <1>1, <1>2, <1>3 DEF Used

\* The hash of a packet says of it what is known.
LEMMA HashSays ==
  ASSUME NEW p \in PacketSet
  PROVE  /\ calculatePacketHash(p)[1] = p.type /\ calculatePacketHash(p)[2] = p.body
         /\ p.type = "TRACE" => calculatePacketHash(p)[3] = Len(p.path)
         /\ Known(p)' => Used(calculatePacketHash(p))'
         /\ Known(p) => Used(calculatePacketHash(p))
<1>1. /\ calculatePacketHash(p)[1] = p.type /\ calculatePacketHash(p)[2] = p.body
      /\ p.type = "TRACE" => calculatePacketHash(p)[3] = Len(p.path)
  BY DEF calculatePacketHash
<1>2. PICK h : h = calculatePacketHash(p) /\ h[1] = p.type /\ h[2] = p.body
  BY <1>1
<1>3. Known(p)' => Used(h)'
  BY <1>2 DEF Known, Used, Sources
<1>4. Known(p) => Used(h)
  BY <1>2 DEF Known, Used, Sources
<1>5. Used(calculatePacketHash(p))' <=> Used(h)'
  BY <1>2 DEF calculatePacketHash
<1> QED BY <1>1, <1>2, <1>3, <1>4, <1>5

\* The node has lost room for a hash, or this one with a restart.
Excused(n, h) == n \in forgot \/ h \in before[n]

\* What may be queued: its hash is marked, and was not sent before.
Fresh(n, marks, q) ==
  /\ IF q.type = "TRACE"
       THEN Len(q.path) > 0 => <<q.type, q.body, Len(q.path) - 1>> \in ToSet(marks)
       ELSE Repeated(calculatePacketHash(q)) \/ calculatePacketHash(q) \in ToSet(marks)
  /\ \/ Excused(n, calculatePacketHash(q))
     \/ Repeated(calculatePacketHash(q)) \/ calculatePacketHash(q) \notin sent[n]

\* What may be handed over.
News(n, marks, h) ==
  /\ h[1] # "TRACE" => h \in ToSet(marks)
  /\ Excused(n, h) \/ h \notin handed[n] \/ (h[1] = "TRACE" /\ ~Unshared)

LEMMA DoesOnce ==
  ASSUME TypeInv, HashesOK, ActsOnce, Grows, NEW n \in Nodes, NEW marks \in Seq(Digests),
         NEW sends \in SUBSET PacketSet, NEW gives \in SUBSET Digests, Does(n, marks, sends, gives),
         \A q \in sends : Known(q)' /\ Fresh(n, marks, q),
         \A h \in gives : Used(h)' /\ News(n, marks, h),
         NoMulti'
  PROVE  HashesOK' /\ ActsOnce'
<1> PICK hashes \in SUBSET Digests : hashes = {calculatePacketHash(q) : q \in sends}
  BY HashTyped
<1>1. /\ sent' = [sent EXCEPT ![n] = @ \cup hashes]
      /\ handed' = [handed EXCEPT ![n] = @ \cup gives]
      /\ seen' = [seen EXCEPT ![n] = Latest(@ \o marks)]
      /\ twice' = twice \cup ({n} \X (hashes \cap sent[n])) \cup ({n} \X (gives \cap handed[n]))
      /\ forgot' = forgot \cup IF Len(seen[n] \o marks) > net.ring_size THEN {n} ELSE {}
      /\ net' = net /\ before' = before
  BY DEF Does, Grows
<1>2. /\ sent \in [Nodes -> SUBSET Digests] /\ handed \in [Nodes -> SUBSET Digests]
      /\ seen \in [Nodes -> Seq(Digests)]
  BY DEF TypeInv, HashesTyped
<1>3. ASSUME NEW m \in Nodes, NEW h \in sent'[m] \cup handed'[m]
      PROVE  Used(h)'
  <2>1. h \in sent[m] \cup handed[m] \/ h \in hashes \/ h \in gives
    BY <1>1, <1>2, <1>3
  <2>2. CASE h \in sent[m] \cup handed[m]
    BY <2>2, UsedStays DEF HashesOK
  <2>3. CASE h \in hashes
    <3>1. PICK q \in sends : h = calculatePacketHash(q)
      BY <2>3
    <3>2. Used(calculatePacketHash(q))'
      BY HashSays
    <3> QED BY <3>1, <3>2 DEF calculatePacketHash
  <2> QED BY <2>1, <2>2, <2>3
<1>4. ASSUME NEW m \in Nodes, m \notin forgot'
      PROVE  InRing(m)'
  <2>1. m \notin forgot /\ InRing(m)
    BY <1>1, <1>4 DEF HashesOK
  <2>2. CASE m # n
    <3>1. sent'[m] = sent[m] /\ handed'[m] = handed[m] /\ seen'[m] = seen[m]
      BY <1>1, <1>2, <2>2
    <3> QED BY <1>1, <2>1, <3>1 DEF InRing, Repeated
  <2>3. CASE m = n
    <3>1. seen'[n] = seen[n] \o marks
      <4>1. ~(Len(seen[n] \o marks) > net.ring_size)
        BY <1>1, <1>4, <2>3
      <4>2. PICK size \in Nat : size = net.ring_size
        BY ThisNetwork DEF TypeInv
      <4>3. PICK ring \in Seq(Digests) : ring = seen[n] \o marks /\ Len(ring) \in Nat
        <5>1. seen[n] \in Seq(Digests)
          BY <1>2
        <5>2. seen[n] \o marks \in Seq(Digests) /\ Len(seen[n] \o marks) \in Nat
          BY <5>1
        <5> QED BY <5>2, Zenon
      <4>4. Len(ring) <= size
        BY <4>1, <4>2, <4>3
      <4> QED BY <1>1, <1>2, <4>2, <4>3, <4>4 DEF Latest
    <3>2. ToSet(seen'[n]) = ToSet(seen[n]) \cup ToSet(marks)
      BY <1>2, <3>1, RangeOfBoth
    <3>3. sent'[n] = sent[n] \cup hashes /\ handed'[n] = handed[n] \cup gives
      BY <1>1, <1>2
    <3>4. ASSUME NEW h \in sent'[n], h \notin before'[n], h[1] # "TRACE", ~Repeated(h)'
          PROVE  h \in ToSet(seen'[n])
      <4>1. ~Repeated(h)
        BY <1>1, <3>4 DEF Repeated
      <4>2. CASE h \in sent[n]
        BY <1>1, <2>1, <2>3, <3>2, <3>4, <4>1, <4>2 DEF InRing
      <4>3. CASE h \in hashes
        <5>1. PICK q \in sends : h = calculatePacketHash(q)
          BY <4>3
        <5>2. q.type # "TRACE"
          BY <3>4, <5>1, HashSays
        <5> QED BY <3>2, <4>1, <5>1, <5>2 DEF Fresh
      <4> QED BY <3>3, <4>2, <4>3
    <3>5. ASSUME NEW h \in sent'[n], h \notin before'[n], h[1] = "TRACE", h[3] > 0
          PROVE  <<h[1], h[2], h[3] - 1>> \in ToSet(seen'[n])
      <4>2. CASE h \in sent[n]
        BY <1>1, <2>1, <2>3, <3>2, <3>5, <4>2 DEF InRing
      <4>3. CASE h \in hashes
        <5>1. PICK q \in sends : h = calculatePacketHash(q)
          BY <4>3
        <5>2. q.type = "TRACE" /\ h[1] = q.type /\ h[2] = q.body /\ h[3] = Len(q.path)
          BY <3>5, <5>1, HashSays
        <5> QED BY <3>2, <3>5, <5>2 DEF Fresh
      <4> QED BY <3>3, <4>2, <4>3
    <3>6. ASSUME NEW h \in handed'[n], h \notin before'[n], h[1] # "TRACE"
          PROVE  h \in ToSet(seen'[n])
      <4>1. CASE h \in handed[n]
        BY <1>1, <2>1, <2>3, <3>2, <3>6, <4>1 DEF InRing
      <4>2. CASE h \in gives
        BY <3>2, <3>6, <4>2 DEF News
      <4> QED BY <3>3, <4>1, <4>2
    <3> QED BY <2>3, <3>4, <3>5, <3>6 DEF InRing
  <2> QED BY <2>2, <2>3
<1>5. HashesOK'
  BY <1>3, <1>4 DEF HashesOK
<1>6. ASSUME NEW w \in twice'
      PROVE  \/ w[1] \in forgot'
             \/ w[2] \in before'[w[1]]
             \/ net'.multi_ackers # {} /\ w[2][1] \in {"ACK", "MULTI"}
             \/ w[2][1] = "TRACE" /\ \E a, b \in net'.forwarders : a # b /\ net'.hash[a] = net'.hash[b]
  <2>1. CASE w \in twice
    BY <1>1, <2>1 DEF ActsOnce
  <2>2. CASE w \in {n} \X (hashes \cap sent[n])
    <3>1. PICK q \in sends : w[2] = calculatePacketHash(q) /\ w[2] \in sent[n] /\ w[1] = n
      BY <2>2
    <3>2. Excused(n, w[2]) \/ Repeated(w[2])
      BY <3>1 DEF Fresh
    <3> QED BY <1>1, <3>1, <3>2 DEF Repeated, Excused
  <2>3. CASE w \in {n} \X (gives \cap handed[n])
    <3>1. w[1] = n /\ w[2] \in gives /\ w[2] \in handed[n]
      BY <2>3
    <3>2. Excused(n, w[2]) \/ (w[2][1] = "TRACE" /\ ~Unshared)
      BY <3>1 DEF News
    <3> QED BY <1>1, <3>1, <3>2 DEF Unshared, Excused
  <2> QED BY <1>1, <1>6, <2>1, <2>2, <2>3
<1> QED BY <1>5, <1>6 DEF ActsOnce

LEMMA HashesStay ==
  ASSUME TypeInv, HashesOK, ActsOnce, Grows, UNCHANGED <<seen, history>>, NoMulti'
  PROVE  HashesOK' /\ ActsOnce'
<1>1. /\ net' = net /\ sent' = sent /\ handed' = handed /\ twice' = twice
      /\ forgot' = forgot /\ before' = before /\ seen' = seen
  BY DEF Grows, history
<1>2. ASSUME NEW m \in Nodes, NEW h \in sent'[m] \cup handed'[m] PROVE Used(h)'
  BY <1>1, <1>2, UsedStays DEF HashesOK
<1>3. ASSUME NEW m \in Nodes, m \notin forgot' PROVE InRing(m)'
  BY <1>1, <1>3 DEF HashesOK, InRing, Repeated
<1>4. ActsOnce'
  BY <1>1 DEF ActsOnce
<1> QED BY <1>2, <1>3, <1>4 DEF HashesOK

\* Where no trace is queued, heard or handed over that was not, traces are as they were.
LEMMA TracesKeep ==
  ASSUME TracesOK, net' = net,
         \A m \in Nodes : \A q \in queue'[m] : q.type = "TRACE" => q \in queue[m],
         \A m \in Nodes : \A q \in inbox'[m] : q.type = "TRACE" => q \in inbox[m],
         \A m \in Nodes : \A h \in handed'[m] : h[1] = "TRACE" => h \in handed[m]
  PROVE  TracesOK'
<1> SUFFICES ASSUME Unshared' PROVE OneQueued' /\ BehindQueued' /\ BehindDue' /\ Over'
  BY DEF TracesOK
<1>1. OneQueued /\ BehindQueued /\ BehindDue /\ Over
  BY DEF TracesOK, Unshared
<1>2. \A n, p : Due(n, p)' <=> Due(n, p)
  BY DEF Due, TraceEnds
<1>3. OneQueued'
  BY <1>1 DEF OneQueued, SameTrace
<1>4. BehindQueued'
  BY <1>1, <1>2 DEF BehindQueued, SameTrace
<1>5. BehindDue'
  BY <1>1, <1>2 DEF BehindDue, SameTrace
<1>6. Over'
  <2> SUFFICES ASSUME NEW m \in Nodes, NEW h \in handed'[m], h[1] = "TRACE"
               PROVE  /\ h[3] = Len(h[2].hops)
                      /\ \A n \in Nodes : \A p \in queue'[n] : ~(p.type = "TRACE" /\ p.body = h[2])
                      /\ \A n \in Nodes : \A p \in inbox'[n] : p.type = "TRACE" /\ p.body = h[2] =>
                           ~Due(n, p)' /\ (n = m => Len(p.path) < h[3])
    BY DEF Over
  <2>1. h \in handed[m]
    OBVIOUS
  <2> QED BY <1>1, <1>2, <2>1 DEF Over
<1> QED BY <1>3, <1>4, <1>5, <1>6

\* A handler that queues and hands over no trace.
Plain(n, marks, q) ==
  q.type # "TRACE" /\ (q.type = "MULTI" => net.multi_ackers # {}) /\ Fresh(n, marks, q)

LEMMA ActOnce ==
  ASSUME TypeInv, IInv', HInv, Grows, \A m \in Nodes : inbox'[m] \subseteq inbox[m],
         NEW n \in Nodes, NEW marks \in Seq(Digests), NEW sends \in SUBSET PacketSet,
         NEW gives \in SUBSET Digests, Does(n, marks, sends, gives),
         \A q \in sends : Plain(n, marks, q),
         \A h \in gives : h[1] # "TRACE" /\ Used(h)' /\ News(n, marks, h)
  PROVE  HInv'
<1>1. /\ HashesOK /\ TracesOK /\ ActsOnce /\ net' = net
      /\ queue \in [Nodes -> SUBSET PacketSet] /\ handed \in [Nodes -> SUBSET Digests]
  BY DEF HInv, Grows, TypeInv, HashesTyped
<1>2. /\ queue' = [queue EXCEPT ![n] = @ \cup sends]
      /\ handed' = [handed EXCEPT ![n] = @ \cup gives]
  BY DEF Does
<1>3. /\ \A m \in Nodes : \A q \in queue'[m] : q \in queue[m] \/ (m = n /\ q \in sends)
      /\ \A m \in Nodes : \A h \in handed'[m] : h \in handed[m] \/ h \in gives
      /\ sends \subseteq queue'[n]
  BY <1>1, <1>2
<1>4. \A q \in sends : Known(q)' /\ Fresh(n, marks, q)
  BY <1>3 DEF IInv, PacketsOK, Plain
<1>5. NoMulti'
  BY <1>1, <1>3 DEF NoMulti, HashesOK, Plain
<1>6. HashesOK' /\ ActsOnce'
  BY <1>1, <1>4, <1>5, DoesOnce
<1>7. TracesOK'
  BY <1>1, <1>3, TracesKeep DEF Plain
<1> QED BY <1>6, <1>7 DEF HInv

LEMMA IdleOnce ==
  ASSUME TypeInv, HInv, Grows, UNCHANGED <<seen, queue, history>>,
         \A m \in Nodes : inbox'[m] \subseteq inbox[m]
  PROVE  HInv'
<1>1. HashesOK /\ TracesOK /\ ActsOnce /\ net' = net /\ handed' = handed
  BY DEF HInv, Grows, history
<1>2. NoMulti'
  BY <1>1 DEF NoMulti, HashesOK
<1>3. TracesOK'
  BY <1>1, TracesKeep
<1> QED BY <1>1, <1>2, <1>3, HashesStay DEF HInv

\* What the ring does not know was not acted upon, and will be marked.
LEMMA NotYet ==
  ASSUME HashesOK, NEW n \in Nodes, NEW p \in PacketSet, ~wasSeen(n, p), p.type # "TRACE"
  PROVE  \/ Excused(n, calculatePacketHash(p))
         \/ /\ Repeated(calculatePacketHash(p)) \/ calculatePacketHash(p) \notin sent[n]
            /\ calculatePacketHash(p) \notin handed[n]
<1>1. calculatePacketHash(p)[1] # "TRACE"
  BY HashSays
<1> QED BY <1>1 DEF HashesOK, InRing, wasSeen, Excused

LEMMA MarksHave ==
  /\ \A d \in Digests : \E marks \in Seq(Digests) : marks = <<d>> /\ ToSet(marks) = {d}
  /\ \A d \in Digests : \A more \in Seq(Digests) :
       \E marks \in Seq(Digests) : marks = <<d>> \o more /\ ToSet(marks) = {d} \cup ToSet(more)
<1>1. ASSUME NEW d \in Digests
      PROVE  <<d>> \in Seq(Digests) /\ ToSet(<<d>>) = {d}
  <2>1. <<d>> \in Seq(Digests) /\ DOMAIN <<d>> = {1} /\ <<d>>[1] = d
    OBVIOUS
  <2> QED BY <2>1 DEF ToSet
<1>2. ASSUME NEW d \in Digests, NEW more \in Seq(Digests)
      PROVE  <<d>> \o more \in Seq(Digests) /\ ToSet(<<d>> \o more) = {d} \cup ToSet(more)
  <2>1. PICK one \in Seq(Digests) : one = <<d>> /\ ToSet(one) = {d}
    BY <1>1, Zenon
  <2>2. one \o more \in Seq(Digests) /\ ToSet(one \o more) = ToSet(one) \cup ToSet(more)
    BY RangeOfBoth
  <2> QED BY <2>1, <2>2
<1> QED BY <1>1, <1>2, Zenon

\* What is there to show when a node has looked at a packet.
Looked(n, p) == IInv /\ HInv /\ IInv' /\ Grows /\ Looks(n, p)

LEMMA LookedAt ==
  ASSUME NEW n \in Nodes, NEW p, Looked(n, p)
  PROVE  /\ TypeInv /\ IInv' /\ HInv /\ Grows /\ net' = net /\ todo' = todo
         /\ HashesOK /\ TracesOK
         /\ p \in PacketSet /\ Known(p) /\ Known(p)' /\ calculatePacketHash(p) \in Digests
         /\ Used(calculatePacketHash(p))'
         /\ \A m \in Nodes : inbox'[m] \subseteq inbox[m]
<1>1. TypeInv /\ IInv /\ Looks(n, p) /\ Grows
  BY DEF Looked, IInv
<1>2. p \in PacketSet /\ Known(p)
  BY <1>1, LooksAt
<1>3. Known(p)'
  BY <1>1, <1>2, KnownStays
<1>4. Used(calculatePacketHash(p))' /\ calculatePacketHash(p) \in Digests
  BY <1>2, <1>3, HashSays, HashTyped
<1>5. \A m \in Nodes : inbox'[m] \subseteq inbox[m]
  BY <1>1 DEF Looks, TypeInv
<1> QED BY <1>1, <1>2, <1>3, <1>4, <1>5 DEF Looked, HInv, Grows, Looks

LEMMA IdleActsOnce ==
  ASSUME NEW n \in Nodes, NEW p, Looked(n, p), DoesNothing
  PROVE  HInv'
BY LookedAt, IdleOnce DEF DoesNothing

\* The ring did not know the packet: it is passed on, answered or handed over for
\* the first time.
LEMMA FirstActsOnce ==
  ASSUME NEW n \in Nodes, NEW p, Looked(n, p), First(n, p), p.type # "TRACE",
         NEW more \in Seq(Digests), NEW sends \in SUBSET PacketSet,
         NEW gives \in SUBSET {calculatePacketHash(p)},
         Does(n, <<calculatePacketHash(p)>> \o more, sends, gives),
         \A q \in sends :
            \/ calculatePacketHash(q) = calculatePacketHash(p) /\ q.type # "MULTI"
            \/ Plain(n, more, q)
  PROVE  HInv'
<1> PICK h \in Digests : h = calculatePacketHash(p) /\ Used(h)' /\ h[1] # "TRACE" /\ h[1] = p.type
  <2>1. calculatePacketHash(p)[1] = p.type
    BY LookedAt, HashSays
  <2>2. Used(calculatePacketHash(p))'
    BY LookedAt
  <2>3. PICK h \in Digests : h = calculatePacketHash(p)
    BY LookedAt
  <2>4. Used(h)'
    BY <2>2, <2>3 DEF calculatePacketHash
  <2> QED BY <2>1, <2>3, <2>4
<1> PICK marks \in Seq(Digests) : marks = <<h>> \o more /\ ToSet(marks) = {h} \cup ToSet(more)
  BY MarksHave, Zenon
<1>1. Excused(n, h) \/ ((Repeated(h) \/ h \notin sent[n]) /\ h \notin handed[n])
  BY LookedAt, NotYet DEF First
<1>2. ASSUME NEW q \in sends
      PROVE  Plain(n, marks, q)
  <2>1. CASE calculatePacketHash(q) = h /\ q.type # "MULTI"
    <3>1. q.type # "TRACE"
      BY <2>1, HashSays
    <3> QED BY <1>1, <2>1, <3>1 DEF Plain, Fresh
  <2>2. CASE Plain(n, more, q)
    BY <2>2 DEF Plain, Fresh
  <2> QED BY <2>1, <2>2
<1>3. \A g \in gives : g[1] # "TRACE" /\ Used(g)' /\ News(n, marks, g)
  <2> SUFFICES ASSUME NEW g \in gives PROVE g[1] # "TRACE" /\ Used(g)' /\ News(n, marks, g)
    OBVIOUS
  <2>1. g = h
    OBVIOUS
  <2> QED BY <1>1, <2>1 DEF News
<1>4. gives \in SUBSET Digests
  BY LookedAt
<1>5. Does(n, marks, sends, gives)
  OBVIOUS
<1> QED BY <1>2, <1>3, <1>4, <1>5, LookedAt, ActOnce

\* The same when nothing but the packet is marked.
LEMMA FirstActsAlone ==
  ASSUME NEW n \in Nodes, NEW p, Looked(n, p), First(n, p), p.type # "TRACE",
         NEW sends \in SUBSET PacketSet, NEW gives \in SUBSET {calculatePacketHash(p)},
         Does(n, <<calculatePacketHash(p)>>, sends, gives),
         \A q \in sends : calculatePacketHash(q) = calculatePacketHash(p) /\ q.type # "MULTI"
  PROVE  HInv'
<1>1. calculatePacketHash(p) \in Digests
  BY LookedAt
<1>2. <<>> \in Seq(Digests) /\ <<calculatePacketHash(p)>> \o <<>> = <<calculatePacketHash(p)>>
  <2> PICK h \in Digests : h = calculatePacketHash(p)
    BY <1>1
  <2> QED OBVIOUS
<1> PICK more \in Seq(Digests) : more = <<>>
  BY <1>2, Zenon
<1>3. Does(n, <<calculatePacketHash(p)>> \o more, sends, gives)
  BY <1>2
<1> QED BY <1>3, FirstActsOnce

LEMMA PassedOnHash ==
  ASSUME TypeInv, NEW n \in Nodes, NEW p \in PacketSet, p.type # "TRACE",
         NEW q \in routeRecvPacket(n, p)
  PROVE  calculatePacketHash(q) = calculatePacketHash(p) /\ q.type = p.type
BY ForwardedFlood DEF calculatePacketHash

LEMMA GroupOnce ==
  ASSUME NEW n \in Nodes, NEW p, Looked(n, p),
         RecvGroup(n, p) \/ RecvAdvert(n, p) \/ RecvForOther(n, p)
  PROVE  HInv'
<1>1. First(n, p) /\ p.type \notin {"TRACE", "MULTI"}
  BY DEF RecvGroup, RecvAdvert, RecvForOther
<1>2. /\ routeRecvPacket(n, p) \in SUBSET PacketSet
      /\ \A q \in routeRecvPacket(n, p) : calculatePacketHash(q) = calculatePacketHash(p) /\ q.type # "MULTI"
  BY <1>1, LookedAt, OneOrNone, PassedOnHash
<1> PICK none \in SUBSET PacketSet : none = {}
  OBVIOUS
<1> PICK gives \in SUBSET {calculatePacketHash(p)} : gives = {calculatePacketHash(p)}
  OBVIOUS
<1> PICK keeps \in SUBSET {calculatePacketHash(p)} : keeps = {}
  OBVIOUS
<1>3. \/ Does(n, <<calculatePacketHash(p)>>, routeRecvPacket(n, p), gives)
      \/ Does(n, <<calculatePacketHash(p)>>, routeRecvPacket(n, p), keeps)
      \/ Does(n, <<calculatePacketHash(p)>>, none, keeps)
  BY DEF RecvGroup, RecvAdvert, RecvForOther
<1>4. CASE Does(n, <<calculatePacketHash(p)>>, routeRecvPacket(n, p), gives)
  BY <1>1, <1>2, <1>4, FirstActsAlone
<1>5. CASE Does(n, <<calculatePacketHash(p)>>, routeRecvPacket(n, p), keeps)
  BY <1>1, <1>2, <1>5, FirstActsAlone
<1>6. CASE Does(n, <<calculatePacketHash(p)>>, none, keeps)
  BY <1>1, <1>6, FirstActsAlone
<1> QED BY <1>3, <1>4, <1>5, <1>6

LEMMA MultiAckOnce ==
  ASSUME NEW n \in Nodes, NEW p, Looked(n, p), RecvMultiAck(n, p)
  PROVE  HInv'
<1>1. First(n, p) /\ p.type # "TRACE"
  BY DEF RecvMultiAck
<1> PICK none \in SUBSET PacketSet : none = {}
  OBVIOUS
<1> PICK keeps \in SUBSET {calculatePacketHash(p)} : keeps = {}
  OBVIOUS
<1>2. Does(n, <<calculatePacketHash(p)>>, none, keeps)
  BY DEF RecvMultiAck
<1> QED BY <1>1, <1>2, FirstActsAlone

LEMMA AckOnce ==
  ASSUME NEW n \in Nodes, NEW p, Looked(n, p), RecvAck(n, p)
  PROVE  HInv'
<1>1. TypeInv /\ p \in PacketSet /\ First(n, p) /\ p.type = "ACK"
  BY LookedAt DEF RecvAck
<1> DEFINE q == AfterAck(n, p)
           onwards == routeRecvPacket(n, q)
<1>2. q = IF Accepts(n, p) THEN markDoNotRetransmit(p) ELSE p
  BY DEF AfterAck
<1>3. Accepts(n, p) => ~isRouteFlood(q)
  BY <1>1, <1>2 DEF markDoNotRetransmit, isRouteFlood, PacketSet
<1> PICK reply \in SUBSET PacketSet : reply = {}
  OBVIOUS
<1> PICK keeps \in SUBSET {calculatePacketHash(p)} : keeps = {}
  OBVIOUS
<1>4. Does(n, <<calculatePacketHash(p)>> \o SetToSeq({HashAsSent(r) : r \in reply}), onwards, keeps)
  BY <1>3 DEF RecvAck
<1> DEFINE more == SetToSeq({HashAsSent(r) : r \in reply})
<1>5. more \in Seq(Digests)
  BY FS_EmptySet, MarksTyped
<1>6. onwards \in SUBSET PacketSet
      /\ \A r \in onwards : calculatePacketHash(r) = calculatePacketHash(p) /\ r.type # "MULTI"
  <2>1. CASE Accepts(n, p)
    BY <1>3, <2>1 DEF routeRecvPacket
  <2>2. CASE ~Accepts(n, p)
    BY <1>1, <1>2, <2>2, OneOrNone, PassedOnHash
  <2> QED BY <2>1, <2>2
<1> HIDE DEF onwards, q, more
<1>7. Does(n, <<calculatePacketHash(p)>> \o more, onwards, keeps)
  BY <1>4 DEF more
<1> QED BY <1>1, <1>5, <1>6, <1>7, FirstActsOnce

\* A reply is made unique by the node's count, or is a multi-ack.
Unique(n, q) ==
  \/ q.type = "PATH" /\ q.body.from = n /\ q.body.no = made[n]
  \/ q.type = "ACK" /\ q.body.ack.to = n /\ q.body.no = made[n]
  \/ q.type = "MULTI" /\ net.multi_ackers # {}

LEMMA RepliesPlain ==
  ASSUME TypeInv, HashesOK, NEW n \in Nodes, NEW reply \in SUBSET PacketSet, IsFiniteSet(reply),
         \A q \in reply : Unique(n, q)
  PROVE  /\ SetToSeq({HashAsSent(r) : r \in reply}) \in Seq(Digests)
         /\ \A q \in reply : Plain(n, SetToSeq({HashAsSent(r) : r \in reply}), q)
<1> DEFINE more == SetToSeq({HashAsSent(r) : r \in reply})
<1>1. more \in Seq(Digests) /\ ToSet(more) = {HashAsSent(r) : r \in reply}
  BY MarksTyped
<1> HIDE DEF more
<1> SUFFICES ASSUME NEW q \in reply PROVE Plain(n, more, q)
  BY <1>1 DEF more
<1> PICK h : h = calculatePacketHash(q) /\ h[1] = q.type /\ h[2] = q.body
  BY HashSays
<1>2. q.type # "MULTI" => h \in ToSet(more)
  BY <1>1 DEF HashAsSent
<1>3. CASE q.type = "MULTI"
  BY <1>3 DEF Unique, Plain, Fresh, Repeated
<1>4. CASE q.type \in {"PATH", "ACK"}
  <2>1. h \notin sent[n]
    <3> SUFFICES ASSUME h \in sent[n] PROVE FALSE
      OBVIOUS
    <3>1. Used(h)
      BY DEF HashesOK
    <3>2. PICK count \in Nat : count = made[n]
      BY DEF TypeInv
    <3>3. h[2].no = count /\ h[2].no < count
      BY <1>4, <3>1, <3>2 DEF Unique, Used
    <3> QED BY <3>2, <3>3
  <2> QED BY <1>2, <1>4, <2>1 DEF Plain, Fresh
<1> QED BY <1>3, <1>4 DEF Unique

LEMMA DirectAcksFinite ==
  ASSUME NEW n, NEW path, NEW body
  PROVE  /\ IsFiniteSet(DirectAcks(n, path, body))
         /\ \A q \in DirectAcks(n, path, body) :
              /\ q.body = body /\ q.type \in {"ACK", "MULTI"}
              /\ q.type = "MULTI" => n \in net.multi_ackers
<1>1. IsFiniteSet({Direct("ACK", path, body)}) /\ IsFiniteSet({})
  BY FS_Singleton, FS_EmptySet
<1>2. IsFiniteSet({Direct("ACK", path, body)} \cup {Direct("MULTI", path, body)})
  BY <1>1, FS_AddElement
<1>3. \/ DirectAcks(n, path, body) = {Direct("ACK", path, body)}
      \/ DirectAcks(n, path, body) = {Direct("ACK", path, body)} \cup {Direct("MULTI", path, body)}
  BY DEF DirectAcks
<1> QED BY <1>1, <1>2, <1>3 DEF DirectAcks, Direct, Packet

\* An answer to a packet that the ring did not know.
LEMMA AnswerOnce ==
  ASSUME NEW n \in Nodes, NEW p, Looked(n, p), First(n, p), p.type # "TRACE",
         NEW reply, IsFiniteSet(reply), \A q \in reply : Unique(n, q),
         NEW gives \in SUBSET {calculatePacketHash(p)},
         Does(n, <<calculatePacketHash(p)>> \o SetToSeq({HashAsSent(r) : r \in reply}), reply, gives)
  PROVE  HInv'
<1>1. reply \in SUBSET PacketSet
  <2>1. queue' = [queue EXCEPT ![n] = @ \cup reply]
    BY DEF Does
  <2>2. reply \subseteq queue'[n]
    BY <2>1, LookedAt DEF TypeInv
  <2> QED BY <2>2, LookedAt DEF IInv, TypeInv
<1> DEFINE more == SetToSeq({HashAsSent(r) : r \in reply})
<1>2. more \in Seq(Digests) /\ \A q \in reply : Plain(n, more, q)
  BY <1>1, LookedAt, RepliesPlain
<1> HIDE DEF more
<1>3. Does(n, <<calculatePacketHash(p)>> \o more, reply, gives)
  BY DEF more
<1> QED BY <1>1, <1>2, <1>3, FirstActsOnce

\* What a node answers to a text, and to a path.
TextReply(n, p) ==
  IF isRouteFlood(p) THEN {Flood("PATH", PathReturn(n, p.body.from, p.path, p.body, made[n]))}
                     ELSE AckTo(n, p.body)

PathReply(n, p) ==
  IF isRouteFlood(p)
    THEN {Direct("PATH", p.body.path, PathReturn(n, p.body.from, p.path, NoAck, made[n]))}
    ELSE {}

LEMMA TextAnswered ==
  ASSUME NEW n \in Nodes, NEW p, p.body.to = n
  PROVE  IsFiniteSet(TextReply(n, p)) /\ \A q \in TextReply(n, p) : Unique(n, q)
<1> PICK reply : reply = TextReply(n, p)
  OBVIOUS
<1>1. CASE isRouteFlood(p)
  <2>1. PICK q : reply = {q} /\ q = Flood("PATH", PathReturn(n, p.body.from, p.path, p.body, made[n]))
    BY <1>1 DEF TextReply
  <2>2. q.type = "PATH" /\ q.body.from = n /\ q.body.no = made[n]
    BY <2>1 DEF Flood, Packet, PathReturn
  <2>3. Unique(n, q) /\ IsFiniteSet({q})
    BY <2>2, FS_Singleton DEF Unique
  <2> QED BY <2>1, <2>3
<1>2. CASE ~isRouteFlood(p)
  <2> PICK body : body = Ack(p.body, made[n])
    OBVIOUS
  <2>1. body.ack = p.body /\ body.no = made[n]
    BY DEF Ack
  <2>2. reply = IF out_path[n][p.body.from] = Unknown THEN {Flood("ACK", body)}
                ELSE DirectAcks(n, out_path[n][p.body.from], body)
    BY <1>2 DEF AckTo, TextReply
  <2>3. CASE out_path[n][p.body.from] = Unknown
    <3>1. PICK q : reply = {q} /\ q = Flood("ACK", body)
      BY <2>2, <2>3
    <3>2. q.type = "ACK" /\ q.body = body
      BY <3>1 DEF Flood, Packet
    <3>3. Unique(n, q) /\ IsFiniteSet({q})
      BY <2>1, <3>2, FS_Singleton DEF Unique
    <3> QED BY <3>1, <3>3
  <2>4. CASE out_path[n][p.body.from] # Unknown
    <3> PICK route : route = out_path[n][p.body.from]
      OBVIOUS
    <3>1. reply = DirectAcks(n, route, body)
      BY <2>2, <2>4
    <3>2. \A q \in reply : /\ q.body = body /\ q.type \in {"ACK", "MULTI"}
                           /\ q.type = "MULTI" => n \in net.multi_ackers
      BY <3>1, DirectAcksFinite
    <3>3. \A q \in reply : Unique(n, q)
      BY <2>1, <3>2 DEF Unique
    <3>4. IsFiniteSet(DirectAcks(n, route, body))
      BY DirectAcksFinite
    <3> QED BY <3>1, <3>3, <3>4
  <2> QED BY <2>3, <2>4
<1> QED BY <1>1, <1>2

LEMMA PathAnswered ==
  ASSUME NEW n \in Nodes, NEW p
  PROVE  IsFiniteSet(PathReply(n, p)) /\ \A q \in PathReply(n, p) : Unique(n, q)
<1> PICK reply : reply = PathReply(n, p)
  OBVIOUS
<1>1. CASE isRouteFlood(p)
  <2>1. PICK q : /\ reply = {q}
                 /\ q = Direct("PATH", p.body.path, PathReturn(n, p.body.from, p.path, NoAck, made[n]))
    BY <1>1 DEF PathReply
  <2>2. q.type = "PATH" /\ q.body.from = n /\ q.body.no = made[n]
    BY <2>1 DEF Direct, Packet, PathReturn
  <2>3. Unique(n, q) /\ IsFiniteSet({q})
    BY <2>2, FS_Singleton DEF Unique
  <2> QED BY <2>1, <2>3
<1>2. CASE ~isRouteFlood(p)
  BY <1>2, FS_EmptySet DEF PathReply
<1> QED BY <1>1, <1>2

LEMMA TextOnce ==
  ASSUME NEW n \in Nodes, NEW p, Looked(n, p), RecvText(n, p)
  PROVE  HInv'
<1>1. p.type = "TXT" /\ p.body.to = n /\ First(n, p)
  BY DEF RecvText
<1> PICK reply : reply = TextReply(n, p) /\ IsFiniteSet(reply) /\ \A q \in reply : Unique(n, q)
  BY <1>1, TextAnswered
<1> PICK gives \in SUBSET {calculatePacketHash(p)} : gives = {calculatePacketHash(p)}
  OBVIOUS
<1>2. Does(n, <<calculatePacketHash(p)>> \o SetToSeq({HashAsSent(r) : r \in reply}), reply, gives)
  BY DEF RecvText, TextReply
<1> QED BY <1>1, <1>2, AnswerOnce

LEMMA PathOnce ==
  ASSUME NEW n \in Nodes, NEW p, Looked(n, p), RecvPath(n, p)
  PROVE  HInv'
<1>1. p.type = "PATH" /\ First(n, p)
  BY DEF RecvPath
<1> PICK reply : reply = PathReply(n, p) /\ IsFiniteSet(reply) /\ \A q \in reply : Unique(n, q)
  BY PathAnswered
<1> PICK gives \in SUBSET {calculatePacketHash(p)} : gives = {}
  OBVIOUS
<1>2. Does(n, <<calculatePacketHash(p)>> \o SetToSeq({HashAsSent(r) : r \in reply}), reply, gives)
  BY DEF RecvPath, PathReply
<1> QED BY <1>1, <1>2, AnswerOnce

LEMMA MarkedPacket ==
  ASSUME NEW p \in PacketSet
  PROVE  /\ markDoNotRetransmit(p) \in PacketSet
         /\ markDoNotRetransmit(p).body = p.body /\ markDoNotRetransmit(p).type = "0xFF"
<1> PICK q : q = markDoNotRetransmit(p)
  OBVIOUS
<1>1. q = [type |-> "0xFF", route |-> "direct", path |-> p.path, body |-> p.body]
  BY DEF markDoNotRetransmit, PacketSet
<1> QED BY <1>1 DEF PacketSet, Types

\* A direct packet is passed on by the node named first, once: an ack for which
\* multi-acks are sent comes twice, as itself and as a multi-ack.
LEMMA OnTheWayOnce ==
  ASSUME NEW n \in Nodes, NEW p, Looked(n, p), RecvOnTheWay(n, p)
  PROVE  HInv'
<1>1. /\ TypeInv /\ IInv' /\ HInv /\ Grows /\ HashesOK /\ p \in PacketSet /\ p \in inbox[n]
      /\ \A m \in Nodes : inbox'[m] \subseteq inbox[m]
  BY LookedAt DEF Looked, Looks
<1> PICK q \in PacketSet :
      /\ q = (IF p.type = "ACK" THEN AfterAck(n, p) ELSE p)
      /\ q.body = p.body /\ (q = p \/ q.type = "0xFF")
  <2>1. CASE p.type = "ACK" /\ Accepts(n, p)
    <3>1. PICK q \in PacketSet : q = markDoNotRetransmit(p) /\ q.body = p.body /\ q.type = "0xFF"
      BY <1>1, MarkedPacket
    <3> QED BY <2>1, <3>1 DEF AfterAck
  <2>2. CASE ~(p.type = "ACK" /\ Accepts(n, p))
    BY <1>1, <2>2 DEF AfterAck
  <2> QED BY <2>1, <2>2
<1> PICK next : next = removeSelfFromPath(q)
  OBVIOUS
<1>5. next.type = q.type /\ next.body = q.body
  BY DEF removeSelfFromPath, PacketSet
<1> PICK sends : sends = IF q.type \in {"ACK", "MULTI"} THEN DirectAcks(n, next.path, q.body) ELSE {next}
  OBVIOUS
<1>2. /\ OnTheWay(p)
      /\ \/ DoesNothing
         \/ Does(n, <<calculatePacketHash(q)>>, sends, {}) /\ ~wasSeen(n, q)
  BY Zenon DEF RecvOnTheWay
<1>3. CASE DoesNothing
  BY <1>3, IdleActsOnce
<1>4. CASE Does(n, <<calculatePacketHash(q)>>, sends, {}) /\ ~wasSeen(n, q)
  <2>1. sends \in SUBSET PacketSet
    <3>1. queue' = [queue EXCEPT ![n] = @ \cup sends]
      BY <1>4 DEF Does
    <3>2. sends \subseteq queue'[n]
      BY <1>1, <3>1 DEF TypeInv
    <3> QED BY <1>1, <3>2 DEF IInv, TypeInv
  <2>2. q.type # "TRACE"
    BY <1>2 DEF OnTheWay
  <2> PICK h \in Digests : h = calculatePacketHash(q) /\ h = <<q.type, q.body>>
    BY <2>2, HashTyped DEF calculatePacketHash
  <2> PICK marks \in Seq(Digests) : marks = <<h>> /\ ToSet(marks) = {h}
    BY MarksHave, Zenon
  <2>3. Excused(n, h) \/ Repeated(h) \/ h \notin sent[n]
    BY <1>1, <1>4, <2>2, NotYet
  <2>4. ASSUME NEW r \in sends
        PROVE  Plain(n, marks, r)
    <3>1. CASE q.type \in {"ACK", "MULTI"}
      <4>1. /\ r.body = q.body /\ r.type \in {"ACK", "MULTI"}
            /\ r.type = "MULTI" => net.multi_ackers # {}
        BY <2>4, <3>1, DirectAcksFinite
      <4>2. PICK g : g = calculatePacketHash(r) /\ g = <<r.type, r.body>>
        BY <4>1 DEF calculatePacketHash
      <4>3. CASE net.multi_ackers # {}
        BY <4>1, <4>2, <4>3 DEF Plain, Fresh, Repeated
      <4>4. CASE net.multi_ackers = {}
        <5>1. p.type # "MULTI"
          BY <1>1, <4>4 DEF HashesOK, NoMulti
        <5>2. g = h
          BY <3>1, <4>1, <4>2, <4>4, <5>1
        <5> QED BY <2>3, <4>1, <4>2, <4>4, <5>2 DEF Plain, Fresh
      <4> QED BY <4>3, <4>4
    <3>2. CASE q.type \notin {"ACK", "MULTI"}
      <4>1. r.type = q.type /\ r.body = q.body
        BY <1>5, <2>4, <3>2
      <4>2. calculatePacketHash(r) = h
        BY <2>2, <4>1 DEF calculatePacketHash
      <4> QED BY <2>2, <2>3, <3>2, <4>1, <4>2 DEF Plain, Fresh
    <3> QED BY <3>1, <3>2
  <2> PICK gives \in SUBSET Digests : gives = {}
    OBVIOUS
  <2>5. Does(n, marks, sends, gives)
    BY <1>4
  <2> QED BY <1>1, <2>1, <2>4, <2>5, ActOnce
<1> QED BY <1>2, <1>3, <1>4

\* How far a trace has come tells its copies apart.
LEMMA SamePacket ==
  ASSUME NEW p \in PacketSet, NEW q \in PacketSet, Known(p), Known(q), SameTrace(p, q),
         Len(p.path) = Len(q.path)
  PROVE  p = q
<1>1. p.path \in Seq({"snr"}) /\ q.path \in Seq({"snr"}) /\ p.route = q.route
  BY DEF Known, SameTrace
<1>2. PICK s \in Seq({"snr"}), t \in Seq({"snr"}) : s = p.path /\ t = q.path
  BY <1>1
<1>3. s = t
  <2>1. /\ s \in [1..Len(s) -> {"snr"}] /\ t \in [1..Len(t) -> {"snr"}] /\ Len(s) = Len(t)
    BY <1>2
  <2> QED BY <2>1
<1>4. /\ p = [type |-> p.type, route |-> p.route, path |-> p.path, body |-> p.body]
      /\ q = [type |-> q.type, route |-> q.route, path |-> q.path, body |-> q.body]
  BY DEF PacketSet
<1>5. p.type = q.type /\ p.body = q.body /\ p.path = q.path
  BY <1>2, <1>3 DEF SameTrace
<1> QED BY <1>1, <1>4, <1>5

\* A trace may be at most as long as the path it follows.
LEMMA TraceLength ==
  ASSUME TypeInv, NEW p \in PacketSet, Known(p), p.type = "TRACE"
  PROVE  /\ Len(p.path) \in Nat /\ Len(p.body.hops) \in Nat /\ Len(p.path) <= Len(p.body.hops)
         /\ TraceEnds(p) => Len(p.path) = Len(p.body.hops)
<1>1. PICK u \in net.traffic : u.type = "TRACE" /\ u.body = p.body
  BY DEF Known, Sources
<1>2. Len(p.body.hops) \in Nat
  BY <1>1, ThisNetwork DEF TypeInv, Message
<1>3. PICK path \in Seq({"snr"}) : path = p.path
  BY DEF Known
<1>4. PICK k \in Nat, l \in Nat : k = Len(p.path) /\ l = Len(p.body.hops)
  BY <1>2, <1>3
<1>5. k <= l
  BY <1>4 DEF Known
<1>6. TraceEnds(p) => k >= l
  BY <1>4 DEF TraceEnds
<1> QED BY <1>4, <1>5, <1>6

\* The end of a trace is handed over once.
LEMMA TraceEndOnce ==
  ASSUME NEW n \in Nodes, NEW p, Looked(n, p), p.type = "TRACE", TraceEnds(p),
         Does(n, <<>>, {}, {calculatePacketHash(p)})
  PROVE  HInv'
<1>1. /\ TypeInv /\ IInv /\ HInv /\ Grows /\ HashesOK /\ TracesOK /\ ActsOnce /\ net' = net
      /\ p \in PacketSet /\ Known(p) /\ p \in inbox[n]
      /\ inbox' = [inbox EXCEPT ![n] = @ \ {p}]
      /\ \A m \in Nodes : inbox'[m] \subseteq inbox[m]
  BY LookedAt DEF Looked, Looks, HInv
<1> PICK h \in Digests :
      /\ h = calculatePacketHash(p) /\ Used(h)' /\ h[1] = "TRACE" /\ h[2] = p.body
      /\ h[3] = Len(p.path)
  <2>1. PICK h \in Digests : h = calculatePacketHash(p)
    BY LookedAt
  <2>2. h[1] = "TRACE" /\ h[2] = p.body /\ h[3] = Len(p.path)
    BY <1>1, <2>1, HashSays
  <2>3. Used(calculatePacketHash(p))'
    BY LookedAt
  <2>4. Used(h)'
    BY <2>1, <2>3 DEF calculatePacketHash
  <2> QED BY <2>1, <2>2, <2>4
<1> PICK marks \in Seq(Digests) : marks = <<>>
  BY Marks
<1> PICK none \in SUBSET PacketSet : none = {}
  OBVIOUS
<1> PICK gives \in SUBSET Digests : gives = {h}
  OBVIOUS
<1>2. Does(n, marks, none, gives)
  OBVIOUS
<1>3. /\ \A m \in Nodes : queue'[m] = queue[m]
      /\ \A m \in Nodes : handed'[m] = IF m = n THEN handed[m] \cup {h} ELSE handed[m]
  <2>1. /\ queue' = [queue EXCEPT ![n] = @ \cup none]
        /\ handed' = [handed EXCEPT ![n] = @ \cup gives]
    BY <1>2 DEF Does
  <2>2. queue \in [Nodes -> SUBSET PacketSet] /\ handed \in [Nodes -> SUBSET Digests]
    BY <1>1 DEF TypeInv, HashesTyped
  <2> QED BY <2>1, <2>2
<1>4. /\ Len(p.path) \in Nat /\ Len(p.body.hops) \in Nat /\ h[3] = Len(p.body.hops)
  BY <1>1, TraceLength
<1>5. \A m \in Nodes : /\ \A q \in queue[m] : q \in PacketSet /\ Known(q)
                       /\ \A q \in inbox[m] : q \in PacketSet /\ Known(q)
  BY <1>1 DEF IInv, TypeInv, PacketsOK
<1>6. Unshared => h \notin handed[n]
  <2> SUFFICES ASSUME Unshared, h \in handed[n] PROVE FALSE
    OBVIOUS
  <2>1. Len(p.path) < h[3]
    BY <1>1 DEF TracesOK, Over
  <2> PICK k \in Nat : k = Len(p.path) /\ k = h[3]
    BY <1>4
  <2> QED BY <2>1
<1>7. NoMulti'
  BY <1>1, <1>3 DEF NoMulti, HashesOK
<1>8. HashesOK' /\ ActsOnce'
  <2>1. \A g \in gives : Used(g)' /\ News(n, marks, g)
    <3> SUFFICES ASSUME NEW g \in gives PROVE Used(g)' /\ News(n, marks, g)
      OBVIOUS
    <3>1. g = h
      OBVIOUS
    <3> QED BY <1>6, <3>1 DEF News
  <2>2. \A q \in none : Known(q)' /\ Fresh(n, marks, q)
    OBVIOUS
  <2> QED BY <1>1, <1>2, <1>7, <2>1, <2>2, DoesOnce
<1>9. TracesOK'
  <2> SUFFICES ASSUME Unshared' PROVE OneQueued' /\ BehindQueued' /\ BehindDue' /\ Over'
    BY DEF TracesOK
  <2>1. OneQueued /\ BehindQueued /\ BehindDue /\ Over
    BY <1>1 DEF TracesOK, Unshared
  <2>2. \A m, q : Due(m, q)' <=> Due(m, q)
    BY <1>1 DEF Due, TraceEnds
  <2>3. OneQueued'
    BY <1>3, <2>1 DEF OneQueued, SameTrace
  <2>4. BehindQueued'
    BY <1>1, <1>3, <2>1, <2>2 DEF BehindQueued, SameTrace
  <2>5. BehindDue'
    BY <1>1, <2>1, <2>2 DEF BehindDue, SameTrace
  <2>6. ASSUME NEW m \in Nodes, NEW q \in queue[m], q.type = "TRACE", q.body = p.body
        PROVE  FALSE
    <3>1. Len(p.path) < Len(q.path)
      BY <1>1, <2>1, <2>6 DEF BehindQueued, SameTrace
    <3>2. q \in PacketSet /\ Known(q)
      BY <1>5, <2>6
    <3>3. Len(q.path) \in Nat /\ Len(q.path) <= Len(p.body.hops)
      BY <1>1, <2>6, <3>2, TraceLength
    <3>4. PICK k \in Nat, l \in Nat : k = Len(p.path) /\ l = Len(q.path) /\ h[3] = k
      BY <1>4, <3>3
    <3> QED BY <1>4, <3>1, <3>3, <3>4
  <2>7. ASSUME NEW m \in Nodes, NEW q \in inbox'[m], q.type = "TRACE", q.body = p.body
        PROVE  ~Due(m, q) /\ (m = n => Len(q.path) < h[3])
    <3>1. q \in inbox[m] /\ q \in PacketSet /\ Known(q)
      BY <1>1, <1>5, <2>7
    <3>2. Len(q.path) \in Nat /\ Len(q.path) <= Len(p.body.hops)
      BY <1>1, <2>7, <3>1, TraceLength
    <3>3. PICK k \in Nat, l \in Nat : k = Len(p.path) /\ l = Len(q.path) /\ h[3] = k /\ l <= k
      BY <1>4, <3>2
    <3>4. ~Due(m, q)
      <4> SUFFICES ASSUME Due(m, q) PROVE FALSE
        OBVIOUS
      <4>1. k <= l
        BY <1>1, <2>1, <2>7, <3>1, <3>3 DEF BehindDue, SameTrace
      <4>2. ~(l >= k)
        BY <1>4, <2>7, <3>3 DEF Due, TraceEnds
      <4> QED BY <4>1, <4>2, <3>3
    <3>5. m = n => l # k
      <4> SUFFICES ASSUME m = n, l = k PROVE FALSE
        OBVIOUS
      <4>1. q = p
        BY <1>1, <2>7, <3>1, <3>3, SamePacket DEF SameTrace
      <4> QED BY <1>1, <2>7, <4>1 DEF TypeInv
    <3> QED BY <3>3, <3>4, <3>5
  <2>8. Over'
    <3> SUFFICES ASSUME NEW m \in Nodes, NEW g \in handed'[m], g[1] = "TRACE"
                 PROVE  /\ g[3] = Len(g[2].hops)
                        /\ \A x \in Nodes : \A q \in queue'[x] : ~(q.type = "TRACE" /\ q.body = g[2])
                        /\ \A x \in Nodes : \A q \in inbox'[x] : q.type = "TRACE" /\ q.body = g[2] =>
                             ~Due(x, q)' /\ (x = m => Len(q.path) < g[3])
      BY DEF Over
    <3>1. CASE g \in handed[m]
      BY <1>1, <1>3, <2>1, <2>2, <3>1 DEF Over
    <3>2. CASE g \notin handed[m]
      <4>1. g = h /\ m = n
        <5>1. handed'[m] = IF m = n THEN handed[m] \cup {h} ELSE handed[m]
          BY <1>3
        <5> QED BY <3>2, <5>1
      <4> QED BY <1>3, <1>4, <2>2, <2>6, <2>7, <4>1
    <3> QED BY <3>1, <3>2
  <2> QED BY <2>3, <2>4, <2>5, <2>8
<1> QED BY <1>8, <1>9 DEF HInv

\* The node a trace is for next passes it on, and no copy before it is due again.
LEMMA TracePassedOnce ==
  ASSUME NEW n \in Nodes, NEW p, Looked(n, p), p.type = "TRACE", ~TraceEnds(p),
         TracePassesOn(n, p),
         Does(n, <<calculatePacketHash(p)>>, {[p EXCEPT !.path = Append(@, "snr")]}, {})
  PROVE  HInv'
<1>1. /\ TypeInv /\ IInv /\ IInv' /\ HInv /\ Grows /\ HashesOK /\ TracesOK /\ ActsOnce /\ net' = net
      /\ p \in PacketSet /\ Known(p) /\ p \in inbox[n]
      /\ inbox' = [inbox EXCEPT ![n] = @ \ {p}]
      /\ \A m \in Nodes : inbox'[m] \subseteq inbox[m]
  BY LookedAt DEF Looked, Looks, HInv
<1> PICK q : q = [p EXCEPT !.path = Append(@, "snr")]
  OBVIOUS
<1>2. PICK k \in Nat : k = Len(p.path) /\ Len(q.path) = k + 1
  <2>1. PICK path \in Seq({"snr"}) : path = p.path
    BY <1>1 DEF Known
  <2>2. q = [type |-> p.type, route |-> p.route, path |-> Append(path, "snr"), body |-> p.body]
    BY <1>1, <2>1 DEF PacketSet
  <2>3. Len(Append(path, "snr")) = Len(path) + 1 /\ Len(path) \in Nat
    OBVIOUS
  <2> QED BY <2>1, <2>2, <2>3
<1>3. q.type = "TRACE" /\ q.body = p.body
  BY <1>1 DEF PacketSet
<1> PICK h \in Digests :
      /\ h = calculatePacketHash(p) /\ h = <<"TRACE", p.body, k>>
  BY <1>1, <1>2, HashTyped DEF calculatePacketHash
<1> PICK marks \in Seq(Digests) : marks = <<h>> /\ ToSet(marks) = {h}
  BY MarksHave, Zenon
<1>4. /\ queue' = [queue EXCEPT ![n] = @ \cup {q}]
      /\ handed' = [handed EXCEPT ![n] = @ \cup {}]
  BY DEF Does
<1>5. /\ \A m \in Nodes : queue'[m] = IF m = n THEN queue[m] \cup {q} ELSE queue[m]
      /\ \A m \in Nodes : handed'[m] = handed[m]
  BY <1>1, <1>4 DEF TypeInv, HashesTyped
<1>6. q \in PacketSet /\ Known(q)'
  BY <1>1, <1>5 DEF IInv, TypeInv, PacketsOK
<1> PICK sends \in SUBSET PacketSet : sends = {q}
  BY <1>6
<1> PICK gives \in SUBSET Digests : gives = {}
  OBVIOUS
<1>7. Does(n, marks, sends, gives)
  OBVIOUS
<1>8. Fresh(n, marks, q)
  <2>1. <<q.type, q.body, Len(q.path) - 1>> = h
    BY <1>2, <1>3
  <2>2. calculatePacketHash(q) = <<"TRACE", p.body, k + 1>>
    BY <1>2, <1>3 DEF calculatePacketHash
  <2>3. Excused(n, calculatePacketHash(q)) \/ calculatePacketHash(q) \notin sent[n]
    <3> SUFFICES ASSUME n \notin forgot, calculatePacketHash(q) \in sent[n] \ before[n] PROVE FALSE
      BY DEF Excused
    <3>1. PICK g \in sent[n] \ before[n] : g = <<"TRACE", p.body, k + 1>>
      BY <2>2
    <3>2. g[1] = "TRACE" /\ g[3] > 0 /\ <<g[1], g[2], g[3] - 1>> = h
      BY <3>1
    <3>3. h \in ToSet(seen[n])
      BY <1>1, <3>1, <3>2 DEF HashesOK, InRing
    <3> QED BY <3>3 DEF TracePassesOn, wasSeen
  <2> QED BY <1>3, <2>1, <2>3 DEF Fresh
<1>9. NoMulti'
  BY <1>1, <1>3, <1>5, ZenonT(60) DEF NoMulti, HashesOK
<1>10. HashesOK' /\ ActsOnce'
  <2>1. \A r \in sends : Known(r)' /\ Fresh(n, marks, r)
    BY <1>6, <1>8
  <2>2. \A g \in gives : Used(g)' /\ News(n, marks, g)
    OBVIOUS
  <2> QED BY <1>1, <1>7, <1>9, <2>1, <2>2, DoesOnce
<1>11. Due(n, p)
  BY <1>1 DEF TracePassesOn, Due, allowPacketForward
<1>12. TracesOK'
  <2> SUFFICES ASSUME Unshared' PROVE OneQueued' /\ BehindQueued' /\ BehindDue' /\ Over'
    BY DEF TracesOK
  <2>1. OneQueued /\ BehindQueued /\ BehindDue /\ Over /\ Unshared
    BY <1>1 DEF TracesOK, Unshared
  <2>2. \A m, r : Due(m, r)' <=> Due(m, r)
    BY <1>1 DEF Due, TraceEnds
  <2>3. ASSUME NEW m \in Nodes, NEW r \in queue[m] PROVE ~SameTrace(r, p)
    BY <1>1, <1>11, <2>1, <2>3 DEF BehindQueued, SameTrace
  <2>4. OneQueued'
    <3> SUFFICES ASSUME NEW x \in Nodes, NEW m \in Nodes, NEW s \in queue'[x], NEW r \in queue'[m],
                        SameTrace(s, r)
                 PROVE  x = m /\ s = r
      BY DEF OneQueued, SameTrace
    <3>1. (s \in queue[x] \/ (x = n /\ s = q)) /\ (r \in queue[m] \/ (m = n /\ r = q))
      BY <1>5
    <3>2. CASE s \in queue[x] /\ r \in queue[m]
      BY <2>1, <3>2 DEF OneQueued
    <3>3. CASE s \in queue[x] /\ r = q
      BY <1>1, <1>3, <2>3, <3>3 DEF SameTrace
    <3>4. CASE s = q /\ r \in queue[m]
      BY <1>1, <1>3, <2>3, <3>4 DEF SameTrace
    <3> QED BY <3>1, <3>2, <3>3, <3>4
  <2>5. ASSUME NEW m \in Nodes, NEW r \in inbox'[m], SameTrace(p, r)
        PROVE  Len(r.path) < Len(q.path) /\ ~Due(m, r)
    <3>1. r \in inbox[m] /\ r \in PacketSet /\ Known(r)
      BY <1>1, <2>5 DEF IInv, TypeInv, PacketsOK
    <3>2. PICK l \in Nat : l = Len(r.path)
      BY <1>1, <2>5, <3>1, TraceLength DEF SameTrace
    <3>3. l <= k
      BY <1>1, <1>2, <1>11, <2>1, <2>5, <3>1, <3>2 DEF BehindDue
    <3>4. ~Due(m, r)
      <4> SUFFICES ASSUME Due(m, r) PROVE FALSE
        OBVIOUS
      <4>1. k <= l
        BY <1>1, <1>2, <2>1, <2>5, <3>1, <3>2 DEF BehindDue, SameTrace
      <4>2. r = p
        <5>1. Len(p.path) = Len(r.path)
          BY <1>2, <3>2, <3>3, <4>1
        <5> QED BY <1>1, <2>5, <3>1, <5>1, SamePacket
      <4>3. m = n
        BY <1>11, <2>1, <4>2 DEF Due, Unshared
      <4> QED BY <1>1, <2>5, <4>2, <4>3 DEF TypeInv
    <3> QED BY <1>2, <3>2, <3>3, <3>4
  <2>6. BehindQueued'
    <3> SUFFICES ASSUME NEW x \in Nodes, NEW m \in Nodes, NEW s \in queue'[x], NEW r \in inbox'[m],
                        SameTrace(s, r)
                 PROVE  Len(r.path) < Len(s.path) /\ ~Due(m, r)
      BY <2>2 DEF BehindQueued, SameTrace
    <3>1. CASE s \in queue[x]
      BY <1>1, <2>1, <3>1 DEF BehindQueued
    <3>2. CASE s = q
      BY <1>1, <1>3, <2>5, <3>2 DEF SameTrace
    <3> QED BY <1>5, <3>1, <3>2
  <2>7. BehindDue'
    BY <1>1, <2>1, <2>2 DEF BehindDue, SameTrace
  <2>8. Over'
    <3> SUFFICES ASSUME NEW m \in Nodes, NEW g \in handed'[m], g[1] = "TRACE"
                 PROVE  /\ g[3] = Len(g[2].hops)
                        /\ \A x \in Nodes : \A r \in queue'[x] : ~(r.type = "TRACE" /\ r.body = g[2])
                        /\ \A x \in Nodes : \A r \in inbox'[x] : r.type = "TRACE" /\ r.body = g[2] =>
                             ~Due(x, r)' /\ (x = m => Len(r.path) < g[3])
      BY DEF Over
    <3>1. g \in handed[m]
      BY <1>5
    <3>2. g[2] # p.body
      BY <1>1, <1>11, <2>1, <3>1 DEF Over
    <3>3. /\ g[3] = Len(g[2].hops)
          /\ \A x \in Nodes : \A r \in queue[x] : ~(r.type = "TRACE" /\ r.body = g[2])
          /\ \A x \in Nodes : \A r \in inbox[x] : r.type = "TRACE" /\ r.body = g[2] =>
               ~Due(x, r) /\ (x = m => Len(r.path) < g[3])
      BY <2>1, <3>1 DEF Over
    <3>4. \A x \in Nodes : \A r \in queue'[x] : ~(r.type = "TRACE" /\ r.body = g[2])
      <4> SUFFICES ASSUME NEW x \in Nodes, NEW r \in queue'[x], r.type = "TRACE", r.body = g[2]
                   PROVE  FALSE
        OBVIOUS
      <4>1. r \in queue[x] \/ r = q
        BY <1>5, ZenonT(60)
      <4> QED BY <1>3, <3>2, <3>3, <4>1
    <3>5. \A x \in Nodes : \A r \in inbox'[x] : r.type = "TRACE" /\ r.body = g[2] =>
            ~Due(x, r)' /\ (x = m => Len(r.path) < g[3])
      BY <1>1, <2>2, <3>3
    <3> QED BY <3>3, <3>4, <3>5
  <2> QED BY <2>4, <2>6, <2>7, <2>8
<1> QED BY <1>10, <1>12 DEF HInv

LEMMA ReceiveOnce ==
  ASSUME IInv, HInv, NEW n \in Nodes, NEW p \in inbox[n], Receive(n, p)
  PROVE  HInv'
<1>1. Looks(n, p) /\ onRecvPacket(n, p)
  BY DEF Receive, Looks
<1>2. Looked(n, p)
  BY <1>1, ReceiveKeeps DEF Looked
<1>3. CASE RecvTrace(n, p)
  BY <1>2, <1>3, TraceEndOnce, TracePassedOnce, IdleActsOnce DEF RecvTrace
<1>4. CASE RecvOwnAdvert(n, p) \/ RecvAgain(n, p)
  BY <1>2, <1>4, IdleActsOnce DEF RecvOwnAdvert, RecvAgain
<1> QED BY <1>1, <1>2, <1>3, <1>4, OnTheWayOnce, AckOnce, MultiAckOnce, TextOnce, PathOnce, GroupOnce
        DEF onRecvPacket

LEMMA TransmitOnce ==
  ASSUME IInv, HInv, NEW n \in Nodes, NEW p \in queue[n], Transmit(n, p)
  PROVE  HInv'
<1>1. /\ TypeInv /\ HashesOK /\ TracesOK /\ ActsOnce /\ Grows /\ net' = net
      /\ UNCHANGED <<seen, history>> /\ handed' = handed
  BY TransmitKeeps DEF IInv, HInv, Transmit, Grows, history
<1>2. PICK heard \in SUBSET Neighbours(n) :
         inbox' = [m \in Nodes |-> IF m \in heard /\ Readable(p) THEN inbox[m] \cup {p} ELSE inbox[m]]
  BY DEF Transmit
<1>3. /\ \A m \in Nodes : \A q \in queue'[m] : q \in queue[m] /\ (m = n => q # p)
      /\ \A m \in Nodes : \A q \in inbox'[m] : q \in inbox[m] \/ q = p
  BY <1>1, <1>2 DEF Transmit, TypeInv
<1>4. NoMulti'
  BY <1>1, <1>3 DEF NoMulti, HashesOK
<1>5. HashesOK' /\ ActsOnce'
  BY <1>1, <1>4, HashesStay
<1>6. CASE p.type # "TRACE"
  <2>1. TracesOK'
    BY <1>1, <1>3, <1>6, TracesKeep
  <2> QED BY <1>5, <2>1 DEF HInv
<1>7. CASE p.type = "TRACE"
  <2> SUFFICES ASSUME Unshared' PROVE OneQueued' /\ BehindQueued' /\ BehindDue' /\ Over'
    BY <1>5 DEF TracesOK, HInv
  <2>1. OneQueued /\ BehindQueued /\ BehindDue /\ Over
    BY <1>1 DEF TracesOK, Unshared
  <2>2. \A m, r : Due(m, r)' <=> Due(m, r)
    BY <1>1 DEF Due, TraceEnds
  <2>3. OneQueued'
    BY <1>3, <2>1 DEF OneQueued, SameTrace
  <2>4. BehindQueued'
    <3> SUFFICES ASSUME NEW x \in Nodes, NEW m \in Nodes, NEW s \in queue'[x], NEW r \in inbox'[m],
                        SameTrace(s, r)
                 PROVE  Len(r.path) < Len(s.path) /\ ~Due(m, r)
      BY <2>2 DEF BehindQueued, SameTrace
    <3>1. r # p
      BY <1>3, <2>1 DEF OneQueued
    <3> QED BY <1>3, <2>1, <3>1 DEF BehindQueued
  <2>5. BehindDue'
    <3> SUFFICES ASSUME NEW x \in Nodes, NEW m \in Nodes, NEW s \in inbox'[x], NEW r \in inbox'[m],
                        SameTrace(s, r), Due(x, s)
                 PROVE  Len(r.path) <= Len(s.path)
      BY <2>2 DEF BehindDue, SameTrace
    <3>1. CASE s \in inbox[x] /\ r \in inbox[m]
      BY <2>1, <3>1 DEF BehindDue
    <3>2. CASE s = p /\ r \in inbox[m]
      <4>1. Len(r.path) < Len(p.path)
        BY <2>1, <3>2 DEF BehindQueued
      <4>2. p \in PacketSet /\ Known(p) /\ r \in PacketSet /\ Known(r)
        BY <3>2 DEF IInv, TypeInv, PacketsOK
      <4>3. Len(p.path) \in Nat /\ Len(r.path) \in Nat
        BY <1>1, <3>2, <4>2, TraceLength DEF SameTrace
      <4> QED BY <3>2, <4>1, <4>3
    <3>3. CASE s \in inbox[x] /\ r = p
      BY <2>1, <3>3 DEF BehindQueued, SameTrace
    <3>4. CASE s = p /\ r = p
      <4>1. Len(p.path) \in Nat
        BY <1>1, <1>7, TraceLength DEF IInv, TypeInv, PacketsOK
      <4> QED BY <3>4, <4>1
    <3> QED BY <1>3, <3>1, <3>2, <3>3, <3>4
  <2>6. Over'
    <3> SUFFICES ASSUME NEW m \in Nodes, NEW g \in handed[m], g[1] = "TRACE"
                 PROVE  /\ g[3] = Len(g[2].hops)
                        /\ \A x \in Nodes : \A r \in queue'[x] : ~(r.type = "TRACE" /\ r.body = g[2])
                        /\ \A x \in Nodes : \A r \in inbox'[x] : r.type = "TRACE" /\ r.body = g[2] =>
                             ~Due(x, r)' /\ (x = m => Len(r.path) < g[3])
      BY <1>1 DEF Over
    <3>1. /\ g[3] = Len(g[2].hops) /\ p.body # g[2]
          /\ \A x \in Nodes : \A r \in queue[x] : ~(r.type = "TRACE" /\ r.body = g[2])
          /\ \A x \in Nodes : \A r \in inbox[x] : r.type = "TRACE" /\ r.body = g[2] =>
               ~Due(x, r) /\ (x = m => Len(r.path) < g[3])
      BY <1>7, <2>1 DEF Over
    <3>2. ASSUME NEW x \in Nodes, NEW r \in inbox'[x], r.type = "TRACE", r.body = g[2]
          PROVE  ~Due(x, r)' /\ (x = m => Len(r.path) < g[3])
      <4>1. r \in inbox[x]
        BY <1>3, <3>1, <3>2
      <4> QED BY <2>2, <3>1, <3>2, <4>1
    <3> QED BY <1>3, <3>1, <3>2
  <2> QED BY <2>3, <2>4, <2>5, <2>6
<1> QED BY <1>6, <1>7

LEMMA RestartOnce ==
  ASSUME IInv, HInv, NEW n \in Nodes, Restart(n)
  PROVE  HInv'
<1>1. /\ TypeInv /\ HashesOK /\ TracesOK /\ ActsOnce /\ Grows /\ net' = net
      /\ twice' = twice /\ forgot' = forgot /\ sent' = sent /\ handed' = handed
      /\ seen' = [seen EXCEPT ![n] = <<>>]
      /\ before' = [before EXCEPT ![n] = @ \cup sent[n] \cup handed[n]]
  BY RestartKeeps DEF IInv, HInv, Restart, Grows
<1>2. /\ \A m \in Nodes : queue'[m] \subseteq queue[m] /\ inbox'[m] \subseteq inbox[m]
      /\ \A m \in Nodes : handed'[m] \subseteq handed[m] /\ sent'[m] \subseteq sent[m]
  BY <1>1 DEF Restart, TypeInv, HashesTyped
<1>3. TracesOK'
  BY <1>1, <1>2, TracesKeep
<1>4. ASSUME NEW m \in Nodes, NEW h \in sent'[m] \cup handed'[m] PROVE Used(h)'
  <2>1. h \in sent[m] \cup handed[m]
    BY <1>2, <1>4
  <2> QED BY <1>1, <2>1, UsedStays DEF HashesOK
<1>5. ASSUME NEW m \in Nodes, m \notin forgot' PROVE InRing(m)'
  <2>1. CASE m = n
    <3>1. sent'[n] \ before'[n] = {} /\ handed'[n] \ before'[n] = {}
      BY <1>1 DEF TypeInv, HashesTyped
    <3> QED BY <2>1, <3>1 DEF InRing
  <2>2. CASE m # n
    <3>1. sent'[m] = sent[m] /\ handed'[m] = handed[m] /\ seen'[m] = seen[m] /\ before'[m] = before[m]
      BY <1>1, <2>2 DEF TypeInv, HashesTyped
    <3>2. InRing(m)
      BY <1>1, <1>5 DEF HashesOK
    <3> QED BY <1>1, <3>1, <3>2 DEF InRing, Repeated
  <2> QED BY <2>1, <2>2
<1>6. NoMulti'
  BY <1>1, <1>2 DEF NoMulti, HashesOK
<1>7. ActsOnce'
  <2>1. \A w \in twice : w[1] \in Nodes /\ before[w[1]] \subseteq before'[w[1]]
    BY <1>1 DEF TypeInv, HashesTyped
  <2> QED BY <1>1, <2>1 DEF ActsOnce
<1> QED BY <1>3, <1>4, <1>5, <1>6, <1>7 DEF HInv, HashesOK

\* What an application sends was neither sent nor handed over before.
LEMMA OriginateOnce ==
  ASSUME IInv, HInv, NEW t \in todo, Originate(t)
  PROVE  HInv'
<1>1. /\ TypeInv /\ IInv' /\ HashesOK /\ TracesOK /\ ActsOnce /\ Grows /\ net' = net
      /\ inbox' = inbox /\ todo \subseteq net.traffic /\ net \in Networks
  BY OriginateKeeps DEF IInv, HInv, TypeInv, Originate, Grows
<1>2. Message(net, t)
  BY <1>1, ThisNetwork
<1> PICK n \in Nodes : n = t.body.from
  BY <1>2 DEF Message
<1>3. t = [type |-> t.type, body |-> t.body] /\ t.type \in Sources
  BY <1>2 DEF Message, Sources
<1> PICK q : /\ Sends(n, {q}) /\ q.type = t.type /\ q.body = t.body
             /\ t.type = "TRACE" => q.path = <<>>
  <2>1. CASE t.type = "TXT"
    <3> PICK q : /\ q = (IF out_path[n][t.body.to] = Unknown THEN Flood("TXT", t.body)
                         ELSE Direct("TXT", out_path[n][t.body.to], t.body))
                 /\ Sends(n, {q})
      BY <2>1 DEF Originate, SendText
    <3>1. q.type = "TXT" /\ q.body = t.body
      BY DEF Flood, Direct, Packet
    <3> QED BY <2>1, <3>1
  <2>2. CASE t.type = "TRACE"
    <3> PICK q : q = Direct("TRACE", <<>>, t.body) /\ Sends(n, {q})
      BY <2>2 DEF Originate
    <3>1. q.type = "TRACE" /\ q.body = t.body /\ q.path = <<>>
      BY DEF Direct, Packet
    <3> QED BY <2>2, <3>1
  <2>3. CASE t.type \in {"GRP", "ADVERT"}
    <3> PICK q : q = Flood(t.type, t.body) /\ Sends(n, {q})
      BY <2>3 DEF Originate
    <3>1. q.type = t.type /\ q.body = t.body
      BY DEF Flood, Packet
    <3> QED BY <2>3, <3>1
  <2> QED BY <1>3, <2>1, <2>2, <2>3 DEF Sources
<1>4. /\ \A m \in Nodes : queue'[m] = IF m = n THEN queue[m] \cup {q} ELSE queue[m]
      /\ handed' = handed
  <2>1. queue' = [queue EXCEPT ![n] = @ \cup {q}] /\ handed' = [handed EXCEPT ![n] = @ \cup {}]
    BY DEF Sends, Does
  <2> QED BY <1>1, <2>1 DEF TypeInv, HashesTyped
<1>5. q \in PacketSet /\ Known(q)'
  BY <1>1, <1>4 DEF IInv, TypeInv, PacketsOK
<1> PICK sends \in SUBSET PacketSet : sends = {q}
  BY <1>5
<1> PICK gives \in SUBSET Digests : gives = {}
  OBVIOUS
<1> PICK h \in Digests : h = calculatePacketHash(q) /\ h[1] = q.type /\ h[2] = q.body
  BY <1>5, HashTyped, HashSays
<1> DEFINE marks == SetToSeq({HashAsSent(r) : r \in sends})
<1>6. marks \in Seq(Digests) /\ ToSet(marks) = {h}
  <2>1. marks \in Seq(Digests) /\ ToSet(marks) = {HashAsSent(r) : r \in sends}
    BY FS_Singleton, MarksTyped
  <2>2. HashAsSent(q) = h
    BY <1>3 DEF HashAsSent, Sources
  <2> QED BY <2>1, <2>2
<1>7. Does(n, marks, sends, gives)
  BY DEF Sends
<1> HIDE DEF marks
<1>8. h \notin sent[n]
  BY <1>1, <1>3 DEF HashesOK, Used
<1>9. Fresh(n, marks, q)
  BY <1>3, <1>6, <1>8 DEF Fresh
<1>10. CASE t.type # "TRACE"
  <2>1. \A r \in sends : Plain(n, marks, r)
    BY <1>3, <1>9, <1>10 DEF Plain, Sources
  <2>2. \A g \in gives : g[1] # "TRACE" /\ Used(g)' /\ News(n, marks, g)
    OBVIOUS
  <2>3. \A m \in Nodes : inbox'[m] \subseteq inbox[m]
    BY <1>1
  <2> QED BY <1>1, <1>6, <1>7, <2>1, <2>2, <2>3, ActOnce
<1>11. CASE t.type = "TRACE"
  <2>1. NoMulti'
    BY <1>1, <1>4, <1>11, ZenonT(60) DEF NoMulti, HashesOK
  <2>2. HashesOK' /\ ActsOnce'
    <3>1. \A r \in sends : Known(r)' /\ Fresh(n, marks, r)
      BY <1>5, <1>9
    <3>2. \A g \in gives : Used(g)' /\ News(n, marks, g)
      OBVIOUS
    <3> QED BY <1>1, <1>6, <1>7, <2>1, <3>1, <3>2, DoesOnce
  <2>3. \A m \in Nodes : \A r \in queue[m] \cup inbox[m] : ~SameTrace(q, r) /\ ~SameTrace(r, q)
    BY <1>1, <1>3, <1>11, SMTT(30) DEF IInv, PacketsOK, Known, SameTrace
  <2>4. \A m \in Nodes : \A g \in handed[m] : ~(g[1] = "TRACE" /\ g[2] = q.body)
    BY <1>1, <1>3, <1>11 DEF HashesOK, Used
  <2>5. TracesOK'
    <3> SUFFICES ASSUME Unshared' PROVE OneQueued' /\ BehindQueued' /\ BehindDue' /\ Over'
      BY DEF TracesOK
    <3>1. OneQueued /\ BehindQueued /\ BehindDue /\ Over
      BY <1>1 DEF TracesOK, Unshared
    <3>2. \A m, r : Due(m, r)' <=> Due(m, r)
      BY <1>1 DEF Due, TraceEnds
    <3>3. \A m \in Nodes : \A r \in queue'[m] : r \in queue[m] \/ (m = n /\ r = q)
      BY <1>4
    <3>4. OneQueued'
      <4> SUFFICES ASSUME NEW x \in Nodes, NEW m \in Nodes, NEW s \in queue'[x], NEW r \in queue'[m],
                          SameTrace(s, r)
                   PROVE  x = m /\ s = r
        BY DEF OneQueued, SameTrace
      <4> QED BY <2>3, <3>1, <3>3 DEF OneQueued
    <3>5. BehindQueued'
      <4> SUFFICES ASSUME NEW x \in Nodes, NEW m \in Nodes, NEW s \in queue'[x], NEW r \in inbox'[m],
                          SameTrace(s, r)
                   PROVE  Len(r.path) < Len(s.path) /\ ~Due(m, r)
        BY <3>2 DEF BehindQueued, SameTrace
      <4> QED BY <1>1, <2>3, <3>1, <3>3 DEF BehindQueued
    <3>6. BehindDue'
      BY <1>1, <3>1, <3>2 DEF BehindDue, SameTrace
    <3>7. Over'
      <4> SUFFICES ASSUME NEW m \in Nodes, NEW g \in handed[m], g[1] = "TRACE"
                   PROVE  /\ g[3] = Len(g[2].hops)
                          /\ \A x \in Nodes : \A r \in queue'[x] : ~(r.type = "TRACE" /\ r.body = g[2])
                          /\ \A x \in Nodes : \A r \in inbox'[x] : r.type = "TRACE" /\ r.body = g[2] =>
                               ~Due(x, r)' /\ (x = m => Len(r.path) < g[3])
        BY <1>4 DEF Over
      <4>1. \A x \in Nodes : \A r \in queue'[x] : ~(r.type = "TRACE" /\ r.body = g[2])
        BY <2>4, <3>1, <3>3 DEF Over
      <4> QED BY <1>1, <3>1, <3>2, <4>1 DEF Over
    <3> QED BY <3>4, <3>5, <3>6, <3>7
  <2> QED BY <2>2, <2>5 DEF HInv
<1> QED BY <1>10, <1>11

LEMMA StartsOnce == Init => HInv
<1> SUFFICES ASSUME Init PROVE HInv
  OBVIOUS
<1>1. HashesOK
  BY DEF Init, HashesOK, InRing, NoMulti
<1>2. TracesOK
  BY DEF Init, TracesOK, OneQueued, BehindQueued, BehindDue, Over
<1>3. ActsOnce
  BY DEF Init, ActsOnce
<1> QED BY <1>1, <1>2, <1>3 DEF HInv

LEMMA StuttersOnce ==
  ASSUME IInv, HInv, UNCHANGED vars
  PROVE  HInv'
<1>1. TypeInv /\ Grows /\ UNCHANGED <<seen, queue, history>> /\ inbox' = inbox
  BY Stutters DEF IInv, vars
<1> QED BY <1>1, IdleOnce

-----------------------------------------------------------------------------
(* What a handler leaves behind *)

\* Node n marked the hashes of M and queued the packets of S; a ring that overflows
\* loses what is oldest.
Effect(n, M, S) ==
  /\ \A m \in Nodes : queue'[m] = IF m = n THEN queue[m] \cup S ELSE queue[m]
  /\ \A m \in Nodes : sent'[m] = IF m = n THEN sent[m] \cup {calculatePacketHash(q) : q \in S}
                                          ELSE sent[m]
  /\ \A m \in Nodes : ToSet(seen'[m]) \subseteq IF m = n THEN ToSet(seen[m]) \cup M
                                                         ELSE ToSet(seen[m])
  /\ \A m \in Nodes : handed[m] \subseteq handed'[m]
  /\ forgot \subseteq forgot'
  /\ n \notin forgot' => ToSet(seen'[n]) = ToSet(seen[n]) \cup M
  /\ \A m \in Nodes \ {n} : seen'[m] = seen[m]

\* What is left of a sequence after its first k elements.
LEMMA EndOf ==
  ASSUME NEW E, NEW s \in Seq(E), NEW k \in Nat, k <= Len(s)
  PROVE  /\ SubSeq(s, k + 1, Len(s)) \in Seq(E)
         /\ Len(SubSeq(s, k + 1, Len(s))) = Len(s) - k
         /\ \A i \in 1..(Len(s) - k) : SubSeq(s, k + 1, Len(s))[i] = s[k + i]
<1> PICK len \in Nat : len = Len(s)
  OBVIOUS
<1>1. \A i \in 1..len : s[i] \in E
  OBVIOUS
<1>2. k + 1 \in Int /\ len \in Int /\ \A i \in (k + 1)..len : i \in 1..len
  OBVIOUS
<1>3. \A i \in (k + 1)..len : s[i] \in E
  BY <1>1, <1>2
<1>4. /\ SubSeq(s, k + 1, len) \in Seq(E)
      /\ Len(SubSeq(s, k + 1, len)) = IF k + 1 <= len THEN len - (k + 1) + 1 ELSE 0
      /\ \A i \in 1..(len - (k + 1) + 1) : SubSeq(s, k + 1, len)[i] = s[k + 1 + i - 1]
  BY <1>2, <1>3, SubSeqProperties
<1> PICK u : u = SubSeq(s, k + 1, len)
  OBVIOUS
<1>5. /\ u \in Seq(E)
      /\ Len(u) = IF k + 1 <= len THEN len - (k + 1) + 1 ELSE 0
      /\ \A i \in 1..(len - (k + 1) + 1) : u[i] = s[k + 1 + i - 1]
  BY <1>4, Zenon
<1>6. k <= len
  OBVIOUS
<1>7. Len(u) = len - k
  BY <1>5, <1>6
<1>8. \A i \in 1..(len - k) : u[i] = s[k + i]
  <2> SUFFICES ASSUME NEW i \in 1..(len - k) PROVE u[i] = s[k + i]
    OBVIOUS
  <2>1. i \in 1..(len - (k + 1) + 1) /\ k + 1 + i - 1 = k + i
    OBVIOUS
  <2> QED BY <1>5, <2>1
<1> QED BY <1>5, <1>7, <1>8
\* What is left holds nothing new.
LEMMA EndIsPart ==
  ASSUME NEW E, NEW s \in Seq(E), NEW size \in Nat, size < Len(s)
  PROVE  ToSet(SubSeq(s, Len(s) - size + 1, Len(s))) \subseteq ToSet(s)
<1> PICK len \in Nat : len = Len(s) /\ DOMAIN s = 1..len
  OBVIOUS
<1>0. len - size \in Nat
  OBVIOUS
<1> PICK k \in Nat : k = len - size
  BY <1>0
<1> PICK u : u = SubSeq(s, k + 1, Len(s))
  OBVIOUS
<1>1. k <= len /\ k <= Len(s)
  OBVIOUS
<1>2. /\ SubSeq(s, k + 1, Len(s)) \in Seq(E)
      /\ Len(SubSeq(s, k + 1, Len(s))) = Len(s) - k
      /\ \A i \in 1..(Len(s) - k) : SubSeq(s, k + 1, Len(s))[i] = s[k + i]
  BY <1>1, EndOf
<1>3. /\ u \in Seq(E) /\ Len(u) = len - k /\ \A i \in 1..(len - k) : u[i] = s[k + i]
      /\ u = SubSeq(s, Len(s) - size + 1, Len(s))
  BY <1>2
<1>4. DOMAIN u = 1..(len - k)
  BY <1>3
<1>5. \A i \in 1..(len - k) : k + i \in 1..len
  BY <1>1
<1> QED BY <1>3, <1>4, <1>5 DEF ToSet

\* A ring keeps no more than it had, and all of it while there is room.
LEMMA LatestOf ==
  ASSUME net \in Networks, NEW E, NEW s \in Seq(E)
  PROVE  /\ ToSet(Latest(s)) \subseteq ToSet(s)
         /\ ~(Len(s) > net.ring_size) => Latest(s) = s
<1> PICK size \in Nat : size = net.ring_size
  BY ThisNetwork
<1>1. Len(s) \in Nat
  OBVIOUS
<1>2. CASE Len(s) <= size
  BY <1>1, <1>2 DEF Latest
<1>3. CASE ~(Len(s) <= size)
  <2>1. size < Len(s)
    BY <1>1, <1>3
  <2>2. Latest(s) = SubSeq(s, Len(s) - size + 1, Len(s))
    BY <1>3 DEF Latest
  <2>3. ToSet(SubSeq(s, Len(s) - size + 1, Len(s))) \subseteq ToSet(s)
    BY <2>1, EndIsPart
  <2>4. ToSet(Latest(s)) \subseteq ToSet(s)
    BY <2>2, <2>3, Zenon
  <2>5. Len(s) > net.ring_size
    BY <1>1, <1>3
  <2> QED BY <2>4, <2>5
<1> QED BY <1>2, <1>3

LEMMA DoesLeaves ==
  ASSUME TypeInv, NEW n \in Nodes, NEW marks \in Seq(Digests), NEW sends \in SUBSET PacketSet,
         NEW gives, Does(n, marks, sends, gives)
  PROVE  Effect(n, ToSet(marks), sends) /\ gives \subseteq handed'[n]
<1>1. /\ queue \in [Nodes -> SUBSET PacketSet] /\ seen \in [Nodes -> Seq(Digests)]
      /\ sent \in [Nodes -> SUBSET Digests] /\ handed \in [Nodes -> SUBSET Digests]
      /\ net \in Networks
  BY DEF TypeInv, HashesTyped
<1> PICK hashes : hashes = {calculatePacketHash(p) : p \in sends}
  OBVIOUS
<1>2. /\ seen' = [seen EXCEPT ![n] = Latest(@ \o marks)]
      /\ queue' = [queue EXCEPT ![n] = @ \cup sends]
      /\ sent' = [sent EXCEPT ![n] = @ \cup hashes]
      /\ handed' = [handed EXCEPT ![n] = @ \cup gives]
      /\ forgot' = forgot \cup IF Len(seen[n] \o marks) > net.ring_size THEN {n} ELSE {}
  BY DEF Does
<1> PICK ring \in Seq(Digests) : ring = seen[n] \o marks /\ ToSet(ring) = ToSet(seen[n]) \cup ToSet(marks)
  <2>1. seen[n] \in Seq(Digests)
    BY <1>1
  <2>2. seen[n] \o marks \in Seq(Digests)
    BY <2>1
  <2>3. ToSet(seen[n] \o marks) = ToSet(seen[n]) \cup ToSet(marks)
    BY <2>1, RangeOfBoth
  <2> QED BY <2>2, <2>3, Zenon
<1>3. ToSet(Latest(ring)) \subseteq ToSet(ring) /\ (~(Len(ring) > net.ring_size) => Latest(ring) = ring)
  BY <1>1, LatestOf
<1>4. seen'[n] = Latest(ring) /\ \A m \in Nodes \ {n} : seen'[m] = seen[m]
  BY <1>1, <1>2
<1>5. n \notin forgot' => ToSet(seen'[n]) = ToSet(ring)
  BY <1>2, <1>3, <1>4
<1>6. \A m \in Nodes : queue'[m] = IF m = n THEN queue[m] \cup sends ELSE queue[m]
  BY <1>1, <1>2
<1>7. \A m \in Nodes : sent'[m] = IF m = n THEN sent[m] \cup hashes ELSE sent[m]
  BY <1>1, <1>2
<1>8. /\ \A m \in Nodes : handed[m] \subseteq handed'[m]
      /\ gives \subseteq handed'[n]
  BY <1>1, <1>2
<1>9. \A m \in Nodes : ToSet(seen'[m]) \subseteq IF m = n THEN ToSet(seen[m]) \cup ToSet(marks)
                                                         ELSE ToSet(seen[m])
  BY <1>3, <1>4
<1>10. forgot \subseteq forgot'
  BY <1>2
<1> QED BY <1>4, <1>5, <1>6, <1>7, <1>8, <1>9, <1>10 DEF Effect

LEMMA IdleLeaves ==
  ASSUME TypeInv, NEW n \in Nodes, DoesNothing
  PROVE  Effect(n, {}, {})
BY DEF DoesNothing, Effect, history

\* Marking the packet looked at, alone or with those of an answer.
LEMMA AloneLeaves ==
  ASSUME NEW n \in Nodes, NEW p, Looked(n, p), NEW sends \in SUBSET PacketSet, NEW gives,
         Does(n, <<calculatePacketHash(p)>>, sends, gives)
  PROVE  Effect(n, {calculatePacketHash(p)}, sends) /\ gives \subseteq handed'[n]
<1>1. TypeInv /\ calculatePacketHash(p) \in Digests
  BY LookedAt
<1> PICK h \in Digests : h = calculatePacketHash(p)
  BY <1>1
<1> PICK marks \in Seq(Digests) : marks = <<h>> /\ ToSet(marks) = {h}
  BY MarksHave, Zenon
<1>2. Does(n, marks, sends, gives)
  OBVIOUS
<1> QED BY <1>1, <1>2, DoesLeaves

LEMMA AnswerLeaves ==
  ASSUME NEW n \in Nodes, NEW p, Looked(n, p), NEW reply \in SUBSET PacketSet, IsFiniteSet(reply),
         NEW sends \in SUBSET PacketSet, NEW gives,
         Does(n, <<calculatePacketHash(p)>> \o SetToSeq({HashAsSent(r) : r \in reply}), sends, gives)
  PROVE  /\ Effect(n, {calculatePacketHash(p)} \cup {HashAsSent(r) : r \in reply}, sends)
         /\ gives \subseteq handed'[n]
<1>1. TypeInv /\ calculatePacketHash(p) \in Digests
  BY LookedAt
<1> PICK h \in Digests : h = calculatePacketHash(p)
  BY <1>1
<1>2. /\ SetToSeq({HashAsSent(r) : r \in reply}) \in Seq(Digests)
      /\ ToSet(SetToSeq({HashAsSent(r) : r \in reply})) = {HashAsSent(r) : r \in reply}
  BY MarksTyped
<1> PICK more \in Seq(Digests) : /\ more = SetToSeq({HashAsSent(r) : r \in reply})
                                 /\ ToSet(more) = {HashAsSent(r) : r \in reply}
  BY <1>2
<1> PICK marks \in Seq(Digests) : marks = <<h>> \o more /\ ToSet(marks) = {h} \cup ToSet(more)
  BY MarksHave, Zenon
<1>3. Does(n, marks, sends, gives)
  OBVIOUS
<1> QED BY <1>1, <1>3, DoesLeaves

\* Marking what is sent.
LEMMA SendsLeaves ==
  ASSUME TypeInv, NEW n \in Nodes, NEW packets \in SUBSET PacketSet, IsFiniteSet(packets),
         Sends(n, packets)
  PROVE  Effect(n, {HashAsSent(r) : r \in packets}, packets)
<1>1. /\ SetToSeq({HashAsSent(r) : r \in packets}) \in Seq(Digests)
      /\ ToSet(SetToSeq({HashAsSent(r) : r \in packets})) = {HashAsSent(r) : r \in packets}
  BY MarksTyped
<1> PICK marks \in Seq(Digests) : /\ marks = SetToSeq({HashAsSent(r) : r \in packets})
                                  /\ ToSet(marks) = {HashAsSent(r) : r \in packets}
  BY <1>1
<1>2. Does(n, marks, packets, {})
  BY DEF Sends
<1> QED BY <1>2, DoesLeaves

\* The handlers, one by one.
LEMMA GroupLeaves ==
  ASSUME NEW n \in Nodes, NEW p, Looked(n, p), RecvGroup(n, p) \/ RecvAdvert(n, p)
  PROVE  \E sends \in SUBSET routeRecvPacket(n, p) : Effect(n, {calculatePacketHash(p)}, sends)
<1>1. routeRecvPacket(n, p) \in SUBSET PacketSet
  BY LookedAt, OneOrNone
<1>2. PICK sends \in SUBSET routeRecvPacket(n, p) : \E gives : Does(n, <<calculatePacketHash(p)>>, sends, gives)
  BY DEF RecvGroup, RecvAdvert
<1>3. PICK gives : Does(n, <<calculatePacketHash(p)>>, sends, gives)
  BY <1>2
<1> QED BY <1>1, <1>3, AloneLeaves

LEMMA ForOtherLeaves ==
  ASSUME NEW n \in Nodes, NEW p, Looked(n, p), RecvForOther(n, p)
  PROVE  Effect(n, {calculatePacketHash(p)}, routeRecvPacket(n, p))
<1>1. routeRecvPacket(n, p) \in SUBSET PacketSet
  BY LookedAt, OneOrNone
<1>2. Does(n, <<calculatePacketHash(p)>>, routeRecvPacket(n, p), {})
  BY DEF RecvForOther
<1> QED BY <1>1, <1>2, AloneLeaves

LEMMA MultiAckLeaves ==
  ASSUME NEW n \in Nodes, NEW p, Looked(n, p), RecvMultiAck(n, p)
  PROVE  Effect(n, {calculatePacketHash(p)}, {})
<1> PICK none \in SUBSET PacketSet : none = {}
  OBVIOUS
<1>1. Does(n, <<calculatePacketHash(p)>>, none, {})
  BY DEF RecvMultiAck
<1>2. Effect(n, {calculatePacketHash(p)}, none)
  BY <1>1, AloneLeaves
<1> QED BY <1>2

\* The path is never sent again: an accepted ack no longer looks like a flood.
LEMMA AckLeaves ==
  ASSUME NEW n \in Nodes, NEW p, Looked(n, p), RecvAck(n, p)
  PROVE  Effect(n, {calculatePacketHash(p)}, IF Accepts(n, p) THEN {} ELSE routeRecvPacket(n, p))
<1>1. TypeInv /\ p \in PacketSet /\ First(n, p) /\ p.type = "ACK"
  BY LookedAt DEF RecvAck
<1> DEFINE q == AfterAck(n, p)
           onwards == routeRecvPacket(n, q)
<1>2. q = IF Accepts(n, p) THEN markDoNotRetransmit(p) ELSE p
  BY DEF AfterAck
<1>3. Accepts(n, p) => ~isRouteFlood(q)
  BY <1>1, <1>2 DEF markDoNotRetransmit, isRouteFlood, PacketSet
<1> PICK reply \in SUBSET PacketSet : reply = {}
  OBVIOUS
<1>4. Does(n, <<calculatePacketHash(p)>> \o SetToSeq({HashAsSent(r) : r \in reply}), onwards, {})
  BY <1>3 DEF RecvAck
<1>5. onwards = IF Accepts(n, p) THEN {} ELSE routeRecvPacket(n, p)
  <2>1. CASE Accepts(n, p)
    BY <1>3, <2>1 DEF routeRecvPacket
  <2>2. CASE ~Accepts(n, p)
    BY <1>2, <2>2
  <2> QED BY <2>1, <2>2
<1>6. onwards \in SUBSET PacketSet
  BY <1>1, <1>5, OneOrNone
<1> HIDE DEF onwards, q
<1>7. IsFiniteSet(reply)
  BY FS_EmptySet
<1>8. Effect(n, {calculatePacketHash(p)} \cup {HashAsSent(r) : r \in reply}, onwards)
  BY <1>4, <1>6, <1>7, AnswerLeaves
<1>9. {calculatePacketHash(p)} \cup {HashAsSent(r) : r \in reply} = {calculatePacketHash(p)}
  OBVIOUS
<1> QED BY <1>5, <1>8, <1>9

LEMMA TextLeaves ==
  ASSUME NEW n \in Nodes, NEW p, Looked(n, p), RecvText(n, p)
  PROVE  Effect(n, {calculatePacketHash(p)} \cup {HashAsSent(r) : r \in TextReply(n, p)}, TextReply(n, p))
<1> PICK reply : reply = TextReply(n, p) /\ IsFiniteSet(reply)
  BY TextAnswered DEF RecvText
<1> PICK gives : gives = {calculatePacketHash(p)}
  OBVIOUS
<1>1. Does(n, <<calculatePacketHash(p)>> \o SetToSeq({HashAsSent(r) : r \in reply}), reply, gives)
  BY DEF RecvText, TextReply
<1>2. reply \in SUBSET PacketSet
  <2>1. queue' = [queue EXCEPT ![n] = @ \cup reply]
    BY <1>1 DEF Does
  <2>2. reply \subseteq queue'[n]
    BY <2>1, LookedAt DEF TypeInv
  <2> QED BY <2>2, LookedAt DEF IInv, TypeInv
<1> QED BY <1>1, <1>2, AnswerLeaves

LEMMA PathLeaves ==
  ASSUME NEW n \in Nodes, NEW p, Looked(n, p), RecvPath(n, p)
  PROVE  Effect(n, {calculatePacketHash(p)} \cup {HashAsSent(r) : r \in PathReply(n, p)}, PathReply(n, p))
<1> PICK reply : reply = PathReply(n, p) /\ IsFiniteSet(reply)
  BY PathAnswered
<1> PICK gives : gives = {}
  OBVIOUS
<1>1. Does(n, <<calculatePacketHash(p)>> \o SetToSeq({HashAsSent(r) : r \in reply}), reply, gives)
  BY DEF RecvPath, PathReply
<1>2. reply \in SUBSET PacketSet
  <2>1. queue' = [queue EXCEPT ![n] = @ \cup reply]
    BY <1>1 DEF Does
  <2>2. reply \subseteq queue'[n]
    BY <2>1, LookedAt DEF TypeInv
  <2> QED BY <2>2, LookedAt DEF IInv, TypeInv
<1> QED BY <1>1, <1>2, AnswerLeaves

\* A direct packet on its way, as the node that passes it on reads it, and what
\* that node sends.
Read(n, p) == IF p.type = "ACK" THEN AfterAck(n, p) ELSE p

Onwards(n, p) ==
  IF Read(n, p).type \in {"ACK", "MULTI"} THEN DirectAcks(n, Tail(p.path), p.body)
  ELSE {Direct(Read(n, p).type, Tail(p.path), p.body)}

LEMMA OnTheWayLeaves ==
  ASSUME NEW n \in Nodes, NEW p, Looked(n, p), RecvOnTheWay(n, p)
  PROVE  /\ Read(n, p) \in PacketSet /\ Read(n, p).body = p.body
         /\ Read(n, p) = p \/ (p.type = "ACK" /\ Accepts(n, p) /\ Read(n, p).type = "0xFF")
         /\ \/ ~(NextHopIs(n, p) /\ ~wasSeen(n, Read(n, p))) /\ Effect(n, {}, {})
            \/ /\ NextHopIs(n, p) /\ ~wasSeen(n, Read(n, p))
               /\ Onwards(n, p) \in SUBSET PacketSet
               /\ Effect(n, {calculatePacketHash(Read(n, p))}, Onwards(n, p))
<1>1. TypeInv /\ IInv' /\ p \in PacketSet
  BY LookedAt
<1> PICK q \in PacketSet :
      /\ q = Read(n, p) /\ q.body = p.body /\ q.path = p.path /\ q.route = "direct"
      /\ q = p \/ (p.type = "ACK" /\ Accepts(n, p) /\ q.type = "0xFF")
  <2>1. p.route = "direct"
    BY <1>1 DEF RecvOnTheWay, OnTheWay, isRouteFlood, PacketSet
  <2>2. CASE p.type = "ACK" /\ Accepts(n, p)
    <3>1. PICK q \in PacketSet : q = markDoNotRetransmit(p) /\ q.body = p.body /\ q.type = "0xFF"
      BY <1>1, MarkedPacket
    <3>2. q.path = p.path /\ q.route = "direct"
      BY <1>1, <3>1 DEF markDoNotRetransmit, PacketSet
    <3> QED BY <2>2, <3>1, <3>2 DEF Read, AfterAck
  <2>3. CASE ~(p.type = "ACK" /\ Accepts(n, p))
    BY <1>1, <2>1, <2>3 DEF Read, AfterAck
  <2> QED BY <2>2, <2>3
<1> PICK next : next = removeSelfFromPath(q)
  OBVIOUS
<1>2. next = [type |-> q.type, route |-> "direct", path |-> Tail(p.path), body |-> p.body]
  BY DEF removeSelfFromPath, PacketSet
<1> PICK sends : sends = Onwards(n, p)
  OBVIOUS
<1>3. sends = IF q.type \in {"ACK", "MULTI"} THEN DirectAcks(n, next.path, q.body) ELSE {next}
  BY <1>2 DEF Onwards, Direct, Packet
<1>4. IF NextHopIs(n, p) /\ ~wasSeen(n, q)
        THEN Does(n, <<calculatePacketHash(q)>>, sends, {})
        ELSE DoesNothing
  BY <1>3, Zenon DEF RecvOnTheWay, Read
<1>5. CASE ~(NextHopIs(n, p) /\ ~wasSeen(n, q))
  BY <1>1, <1>4, <1>5, IdleLeaves
<1>6. CASE NextHopIs(n, p) /\ ~wasSeen(n, q)
  <2> PICK h \in Digests : h = calculatePacketHash(q)
    BY HashTyped
  <2> PICK marks \in Seq(Digests) : marks = <<h>> /\ ToSet(marks) = {h}
    BY MarksHave, Zenon
  <2>1. Does(n, marks, sends, {})
    BY <1>4, <1>6
  <2>2. sends \in SUBSET PacketSet
    <3>1. queue' = [queue EXCEPT ![n] = @ \cup sends]
      BY <2>1 DEF Does
    <3>2. sends \subseteq queue'[n]
      BY <1>1, <3>1 DEF TypeInv
    <3> QED BY <1>1, <3>2 DEF IInv, TypeInv
  <2> PICK gives : gives = {}
    OBVIOUS
  <2>3. Effect(n, {h}, sends)
    BY <1>1, <2>1, <2>2, DoesLeaves
  <2> QED BY <1>6, <2>2, <2>3
<1> QED BY <1>5, <1>6

\* A packet that is no trace leads to none.
LEMMA OtherwiseLeaves ==
  ASSUME NEW n \in Nodes, NEW p, Looked(n, p), onRecvPacket(n, p), p.type # "TRACE"
  PROVE  \E M, S : /\ Effect(n, M, S)
                   /\ \A h \in M : h[1] # "TRACE"
                   /\ \A q \in S : q.type # "TRACE"
<1>1. TypeInv /\ p \in PacketSet
  BY LookedAt
<1>2. calculatePacketHash(p)[1] # "TRACE"
  BY <1>1, HashSays
<1> PICK h : h = calculatePacketHash(p) /\ h[1] # "TRACE"
  BY <1>2
<1>3. \A q \in routeRecvPacket(n, p) : q.type # "TRACE"
  BY <1>1, PassedOnHash
<1>4. CASE RecvGroup(n, p) \/ RecvAdvert(n, p)
  <2>1. PICK S \in SUBSET routeRecvPacket(n, p) : Effect(n, {h}, S)
    BY <1>4, GroupLeaves
  <2> QED BY <1>3, <2>1
<1>5. CASE RecvForOther(n, p)
  <2>1. Effect(n, {h}, routeRecvPacket(n, p))
    BY <1>5, ForOtherLeaves
  <2> QED BY <1>3, <2>1
<1>6. CASE RecvMultiAck(n, p)
  <2>1. Effect(n, {h}, {})
    BY <1>6, MultiAckLeaves
  <2> QED BY <2>1
<1>7. CASE RecvAck(n, p)
  <2> PICK S : S = (IF Accepts(n, p) THEN {} ELSE routeRecvPacket(n, p))
    OBVIOUS
  <2>1. Effect(n, {h}, S)
    BY <1>7, AckLeaves
  <2> QED BY <1>3, <2>1
<1>8. ASSUME NEW S, \A q \in S : Unique(n, q), Effect(n, {h} \cup {HashAsSent(r) : r \in S}, S)
      PROVE  \E M, T : Effect(n, M, T) /\ (\A g \in M : g[1] # "TRACE") /\ \A q \in T : q.type # "TRACE"
  <2>1. \A q \in S : q.type # "TRACE" /\ HashAsSent(q)[1] # "TRACE"
    BY <1>8 DEF Unique, HashAsSent, calculatePacketHash
  <2> QED BY <1>8, <2>1
<1>9. CASE RecvText(n, p)
  <2>1. p.body.to = n
    BY <1>9 DEF RecvText
  <2> PICK S : S = TextReply(n, p)
    OBVIOUS
  <2>2. \A q \in S : Unique(n, q)
    BY <2>1, TextAnswered
  <2>3. Effect(n, {h} \cup {HashAsSent(r) : r \in S}, S)
    BY <1>9, TextLeaves
  <2> QED BY <1>8, <2>2, <2>3
<1>10. CASE RecvPath(n, p)
  <2> PICK S : S = PathReply(n, p)
    OBVIOUS
  <2>2. \A q \in S : Unique(n, q)
    BY PathAnswered
  <2>3. Effect(n, {h} \cup {HashAsSent(r) : r \in S}, S)
    BY <1>10, PathLeaves
  <2> QED BY <1>8, <2>2, <2>3
<1>11. CASE RecvOwnAdvert(n, p) \/ RecvAgain(n, p)
  BY <1>1, <1>11, IdleLeaves DEF RecvOwnAdvert, RecvAgain
<1>12. CASE RecvOnTheWay(n, p)
  <2>0. /\ Read(n, p) \in PacketSet /\ Read(n, p).body = p.body
        /\ Read(n, p) = p \/ Read(n, p).type = "0xFF"
        /\ \/ Effect(n, {}, {})
           \/ Effect(n, {calculatePacketHash(Read(n, p))}, Onwards(n, p))
    BY <1>12, OnTheWayLeaves
  <2> PICK q \in PacketSet : q = Read(n, p) /\ q.type # "TRACE"
    BY <2>0
  <2> PICK S : S = Onwards(n, p)
    OBVIOUS
  <2>1. Effect(n, {}, {}) \/ Effect(n, {calculatePacketHash(q)}, S)
    BY <2>0
  <2>2. calculatePacketHash(q)[1] # "TRACE"
    BY HashSays
  <2>3. \A r \in S : r.type # "TRACE"
    <3>1. CASE q.type \in {"ACK", "MULTI"}
      <4>1. S = DirectAcks(n, Tail(p.path), p.body)
        BY <3>1 DEF Onwards
      <4> QED BY <4>1, DirectAcksFinite
    <3>2. CASE q.type \notin {"ACK", "MULTI"}
      BY <3>2 DEF Onwards, Direct, Packet
    <3> QED BY <3>1, <3>2
  <2> QED BY <2>1, <2>2, <2>3
<1>13. ~RecvTrace(n, p)
  BY DEF RecvTrace
<1> QED BY <1>4, <1>5, <1>6, <1>7, <1>9, <1>10, <1>11, <1>12, <1>13 DEF onRecvPacket

-----------------------------------------------------------------------------
(* Traces get to their end *)

\* Every trace leads from node to node back to the one that sends it, and is short
\* enough for the path to hold what is measured on the way.
Guided ==
  /\ ~net.lossy /\ net.restarts = 0 /\ Unshared
  /\ \A t \in net.traffic : t.type = "TRACE" =>
       Connects(t.body.from, t.body.hops, t.body.from) /\ Len(t.body.hops) < net.path_max

\* The node that transmits a trace: the one that sends it or the one it came to last.
Stands(n, p) ==
  IF Len(p.path) = 0 THEN n = p.body.from
  ELSE n \in net.forwarders /\ net.hash[n] = p.body.hops[Len(p.path)]

TraceOf(p, t) == p.type = "TRACE" /\ p.body = t

\* A trace waits to be transmitted, to be passed on or to be handed over, or it was.
Underway(t) ==
  \/ \E n \in Nodes : \E p \in queue[n] : TraceOf(p, t) /\ Stands(n, p)
  \/ \E n \in Nodes : \E p \in inbox[n] : TraceOf(p, t) /\ Due(n, p)
  \/ \E p \in inbox[t.from] : TraceOf(p, t) /\ TraceEnds(p)
  \/ <<"TRACE", t, Len(t.hops)>> \in handed[t.from]

\* No node has the hash under which the trace p comes next.
Ahead(p) ==
  \A n \in Nodes : \A k \in Nat :
    <<"TRACE", p.body, k>> \in ToSet(seen[n]) => k < Len(p.path) \/ (k = 0 /\ n = p.body.from)

MarksBehind ==
  \A n \in Nodes : /\ \A p \in queue[n] : p.type = "TRACE" => Ahead(p)
                   /\ \A p \in inbox[n] : p.type = "TRACE" /\ Due(n, p) => Ahead(p)

MarksIssued ==
  \A n \in Nodes : \A t \in todo : \A k \in Nat :
    t.type = "TRACE" => <<"TRACE", t.body, k>> \notin ToSet(seen[n])

TInv == Guided => MarksIssued /\ MarksBehind /\ \A t \in Issued("TRACE") : Underway(t)

LEMMA GuidedStays ==
  ASSUME net' = net
  PROVE  /\ Guided' <=> Guided
         /\ \A n, p : Due(n, p)' <=> Due(n, p)
         /\ \A n, p : Stands(n, p)' <=> Stands(n, p)
<1>1. \A n, path, m : Connects(n, path, m)' <=> Connects(n, path, m)
  BY SamePlaces
<1>2. Guided' <=> Guided
  BY <1>1, Zenon DEF Guided, Unshared
<1> QED BY <1>2 DEF Due, TraceEnds, Stands

\* The trace of a packet is one of the applications', and comes back.
LEMMA TraceGuided ==
  ASSUME TypeInv, Guided, NEW t \in net.traffic, t.type = "TRACE"
  PROVE  /\ t = [type |-> "TRACE", body |-> t.body] /\ t.body.from \in Nodes /\ Len(t.body.hops) \in Nat
         /\ Len(t.body.hops) > 0 /\ Len(t.body.hops) < net.path_max
         /\ \E via \in [1..Len(t.body.hops) -> net.forwarders] :
              /\ via[1] \in Neighbours(t.body.from) /\ t.body.from \in Neighbours(via[Len(t.body.hops)])
              /\ \A i \in 1..Len(t.body.hops) : net.hash[via[i]] = t.body.hops[i]
              /\ \A i \in 1..(Len(t.body.hops) - 1) : via[i + 1] \in Neighbours(via[i])
<1>1. Message(net, t)
  BY ThisNetwork DEF TypeInv
<1> PICK from \in Nodes, hops \in Seq({net.hash[n] : n \in Nodes}) :
      from = t.body.from /\ hops = t.body.hops /\ t = [type |-> "TRACE", body |-> t.body]
  BY <1>1 DEF Message
<1>2. Connects(from, hops, from) /\ Len(hops) < net.path_max
  BY DEF Guided
<1>3. PICK last \in Nodes : Leads(from, hops, last) /\ from \in Neighbours(last)
  BY <1>2 DEF Connects
<1>4. hops # <<>>
  BY <1>3 DEF Leads, Neighbours
<1>5. Len(hops) \in Nat /\ Len(hops) > 0 /\ DOMAIN hops = 1..Len(hops)
  BY <1>4
<1>6. PICK via \in [1..Len(hops) -> net.forwarders] :
         /\ via[1] \in Neighbours(from) /\ via[Len(hops)] = last
         /\ \A i \in 1..Len(hops) : net.hash[via[i]] = hops[i]
         /\ \A i \in 1..(Len(hops) - 1) : via[i + 1] \in Neighbours(via[i])
  BY <1>3, <1>4, <1>5 DEF Leads
<1> QED BY <1>2, <1>3, <1>5, <1>6

LEMMA TraceSender ==
  ASSUME TypeInv, Guided, NEW t \in Issued("TRACE")
  PROVE  t.from \in Nodes
<1> PICK u \in net.traffic : u.type = "TRACE" /\ u.body = t
  BY DEF Issued
<1> QED BY TraceGuided

\* A trace is known by its body.
LEMMA TraceNamed ==
  ASSUME TypeInv, Guided, NEW t \in net.traffic, NEW u \in net.traffic,
         t.type = "TRACE", u.type = "TRACE", t.body = u.body
  PROVE  t = u
<1> PICK b : b = t.body /\ b = u.body
  OBVIOUS
<1>1. t = [type |-> "TRACE", body |-> b]
  BY TraceGuided
<1>2. u = [type |-> "TRACE", body |-> b]
  BY TraceGuided
<1> QED BY <1>1, <1>2

\* A packet of a trace belongs to one that was issued.
LEMMA TraceKnown ==
  ASSUME NEW p, p.type = "TRACE", Known(p)
  PROVE  \E t \in net.traffic \ todo : t.type = "TRACE" /\ t.body = p.body
BY DEF Known, Sources

\* Where no trace is queued, heard or marked that was not, and none is lost, all of
\* them are as they were.
LEMMA TracesStay ==
  ASSUME TInv, net' = net, todo' \subseteq todo, Issued("TRACE")' = Issued("TRACE"),
         \A m \in Nodes : \A q : q.type = "TRACE" => (q \in queue'[m] <=> q \in queue[m]),
         \A m \in Nodes : \A q : q.type = "TRACE" => (q \in inbox'[m] <=> q \in inbox[m]),
         \A m \in Nodes : \A h \in ToSet(seen'[m]) : h[1] = "TRACE" => h \in ToSet(seen[m]),
         \A m \in Nodes : handed[m] \subseteq handed'[m],
         TypeInv
  PROVE  TInv'
<1> SUFFICES ASSUME Guided PROVE MarksIssued' /\ MarksBehind' /\ \A t \in Issued("TRACE") : Underway(t)'
  BY GuidedStays DEF TInv
<1>1. MarksIssued /\ MarksBehind /\ \A t \in Issued("TRACE") : Underway(t)
  BY DEF TInv
<1>2. \A n, p : (Due(n, p)' <=> Due(n, p)) /\ (Stands(n, p)' <=> Stands(n, p))
  BY GuidedStays
<1>3. \A m \in Nodes : \A b, k : <<"TRACE", b, k>> \in ToSet(seen'[m]) => <<"TRACE", b, k>> \in ToSet(seen[m])
  OBVIOUS
<1>4. MarksIssued'
  BY <1>1, <1>3 DEF MarksIssued
<1>5. \A p : Ahead(p) => Ahead(p)'
  BY <1>3 DEF Ahead
<1>6. MarksBehind'
  BY <1>1, <1>2, <1>5 DEF MarksBehind
<1>7. ASSUME NEW t \in Issued("TRACE") PROVE Underway(t)'
  <2>1. t.from \in Nodes
    BY TraceSender
  <2>2. CASE \E n \in Nodes : \E p \in queue[n] : TraceOf(p, t) /\ Stands(n, p)
    BY <1>2, <2>2 DEF Underway, TraceOf
  <2>3. CASE \E n \in Nodes : \E p \in inbox[n] : TraceOf(p, t) /\ Due(n, p)
    BY <1>2, <2>3 DEF Underway, TraceOf
  <2>4. CASE \E p \in inbox[t.from] : TraceOf(p, t) /\ TraceEnds(p)
    BY <2>1, <2>4 DEF Underway, TraceOf, TraceEnds
  <2>5. CASE <<"TRACE", t, Len(t.hops)>> \in handed[t.from]
    BY <2>1, <2>5 DEF Underway
  <2> QED BY <1>1, <2>2, <2>3, <2>4, <2>5 DEF Underway
<1> QED BY <1>4, <1>6, <1>7

LEMMA PlainTraces ==
  ASSUME NEW n \in Nodes, NEW p, Looked(n, p), TInv, onRecvPacket(n, p), p.type # "TRACE"
  PROVE  TInv'
<1>1. /\ TypeInv /\ net' = net /\ todo' = todo
      /\ inbox' = [inbox EXCEPT ![n] = @ \ {p}] /\ inbox \in [Nodes -> SUBSET PacketSet]
  BY LookedAt DEF Looked, Looks, TypeInv
<1>2. PICK M, S : /\ Effect(n, M, S) /\ \A h \in M : h[1] # "TRACE"
                  /\ \A q \in S : q.type # "TRACE"
  BY OtherwiseLeaves
<1>3. /\ \A m \in Nodes : queue'[m] = IF m = n THEN queue[m] \cup S ELSE queue[m]
      /\ \A m \in Nodes : ToSet(seen'[m]) \subseteq IF m = n THEN ToSet(seen[m]) \cup M
                                                             ELSE ToSet(seen[m])
      /\ \A m \in Nodes : handed[m] \subseteq handed'[m]
  BY <1>2 DEF Effect
<1>4. \A m \in Nodes : \A q : q.type = "TRACE" => (q \in queue'[m] <=> q \in queue[m])
  BY <1>2, <1>3
<1>5. \A m \in Nodes : \A q : q.type = "TRACE" => (q \in inbox'[m] <=> q \in inbox[m])
  BY <1>1
<1>6. \A m \in Nodes : \A h \in ToSet(seen'[m]) : h[1] = "TRACE" => h \in ToSet(seen[m])
  BY <1>2, <1>3
<1>7. Issued("TRACE")' = Issued("TRACE")
  BY <1>1 DEF Issued
<1> QED BY <1>1, <1>3, <1>4, <1>5, <1>6, <1>7, TracesStay

\* Every neighbour of a node that transmits a trace hears it, the next one among them.
LEMMA TransmitTraces ==
  ASSUME IInv, HInv, TInv, NEW n \in Nodes, NEW p \in queue[n], Transmit(n, p)
  PROVE  TInv'
<1>1. /\ TypeInv /\ TracesOK /\ p \in PacketSet /\ Known(p) /\ net' = net /\ todo' = todo
      /\ seen' = seen /\ handed' = handed
      /\ queue' = [queue EXCEPT ![n] = @ \ {p}] /\ queue \in [Nodes -> SUBSET PacketSet]
      /\ inbox \in [Nodes -> SUBSET PacketSet]
  BY DEF IInv, HInv, TypeInv, PacketsOK, Transmit, history
<1> SUFFICES ASSUME Guided PROVE MarksIssued' /\ MarksBehind' /\ \A t \in Issued("TRACE")' : Underway(t)'
  BY <1>1, GuidedStays DEF TInv
<1>2. inbox' = [m \in Nodes |-> IF m \in Neighbours(n) /\ Readable(p) THEN inbox[m] \cup {p} ELSE inbox[m]]
  BY DEF Transmit, Guided
<1>3. /\ \A m \in Nodes : inbox[m] \subseteq inbox'[m]
      /\ \A m \in Nodes : \A q \in inbox'[m] : q \in inbox[m] \/ q = p
      /\ \A m \in Nodes : \A q \in queue[m] : q \in queue'[m] \/ (m = n /\ q = p)
      /\ \A m \in Nodes : queue'[m] \subseteq queue[m]
      /\ \A m \in Neighbours(n) : p.type = "TRACE" => p \in inbox'[m]
  BY <1>1, <1>2 DEF Readable, Neighbours
<1>4. MarksIssued /\ MarksBehind /\ \A t \in Issued("TRACE") : Underway(t)
  BY DEF TInv
<1>5. \A m, q : (Due(m, q)' <=> Due(m, q)) /\ (Stands(m, q)' <=> Stands(m, q))
  BY <1>1, GuidedStays
<1>6. MarksIssued'
  BY <1>1, <1>4 DEF MarksIssued
<1>7. \A q : Ahead(q) => Ahead(q)'
  BY <1>1 DEF Ahead
<1>8. MarksBehind'
  BY <1>3, <1>4, <1>5, <1>7 DEF MarksBehind
<1>9. ASSUME NEW t \in Issued("TRACE"), ~TraceOf(p, t)
      PROVE  Underway(t)'
  <2>1. t.from \in Nodes
    BY <1>1, TraceSender
  <2>2. CASE \E m \in Nodes : \E q \in queue[m] : TraceOf(q, t) /\ Stands(m, q)
    BY <1>3, <1>5, <1>9, <2>2 DEF Underway, TraceOf
  <2>3. CASE \E m \in Nodes : \E q \in inbox[m] : TraceOf(q, t) /\ Due(m, q)
    BY <1>3, <1>5, <2>3 DEF Underway, TraceOf
  <2>4. CASE \E q \in inbox[t.from] : TraceOf(q, t) /\ TraceEnds(q)
    BY <1>3, <2>1, <2>4 DEF Underway, TraceOf, TraceEnds
  <2>5. CASE <<"TRACE", t, Len(t.hops)>> \in handed[t.from]
    BY <1>1, <2>1, <2>5 DEF Underway
  <2> QED BY <1>4, <2>2, <2>3, <2>4, <2>5 DEF Underway
<1>10. ASSUME NEW t \in Issued("TRACE"), TraceOf(p, t)
       PROVE  Underway(t)'
  <2>1. PICK u \in net.traffic : u.type = "TRACE" /\ u.body = t
    BY DEF Issued
  <2>2. t.from \in Nodes /\ Len(t.hops) \in Nat /\ Len(t.hops) > 0
    BY <1>1, <2>1, TraceGuided
  <2>3. PICK via \in [1..Len(t.hops) -> net.forwarders] :
              /\ via[1] \in Neighbours(t.from) /\ t.from \in Neighbours(via[Len(t.hops)])
              /\ \A i \in 1..Len(t.hops) : net.hash[via[i]] = t.hops[i]
              /\ \A i \in 1..(Len(t.hops) - 1) : via[i + 1] \in Neighbours(via[i])
    BY <1>1, <2>1, TraceGuided
  <2>4. Stands(n, p)
    <3>1. CASE \E m \in Nodes : \E q \in queue[m] : TraceOf(q, t) /\ Stands(m, q)
      BY <1>1, <1>10, <3>1 DEF TracesOK, Guided, OneQueued, SameTrace, TraceOf
    <3>2. CASE \E m \in Nodes : \E q \in inbox[m] : TraceOf(q, t) /\ Due(m, q)
      BY <1>1, <1>10, <3>2 DEF TracesOK, Guided, BehindQueued, SameTrace, TraceOf
    <3>3. CASE \E q \in inbox[t.from] : TraceOf(q, t) /\ TraceEnds(q)
      <4>1. PICK q \in inbox[t.from] : TraceOf(q, t) /\ TraceEnds(q)
        BY <3>3
      <4>2. Len(q.path) < Len(p.path)
        BY <1>1, <1>10, <2>2, <4>1 DEF TracesOK, Guided, BehindQueued, SameTrace, TraceOf
      <4>3. q \in PacketSet /\ Known(q)
        BY <1>1, <2>2, <4>1 DEF IInv, PacketsOK
      <4>4. Len(q.path) = Len(t.hops) /\ Len(p.path) <= Len(t.hops) /\ Len(p.path) \in Nat
        BY <1>1, <1>10, <4>1, <4>3, TraceLength DEF TraceOf
      <4> PICK k \in Nat, l \in Nat : k = Len(p.path) /\ l = Len(t.hops)
        BY <2>2, <4>4
      <4> QED BY <4>2, <4>4
    <3>4. CASE <<"TRACE", t, Len(t.hops)>> \in handed[t.from]
      <4>1. PICK h \in handed[t.from] : h[1] = "TRACE" /\ h[2] = t
        BY <3>4
      <4> QED BY <1>1, <1>10, <2>2, <4>1 DEF TracesOK, Guided, Over, TraceOf
    <3> QED BY <1>4, <3>1, <3>2, <3>3, <3>4 DEF Underway
  <2>5. PICK k \in Nat, l \in Nat \ {0} : k = Len(p.path) /\ l = Len(t.hops) /\ k <= l
    BY <1>1, <1>10, <2>2, TraceLength DEF TraceOf
  <2>6. k > 0 => via[k] = n
    BY <1>10, <2>3, <2>4, <2>5 DEF Stands, TraceOf, Guided, Unshared
  <2>7. k = 0 => n = t.from
    BY <1>10, <2>4, <2>5 DEF Stands, TraceOf
  <2>8. CASE k = l
    <3>1. t.from \in Neighbours(n)
      BY <2>3, <2>5, <2>6, <2>8
    <3>2. p \in inbox'[t.from]
      BY <1>3, <1>10, <3>1 DEF TraceOf
    <3>3. TraceEnds(p)
      BY <1>10, <2>5, <2>8 DEF TraceEnds, TraceOf
    <3> QED BY <1>10, <3>2, <3>3 DEF Underway, TraceOf, TraceEnds
  <2>9. CASE k < l
    <3>1. k + 1 \in 1..l /\ via[k + 1] \in net.forwarders
      BY <2>3, <2>5, <2>9
    <3>2. via[k + 1] \in Neighbours(n)
      BY <2>3, <2>5, <2>6, <2>7, <2>9
    <3> PICK m \in Nodes : m = via[k + 1]
      BY <3>2 DEF Neighbours
    <3>3. p \in inbox'[m]
      BY <1>3, <1>10, <3>2 DEF TraceOf
    <3>4. Due(m, p)
      <4>1. net.hash[m] = t.hops[k + 1]
        BY <2>3, <2>5, <3>1
      <4>2. ~TraceEnds(p)
        BY <1>10, <2>5, <2>9 DEF TraceEnds, TraceOf
      <4> QED BY <1>10, <2>5, <3>1, <4>1, <4>2 DEF Due, TraceOf
    <3> QED BY <1>5, <1>10, <3>3, <3>4 DEF Underway, TraceOf
  <2> QED BY <2>5, <2>8, <2>9
<1>11. Issued("TRACE")' = Issued("TRACE")
  BY <1>1 DEF Issued
<1> QED BY <1>6, <1>8, <1>9, <1>10, <1>11

\* What the others do not need: a copy that is neither due nor at the end where it
\* began.
LEMMA IdleTraces ==
  ASSUME NEW n \in Nodes, NEW p, Looked(n, p), TInv, DoesNothing,
         p.type = "TRACE" => ~Due(n, p) /\ ~(n = p.body.from /\ TraceEnds(p))
  PROVE  TInv'
<1>1. /\ TypeInv /\ net' = net /\ todo' = todo /\ queue' = queue /\ seen' = seen /\ handed' = handed
      /\ inbox' = [inbox EXCEPT ![n] = @ \ {p}] /\ inbox \in [Nodes -> SUBSET PacketSet]
  BY LookedAt DEF Looked, Looks, TypeInv, DoesNothing, history
<1> SUFFICES ASSUME Guided PROVE MarksIssued' /\ MarksBehind' /\ \A t \in Issued("TRACE")' : Underway(t)'
  BY <1>1, GuidedStays DEF TInv
<1>2. MarksIssued /\ MarksBehind /\ \A t \in Issued("TRACE") : Underway(t)
  BY DEF TInv
<1>3. \A m, q : (Due(m, q)' <=> Due(m, q)) /\ (Stands(m, q)' <=> Stands(m, q))
  BY <1>1, GuidedStays
<1>4. /\ \A m \in Nodes : inbox'[m] \subseteq inbox[m]
      /\ \A m \in Nodes : \A q \in inbox[m] : q \in inbox'[m] \/ (m = n /\ q = p)
  BY <1>1
<1>5. MarksIssued'
  BY <1>1, <1>2 DEF MarksIssued
<1>6. \A q : Ahead(q) => Ahead(q)'
  BY <1>1 DEF Ahead
<1>7. MarksBehind'
  BY <1>1, <1>2, <1>3, <1>4, <1>6 DEF MarksBehind
<1>8. ASSUME NEW t \in Issued("TRACE") PROVE Underway(t)'
  <2>1. t.from \in Nodes
    BY <1>1, TraceSender
  <2>2. CASE \E m \in Nodes : \E q \in queue[m] : TraceOf(q, t) /\ Stands(m, q)
    BY <1>1, <1>3, <2>2 DEF Underway, TraceOf
  <2>3. CASE \E m \in Nodes : \E q \in inbox[m] : TraceOf(q, t) /\ Due(m, q)
    BY <1>3, <1>4, <2>3 DEF Underway, TraceOf
  <2>4. CASE \E q \in inbox[t.from] : TraceOf(q, t) /\ TraceEnds(q)
    BY <1>4, <2>1, <2>4 DEF Underway, TraceOf, TraceEnds
  <2>5. CASE <<"TRACE", t, Len(t.hops)>> \in handed[t.from]
    BY <1>1, <2>1, <2>5 DEF Underway
  <2> QED BY <1>2, <2>2, <2>3, <2>4, <2>5 DEF Underway
<1>9. Issued("TRACE")' = Issued("TRACE")
  BY <1>1 DEF Issued
<1> QED BY <1>5, <1>7, <1>8, <1>9

LEMMA EndTraces ==
  ASSUME NEW n \in Nodes, NEW p, Looked(n, p), TInv, p.type = "TRACE", TraceEnds(p),
         Does(n, <<>>, {}, {calculatePacketHash(p)})
  PROVE  TInv'
<1>1. /\ TypeInv /\ net' = net /\ todo' = todo /\ p \in PacketSet /\ Known(p)
      /\ inbox' = [inbox EXCEPT ![n] = @ \ {p}] /\ inbox \in [Nodes -> SUBSET PacketSet]
  BY LookedAt DEF Looked, Looks, TypeInv
<1> SUFFICES ASSUME Guided PROVE MarksIssued' /\ MarksBehind' /\ \A t \in Issued("TRACE")' : Underway(t)'
  BY <1>1, GuidedStays DEF TInv
<1> PICK marks \in Seq(Digests) : marks = <<>>
  BY Marks
<1> PICK none \in SUBSET PacketSet : none = {}
  OBVIOUS
<1> PICK h : h = calculatePacketHash(p)
  OBVIOUS
<1>2. ToSet(marks) = {}
  BY DEF ToSet
<1>3. Effect(n, {}, none) /\ h \in handed'[n]
  <2>1. Does(n, marks, none, {h})
    OBVIOUS
  <2>2. Effect(n, ToSet(marks), none) /\ {h} \subseteq handed'[n]
    BY <1>1, <2>1, DoesLeaves
  <2> QED BY <1>2, <2>2
<1>4. /\ \A m \in Nodes : queue'[m] = queue[m]
      /\ \A m \in Nodes : ToSet(seen'[m]) \subseteq ToSet(seen[m])
      /\ \A m \in Nodes : handed[m] \subseteq handed'[m]
  BY <1>3 DEF Effect
<1>5. MarksIssued /\ MarksBehind /\ \A t \in Issued("TRACE") : Underway(t)
  BY DEF TInv
<1>6. \A m, q : (Due(m, q)' <=> Due(m, q)) /\ (Stands(m, q)' <=> Stands(m, q))
  BY <1>1, GuidedStays
<1>7. /\ \A m \in Nodes : inbox'[m] \subseteq inbox[m]
      /\ \A m \in Nodes : \A q \in inbox[m] : q \in inbox'[m] \/ (m = n /\ q = p)
  BY <1>1
<1>8. MarksIssued'
  BY <1>1, <1>4, <1>5 DEF MarksIssued
<1>9. \A q : Ahead(q) => Ahead(q)'
  BY <1>4 DEF Ahead
<1>10. MarksBehind'
  BY <1>4, <1>5, <1>6, <1>7, <1>9 DEF MarksBehind
<1>11. ~Due(n, p)
  BY DEF Due
<1>12. h = <<"TRACE", p.body, Len(p.body.hops)>>
  BY <1>1, TraceLength DEF calculatePacketHash
<1>13. ASSUME NEW t \in Issued("TRACE") PROVE Underway(t)'
  <2>1. t.from \in Nodes
    BY <1>1, TraceSender
  <2>2. CASE \E m \in Nodes : \E q \in queue[m] : TraceOf(q, t) /\ Stands(m, q)
    BY <1>4, <1>6, <2>2 DEF Underway, TraceOf
  <2>3. CASE \E m \in Nodes : \E q \in inbox[m] : TraceOf(q, t) /\ Due(m, q)
    BY <1>6, <1>7, <1>11, <2>3 DEF Underway, TraceOf
  <2>4. CASE \E q \in inbox[t.from] : TraceOf(q, t) /\ TraceEnds(q)
    <3>1. PICK q \in inbox[t.from] : TraceOf(q, t) /\ TraceEnds(q)
      BY <2>4
    <3>2. CASE q \in inbox'[t.from]
      BY <3>1, <3>2 DEF Underway, TraceOf, TraceEnds
    <3>3. CASE t.from = n /\ q = p
      BY <1>3, <1>12, <3>1, <3>3 DEF Underway, TraceOf
    <3> QED BY <1>7, <2>1, <3>1, <3>2, <3>3
  <2>5. CASE <<"TRACE", t, Len(t.hops)>> \in handed[t.from]
    BY <1>4, <2>1, <2>5 DEF Underway
  <2> QED BY <1>5, <2>2, <2>3, <2>4, <2>5 DEF Underway
<1>14. Issued("TRACE")' = Issued("TRACE")
  BY <1>1 DEF Issued
<1> QED BY <1>8, <1>10, <1>13, <1>14

\* The node that a trace is for next is then the one that transmits it.
LEMMA PassTraces ==
  ASSUME NEW n \in Nodes, NEW p, Looked(n, p), HInv', TInv, p.type = "TRACE", Due(n, p),
         Does(n, <<calculatePacketHash(p)>>, {[p EXCEPT !.path = Append(@, "snr")]}, {})
  PROVE  TInv'
<1>1. /\ TypeInv /\ net' = net /\ todo' = todo /\ p \in PacketSet /\ Known(p) /\ p \in inbox[n]
      /\ inbox' = [inbox EXCEPT ![n] = @ \ {p}] /\ inbox \in [Nodes -> SUBSET PacketSet]
      /\ TracesOK'
  BY LookedAt DEF Looked, Looks, TypeInv, HInv
<1> SUFFICES ASSUME Guided PROVE MarksIssued' /\ MarksBehind' /\ \A t \in Issued("TRACE")' : Underway(t)'
  BY <1>1, GuidedStays DEF TInv
<1>2. OneQueued' /\ BehindQueued'
  BY <1>1 DEF TracesOK, Guided, Unshared
<1> PICK q : q = [p EXCEPT !.path = Append(@, "snr")]
  OBVIOUS
<1>3. PICK k \in Nat : k = Len(p.path) /\ Len(q.path) = k + 1
  <2>1. PICK path \in Seq({"snr"}) : path = p.path
    BY <1>1 DEF Known
  <2>2. q = [type |-> p.type, route |-> p.route, path |-> Append(path, "snr"), body |-> p.body]
    BY <1>1, <2>1 DEF PacketSet
  <2>3. Len(Append(path, "snr")) = Len(path) + 1 /\ Len(path) \in Nat
    OBVIOUS
  <2> QED BY <2>1, <2>2, <2>3
<1>4. q.type = "TRACE" /\ q.body = p.body
  BY <1>1 DEF PacketSet
<1> PICK h \in Digests : h = calculatePacketHash(p) /\ h = <<"TRACE", p.body, k>>
  BY <1>1, <1>3, HashTyped DEF calculatePacketHash
<1>5. Effect(n, {h}, {q})
  <2>1. queue' = [queue EXCEPT ![n] = @ \cup {q}]
    BY DEF Does
  <2>2. q \in queue'[n]
    BY <1>1, <2>1 DEF TypeInv
  <2>3. q \in PacketSet
    BY <2>2, LookedAt DEF IInv, TypeInv
  <2> PICK sends \in SUBSET PacketSet : sends = {q}
    BY <2>3
  <2>4. Does(n, <<calculatePacketHash(p)>>, sends, {})
    OBVIOUS
  <2> QED BY <2>4, AloneLeaves
<1>6. /\ \A m \in Nodes : queue'[m] = IF m = n THEN queue[m] \cup {q} ELSE queue[m]
      /\ \A m \in Nodes : ToSet(seen'[m]) \subseteq IF m = n THEN ToSet(seen[m]) \cup {h} ELSE ToSet(seen[m])
      /\ \A m \in Nodes : handed[m] \subseteq handed'[m]
  BY <1>5 DEF Effect
<1>7. MarksIssued /\ MarksBehind /\ \A t \in Issued("TRACE") : Underway(t)
  BY DEF TInv
<1>8. \A m, r : (Due(m, r)' <=> Due(m, r)) /\ (Stands(m, r)' <=> Stands(m, r))
  BY <1>1, GuidedStays
<1>9. /\ \A m \in Nodes : inbox'[m] \subseteq inbox[m]
      /\ \A m \in Nodes : \A r \in inbox[m] : r \in inbox'[m] \/ (m = n /\ r = p)
      /\ q \in queue'[n]
  BY <1>1, <1>6
<1>10. PICK u \in net.traffic \ todo : u.type = "TRACE" /\ u.body = p.body
  BY <1>1, TraceKnown
<1>11. \A t \in todo : t.type = "TRACE" => t.body # p.body
  <2>1. todo \subseteq net.traffic
    BY <1>1 DEF TypeInv
  <2> SUFFICES ASSUME NEW t \in todo, t.type = "TRACE", t.body = p.body PROVE FALSE
    OBVIOUS
  <2>2. t = u
    BY <1>1, <1>10, <2>1, TraceNamed
  <2> QED BY <2>2
<1>12. \A m \in Nodes : \A b, i : b # p.body /\ <<"TRACE", b, i>> \in ToSet(seen'[m])
                                    => <<"TRACE", b, i>> \in ToSet(seen[m])
  BY <1>6
<1>13. MarksIssued'
  BY <1>1, <1>7, <1>11, <1>12 DEF MarksIssued
<1>14. \A r : r.body # p.body /\ Ahead(r) => Ahead(r)'
  BY <1>12 DEF Ahead
<1>15. Ahead(q)'
  <2>1. Ahead(p)
    BY <1>1, <1>7 DEF MarksBehind
  <2> SUFFICES ASSUME NEW m \in Nodes, NEW i \in Nat, <<"TRACE", p.body, i>> \in ToSet(seen'[m])
               PROVE  i < k + 1 \/ (i = 0 /\ m = p.body.from)
    BY <1>3, <1>4 DEF Ahead
  <2>2. <<"TRACE", p.body, i>> \in ToSet(seen[m]) \/ i = k
    BY <1>6
  <2> QED BY <1>3, <2>1, <2>2 DEF Ahead
<1>16. MarksBehind'
  <2>1. ASSUME NEW m \in Nodes, NEW r \in queue'[m], r.type = "TRACE" PROVE Ahead(r)'
    <3>1. CASE r.body = p.body
      BY <1>2, <1>4, <1>9, <1>15, <2>1, <3>1 DEF OneQueued, SameTrace
    <3>2. CASE r.body # p.body
      BY <1>4, <1>6, <1>7, <1>14, <2>1, <3>2 DEF MarksBehind
    <3> QED BY <3>1, <3>2
  <2>2. ASSUME NEW m \in Nodes, NEW r \in inbox'[m], r.type = "TRACE", Due(m, r) PROVE Ahead(r)'
    <3>1. r.body # p.body
      BY <1>2, <1>4, <1>8, <1>9, <2>2 DEF BehindQueued, SameTrace
    <3> QED BY <1>7, <1>9, <1>14, <2>2, <3>1 DEF MarksBehind
  <2> QED BY <1>8, <2>1, <2>2 DEF MarksBehind
<1>17. Stands(n, q)
  BY <1>3, <1>4 DEF Stands, Due
<1>18. ~TraceEnds(p)
  BY DEF Due
<1>19. ASSUME NEW t \in Issued("TRACE") PROVE Underway(t)'
  <2>1. t.from \in Nodes
    BY <1>1, TraceSender
  <2>2. CASE \E m \in Nodes : \E r \in queue[m] : TraceOf(r, t) /\ Stands(m, r)
    <3>1. \A m \in Nodes : queue[m] \subseteq queue'[m]
      BY <1>6
    <3> QED BY <1>8, <2>2, <3>1 DEF Underway, TraceOf
  <2>3. CASE \E m \in Nodes : \E r \in inbox[m] : TraceOf(r, t) /\ Due(m, r)
    <3>0. PICK m \in Nodes : \E r \in inbox[m] : TraceOf(r, t) /\ Due(m, r)
      BY <2>3
    <3>1. PICK r \in inbox[m] : TraceOf(r, t) /\ Due(m, r)
      BY <3>0
    <3>2. CASE r \in inbox'[m]
      BY <1>8, <3>1, <3>2 DEF Underway, TraceOf
    <3>3. CASE r = p
      <4>1. TraceOf(q, t) /\ Stands(n, q)' /\ q \in queue'[n]
        BY <1>4, <1>8, <1>9, <1>17, <3>1, <3>3 DEF TraceOf
      <4> QED BY <4>1 DEF Underway, TraceOf
    <3> QED BY <1>9, <3>1, <3>2, <3>3
  <2>4. CASE \E r \in inbox[t.from] : TraceOf(r, t) /\ TraceEnds(r)
    BY <1>9, <1>18, <2>1, <2>4 DEF Underway, TraceOf, TraceEnds
  <2>5. CASE <<"TRACE", t, Len(t.hops)>> \in handed[t.from]
    BY <1>6, <2>1, <2>5 DEF Underway
  <2> QED BY <1>7, <2>2, <2>3, <2>4, <2>5 DEF Underway
<1>20. Issued("TRACE")' = Issued("TRACE")
  BY <1>1 DEF Issued
<1> QED BY <1>13, <1>16, <1>19, <1>20

LEMMA ReceiveTraces ==
  ASSUME IInv, HInv, TInv, NEW n \in Nodes, NEW p \in inbox[n], Receive(n, p), IInv', HInv'
  PROVE  TInv'
<1>1. Looks(n, p) /\ onRecvPacket(n, p)
  BY DEF Receive, Looks
<1>2. Looked(n, p)
  BY <1>1, ReceiveKeeps DEF Looked
<1>3. CASE p.type # "TRACE"
  BY <1>1, <1>2, <1>3, PlainTraces
<1>4. CASE p.type = "TRACE"
  <2>1. /\ TypeInv /\ Known(p) /\ p \in PacketSet /\ net' = net
    BY <1>2, LookedAt
  <2>2. RecvTrace(n, p)
    BY <1>1, <1>4 DEF onRecvPacket, RecvOnTheWay, OnTheWay, RecvOwnAdvert, RecvAgain, ForThisNode,
                      RecvAck, RecvMultiAck, RecvText, RecvPath, RecvForOther, RecvGroup, RecvAdvert
  <2>3. CASE ~Guided
    BY <2>1, <2>3, GuidedStays DEF TInv
  <2>4. CASE Guided
    <3>1. PICK t \in net.traffic \ todo : t.type = "TRACE" /\ t.body = p.body
      BY <1>4, <2>1, TraceKnown
    <3>2. TraceComes(p)
      <4>1. Len(p.path) \in Nat /\ Len(p.path) <= Len(p.body.hops) /\ Len(p.body.hops) \in Nat
        BY <1>4, <2>1, TraceLength
      <4>2. Len(p.body.hops) < net.path_max
        BY <2>1, <2>4, <3>1, TraceGuided
      <4> PICK max \in Nat : max = net.path_max
        BY <2>1, ThisNetwork DEF TypeInv
      <4> QED BY <4>1, <4>2 DEF TraceComes
    <3>3. CASE TraceEnds(p)
      <4>1. Does(n, <<>>, {}, {calculatePacketHash(p)})
        BY <2>2, <3>2, <3>3 DEF RecvTrace
      <4> QED BY <1>2, <1>4, <3>3, <4>1, EndTraces
    <3>4. CASE ~TraceEnds(p) /\ Due(n, p)
      <4>1. Ahead(p)
        BY <1>4, <2>4, <3>4 DEF TInv, MarksBehind
      <4>2. ~wasSeen(n, p)
        <5> SUFFICES ASSUME wasSeen(n, p) PROVE FALSE
          OBVIOUS
        <5> PICK k \in Nat : k = Len(p.path)
          BY <1>4, <2>1, TraceLength
        <5>1. <<"TRACE", p.body, k>> \in ToSet(seen[n])
          BY <1>4 DEF wasSeen, calculatePacketHash
        <5>2. k = 0 /\ n = p.body.from
          <6>1. k < k \/ (k = 0 /\ n = p.body.from)
            BY <4>1, <5>1 DEF Ahead
          <6> QED BY <6>1
        <5>3. PICK via \in [1..Len(p.body.hops) -> net.forwarders] :
                via[1] \in Neighbours(n) /\ net.hash[via[1]] = p.body.hops[1]
          <6>1. PICK via \in [1..Len(p.body.hops) -> net.forwarders] :
                  /\ via[1] \in Neighbours(p.body.from)
                  /\ \A i \in 1..Len(p.body.hops) : net.hash[via[i]] = p.body.hops[i]
            BY <2>1, <2>4, <3>1, TraceGuided
          <6>2. 1 \in 1..Len(p.body.hops)
            BY <2>1, <2>4, <3>1, TraceGuided
          <6> QED BY <5>2, <6>1, <6>2
        <5>4. 1 \in 1..Len(p.body.hops)
          BY <2>1, <2>4, <3>1, TraceGuided
        <5>5. via[1] = n
          BY <2>4, <3>4, <5>2, <5>3, <5>4 DEF Due, Guided, Unshared
        <5> QED BY <5>3, <5>5 DEF Neighbours
      <4>3. TracePassesOn(n, p)
        BY <3>4, <4>2 DEF TracePassesOn, Due, allowPacketForward
      <4>4. Does(n, <<calculatePacketHash(p)>>, {[p EXCEPT !.path = Append(@, "snr")]}, {})
        BY <2>2, <3>2, <3>4, <4>3 DEF RecvTrace
      <4> QED BY <1>2, <1>4, <3>4, <4>4, PassTraces
    <3>5. CASE ~TraceEnds(p) /\ ~Due(n, p)
      <4>1. ~TracePassesOn(n, p)
        BY <3>5 DEF TracePassesOn, Due, allowPacketForward
      <4>2. DoesNothing
        BY <2>2, <3>2, <3>5, <4>1 DEF RecvTrace
      <4> QED BY <1>2, <3>5, <4>2, IdleTraces
    <3> QED BY <3>3, <3>4, <3>5
  <2> QED BY <2>3, <2>4
<1> QED BY <1>3, <1>4

\* What an application sends is queued and marked.
LEMMA OriginateLeaves ==
  ASSUME IInv, IInv', NEW t \in todo, Originate(t)
  PROVE  /\ t = [type |-> t.type, body |-> t.body] /\ t.body.from \in Nodes /\ t.type \in Sources
         /\ net' = net /\ todo' = todo \ {t} /\ inbox' = inbox
         /\ \E q \in PacketSet : /\ q.type = t.type /\ q.body = t.body
                                 /\ Effect(t.body.from, {calculatePacketHash(q)}, {q})
                                 /\ t.type = "TRACE" => Len(q.path) = 0
                                 /\ t.type = "TXT" =>
                                      q = IF out_path[t.body.from][t.body.to] = Unknown
                                          THEN Flood("TXT", t.body)
                                          ELSE Direct("TXT", out_path[t.body.from][t.body.to], t.body)
<1>1. TypeInv /\ net' = net /\ todo' = todo \ {t} /\ inbox' = inbox
  BY DEF IInv, Originate
<1>2. Message(net, t)
  BY <1>1, ThisNetwork DEF TypeInv
<1>3. t = [type |-> t.type, body |-> t.body] /\ t.type \in Sources
  BY <1>2 DEF Message, Sources
<1> PICK n \in Nodes : n = t.body.from
  BY <1>2 DEF Message
<1>4. PICK q : /\ Sends(n, {q}) /\ q.type = t.type /\ q.body = t.body
               /\ t.type = "TRACE" => Len(q.path) = 0
               /\ t.type = "TXT" => q = IF out_path[n][t.body.to] = Unknown THEN Flood("TXT", t.body)
                                        ELSE Direct("TXT", out_path[n][t.body.to], t.body)
  <2>1. CASE t.type = "TXT"
    <3> PICK q : /\ q = (IF out_path[n][t.body.to] = Unknown THEN Flood("TXT", t.body)
                         ELSE Direct("TXT", out_path[n][t.body.to], t.body))
                 /\ Sends(n, {q})
      BY <2>1 DEF Originate, SendText
    <3>1. q.type = "TXT" /\ q.body = t.body
      BY DEF Flood, Direct, Packet
    <3> QED BY <2>1, <3>1
  <2>2. CASE t.type = "TRACE"
    <3> PICK q : q = Direct("TRACE", <<>>, t.body) /\ Sends(n, {q})
      BY <2>2 DEF Originate
    <3>1. q.type = "TRACE" /\ q.body = t.body /\ q.path = <<>>
      BY DEF Direct, Packet
    <3> QED BY <2>2, <3>1
  <2>3. CASE t.type \in {"GRP", "ADVERT"}
    <3> PICK q : q = Flood(t.type, t.body) /\ Sends(n, {q})
      BY <2>3 DEF Originate
    <3>1. q.type = t.type /\ q.body = t.body
      BY DEF Flood, Packet
    <3> QED BY <2>3, <3>1
  <2> QED BY <1>3, <2>1, <2>2, <2>3 DEF Sources
<1>5. q \in PacketSet
  <2>1. queue' = [queue EXCEPT ![n] = @ \cup {q}]
    BY <1>4 DEF Sends, Does
  <2>2. q \in queue'[n]
    BY <1>1, <2>1 DEF TypeInv
  <2> QED BY <2>2 DEF IInv, TypeInv
<1> PICK packets \in SUBSET PacketSet : packets = {q}
  BY <1>5
<1>6. Effect(n, {HashAsSent(r) : r \in packets}, packets)
  <2>1. Sends(n, packets) /\ IsFiniteSet(packets)
    BY <1>4, FS_Singleton
  <2> QED BY <1>1, <2>1, SendsLeaves
<1>7. HashAsSent(q) = calculatePacketHash(q)
  BY <1>3, <1>4 DEF HashAsSent, Sources
<1>8. {HashAsSent(r) : r \in packets} = {calculatePacketHash(q)}
  BY <1>7
<1>9. Effect(n, {calculatePacketHash(q)}, {q})
  BY <1>6, <1>8
<1> QED BY <1>1, <1>3, <1>4, <1>5, <1>9

LEMMA OriginateTraces ==
  ASSUME IInv, IInv', HInv, TInv, NEW t \in todo, Originate(t)
  PROVE  TInv'
<1>1. /\ t = [type |-> t.type, body |-> t.body] /\ t.body.from \in Nodes
      /\ net' = net /\ todo' = todo \ {t} /\ inbox' = inbox /\ TypeInv
      /\ t \in net.traffic /\ \A u \in todo : u \in net.traffic
  BY OriginateLeaves DEF IInv, TypeInv
<1> PICK n \in Nodes : n = t.body.from
  BY <1>1
<1>2. PICK q \in PacketSet : /\ q.type = t.type /\ q.body = t.body
                             /\ Effect(n, {calculatePacketHash(q)}, {q})
                             /\ t.type = "TRACE" => Len(q.path) = 0
  BY OriginateLeaves
<1> PICK h : h = calculatePacketHash(q) /\ h[1] = t.type
  BY <1>2, HashSays
<1>3. /\ \A m \in Nodes : queue'[m] = IF m = n THEN queue[m] \cup {q} ELSE queue[m]
      /\ \A m \in Nodes : ToSet(seen'[m]) \subseteq IF m = n THEN ToSet(seen[m]) \cup {h}
                                                             ELSE ToSet(seen[m])
      /\ \A m \in Nodes : handed[m] \subseteq handed'[m]
  BY <1>2 DEF Effect
<1>4. CASE t.type # "TRACE"
  <2>0. q.type # "TRACE"
    BY <1>2, <1>4
  <2>1. ASSUME NEW m \in Nodes, NEW r, r.type = "TRACE"
        PROVE  r \in queue'[m] <=> r \in queue[m]
    <3>1. queue'[m] = IF m = n THEN queue[m] \cup {q} ELSE queue[m]
      BY <1>3
    <3> QED BY <2>0, <2>1, <3>1
  <2>2. \A m \in Nodes : \A r : r.type = "TRACE" => (r \in inbox'[m] <=> r \in inbox[m])
    BY <1>1
  <2>3. \A m \in Nodes : \A g \in ToSet(seen'[m]) : g[1] = "TRACE" => g \in ToSet(seen[m])
    BY <1>3, <1>4
  <2>4. Issued("TRACE")' = Issued("TRACE")
    BY <1>1, <1>4 DEF Issued
  <2> QED BY <1>1, <1>3, <2>1, <2>2, <2>3, <2>4, TracesStay
<1>5. CASE t.type = "TRACE"
  <2> SUFFICES ASSUME Guided PROVE MarksIssued' /\ MarksBehind' /\ \A b \in Issued("TRACE")' : Underway(b)'
    BY <1>1, GuidedStays DEF TInv
  <2>1. MarksIssued /\ MarksBehind /\ \A b \in Issued("TRACE") : Underway(b)
    BY DEF TInv
  <2>2. h = <<"TRACE", t.body, 0>>
    BY <1>2, <1>5 DEF calculatePacketHash
  <2>3. \A m, r : (Due(m, r)' <=> Due(m, r)) /\ (Stands(m, r)' <=> Stands(m, r))
    BY <1>1, GuidedStays
  <2>4. \A u \in todo' : u.type = "TRACE" => u.body # t.body
    <3> SUFFICES ASSUME NEW u \in todo', u.type = "TRACE", u.body = t.body PROVE FALSE
      OBVIOUS
    <3>1. u \in todo \ {t} /\ todo \subseteq net.traffic
      BY <1>1 DEF TypeInv
    <3>2. u = t
      BY <1>1, <1>5, <3>1, TraceNamed
    <3> QED BY <3>1, <3>2
  <2>5. \A m \in Nodes : \A b, i : b # t.body /\ <<"TRACE", b, i>> \in ToSet(seen'[m])
                                     => <<"TRACE", b, i>> \in ToSet(seen[m])
    BY <1>3, <2>2
  <2>6. MarksIssued'
    BY <1>1, <2>1, <2>4, <2>5 DEF MarksIssued
  <2>7. \A r : r.body # t.body /\ Ahead(r) => Ahead(r)'
    BY <2>5 DEF Ahead
  <2>8. Ahead(q)'
    <3> SUFFICES ASSUME NEW m \in Nodes, NEW i \in Nat, <<"TRACE", t.body, i>> \in ToSet(seen'[m])
                 PROVE  i = 0 /\ m = t.body.from
      BY <1>2, <1>5 DEF Ahead
    <3>1. <<"TRACE", t.body, i>> \notin ToSet(seen[m])
      BY <1>5, <2>1 DEF MarksIssued
    <3> QED BY <1>3, <2>2, <3>1
  <2>9. \A m \in Nodes : \A r \in queue[m] \cup inbox[m] : r.type = "TRACE" => r.body # t.body
    <3> SUFFICES ASSUME NEW m \in Nodes, NEW r \in queue[m] \cup inbox[m], r.type = "TRACE", r.body = t.body
                 PROVE  FALSE
      OBVIOUS
    <3>1. Known(r)
      BY DEF IInv, PacketsOK
    <3>2. PICK u \in net.traffic \ todo : u.type = "TRACE" /\ u.body = r.body
      BY <3>1, TraceKnown
    <3>3. todo \subseteq net.traffic
      BY <1>1 DEF TypeInv
    <3>4. u = t
      BY <1>1, <1>5, <3>2, <3>3, TraceNamed
    <3> QED BY <3>2, <3>4
  <2>10. MarksBehind'
    <3>1. ASSUME NEW m \in Nodes, NEW r \in queue'[m], r.type = "TRACE" PROVE Ahead(r)'
      <4>1. CASE r = q
        BY <2>8, <4>1
      <4>2. CASE r \in queue[m]
        BY <2>1, <2>7, <2>9, <3>1, <4>2 DEF MarksBehind
      <4>3. queue'[m] = IF m = n THEN queue[m] \cup {q} ELSE queue[m]
        BY <1>3
      <4> QED BY <3>1, <4>1, <4>2, <4>3
    <3>2. ASSUME NEW m \in Nodes, NEW r \in inbox'[m], r.type = "TRACE", Due(m, r) PROVE Ahead(r)'
      BY <1>1, <2>1, <2>7, <2>9, <3>2 DEF MarksBehind
    <3> QED BY <2>3, <3>1, <3>2 DEF MarksBehind
  <2>11. ASSUME NEW b \in Issued("TRACE") PROVE Underway(b)'
    <3>1. b.from \in Nodes
      BY <1>1, TraceSender
    <3>2. CASE \E m \in Nodes : \E r \in queue[m] : TraceOf(r, b) /\ Stands(m, r)
      <4>1. \A m \in Nodes : queue[m] \subseteq queue'[m]
        BY <1>3
      <4> QED BY <2>3, <3>2, <4>1 DEF Underway, TraceOf
    <3>3. CASE \E m \in Nodes : \E r \in inbox[m] : TraceOf(r, b) /\ Due(m, r)
      BY <1>1, <2>3, <3>3 DEF Underway, TraceOf
    <3>4. CASE \E r \in inbox[b.from] : TraceOf(r, b) /\ TraceEnds(r)
      BY <1>1, <3>4 DEF Underway, TraceOf, TraceEnds
    <3>5. CASE <<"TRACE", b, Len(b.hops)>> \in handed[b.from]
      BY <1>3, <3>1, <3>5 DEF Underway
    <3> QED BY <2>1, <3>2, <3>3, <3>4, <3>5 DEF Underway
  <2>12. Underway(t.body)'
    <3>1. TraceOf(q, t.body) /\ Stands(n, q)' /\ q \in queue'[n]
      BY <1>2, <1>3, <1>5, <2>3 DEF TraceOf, Stands
    <3> QED BY <3>1 DEF Underway, TraceOf
  <2>13. \A b \in Issued("TRACE")' : b \in Issued("TRACE") \/ b = t.body
    BY <1>1 DEF Issued
  <2> QED BY <2>6, <2>10, <2>11, <2>12, <2>13
<1> QED BY <1>4, <1>5

LEMMA StartsTraces == Init => TInv
<1> SUFFICES ASSUME Init PROVE TInv
  OBVIOUS
<1>1. ToSet(<<>>) = {}
  BY DEF ToSet
<1>2. \A n \in Nodes : ToSet(seen[n]) = {} /\ queue[n] = {} /\ inbox[n] = {}
  BY <1>1 DEF Init
<1>3. Issued("TRACE") = {}
  BY DEF Init, Issued
<1> QED BY <1>2, <1>3 DEF TInv, MarksIssued, MarksBehind

LEMMA StuttersTraces ==
  ASSUME IInv, TInv, UNCHANGED vars
  PROVE  TInv'
<1>1. /\ TypeInv /\ net' = net /\ todo' = todo /\ queue' = queue /\ inbox' = inbox /\ seen' = seen
      /\ handed' = handed
  BY DEF IInv, vars, history
<1>2. Issued("TRACE")' = Issued("TRACE")
  BY <1>1 DEF Issued
<1> QED BY <1>1, <1>2, TracesStay

-----------------------------------------------------------------------------
(* Exchanges are completed *)

\* A text, a returned path or an ack, named by its hash: the node that made it and
\* the one it is for.
Errands == ({"TXT"} \X Texts) \cup ({"PATH"} \X Returns) \cup ({"ACK"} \X Acks)

From(h) == IF h[1] = "ACK" THEN h[2].ack.to ELSE h[2].from
For(h) == IF h[1] = "ACK" THEN h[2].ack.from ELSE h[2].to

\* A packet that carries it; an ack may come as a multi-ack as well.
Copy(p, h) == p.body = h[2] /\ (p.type = h[1] \/ (h[1] = "ACK" /\ p.type = "MULTI"))

Marked(n, h) == h \in ToSet(seen[n])

\* Nothing is lost, no two forwarders share a hash, there is room for a path through
\* all of them, and texts are for others that can be reached.
Ideal ==
  /\ ~net.lossy /\ net.restarts = 0 /\ Unshared
  /\ IsFiniteSet(net.forwarders) /\ Cardinality(net.forwarders) <= net.path_max
  /\ \A t \in net.traffic : t.type = "TXT" =>
       /\ t.body.from # t.body.to
       /\ \E path \in Paths : Connects(t.body.from, path, t.body.to)
       /\ \E path \in Paths : Connects(t.body.to, path, t.body.from)

\* A path that comes by no node twice, and by neither end.
Simple(o, path, d) ==
  /\ IsInjective(path)
  /\ \A i \in DOMAIN path : \A f \in net.forwarders \cap {o, d} : net.hash[f] # path[i]

Unused(h) ==
  \A n \in Nodes : /\ h \notin sent[n] /\ ~Marked(n, h)
                   /\ \A p \in queue[n] \cup inbox[n] : ~Copy(p, h)

\* A flood: its copies came by different forwarders that passed it on, and whoever
\* passed it on still has to transmit it, or was heard.
Gathered(p, h) ==
  /\ p.type = h[1] /\ isRouteFlood(p) /\ IsInjective(p.path)
  /\ \A i \in DOMAIN p.path : \E f \in net.forwarders \ {From(h)} :
       net.hash[f] = p.path[i] /\ h \in sent[f]

Heeded(n, h) ==
  \/ \E p \in queue[n] : Copy(p, h)
  \/ \A m \in Neighbours(n) : Marked(m, h) \/ \E p \in inbox[m] : Copy(p, h)

Spreads(h) ==
  /\ \A n \in Nodes : \A p \in queue[n] \cup inbox[n] : Copy(p, h) => Gathered(p, h)
  /\ \A n \in Nodes : h \in sent[n] => Marked(n, h) /\ Heeded(n, h)
  /\ \A n \in net.forwarders \ {For(h)} : Marked(n, h) => h \in sent[n]

\* A direct packet: the node k hops along its path, and what that node sends.
Rest(path, k) == SubSeq(path, k + 1, Len(path))
At(h, path, k, n) == IF k = 0 THEN n = From(h) ELSE n \in net.forwarders /\ net.hash[n] = path[k]
Carried(h, path, k) == Direct(h[1], Rest(path, k), h[2])
Ended(h, path) == \E n \in Nodes : At(h, path, Len(path), n) /\ h \in sent[n]

Passed(h, path, k) ==
  IF k = Len(path) THEN Carried(h, path, k) \in inbox[For(h)] \/ Marked(For(h), h)
  ELSE \E m \in Nodes : /\ At(h, path, k + 1, m)
                        /\ Carried(h, path, k) \in inbox[m] \/ h \in sent[m] \/ Ended(h, path)

Follows(h, path) ==
  /\ \A n \in Nodes : \A p \in queue[n] : Copy(p, h) =>
       /\ p.route = "direct" /\ h \in sent[n]
       /\ \E k \in 0..Len(path) : p.path = Rest(path, k) /\ At(h, path, k, n)
  /\ \A n \in Nodes : \A p \in inbox[n] : Copy(p, h) =>
       /\ p.route = "direct" /\ \E k \in 0..Len(path) : p.path = Rest(path, k)
       /\ p.path = <<>> /\ p.type = h[1] => Ended(h, path)
  /\ \A k \in 0..Len(path) : \A n \in Nodes : At(h, path, k, n) /\ h \in sent[n] =>
       Carried(h, path, k) \in queue[n] \/ Passed(h, path, k)
  /\ \A n \in Nodes \ {For(h)} : Marked(n, h) => h \in sent[n] \/ Ended(h, path)

Way(h, path) ==
  Connects(From(h), path, For(h)) /\ Simple(From(h), path, For(h))

\* An errand under way.
Going(h) ==
  /\ h \in sent[From(h)] /\ From(h) # For(h)
  /\ \/ Spreads(h) /\ \E path \in Paths : Connects(From(h), path, For(h))
     \/ /\ out_path[From(h)][For(h)] # Unknown
        /\ \E path \in Paths : Way(h, path) /\ Follows(h, path)

\* What a path or an ack says is true.
Says(h) ==
  /\ h[1] = "PATH" => /\ Simple(h[2].to, h[2].path, h[2].from)
                      /\ h[2].ack # NoAck => Arrived(h[2].ack)
  /\ h[1] = "ACK" => Arrived(h[2].ack)

\* What an errand that has arrived has led to.
Answered(t) ==
  \/ \E b \in Returns : b.from = t.to /\ b.to = t.from /\ b.ack = t /\ <<"PATH", b>> \in sent[t.to]
  \/ /\ out_path[t.from][t.to] # Unknown
     /\ \E b \in Acks : b.ack = t /\ <<"ACK", b>> \in sent[t.to]

Done(h) ==
  /\ h[1] = "TXT" => Answered(h[2])
  /\ h[1] = "PATH" => out_path[h[2].to][h[2].from] # Unknown /\ h[2].ack \notin awaiting[h[2].to]
  /\ h[1] = "ACK" => h[2].ack \notin awaiting[h[2].ack.from]

ErrandOK(h) == Unused(h) \/ (Going(h) /\ Says(h) /\ (Marked(For(h), h) => Done(h)))

\* Who knows a path has told the other end, or was told by it.
RouteOK(n, m) ==
  out_path[n][m] # Unknown =>
    /\ Simple(n, out_path[n][m], m)
    /\ \/ out_path[m][n] # Unknown
       \/ \E b \in Returns : b.from = n /\ b.to = m /\ <<"PATH", b>> \in sent[n]

ExchangesOK ==
  /\ \A h \in Errands : ErrandOK(h)
  /\ \A n, m \in Nodes : RouteOK(n, m)
  /\ \A t \in Issued("TXT") : <<"TXT", t>> \in sent[t.from]
  /\ \A n \in Nodes : \A t \in awaiting[n] : t.from = n /\ t \in Issued("TXT")

XInv == Ideal /\ forgot = {} => ExchangesOK

LEMMA IdealStays ==
  ASSUME net' = net
  PROVE  /\ Ideal' <=> Ideal
         /\ \A o, path, d : Simple(o, path, d)' <=> Simple(o, path, d)
         /\ \A h, path, k, n : At(h, path, k, n)' <=> At(h, path, k, n)
         /\ \A n : Neighbours(n)' = Neighbours(n)
<1>1. \A n, path, m : Connects(n, path, m)' <=> Connects(n, path, m)
  BY SamePlaces
<1>2. Ideal' <=> Ideal
  BY <1>1, Zenon DEF Ideal, Unshared
<1> QED BY <1>2 DEF Simple, At, Neighbours

\* An errand has two ends, and packets and hashes of its own.
LEMMA ErrandIs ==
  ASSUME NEW h \in Errands
  PROVE  /\ From(h) \in Nodes /\ For(h) \in Nodes /\ h[1] \in {"TXT", "PATH", "ACK"}
         /\ h = <<h[1], h[2]>> /\ h \in Digests
         /\ h[1] = "TXT" => h[2] \in Texts
         /\ h[1] = "PATH" => h[2] \in Returns
         /\ h[1] = "ACK" => h[2] \in Acks /\ h[2].ack \in Texts
<1>1. CASE h \in {"TXT"} \X Texts
  <2>1. h[1] = "TXT" /\ h[2] \in Texts /\ h = <<h[1], h[2]>>
    BY <1>1
  <2>2. h[2] \in Bodies /\ h[1] \in Types
    BY <2>1 DEF Bodies, Texts, Offered, Types, Sources
  <2> QED BY <2>1, <2>2, TextEnds DEF From, For, Digests
<1>2. CASE h \in {"PATH"} \X Returns
  <2>1. h[1] = "PATH" /\ h[2] \in Returns /\ h = <<h[1], h[2]>>
    BY <1>2
  <2>2. h[2] \in Bodies /\ h[1] \in Types
    BY <2>1 DEF Bodies, Types
  <2> QED BY <2>1, <2>2 DEF From, For, Digests, Returns
<1>3. CASE h \in {"ACK"} \X Acks
  <2>1. h[1] = "ACK" /\ h[2] \in Acks /\ h = <<h[1], h[2]>>
    BY <1>3
  <2>2. h[2] \in Bodies /\ h[1] \in Types /\ h[2].ack \in Texts
    BY <2>1 DEF Bodies, Types, Acks
  <2> QED BY <2>1, <2>2, TextEnds DEF From, For, Digests
<1> QED BY <1>1, <1>2, <1>3 DEF Errands

\* The hash of a copy is the errand itself, but for a multi-ack.
LEMMA CopyHash ==
  ASSUME NEW h \in Errands, NEW p \in PacketSet
  PROVE  /\ calculatePacketHash(p) = h <=> p.type = h[1] /\ p.body = h[2]
         /\ HashAsSent(p) = h <=> p.type = h[1] /\ p.body = h[2]
         /\ calculatePacketHash(p) = h => Copy(p, h)
         /\ Copy(p, h) /\ p.type # "MULTI" => calculatePacketHash(p) = h
<1> PICK type, body : h = <<type, body>> /\ h[1] = type /\ h[2] = body /\ type \in {"TXT", "PATH", "ACK"}
  BY ErrandIs
<1>1. calculatePacketHash(p) = h <=> p.type = type /\ p.body = body
  <2>1. CASE p.type = "TRACE"
    <3>1. calculatePacketHash(p)[1] = "TRACE"
      BY <2>1, HashSays
    <3> QED BY <2>1, <3>1
  <2>2. CASE p.type # "TRACE"
    BY <2>2 DEF calculatePacketHash
  <2> QED BY <2>1, <2>2
<1>2. HashAsSent(p) = h <=> p.type = type /\ p.body = body
  <2>1. CASE p.type = "MULTI"
    <3>1. HashAsSent(p)[1] = "MULTI"
      BY <2>1 DEF HashAsSent
    <3> QED BY <2>1, <3>1
  <2>2. CASE p.type # "MULTI"
    BY <1>1, <2>2 DEF HashAsSent
  <2> QED BY <2>1, <2>2
<1> QED BY <1>1, <1>2 DEF Copy

\* What is left of a path after its first k hops.
LEMMA RestIs ==
  ASSUME NEW E, NEW path \in Seq(E), NEW k \in 0..Len(path)
  PROVE  /\ Rest(path, k) \in Seq(E) /\ Len(Rest(path, k)) = Len(path) - k
         /\ Rest(path, k) = <<>> <=> k = Len(path)
         /\ k = 0 => Rest(path, k) = path
         /\ k < Len(path) => Head(Rest(path, k)) = path[k + 1] /\ Tail(Rest(path, k)) = Rest(path, k + 1)
<1> PICK len \in Nat : len = Len(path)
  OBVIOUS
<1>1. k \in Nat /\ k <= Len(path) /\ k <= len
  OBVIOUS
<1>2. SubSeq(path, k + 1, Len(path)) \in Seq(E) /\ Len(SubSeq(path, k + 1, Len(path))) = Len(path) - k
  BY <1>1, EndOf
<1>3. Rest(path, k) \in Seq(E) /\ Len(Rest(path, k)) = len - k
  BY <1>2 DEF Rest
<1>4. Rest(path, k) = <<>> <=> k = len
  BY <1>1, <1>3
<1>5. k = 0 => Rest(path, k) = path
  BY SubSeqFull DEF Rest
<1>6. ASSUME k < len
      PROVE  Head(Rest(path, k)) = path[k + 1] /\ Tail(Rest(path, k)) = Rest(path, k + 1)
  <2> PICK j \in 1..Len(path) : j = k + 1
    BY <1>6
  <2>1. Len(path) \in j..Len(path)
    OBVIOUS
  <2>2. Head(SubSeq(path, j, Len(path))) = path[j] /\ Tail(SubSeq(path, j, Len(path))) = SubSeq(path, j + 1, Len(path))
    BY <2>1, HeadTailOfSubSeq
  <2> QED BY <2>2 DEF Rest
<1> QED BY <1>3, <1>4, <1>5, <1>6

LEMMA RestOnce ==
  ASSUME NEW E, NEW path \in Seq(E), NEW k \in 0..Len(path), NEW j \in 0..Len(path),
         Rest(path, k) = Rest(path, j)
  PROVE  k = j
<1>1. Len(Rest(path, k)) = Len(path) - k /\ Len(Rest(path, j)) = Len(path) - j
  BY RestIs
<1> QED BY <1>1

\* An errand that a step has nothing to do with is as it was.
Untouched(h) ==
  /\ \A n \in Nodes : (h \in sent'[n] <=> h \in sent[n]) /\ (Marked(n, h)' <=> Marked(n, h))
  /\ \A n \in Nodes : \A p : Copy(p, h) =>
       (p \in queue'[n] <=> p \in queue[n]) /\ (p \in inbox'[n] <=> p \in inbox[n])

LEMMA UntouchedKeeps ==
  ASSUME TypeInv, net' = net, NEW h \in Errands, Untouched(h)
  PROVE  /\ Unused(h) => Unused(h)'
         /\ Spreads(h) => Spreads(h)'
         /\ \A path \in Paths : Follows(h, path) => Follows(h, path)'
<1>1. /\ \A n \in Nodes : (h \in sent'[n] <=> h \in sent[n]) /\ (Marked(n, h)' <=> Marked(n, h))
      /\ \A n \in Nodes : \A p : Copy(p, h) =>
           (p \in queue'[n] <=> p \in queue[n]) /\ (p \in inbox'[n] <=> p \in inbox[n])
      /\ From(h) \in Nodes /\ For(h) \in Nodes /\ net.forwarders \subseteq Nodes
      /\ \A n : Neighbours(n) \subseteq Nodes
  BY ErrandIs, ThisNetwork DEF Untouched, TypeInv, Neighbours
<1>2. Unused(h) => Unused(h)'
  BY <1>1 DEF Unused
<1>3. ASSUME Spreads(h) PROVE Spreads(h)'
  <2>1. \A p : Gathered(p, h) => Gathered(p, h)'
    BY <1>1 DEF Gathered, isRouteFlood
  <2>2. \A n \in Nodes : Heeded(n, h) => Heeded(n, h)'
    <3> SUFFICES ASSUME NEW n \in Nodes, Heeded(n, h) PROVE Heeded(n, h)'
      OBVIOUS
    <3>1. Neighbours(n)' = Neighbours(n)
      BY IdealStays
    <3> QED BY <1>1, <3>1 DEF Heeded
  <2>3. \A n \in Nodes : \A p \in queue'[n] \cup inbox'[n] : Copy(p, h) => Gathered(p, h)'
    BY <1>1, <1>3, <2>1 DEF Spreads
  <2>4. \A n \in Nodes : h \in sent'[n] => Marked(n, h)' /\ Heeded(n, h)'
    BY <1>1, <1>3, <2>2 DEF Spreads
  <2>5. \A n \in net.forwarders \ {For(h)} : Marked(n, h)' => h \in sent'[n]
    BY <1>1, <1>3 DEF Spreads
  <2> QED BY <2>3, <2>4, <2>5 DEF Spreads
<1>4. ASSUME NEW path \in Paths, Follows(h, path) PROVE Follows(h, path)'
  <2>1. \A k, n : At(h, path, k, n)' <=> At(h, path, k, n)
    BY IdealStays
  <2>2. Ended(h, path)' <=> Ended(h, path)
    BY <1>1, <2>1 DEF Ended
  <2>3. \A k : Copy(Carried(h, path, k), h)
    BY DEF Copy, Carried, Direct, Packet
  <2>4. ASSUME NEW k, Passed(h, path, k) PROVE Passed(h, path, k)'
    <3>1. CASE k = Len(path)
      BY <1>1, <2>3, <2>4, <3>1 DEF Passed, Carried
    <3>2. CASE k # Len(path)
      <4>1. PICK m \in Nodes : /\ At(h, path, k + 1, m)
                               /\ Carried(h, path, k) \in inbox[m] \/ h \in sent[m] \/ Ended(h, path)
        BY <2>4, <3>2 DEF Passed
      <4>2. Carried(h, path, k) \in inbox'[m] \/ h \in sent'[m] \/ Ended(h, path)'
        BY <1>1, <2>2, <2>3, <4>1
      <4> QED BY <2>1, <3>2, <4>1, <4>2 DEF Passed, Carried
    <3> QED BY <3>1, <3>2
  <2>5. \A n \in Nodes : \A p \in queue'[n] : Copy(p, h) =>
          /\ p.route = "direct" /\ h \in sent'[n]
          /\ \E k \in 0..Len(path) : p.path = Rest(path, k) /\ At(h, path, k, n)'
    BY <1>1, <1>4, <2>1 DEF Follows
  <2>6. \A n \in Nodes : \A p \in inbox'[n] : Copy(p, h) =>
          /\ p.route = "direct" /\ \E k \in 0..Len(path) : p.path = Rest(path, k)
          /\ p.path = <<>> /\ p.type = h[1] => Ended(h, path)'
    BY <1>1, <1>4, <2>2 DEF Follows
  <2>7. ASSUME NEW k \in 0..Len(path), NEW n \in Nodes, At(h, path, k, n)', h \in sent'[n]
        PROVE  Carried(h, path, k) \in queue'[n] \/ Passed(h, path, k)'
    <3>1. Carried(h, path, k) \in queue[n] \/ Passed(h, path, k)
      BY <1>1, <1>4, <2>1, <2>7 DEF Follows
    <3> QED BY <1>1, <2>3, <2>4, <3>1
  <2>8. \A n \in Nodes \ {For(h)} : Marked(n, h)' => h \in sent'[n] \/ Ended(h, path)'
    BY <1>1, <1>4, <2>2 DEF Follows
  <2> HIDE DEF Marked
  <2> QED BY <2>5, <2>6, <2>7, <2>8 DEF Follows, Carried
<1> QED BY <1>2, <1>3, <1>4

\* What a handler leaves behind of an errand.
LEMMA EffectOn ==
  ASSUME TypeInv, NEW n \in Nodes, NEW M, NEW S \in SUBSET PacketSet, Effect(n, M, S), n \notin forgot',
         NEW h \in Errands
  PROVE  /\ \A m \in Nodes : \A q : q \in queue'[m] <=> q \in queue[m] \/ (m = n /\ q \in S)
         /\ \A m \in Nodes : h \in sent'[m] <=>
              h \in sent[m] \/ (m = n /\ \E q \in S : q.type = h[1] /\ q.body = h[2])
         /\ \A m \in Nodes : Marked(m, h)' <=> Marked(m, h) \/ (m = n /\ h \in M)
<1>1. \A m \in Nodes : queue'[m] = IF m = n THEN queue[m] \cup S ELSE queue[m]
  BY DEF Effect
<1>2. ASSUME NEW m \in Nodes
      PROVE  h \in sent'[m] <=> h \in sent[m] \/ (m = n /\ \E q \in S : q.type = h[1] /\ q.body = h[2])
  <2>1. sent'[m] = IF m = n THEN sent[m] \cup {calculatePacketHash(q) : q \in S} ELSE sent[m]
    BY DEF Effect
  <2>2. \A q \in S : calculatePacketHash(q) = h <=> q.type = h[1] /\ q.body = h[2]
    BY CopyHash
  <2> QED BY <2>1, <2>2
<1>3. ASSUME NEW m \in Nodes
      PROVE  Marked(m, h)' <=> Marked(m, h) \/ (m = n /\ h \in M)
  BY DEF Effect, Marked
<1> QED BY <1>1, <1>2, <1>3

\* An errand begins where it is made.
LEMMA SpreadsStart ==
  ASSUME TypeInv, net' = net, NEW h \in Errands, Unused(h), \A m \in Nodes : inbox'[m] \subseteq inbox[m],
         NEW M, NEW S \in SUBSET PacketSet, Effect(From(h), M, S), From(h) \notin forgot', h \in M,
         Flood(h[1], h[2]) \in S, \A r \in S : Copy(r, h) => r = Flood(h[1], h[2])
  PROVE  Spreads(h)' /\ h \in sent'[From(h)]
<1> PICK n \in Nodes : n = From(h)
  BY ErrandIs
<1> PICK q : /\ q = Flood(h[1], h[2]) /\ q.type = h[1] /\ q.body = h[2] /\ q.route = "flood"
             /\ q.path = <<>> /\ q \in S
  BY DEF Flood, Packet
<1>1. /\ \A m \in Nodes : \A r : r \in queue'[m] <=> r \in queue[m] \/ (m = n /\ r \in S)
      /\ \A m \in Nodes : h \in sent'[m] <=>
           h \in sent[m] \/ (m = n /\ \E r \in S : r.type = h[1] /\ r.body = h[2])
      /\ \A m \in Nodes : Marked(m, h)' <=> Marked(m, h) \/ (m = n /\ h \in M)
  BY EffectOn
<1>2. \A m \in Nodes : (h \in sent'[m] <=> m = n) /\ (Marked(m, h)' <=> m = n)
  BY <1>1 DEF Unused
<1>3. \A m \in Nodes : \A r \in queue'[m] \cup inbox'[m] : Copy(r, h) => m = n /\ r = q
  BY <1>1 DEF Unused
<1>4. Copy(q, h) /\ q \in queue'[n]
  BY <1>1 DEF Copy
<1>5. Gathered(q, h)'
  BY DEF Gathered, isRouteFlood, IsInjective
<1>6. Heeded(n, h)'
  BY <1>4 DEF Heeded
<1>7. net'.forwarders \subseteq Nodes
  BY ThisNetwork DEF TypeInv
<1> HIDE DEF Marked, Copy
<1> QED BY <1>2, <1>3, <1>5, <1>6, <1>7 DEF Spreads

\* A direct errand begins at the first node of its path.
LEMMA FollowsStart ==
  ASSUME TypeInv, net' = net, NEW h \in Errands, Unused(h), \A m \in Nodes : inbox'[m] \subseteq inbox[m],
         NEW path \in Paths, Simple(From(h), path, For(h)),
         NEW M, NEW S \in SUBSET PacketSet, Effect(From(h), M, S), From(h) \notin forgot',
         Direct(h[1], path, h[2]) \in S, \A r \in S : Copy(r, h) => r.route = "direct" /\ r.path = path
  PROVE  Follows(h, path)' /\ h \in sent'[From(h)]
<1> PICK n \in Nodes : n = From(h)
  BY ErrandIs
<1> PICK len \in Nat : len = Len(path) /\ DOMAIN path = 1..len
  BY DEF Paths
<1>0. Rest(path, 0) = path /\ 0 \in 0..Len(path)
  <2>1. 0 \in 0..Len(path) /\ path \in Seq(PathBytes)
    BY DEF Paths
  <2> QED BY <2>1, RestIs
<1> PICK q : /\ q = Direct(h[1], path, h[2]) /\ q.type = h[1] /\ q.body = h[2] /\ q \in S
             /\ q = Carried(h, path, 0)
  BY <1>0 DEF Direct, Packet, Carried
<1>1. /\ \A m \in Nodes : \A r : r \in queue'[m] <=> r \in queue[m] \/ (m = n /\ r \in S)
      /\ \A m \in Nodes : h \in sent'[m] <=>
           h \in sent[m] \/ (m = n /\ \E r \in S : r.type = h[1] /\ r.body = h[2])
      /\ \A m \in Nodes : Marked(m, h)' <=> Marked(m, h) \/ (m = n /\ h \in M)
  BY EffectOn
<1>2. \A m \in Nodes : (h \in sent'[m] <=> m = n) /\ (Marked(m, h)' => m = n)
  BY <1>1 DEF Unused
<1>3. \A m \in Nodes : \A r \in queue'[m] : Copy(r, h) => m = n /\ r.route = "direct" /\ r.path = path
  BY <1>1 DEF Unused
<1>4. \A m \in Nodes : \A r \in inbox'[m] : ~Copy(r, h)
  BY DEF Unused
<1>5. q \in queue'[n]
  BY <1>1
<1>6. \A k, m : At(h, path, k, m)' <=> At(h, path, k, m)
  BY IdealStays
<1>7. At(h, path, 0, n)'
  BY DEF At
<1>8. ASSUME NEW k \in 0..len, At(h, path, k, n) PROVE k = 0
  <2> SUFFICES ASSUME k # 0 PROVE FALSE
    OBVIOUS
  <2>1. n \in net.forwarders /\ net.hash[n] = path[k] /\ k \in 1..len
    BY <1>8 DEF At
  <2> QED BY <2>1 DEF Simple
<1>9. \A k \in 0..len : \A m \in Nodes : At(h, path, k, m)' /\ h \in sent'[m] => q = Carried(h, path, k) /\ m = n
  BY <1>2, <1>6, <1>8
<1> HIDE DEF Marked, Copy
<1>10. \A m \in Nodes : \A r \in queue'[m] : Copy(r, h) =>
         /\ r.route = "direct" /\ h \in sent'[m]
         /\ \E k \in 0..Len(path) : r.path = Rest(path, k) /\ At(h, path, k, m)'
  BY <1>0, <1>2, <1>3, <1>7
<1>11. \A k \in 0..Len(path) : \A m \in Nodes : At(h, path, k, m)' /\ h \in sent'[m] =>
         Carried(h, path, k) \in queue'[m]
  BY <1>5, <1>9
<1> QED BY <1>2, <1>4, <1>10, <1>11, <1>5 DEF Follows, Carried

\* What is transmitted is heard by every neighbour.
LEMMA TransmitLeaves ==
  ASSUME TypeInv, ~net.lossy, NEW n \in Nodes, NEW p \in queue[n], Transmit(n, p)
  PROVE  /\ net' = net /\ todo' = todo /\ out_path' = out_path /\ awaiting' = awaiting /\ made' = made
         /\ sent' = sent /\ seen' = seen /\ handed' = handed /\ forgot' = forgot /\ p \in PacketSet
         /\ \A m \in Nodes : queue'[m] \subseteq queue[m] /\ inbox[m] \subseteq inbox'[m]
         /\ \A m \in Nodes : \A q \in queue[m] : q \in queue'[m] \/ (m = n /\ q = p)
         /\ \A m \in Nodes : \A q \in inbox'[m] : q \in inbox[m] \/ (q = p /\ m \in Neighbours(n))
         /\ p.type # "0xFF" => \A m \in Neighbours(n) : p \in inbox'[m]
<1>1. /\ queue' = [queue EXCEPT ![n] = @ \ {p}] /\ queue \in [Nodes -> SUBSET PacketSet]
      /\ inbox' = [m \in Nodes |-> IF m \in Neighbours(n) /\ Readable(p) THEN inbox[m] \cup {p} ELSE inbox[m]]
      /\ net' = net /\ todo' = todo /\ out_path' = out_path /\ awaiting' = awaiting /\ made' = made
      /\ sent' = sent /\ seen' = seen /\ handed' = handed /\ forgot' = forgot
  BY DEF Transmit, TypeInv, history, appVars
<1> QED BY <1>1 DEF Readable, Neighbours

LEMMA TransmitSpreads ==
  ASSUME TypeInv, ~net.lossy, NEW n \in Nodes, NEW p \in queue[n], Transmit(n, p),
         NEW h \in Errands, Spreads(h)
  PROVE  Spreads(h)'
<1>1. /\ net' = net /\ sent' = sent /\ seen' = seen /\ p \in PacketSet
      /\ \A m \in Nodes : queue'[m] \subseteq queue[m] /\ inbox[m] \subseteq inbox'[m]
      /\ \A m \in Nodes : \A q \in queue[m] : q \in queue'[m] \/ (m = n /\ q = p)
      /\ \A m \in Nodes : \A q \in inbox'[m] : q \in inbox[m] \/ (q = p /\ m \in Neighbours(n))
      /\ p.type # "0xFF" => \A m \in Neighbours(n) : p \in inbox'[m]
  BY TransmitLeaves
<1>2. \A m \in Nodes : Marked(m, h)' <=> Marked(m, h)
  BY <1>1 DEF Marked
<1>3. \A m \in Nodes : \A q \in queue[m] \cup inbox[m] : Copy(q, h) => Gathered(q, h)
  BY DEF Spreads
<1>4. \A q : Gathered(q, h)' <=> Gathered(q, h)
  BY <1>1 DEF Gathered, isRouteFlood
<1>5. \A m \in Nodes : \A q \in queue'[m] \cup inbox'[m] : Copy(q, h) => Gathered(q, h)'
  BY <1>1, <1>3, <1>4
<1>6. ASSUME NEW m \in Nodes, h \in sent[m] PROVE Heeded(m, h)'
  <2>1. Heeded(m, h) /\ Neighbours(m)' = Neighbours(m) /\ Neighbours(m) \subseteq Nodes
    BY <1>1, <1>6, IdealStays DEF Spreads, Neighbours
  <2>2. CASE \E q \in queue[m] : Copy(q, h)
    <3>1. PICK q \in queue[m] : Copy(q, h)
      BY <2>2
    <3>2. CASE q \in queue'[m]
      BY <3>1, <3>2 DEF Heeded
    <3>3. CASE m = n /\ q = p
      <4>1. p.type # "0xFF"
        BY <1>3, <3>1, <3>3, ErrandIs DEF Gathered
      <4>2. \A l \in Neighbours(m) : p \in inbox'[l]
        BY <1>1, <3>3, <4>1
      <4> QED BY <2>1, <3>1, <3>3, <4>2 DEF Heeded
    <3> QED BY <1>1, <3>2, <3>3
  <2>3. CASE \A l \in Neighbours(m) : Marked(l, h) \/ \E q \in inbox[l] : Copy(q, h)
    <3>1. \A l \in Neighbours(m) : Marked(l, h)' \/ \E q \in inbox'[l] : Copy(q, h)
      BY <1>1, <1>2, <2>1, <2>3
    <3> QED BY <2>1, <3>1 DEF Heeded
  <2> QED BY <2>1, <2>2, <2>3 DEF Heeded
<1>7. \A m \in Nodes : h \in sent'[m] => Marked(m, h)' /\ Heeded(m, h)'
  BY <1>1, <1>2, <1>6 DEF Spreads
<1>8. net.forwarders \subseteq Nodes
  BY ThisNetwork DEF TypeInv
<1>9. \A m \in net'.forwarders \ {For(h)} : Marked(m, h)' => h \in sent'[m]
  BY <1>1, <1>2, <1>8 DEF Spreads
<1> QED BY <1>5, <1>7, <1>9 DEF Spreads

\* Where a path names the nodes it leads through, each has the next as a neighbour.
LEMMA NextOnWay ==
  ASSUME TypeInv, Unshared, NEW h \in Errands, NEW path \in Paths, Connects(From(h), path, For(h)),
         NEW k \in 0..Len(path), NEW n \in Nodes, At(h, path, k, n)
  PROVE  IF k = Len(path) THEN For(h) \in Neighbours(n)
         ELSE \E m \in Neighbours(n) : At(h, path, k + 1, m)
<1> PICK len \in Nat : len = Len(path) /\ DOMAIN path = 1..len
  BY DEF Paths
<1>1. PICK last \in Nodes : Leads(From(h), path, last) /\ For(h) \in Neighbours(last)
  BY DEF Connects
<1>2. CASE len = 0
  <2>1. path = <<>> /\ k = 0
    BY <1>2 DEF Paths
  <2> QED BY <1>1, <1>2, <2>1 DEF Leads, At
<1>3. CASE len > 0
  <2>1. path # <<>>
    BY <1>3
  <2>2. PICK via \in [1..len -> net.forwarders] :
             /\ via[1] \in Neighbours(From(h)) /\ via[len] = last
             /\ \A i \in 1..len : net.hash[via[i]] = path[i]
             /\ \A i \in 1..(len - 1) : via[i + 1] \in Neighbours(via[i])
    BY <1>1, <2>1 DEF Leads
  <2>3. k > 0 => via[k] = n
    BY <2>2 DEF At, Unshared
  <2>4. k = 0 => n = From(h)
    BY DEF At
  <2>5. CASE k = len
    BY <1>1, <1>3, <2>2, <2>3, <2>5
  <2>6. CASE k < len
    <3>1. k + 1 \in 1..len /\ k + 1 # 0
      BY <2>6
    <3>2. via[k + 1] \in Neighbours(n)
      <4>1. CASE k = 0
        BY <2>2, <2>4, <4>1
      <4>2. CASE k > 0
        BY <2>2, <2>3, <2>6, <4>2
      <4> QED BY <4>1, <4>2
    <3>3. At(h, path, k + 1, via[k + 1])
      BY <2>2, <3>1 DEF At
    <3> QED BY <2>6, <3>2, <3>3
  <2> QED BY <2>5, <2>6
<1> QED BY <1>2, <1>3

\* A direct packet that is transmitted reaches the next node, or the one it is for.
LEMMA TransmitFollows ==
  ASSUME TypeInv, ~net.lossy, Unshared, NEW n \in Nodes, NEW p \in queue[n], Transmit(n, p),
         NEW h \in Errands, NEW path \in Paths, Way(h, path), Follows(h, path)
  PROVE  Follows(h, path)'
<1>1. /\ net' = net /\ sent' = sent /\ seen' = seen /\ p \in PacketSet
      /\ \A m \in Nodes : queue'[m] \subseteq queue[m] /\ inbox[m] \subseteq inbox'[m]
      /\ \A m \in Nodes : \A q \in queue[m] : q \in queue'[m] \/ (m = n /\ q = p)
      /\ \A m \in Nodes : \A q \in inbox'[m] : q \in inbox[m] \/ (q = p /\ m \in Neighbours(n))
      /\ p.type # "0xFF" => \A m \in Neighbours(n) : p \in inbox'[m]
  BY TransmitLeaves
<1>2. \A m \in Nodes : Marked(m, h)' <=> Marked(m, h)
  BY <1>1 DEF Marked
<1>3. \A k, m : At(h, path, k, m)' <=> At(h, path, k, m)
  BY <1>1, IdealStays
<1>4. Ended(h, path)' <=> Ended(h, path)
  BY <1>1, <1>3 DEF Ended
<1>5. From(h) \in Nodes /\ For(h) \in Nodes /\ h[1] \in {"TXT", "PATH", "ACK"}
  BY ErrandIs
<1> PICK len \in Nat : len = Len(path) /\ path \in Seq(PathBytes)
  BY DEF Paths
<1>6. /\ \A m \in Nodes : \A q \in queue[m] : Copy(q, h) =>
           /\ q.route = "direct" /\ h \in sent[m]
           /\ \E k \in 0..len : q.path = Rest(path, k) /\ At(h, path, k, m)
      /\ \A m \in Nodes : \A q \in inbox[m] : Copy(q, h) =>
           /\ q.route = "direct" /\ \E k \in 0..len : q.path = Rest(path, k)
           /\ q.path = <<>> /\ q.type = h[1] => Ended(h, path)
      /\ \A k \in 0..len : \A m \in Nodes : At(h, path, k, m) /\ h \in sent[m] =>
           Carried(h, path, k) \in queue[m] \/ Passed(h, path, k)
      /\ \A m \in Nodes \ {For(h)} : Marked(m, h) => h \in sent[m] \/ Ended(h, path)
  BY DEF Follows
<1>7. \A m \in Nodes : \A q \in queue'[m] : Copy(q, h) =>
           /\ q.route = "direct" /\ h \in sent'[m]
           /\ \E k \in 0..len : q.path = Rest(path, k) /\ At(h, path, k, m)'
  BY <1>1, <1>3, <1>6
<1>8. ASSUME NEW m \in Nodes, NEW q \in inbox'[m], Copy(q, h)
      PROVE  /\ q.route = "direct" /\ \E k \in 0..len : q.path = Rest(path, k)
             /\ q.path = <<>> /\ q.type = h[1] => Ended(h, path)'
  <2>1. CASE q \in inbox[m]
    BY <1>4, <1>6, <1>8, <2>1
  <2>2. CASE q = p
    <3>1. /\ q.route = "direct" /\ h \in sent[n]
      BY <1>6, <1>8, <2>2
    <3>2. PICK k \in 0..len : q.path = Rest(path, k) /\ At(h, path, k, n)
      BY <1>6, <1>8, <2>2
    <3>3. q.path = <<>> => k = len
      BY <3>2, RestIs
    <3>4. q.path = <<>> => Ended(h, path)
      BY <3>1, <3>2, <3>3 DEF Ended
    <3> QED BY <1>4, <3>1, <3>2, <3>4
  <2> QED BY <1>1, <2>1, <2>2
<1>9. ASSUME NEW k \in 0..len, Passed(h, path, k) PROVE Passed(h, path, k)'
  <2>1. CASE k = len
    BY <1>1, <1>2, <1>5, <1>9, <2>1 DEF Passed, Carried
  <2>2. CASE k # len
    <3>1. PICK m \in Nodes : /\ At(h, path, k + 1, m)
                             /\ Carried(h, path, k) \in inbox[m] \/ h \in sent[m] \/ Ended(h, path)
      BY <1>9, <2>2 DEF Passed
    <3>2. Carried(h, path, k) \in inbox'[m] \/ h \in sent'[m] \/ Ended(h, path)'
      BY <1>1, <1>4, <3>1
    <3> QED BY <1>3, <2>2, <3>1, <3>2 DEF Passed, Carried
  <2> QED BY <2>1, <2>2
<1>10. ASSUME NEW k \in 0..len, At(h, path, k, n), p = Carried(h, path, k) PROVE Passed(h, path, k)'
  <2>1. p.type # "0xFF"
    BY <1>5, <1>10 DEF Carried, Direct, Packet
  <2>2. \A m \in Neighbours(n) : p \in inbox'[m] /\ m \in Nodes
    BY <1>1, <2>1 DEF Neighbours
  <2>3. IF k = len THEN For(h) \in Neighbours(n) ELSE \E m \in Neighbours(n) : At(h, path, k + 1, m)
    BY <1>10, NextOnWay DEF Way
  <2>4. CASE k = len
    BY <1>10, <2>2, <2>3, <2>4 DEF Passed, Carried
  <2>5. CASE k # len
    <3>1. PICK m \in Neighbours(n) : At(h, path, k + 1, m)
      BY <2>3, <2>5
    <3> QED BY <1>3, <1>10, <2>2, <2>5, <3>1 DEF Passed, Carried
  <2> QED BY <2>4, <2>5
<1>11. ASSUME NEW k \in 0..len, NEW m \in Nodes, At(h, path, k, m), h \in sent[m]
       PROVE  Carried(h, path, k) \in queue'[m] \/ Passed(h, path, k)'
  BY <1>1, <1>6, <1>9, <1>10, <1>11
<1>12. \A m \in Nodes \ {For(h)} : Marked(m, h)' => h \in sent'[m] \/ Ended(h, path)'
  BY <1>1, <1>2, <1>4, <1>6
<1>13. \A k \in 0..len : \A m \in Nodes : At(h, path, k, m)' /\ h \in sent'[m] =>
           Carried(h, path, k) \in queue'[m] \/ Passed(h, path, k)'
  BY <1>1, <1>3, <1>11
<1> HIDE DEF Marked, Copy
<1> QED BY <1>7, <1>8, <1>12, <1>13 DEF Follows, Carried

\* A path that comes by no forwarder twice, and not by this one, has room for it.
LEMMA PathRoom ==
  ASSUME NEW F, IsFiniteSet(F), NEW max \in Nat, Cardinality(F) <= max, NEW n \in F,
         NEW E, NEW path \in Seq(E), IsInjective(path), NEW hash,
         \A i \in DOMAIN path : \E f \in F \ {n} : hash[f] = path[i]
  PROVE  Len(path) + 1 <= max
<1> PICK len \in Nat : len = Len(path) /\ DOMAIN path = 1..len
  OBVIOUS
<1> PICK G : G = F \ {n}
  OBVIOUS
<1>1. IsFiniteSet(G) /\ Cardinality(G) = Cardinality(F) - 1 /\ Cardinality(F) \in Nat
  BY FS_RemoveElement, FS_CardinalityType
<1>2. IsFiniteSet(1..len) /\ Cardinality(1..len) = len
  <2>1. 1 \in Int /\ len \in Int
    OBVIOUS
  <2>2. IsFiniteSet(1..len) /\ Cardinality(1..len) = IF 1 > len THEN 0 ELSE len - 1 + 1
    BY <2>1, FS_Interval
  <2> QED BY <2>2
<1> DEFINE via == [i \in 1..len |-> CHOOSE f \in G : hash[f] = path[i]]
<1>3. \A i \in 1..len : via[i] \in G /\ hash[via[i]] = path[i]
  OBVIOUS
<1>4. via \in [1..len -> G]
  BY <1>3
<1> HIDE DEF via
<1>5. \A i, j \in 1..len : via[i] = via[j] => i = j
  <2> SUFFICES ASSUME NEW i \in 1..len, NEW j \in 1..len, via[i] = via[j] PROVE i = j
    OBVIOUS
  <2>1. path[i] = path[j] /\ i \in DOMAIN path /\ j \in DOMAIN path
    BY <1>3
  <2> QED BY <2>1 DEF IsInjective
<1>6. ~(Cardinality(G) < Cardinality(1..len))
  <2> PICK I : I = 1..len
    OBVIOUS
  <2>1. IsFiniteSet(I) /\ via \in [I -> G] /\ \A i, j \in I : via[i] = via[j] => i = j
    BY <1>2, <1>4, <1>5
  <2>2. ~(Cardinality(G) < Cardinality(I))
    BY <1>1, <2>1, FS_PigeonHole
  <2> QED BY <2>2
<1>7. Cardinality(G) \in Nat
  BY <1>1, FS_CardinalityType
<1> PICK a \in Nat, b \in Nat : a = Cardinality(G) /\ b = Cardinality(F)
  BY <1>1, <1>7
<1>8. len <= a /\ a = b - 1 /\ b <= max
  BY <1>1, <1>2, <1>6
<1> QED BY <1>8

LEMMA RoomLeft ==
  ASSUME TypeInv, Ideal, NEW n \in net.forwarders, NEW path \in Seq(PathBytes), IsInjective(path),
         \A i \in DOMAIN path : \E f \in net.forwarders \ {n} : net.hash[f] = path[i]
  PROVE  Len(path) + 1 <= net.path_max
<1> PICK max \in Nat : max = net.path_max
  BY ThisNetwork DEF TypeInv
<1> PICK F, hash : F = net.forwarders /\ hash = net.hash
  OBVIOUS
<1>1. IsFiniteSet(F) /\ Cardinality(F) <= max /\ n \in F
  BY DEF Ideal
<1>2. \A i \in DOMAIN path : \E f \in F \ {n} : hash[f] = path[i]
  OBVIOUS
<1>3. Len(path) + 1 <= max
  BY <1>1, <1>2, PathRoom
<1> QED BY <1>3

\* One more hop, at a node that a path has not come by.
LEMMA PathGrows ==
  ASSUME NEW E, NEW path \in Seq(E), IsInjective(path), NEW x, \A i \in DOMAIN path : path[i] # x
  PROVE  /\ IsInjective(Append(path, x))
         /\ \A i \in DOMAIN Append(path, x) : Append(path, x)[i] = x \/ \E j \in DOMAIN path : Append(path, x)[i] = path[j]
<1> PICK len \in Nat : len = Len(path) /\ DOMAIN path = 1..len
  OBVIOUS
<1> PICK longer : longer = Append(path, x)
  OBVIOUS
<1>1. /\ DOMAIN longer = 1..(len + 1) /\ longer[len + 1] = x
      /\ \A i \in 1..len : longer[i] = path[i]
  OBVIOUS
<1>2. \A i \in 1..(len + 1) : i \in 1..len \/ i = len + 1
  OBVIOUS
<1>3. ASSUME NEW i \in 1..(len + 1), NEW j \in 1..(len + 1), longer[i] = longer[j]
      PROVE  i = j
  <2>1. CASE i \in 1..len /\ j \in 1..len
    BY <1>1, <1>3, <2>1 DEF IsInjective
  <2>2. CASE i \in 1..len /\ j = len + 1
    BY <1>1, <1>3, <2>2
  <2>3. CASE i = len + 1 /\ j \in 1..len
    BY <1>1, <1>3, <2>3
  <2> QED BY <1>2, <1>3, <2>1, <2>2, <2>3
<1>4. IsInjective(longer)
  BY <1>1, <1>3 DEF IsInjective
<1>5. \A i \in DOMAIN longer : longer[i] = x \/ \E j \in DOMAIN path : longer[i] = path[j]
  BY <1>1, <1>2
<1> QED BY <1>4, <1>5

\* A node that looks at a copy of a flood has it marked then, and passes it on the
\* first time, unless the flood is for it.
LEMMA LookSpreads ==
  ASSUME TypeInv, net' = net, Ideal, NEW h \in Errands, Spreads(h), h \in sent[From(h)],
         NEW n \in Nodes, NEW p \in inbox[n], Copy(p, h), inbox' = [inbox EXCEPT ![n] = @ \ {p}],
         NEW M, NEW S \in SUBSET PacketSet, Effect(n, M, S), n \notin forgot',
         \/ Marked(n, h) /\ \A q \in S : ~Copy(q, h)
         \/ /\ ~Marked(n, h) /\ h \in M /\ \A q \in S : Copy(q, h) => q \in routeRecvPacket(n, p)
            /\ n # For(h) => routeRecvPacket(n, p) \subseteq S
  PROVE  Spreads(h)'
<1>1. /\ \A m \in Nodes : \A q : q \in queue'[m] <=> q \in queue[m] \/ (m = n /\ q \in S)
      /\ \A m \in Nodes : h \in sent'[m] <=>
           h \in sent[m] \/ (m = n /\ \E q \in S : q.type = h[1] /\ q.body = h[2])
      /\ \A m \in Nodes : Marked(m, h)' <=> Marked(m, h) \/ (m = n /\ h \in M)
  BY EffectOn
<1>2. /\ \A m \in Nodes : \A q \in inbox'[m] : q \in inbox[m]
      /\ \A m \in Nodes : \A q \in inbox[m] : q \in inbox'[m] \/ (m = n /\ q = p)
      /\ p \in PacketSet /\ net.forwarders \subseteq Nodes /\ net.path_max \in Nat
  BY ThisNetwork DEF TypeInv
<1>3. /\ \A m \in Nodes : \A q \in queue[m] \cup inbox[m] : Copy(q, h) => Gathered(q, h)
      /\ \A m \in Nodes : h \in sent[m] => Marked(m, h) /\ Heeded(m, h)
      /\ \A m \in net.forwarders \ {For(h)} : Marked(m, h) => h \in sent[m]
  BY DEF Spreads
<1>4. From(h) \in Nodes /\ For(h) \in Nodes
  BY ErrandIs
<1>5. /\ p.type = h[1] /\ p.body = h[2] /\ isRouteFlood(p) /\ IsInjective(p.path)
      /\ \A i \in DOMAIN p.path : \E f \in net.forwarders \ {From(h)} :
           net.hash[f] = p.path[i] /\ h \in sent[f]
  BY <1>3 DEF Gathered, Copy
<1> PICK path \in Seq(PathBytes) : path = p.path
  BY <1>2 DEF PacketSet, Paths
<1>6. \A q : Gathered(q, h) => Gathered(q, h)'
  BY <1>1, <1>2 DEF Gathered, isRouteFlood
<1>7. Marked(n, h)'
  BY <1>1
<1>8. \A i \in DOMAIN path : ~Marked(n, h) => path[i] # net.hash[n] \/ n \notin net.forwarders
  BY <1>2, <1>3, <1>5 DEF Ideal, Unshared
<1>9. ASSUME NEW q \in routeRecvPacket(n, p), q \in S, ~Marked(n, h) PROVE Gathered(q, h)'
  <2>1. /\ q.type = p.type /\ q.body = p.body /\ isRouteFlood(q)
        /\ q.path = Append(path, net.hash[n]) /\ n \in net.forwarders
    BY <1>2, ForwardedFlood
  <2>2. /\ IsInjective(q.path)
        /\ \A i \in DOMAIN q.path : q.path[i] = net.hash[n] \/ \E j \in DOMAIN path : q.path[i] = path[j]
    BY <1>5, <1>8, <1>9, <2>1, PathGrows
  <2>3. n # From(h) /\ h \in sent'[n]
    BY <1>1, <1>3, <1>4, <1>5, <1>9, <2>1
  <2>4. \A j \in DOMAIN path : \E f \in net.forwarders \ {From(h)} : net.hash[f] = path[j] /\ h \in sent'[f]
    BY <1>1, <1>2, <1>5
  <2>5. \A i \in DOMAIN q.path : \E f \in net.forwarders \ {From(h)} : net.hash[f] = q.path[i] /\ h \in sent'[f]
    BY <2>1, <2>2, <2>3, <2>4
  <2> QED BY <1>5, <2>1, <2>2, <2>5 DEF Gathered, isRouteFlood
<1>10. \A m \in Nodes : \A q \in queue'[m] \cup inbox'[m] : Copy(q, h) => Gathered(q, h)'
  BY <1>1, <1>2, <1>3, <1>6, <1>9
<1>11. ASSUME NEW m \in Nodes, h \in sent'[m] PROVE Marked(m, h)' /\ Heeded(m, h)'
  <2>1. CASE h \in sent[m]
    <3>1. Marked(m, h) /\ Heeded(m, h) /\ Neighbours(m)' = Neighbours(m) /\ Neighbours(m) \subseteq Nodes
      BY <1>3, <2>1, IdealStays DEF Neighbours
    <3>2. CASE \E q \in queue[m] : Copy(q, h)
      BY <1>1, <3>1, <3>2 DEF Heeded
    <3>3. CASE \A l \in Neighbours(m) : Marked(l, h) \/ \E q \in inbox[l] : Copy(q, h)
      <4>1. \A l \in Neighbours(m) : Marked(l, h)' \/ \E q \in inbox'[l] : Copy(q, h)
        BY <1>1, <1>2, <1>7, <3>1, <3>3
      <4> QED BY <1>1, <3>1, <4>1 DEF Heeded
    <3> QED BY <3>1, <3>2, <3>3 DEF Heeded
  <2>2. CASE m = n /\ \E q \in S : q.type = h[1] /\ q.body = h[2]
    <3>1. \E q \in queue'[m] : Copy(q, h)
      BY <1>1, <2>2 DEF Copy
    <3> QED BY <1>7, <2>2, <3>1 DEF Heeded
  <2> QED BY <1>1, <1>11, <2>1, <2>2
<1>12. ASSUME NEW m \in net.forwarders \ {For(h)}, Marked(m, h)' PROVE h \in sent'[m]
  <2>1. CASE Marked(m, h)
    BY <1>1, <1>2, <1>3, <2>1
  <2>2. CASE m = n /\ ~Marked(n, h)
    <3>1. \A i \in DOMAIN path : \E f \in net.forwarders \ {n} : net.hash[f] = path[i]
      BY <1>2, <1>3, <1>5, <2>2
    <3>2. Len(path) + 1 <= net.path_max
      BY <1>5, <1>12, <2>2, <3>1, RoomLeft
    <3>3. PICK q : q \in routeRecvPacket(n, p)
      BY <1>5, <2>2, <3>2 DEF routeRecvPacket, allowPacketForward
    <3>4. q.type = h[1] /\ q.body = h[2] /\ q \in S
      BY <1>2, <1>5, <2>2, <3>3, ForwardedFlood
    <3> QED BY <1>1, <2>2, <3>4
  <2> QED BY <1>1, <1>2, <1>12, <2>1, <2>2
<1> HIDE DEF Marked, Copy
<1> QED BY <1>10, <1>11, <1>12 DEF Spreads

\* A node that looks at a copy of a direct packet passes it on if it is next and did
\* not before; at the end of the path the copy is marked.
LEMMA LookFollows ==
  ASSUME TypeInv, net' = net, NEW h \in Errands, NEW path \in Paths, Way(h, path), Follows(h, path),
         NEW n \in Nodes, NEW p \in inbox[n], Copy(p, h), inbox' = [inbox EXCEPT ![n] = @ \ {p}],
         NEW M, NEW S \in SUBSET PacketSet, Effect(n, M, S), n \notin forgot',
         \A q \in S : Copy(q, h) => /\ q.route = "direct" /\ q.path = Tail(p.path)
                                    /\ p.path # <<>> /\ NextHopIs(n, p) /\ Direct(h[1], Tail(p.path), h[2]) \in S,
         p.path # <<>> /\ NextHopIs(n, p) /\ p.type = h[1] => Marked(n, h) \/ Direct(h[1], Tail(p.path), h[2]) \in S,
         h \in M => p.type = h[1] /\ (p.path = <<>> \/ Direct(h[1], Tail(p.path), h[2]) \in S),
         p.path = <<>> /\ p.type = h[1] => Marked(n, h) \/ h \in M
  PROVE  Follows(h, path)'
<1> PICK next : next = Direct(h[1], Tail(p.path), h[2])
  OBVIOUS
<1>1. /\ \A m \in Nodes : \A q : q \in queue'[m] <=> q \in queue[m] \/ (m = n /\ q \in S)
      /\ \A m \in Nodes : h \in sent'[m] <=>
           h \in sent[m] \/ (m = n /\ \E q \in S : q.type = h[1] /\ q.body = h[2])
      /\ \A m \in Nodes : Marked(m, h)' <=> Marked(m, h) \/ (m = n /\ h \in M)
  BY EffectOn
<1>2. /\ \A m \in Nodes : \A q \in inbox'[m] : q \in inbox[m]
      /\ \A m \in Nodes : \A q \in inbox[m] : q \in inbox'[m] \/ (m = n /\ q = p)
      /\ p \in PacketSet /\ net.forwarders \subseteq Nodes
  BY ThisNetwork DEF TypeInv
<1>3. \A k, m : At(h, path, k, m)' <=> At(h, path, k, m)
  BY IdealStays
<1>4. Ended(h, path) => Ended(h, path)'
  BY <1>1, <1>3 DEF Ended
<1>5. From(h) \in Nodes /\ For(h) \in Nodes
  BY ErrandIs
<1> PICK len \in Nat : len = Len(path) /\ path \in Seq(PathBytes) /\ DOMAIN path = 1..len
  BY DEF Paths
<1>6. /\ \A m \in Nodes : \A q \in queue[m] : Copy(q, h) =>
           /\ q.route = "direct" /\ h \in sent[m]
           /\ \E k \in 0..len : q.path = Rest(path, k) /\ At(h, path, k, m)
      /\ \A m \in Nodes : \A q \in inbox[m] : Copy(q, h) =>
           /\ q.route = "direct" /\ \E k \in 0..len : q.path = Rest(path, k)
           /\ q.path = <<>> /\ q.type = h[1] => Ended(h, path)
      /\ \A k \in 0..len : \A m \in Nodes : At(h, path, k, m) /\ h \in sent[m] =>
           Carried(h, path, k) \in queue[m] \/ Passed(h, path, k)
      /\ \A m \in Nodes \ {For(h)} : Marked(m, h) => h \in sent[m] \/ Ended(h, path)
  BY DEF Follows
<1>7. next.type = h[1] /\ next.body = h[2] /\ next.path = Tail(p.path) /\ Copy(next, h)
  BY DEF Direct, Packet, Copy
<1>8. next \in S => h \in sent'[n] /\ next \in queue'[n]
  BY <1>1, <1>7
<1> PICK k \in 0..len : p.path = Rest(path, k)
  BY <1>6
<1>9. /\ p.path = <<>> <=> k = len
      /\ k < len => Head(p.path) = path[k + 1] /\ Tail(p.path) = Rest(path, k + 1)
  <2>1. k \in 0..Len(path)
    OBVIOUS
  <2>2. /\ Rest(path, k) = <<>> <=> k = Len(path)
        /\ k < Len(path) => Head(Rest(path, k)) = path[k + 1] /\ Tail(Rest(path, k)) = Rest(path, k + 1)
    BY <2>1, RestIs
  <2> QED BY <2>2
<1>10. p.path # <<>> => k < len /\ k + 1 \in 1..len /\ k + 1 \in 0..len /\ k + 1 # 0
  BY <1>9
<1>11. p.path # <<>> => (NextHopIs(n, p) <=> At(h, path, k + 1, n))
  BY <1>9, <1>10 DEF NextHopIs, At, allowPacketForward
<1>12. \A j \in 1..len : \A m : At(h, path, j, m) => m # From(h) /\ m # For(h)
  BY DEF At, Way, Simple
<1>13. \A i, j \in 1..len : \A m : At(h, path, i, m) /\ At(h, path, j, m) => i = j
  BY DEF At, Way, Simple, IsInjective
<1>14. ASSUME NEW m \in Nodes, NEW q \in queue'[m], Copy(q, h)
       PROVE  /\ q.route = "direct" /\ h \in sent'[m]
              /\ \E j \in 0..len : q.path = Rest(path, j) /\ At(h, path, j, m)
  <2>1. CASE q \in queue[m]
    BY <1>1, <1>6, <1>14, <2>1
  <2>2. CASE m = n /\ q \in S
    BY <1>8, <1>9, <1>10, <1>11, <1>14, <2>2
  <2> QED BY <1>1, <1>14, <2>1, <2>2
<1>15. \A m \in Nodes : \A q \in inbox'[m] : Copy(q, h) =>
           /\ q.route = "direct" /\ \E j \in 0..len : q.path = Rest(path, j)
           /\ q.path = <<>> /\ q.type = h[1] => Ended(h, path)'
  BY <1>2, <1>4, <1>6
<1>16. ASSUME NEW j \in 0..len, Passed(h, path, j) PROVE Passed(h, path, j)'
  <2> PICK c : c = Carried(h, path, j)
    OBVIOUS
  <2>0. c.type = h[1] /\ c.path = Rest(path, j)
    BY DEF Carried, Direct, Packet
  <2>1. CASE j = len
    <3>1. c \in inbox[For(h)] \/ Marked(For(h), h)
      BY <1>16, <2>1 DEF Passed
    <3>2. c \in inbox'[For(h)] \/ Marked(For(h), h)'
      <4>1. CASE For(h) = n /\ c = p
        <5>1. p.path = <<>>
          BY <2>0, <2>1, <4>1, RestIs
        <5> QED BY <1>1, <2>0, <4>1, <5>1
      <4> QED BY <1>1, <1>2, <1>5, <3>1, <4>1
    <3> QED BY <2>1, <3>2 DEF Passed, Carried
  <2>2. CASE j # len
    <3>1. PICK m \in Nodes : At(h, path, j + 1, m) /\ (c \in inbox[m] \/ h \in sent[m] \/ Ended(h, path))
      BY <1>16, <2>2 DEF Passed
    <3>2. c \in inbox'[m] \/ h \in sent'[m] \/ Ended(h, path)'
      <4>1. CASE m = n /\ c = p
        <5>1. k = j
          BY <2>0, <4>1, RestOnce
        <5>2. p.path # <<>> /\ NextHopIs(n, p)
          BY <1>9, <1>11, <2>2, <3>1, <4>1, <5>1
        <5>3. n # For(h)
          BY <1>10, <1>12, <3>1, <4>1, <5>1, <5>2
        <5>4. CASE Marked(n, h)
          BY <1>1, <1>4, <1>6, <4>1, <5>3, <5>4
        <5>5. CASE next \in S
          BY <1>8, <4>1, <5>5
        <5> QED BY <2>0, <4>1, <5>2, <5>4, <5>5
      <4> QED BY <1>1, <1>2, <1>4, <3>1, <4>1
    <3> QED BY <1>3, <2>2, <3>1, <3>2 DEF Passed, Carried
  <2> QED BY <2>1, <2>2
<1>17. ASSUME NEW j \in 0..len, NEW m \in Nodes, At(h, path, j, m), h \in sent'[m]
       PROVE  Carried(h, path, j) \in queue'[m] \/ Passed(h, path, j)'
  <2>1. CASE h \in sent[m]
    BY <1>1, <1>6, <1>16, <1>17, <2>1
  <2>2. CASE m = n /\ \E q \in S : q.type = h[1] /\ q.body = h[2]
    <3>1. p.path # <<>> /\ NextHopIs(n, p) /\ next \in S
      BY <2>2 DEF Copy
    <3>2. At(h, path, k + 1, n) /\ k + 1 \in 1..len
      BY <1>10, <1>11, <3>1
    <3>3. j = k + 1
      <4>1. j # 0
        BY <1>12, <1>17, <2>2, <3>2 DEF At
      <4>2. j \in 1..len
        BY <4>1
      <4> QED BY <1>13, <1>17, <2>2, <3>2, <4>2
    <3>4. next = Carried(h, path, j)
      BY <1>9, <1>10, <3>1, <3>3 DEF Carried
    <3> QED BY <1>8, <2>2, <3>1, <3>4
  <2> QED BY <1>1, <1>17, <2>1, <2>2
<1>18. \A m \in Nodes \ {For(h)} : Marked(m, h)' => h \in sent'[m] \/ Ended(h, path)'
  <2> SUFFICES ASSUME NEW m \in Nodes \ {For(h)}, Marked(m, h)' PROVE h \in sent'[m] \/ Ended(h, path)'
    OBVIOUS
  <2>1. CASE Marked(m, h)
    BY <1>1, <1>4, <1>6, <2>1
  <2>2. CASE m = n /\ h \in M
    BY <1>4, <1>6, <1>8, <2>2
  <2> QED BY <1>1, <2>1, <2>2
<1>19. \A j \in 0..len : \A m \in Nodes : At(h, path, j, m)' /\ h \in sent'[m] =>
           Carried(h, path, j) \in queue'[m] \/ Passed(h, path, j)'
  BY <1>3, <1>17
<1>20. \A m \in Nodes : \A q \in queue'[m] : Copy(q, h) =>
         /\ q.route = "direct" /\ h \in sent'[m]
         /\ \E j \in 0..len : q.path = Rest(path, j) /\ At(h, path, j, m)'
  BY <1>3, <1>14
<1> HIDE DEF Marked, Copy
<1> QED BY <1>15, <1>18, <1>19, <1>20 DEF Follows, Carried

\* What a node does with a packet it looks at: nothing, or it passes it on, or it
\* answers.
Idles(n, p) ==
  \/ p.type \in {"TRACE", "ADVERT"}
  \/ ForThisNode(p) /\ wasSeen(n, p)
  \/ OnTheWay(p) /\ ~(NextHopIs(n, p) /\ ~wasSeen(n, Read(n, p)))

PassesOn(n, p) ==
  OnTheWay(p) /\ NextHopIs(n, p) /\ ~wasSeen(n, Read(n, p))

Leaves(n, p, M, S, R) ==
  /\ S \in SUBSET PacketSet /\ R \in SUBSET PacketSet
  /\ Effect(n, M \cup {HashAsSent(r) : r \in R}, S \cup R)
  /\ \/ Idles(n, p) /\ M = {} /\ S = {} /\ R = {}
     \/ p.type = "TRACE" /\ (\A h \in M : h[1] = "TRACE") /\ (\A q \in S : q.type = "TRACE") /\ R = {}
     \/ PassesOn(n, p) /\ M = {calculatePacketHash(Read(n, p))} /\ S = Onwards(n, p) /\ R = {}
     \/ /\ First(n, p) /\ M = {calculatePacketHash(p)} /\ S \subseteq routeRecvPacket(n, p)
        /\ \/ /\ R = {}
              /\ \/ S = routeRecvPacket(n, p) \/ p.type \notin {"TXT", "PATH", "ACK"}
                 \/ p.type = "ACK" /\ Accepts(n, p)
           \/ RecvText(n, p) /\ S = {} /\ R = TextReply(n, p)
           \/ RecvPath(n, p) /\ S = {} /\ R = PathReply(n, p)

LEMMA LookLeaves ==
  ASSUME NEW n \in Nodes, NEW p, Looked(n, p), onRecvPacket(n, p)
  PROVE  \E M, S, R : Leaves(n, p, M, S, R)
<1>1. TypeInv /\ p \in PacketSet /\ IInv'
  BY LookedAt
<1> PICK h : h = calculatePacketHash(p) /\ h[1] = p.type
  BY <1>1, HashSays
<1>2. ASSUME NEW M, NEW S, Effect(n, M, S)
      PROVE  Effect(n, M \cup {HashAsSent(r) : r \in {}}, S \cup {})
  <2>1. M \cup {HashAsSent(r) : r \in {}} = M /\ S \cup {} = S
    OBVIOUS
  <2> QED BY <1>2, <2>1
<1>3. ASSUME NEW R, Effect(n, {h} \cup {HashAsSent(r) : r \in R}, R)
      PROVE  Effect(n, {h} \cup {HashAsSent(r) : r \in R}, {} \cup R) /\ R \in SUBSET PacketSet
  <2>1. {} \cup R = R
    OBVIOUS
  <2>2. R \subseteq queue'[n]
    BY <1>3 DEF Effect
  <2> QED BY <1>1, <1>3, <2>1, <2>2 DEF IInv, TypeInv
<1>4. routeRecvPacket(n, p) \in SUBSET PacketSet
  BY <1>1, OneOrNone
<1>5. CASE RecvGroup(n, p) \/ RecvAdvert(n, p)
  <2>1. First(n, p) /\ p.type \notin {"TXT", "PATH", "ACK"}
    BY <1>5 DEF RecvGroup, RecvAdvert
  <2>2. PICK S \in SUBSET routeRecvPacket(n, p) : Effect(n, {h}, S)
    BY <1>5, GroupLeaves
  <2> QED BY <1>2, <1>4, <2>1, <2>2 DEF Leaves
<1>6. CASE RecvForOther(n, p)
  <2> PICK S : S = routeRecvPacket(n, p)
    OBVIOUS
  <2>1. First(n, p)
    BY <1>6 DEF RecvForOther
  <2>2. Effect(n, {h}, S)
    BY <1>6, ForOtherLeaves
  <2> QED BY <1>2, <1>4, <2>1, <2>2 DEF Leaves
<1>7. CASE RecvMultiAck(n, p)
  <2>1. First(n, p) /\ p.type \notin {"TXT", "PATH", "ACK"}
    BY <1>7 DEF RecvMultiAck
  <2>2. Effect(n, {h}, {})
    BY <1>7, MultiAckLeaves
  <2>3. Leaves(n, p, {h}, {}, {})
    BY <1>2, <2>1, <2>2 DEF Leaves
  <2> QED BY <2>3
<1>8. CASE RecvAck(n, p)
  <2> PICK S : S = (IF Accepts(n, p) THEN {} ELSE routeRecvPacket(n, p))
    OBVIOUS
  <2>1. First(n, p) /\ p.type = "ACK"
    BY <1>8 DEF RecvAck
  <2>2. Effect(n, {h}, S)
    BY <1>8, AckLeaves
  <2> QED BY <1>2, <1>4, <2>1, <2>2 DEF Leaves
<1>9. CASE RecvText(n, p)
  <2> PICK R : R = TextReply(n, p)
    OBVIOUS
  <2>1. First(n, p)
    BY <1>9 DEF RecvText
  <2>2. Effect(n, {h} \cup {HashAsSent(r) : r \in R}, R)
    BY <1>9, TextLeaves
  <2>3. Effect(n, {h} \cup {HashAsSent(r) : r \in R}, {} \cup R) /\ R \in SUBSET PacketSet
    BY <1>3, <2>2
  <2> QED BY <1>9, <2>1, <2>3 DEF Leaves
<1>10. CASE RecvPath(n, p)
  <2> PICK R : R = PathReply(n, p)
    OBVIOUS
  <2>1. First(n, p)
    BY <1>10 DEF RecvPath
  <2>2. Effect(n, {h} \cup {HashAsSent(r) : r \in R}, R)
    BY <1>10, PathLeaves
  <2>3. Effect(n, {h} \cup {HashAsSent(r) : r \in R}, {} \cup R) /\ R \in SUBSET PacketSet
    BY <1>3, <2>2
  <2> QED BY <1>10, <2>1, <2>3 DEF Leaves
<1>11. CASE RecvOwnAdvert(n, p) \/ RecvAgain(n, p)
  <2>1. Idles(n, p)
    BY <1>11 DEF Idles, RecvOwnAdvert, RecvAgain
  <2>2. Effect(n, {}, {})
    BY <1>1, <1>11, IdleLeaves DEF RecvOwnAdvert, RecvAgain
  <2> QED BY <1>2, <2>1, <2>2 DEF Leaves
<1>12. CASE RecvOnTheWay(n, p)
  <2> PICK S : S = Onwards(n, p)
    OBVIOUS
  <2>1. \/ ~(NextHopIs(n, p) /\ ~wasSeen(n, Read(n, p))) /\ Effect(n, {}, {})
        \/ /\ NextHopIs(n, p) /\ ~wasSeen(n, Read(n, p)) /\ S \in SUBSET PacketSet
           /\ Effect(n, {calculatePacketHash(Read(n, p))}, S)
    BY <1>12, OnTheWayLeaves
  <2>2. OnTheWay(p)
    BY <1>12 DEF RecvOnTheWay
  <2>3. CASE ~(NextHopIs(n, p) /\ ~wasSeen(n, Read(n, p))) /\ Effect(n, {}, {})
    <3>1. Idles(n, p)
      BY <2>2, <2>3 DEF Idles
    <3> QED BY <1>2, <2>3, <3>1 DEF Leaves
  <2>4. CASE /\ NextHopIs(n, p) /\ ~wasSeen(n, Read(n, p)) /\ S \in SUBSET PacketSet
             /\ Effect(n, {calculatePacketHash(Read(n, p))}, S)
    <3>1. PassesOn(n, p)
      BY <2>2, <2>4 DEF PassesOn
    <3> PICK M : M = {calculatePacketHash(Read(n, p))}
      OBVIOUS
    <3>2. Effect(n, M \cup {HashAsSent(r) : r \in {}}, S \cup {})
      BY <1>2, <2>4
    <3> QED BY <2>4, <3>1, <3>2 DEF Leaves
  <2> QED BY <2>1, <2>3, <2>4
<1>13. CASE RecvTrace(n, p)
  <2>1. p.type = "TRACE" /\ h \in Digests
    BY <1>1, <1>13, HashTyped DEF RecvTrace
  <2>2. CASE DoesNothing
    <3>1. Effect(n, {}, {}) /\ Idles(n, p)
      BY <1>1, <2>1, <2>2, IdleLeaves DEF Idles
    <3> QED BY <1>2, <3>1 DEF Leaves
  <2>3. CASE Does(n, <<>>, {}, {h})
    <3> PICK marks \in Seq(Digests) : marks = <<>>
      BY Marks
    <3> PICK S \in SUBSET PacketSet : S = {}
      OBVIOUS
    <3>1. Effect(n, ToSet(marks), S)
      BY <1>1, <2>3, DoesLeaves
    <3>2. ToSet(marks) = {}
      BY DEF ToSet
    <3>3. Effect(n, {}, {}) /\ Idles(n, p)
      BY <2>1, <3>1, <3>2 DEF Idles
    <3> QED BY <1>2, <3>3 DEF Leaves
  <2>4. CASE Does(n, <<h>>, {[p EXCEPT !.path = Append(@, "snr")]}, {})
    <3> PICK q : q = [p EXCEPT !.path = Append(@, "snr")]
      OBVIOUS
    <3>1. q.type = "TRACE"
      BY <1>1, <2>1 DEF PacketSet
    <3>2. queue' = [queue EXCEPT ![n] = @ \cup {q}]
      BY <2>4 DEF Does
    <3>3. q \in queue'[n]
      BY <1>1, <3>2 DEF TypeInv
    <3> PICK S \in SUBSET PacketSet : S = {q}
      BY <1>1, <3>3 DEF IInv, TypeInv
    <3> PICK gives : gives = {}
      OBVIOUS
    <3>4. Does(n, <<calculatePacketHash(p)>>, S, gives)
      BY <2>4
    <3>5. Effect(n, {h}, S)
      BY <3>4, AloneLeaves
    <3> PICK M : M = {h}
      OBVIOUS
    <3>6. (\A g \in M : g[1] = "TRACE") /\ \A r \in S : r.type = "TRACE"
      BY <2>1, <3>1
    <3>7. Effect(n, M \cup {HashAsSent(r) : r \in {}}, S \cup {})
      BY <1>2, <3>5
    <3>8. Leaves(n, p, M, S, {})
      BY <2>1, <3>6, <3>7 DEF Leaves
    <3> QED BY <3>8
  <2> QED BY <1>13, <2>2, <2>3, <2>4 DEF RecvTrace
<1> QED BY <1>5, <1>6, <1>7, <1>8, <1>9, <1>10, <1>11, <1>12, <1>13 DEF onRecvPacket

\* A node reads a packet as it came, but for an ack that it awaits.
LEMMA ReadIs ==
  ASSUME NEW n, NEW p \in PacketSet
  PROVE  /\ Read(n, p) \in PacketSet /\ Read(n, p).body = p.body
         /\ Read(n, p) = p \/ (p.type = "ACK" /\ Accepts(n, p) /\ Read(n, p).type = "0xFF")
<1>1. /\ markDoNotRetransmit(p) \in PacketSet
      /\ markDoNotRetransmit(p).body = p.body /\ markDoNotRetransmit(p).type = "0xFF"
  BY MarkedPacket
<1> QED BY <1>1 DEF Read, AfterAck

\* What is passed on carries the same, one hop further; of an ack there is a plain one.
LEMMA OnwardsAre ==
  ASSUME NEW n, NEW p \in PacketSet
  PROVE  /\ \A q \in Onwards(n, p) :
              /\ q.body = p.body /\ q.route = "direct" /\ q.path = Tail(p.path)
              /\ \/ q.type = Read(n, p).type
                 \/ q.type \in {"ACK", "MULTI"} /\ Read(n, p).type \in {"ACK", "MULTI"}
         /\ Read(n, p).type \in {"ACK", "MULTI"} => Direct("ACK", Tail(p.path), p.body) \in Onwards(n, p)
         /\ Read(n, p).type \notin {"ACK", "MULTI"} =>
              Direct(Read(n, p).type, Tail(p.path), p.body) \in Onwards(n, p)
<1> PICK type, rest, body, S : type = Read(n, p).type /\ rest = Tail(p.path) /\ body = p.body /\ S = Onwards(n, p)
  OBVIOUS
<1>0. \A x : /\ Direct(x, rest, body).type = x /\ Direct(x, rest, body).route = "direct"
              /\ Direct(x, rest, body).path = rest /\ Direct(x, rest, body).body = body
  BY DEF Direct, Packet
<1>1. CASE type \in {"ACK", "MULTI"}
  <2>1. S = DirectAcks(n, rest, body)
    BY <1>1 DEF Onwards
  <2>2. \A q \in S : q = Direct("ACK", rest, body) \/ q = Direct("MULTI", rest, body)
    BY <2>1 DEF DirectAcks
  <2>3. Direct("ACK", rest, body) \in S
    BY <2>1 DEF DirectAcks
  <2>4. \A q \in S : q.body = body /\ q.route = "direct" /\ q.path = rest /\ q.type \in {"ACK", "MULTI"}
    BY <1>0, <2>2
  <2> QED BY <1>1, <2>3, <2>4
<1>2. CASE type \notin {"ACK", "MULTI"}
  <2>1. S = {Direct(type, rest, body)}
    BY <1>2 DEF Onwards
  <2>2. \A q \in S : q.body = body /\ q.route = "direct" /\ q.path = rest /\ q.type = type
    BY <1>0, <2>1
  <2> QED BY <1>2, <2>1, <2>2
<1> QED BY <1>1, <1>2

\* Other errands than that of the packet looked at are left alone, but for an answer.
LEMMA NotCopied ==
  ASSUME NEW n \in Nodes, NEW p, Looked(n, p), NEW M, NEW S, NEW R, Leaves(n, p, M, S, R),
         NEW h \in Errands, ~Copy(p, h)
  PROVE  h \notin M /\ \A q \in S : ~Copy(q, h)
<1>1. TypeInv /\ p \in PacketSet /\ h[1] \in {"TXT", "PATH", "ACK"}
  BY LookedAt, ErrandIs
<1>2. CASE M = {} /\ S = {}
  BY <1>2
<1>3. CASE (\A g \in M : g[1] = "TRACE") /\ (\A q \in S : q.type = "TRACE")
  BY <1>1, <1>3 DEF Copy
<1>4. CASE M = {calculatePacketHash(Read(n, p))} /\ S = Onwards(n, p)
  <2> PICK q \in PacketSet : q = Read(n, p) /\ q.body = p.body /\ (q = p \/ q.type = "0xFF")
    BY <1>1, ReadIs
  <2>1. calculatePacketHash(q) # h
    BY <1>1, CopyHash DEF Copy
  <2>2. \A r \in S : r.body = p.body /\ (r.type = q.type \/ (r.type \in {"ACK", "MULTI"} /\ q.type \in {"ACK", "MULTI"}))
    BY <1>1, <1>4, OnwardsAre
  <2>3. ASSUME NEW r \in S, Copy(r, h) PROVE FALSE
    <3>1. h[2] = p.body /\ (r.type = h[1] \/ (h[1] = "ACK" /\ r.type = "MULTI"))
      BY <2>2, <2>3 DEF Copy
    <3>2. q.type = h[1] \/ (h[1] = "ACK" /\ q.type = "MULTI")
      BY <1>1, <2>2, <3>1
    <3>3. q = p
      BY <1>1, <3>2
    <3> QED BY <3>1, <3>2, <3>3 DEF Copy
  <2> QED BY <1>4, <2>1, <2>3
<1>5. CASE M = {calculatePacketHash(p)} /\ S \subseteq routeRecvPacket(n, p)
  <2>1. calculatePacketHash(p) # h
    BY <1>1, CopyHash
  <2>2. \A q \in S : q.body = p.body /\ q.type = p.type
    BY <1>1, <1>5, ForwardedFlood
  <2> QED BY <1>5, <2>1, <2>2 DEF Copy
<1> QED BY <1>2, <1>3, <1>4, <1>5 DEF Leaves

\* A copy of a flood is looked at for what it is, wherever it comes.
LEMMA FloodLooked ==
  ASSUME NEW n \in Nodes, NEW p, Looked(n, p), NEW M, NEW S, NEW R, Leaves(n, p, M, S, R),
         NEW h \in Errands, Copy(p, h), p.type = h[1], isRouteFlood(p),
         \A t \in awaiting[n] : t.from = n
  PROVE  \/ Marked(n, h) /\ S = {}
         \/ /\ ~Marked(n, h) /\ h \in M /\ S \subseteq routeRecvPacket(n, p)
            /\ n # For(h) => S = routeRecvPacket(n, p)
<1>1. TypeInv /\ p \in PacketSet /\ h[1] \in {"TXT", "PATH", "ACK"} /\ p.body = h[2]
  BY LookedAt, ErrandIs DEF Copy
<1>2. calculatePacketHash(p) = h
  BY <1>1, CopyHash
<1>3. ~OnTheWay(p) /\ p.type \notin {"TRACE", "ADVERT", "MULTI"}
  BY <1>1 DEF OnTheWay
<1>4. wasSeen(n, p) <=> Marked(n, h)
  BY <1>2 DEF wasSeen, Marked
<1>5. CASE Idles(n, p) /\ M = {} /\ S = {} /\ R = {}
  BY <1>3, <1>4, <1>5 DEF Idles
<1>6. CASE /\ First(n, p) /\ M = {calculatePacketHash(p)} /\ S \subseteq routeRecvPacket(n, p)
           /\ \/ /\ R = {}
                 /\ \/ S = routeRecvPacket(n, p) \/ p.type \notin {"TXT", "PATH", "ACK"}
                    \/ p.type = "ACK" /\ Accepts(n, p)
              \/ RecvText(n, p) /\ S = {} /\ R = TextReply(n, p)
              \/ RecvPath(n, p) /\ S = {} /\ R = PathReply(n, p)
  <2>1. ~Marked(n, h)
    BY <1>4, <1>6 DEF First
  <2>2. ASSUME n # For(h) PROVE S = routeRecvPacket(n, p)
    <3>1. ~RecvText(n, p) /\ ~RecvPath(n, p)
      BY <1>1, <2>2 DEF RecvText, RecvPath, For
    <3>2. ~(p.type = "ACK" /\ Accepts(n, p))
      BY <1>1, <2>2 DEF Accepts, For
    <3> QED BY <1>1, <1>6, <3>1, <3>2
  <2> QED BY <1>2, <1>6, <2>1, <2>2
<1> QED BY <1>3, <1>5, <1>6 DEF Leaves, PassesOn

\* A copy of a direct packet is passed on by the node it names next, which awaits no
\* such ack.
LEMMA DirectLooked ==
  ASSUME NEW n \in Nodes, NEW p, Looked(n, p), NEW M, NEW S, NEW R, Leaves(n, p, M, S, R),
         NEW h \in Errands, Copy(p, h), p.route = "direct",
         \A t \in awaiting[n] : t.from = n,
         p.path # <<>> /\ NextHopIs(n, p) => n # For(h)
  PROVE  /\ \A q \in S : /\ q.route = "direct" /\ q.path = Tail(p.path)
                         /\ p.path # <<>> /\ NextHopIs(n, p) /\ Direct(h[1], Tail(p.path), h[2]) \in S
         /\ p.path # <<>> /\ NextHopIs(n, p) /\ p.type = h[1] => Marked(n, h) \/ Direct(h[1], Tail(p.path), h[2]) \in S
         /\ h \in M => p.type = h[1] /\ (p.path = <<>> \/ Direct(h[1], Tail(p.path), h[2]) \in S)
         /\ p.path = <<>> /\ p.type = h[1] => Marked(n, h) \/ h \in M
<1> PICK next : next = Direct(h[1], Tail(p.path), h[2])
  OBVIOUS
<1>1. /\ TypeInv /\ p \in PacketSet /\ h[1] \in {"TXT", "PATH", "ACK"} /\ p.body = h[2]
      /\ p.type = h[1] \/ (h[1] = "ACK" /\ p.type = "MULTI")
  BY LookedAt, ErrandIs DEF Copy
<1>2. calculatePacketHash(p) = h <=> p.type = h[1]
  BY <1>1, CopyHash
<1>3. p.type \notin {"TRACE", "ADVERT"} /\ ~isRouteFlood(p) /\ (OnTheWay(p) <=> p.path # <<>>)
  BY <1>1 DEF OnTheWay, isRouteFlood
<1>4. p.type = h[1] => (wasSeen(n, p) <=> Marked(n, h))
  BY <1>2 DEF wasSeen, Marked
<1>5. p.path # <<>> /\ NextHopIs(n, p) => Read(n, p) = p
  BY <1>1, ReadIs DEF Accepts, For
<1>6. CASE Idles(n, p) /\ M = {} /\ S = {} /\ R = {}
  BY <1>3, <1>4, <1>5, <1>6 DEF Idles, ForThisNode
<1>7. CASE PassesOn(n, p) /\ M = {calculatePacketHash(Read(n, p))} /\ S = Onwards(n, p) /\ R = {}
  <2>1. p.path # <<>> /\ NextHopIs(n, p) /\ Read(n, p) = p
    BY <1>3, <1>5, <1>7 DEF PassesOn
  <2>2. next \in S
    BY <1>1, <1>7, <2>1, OnwardsAre
  <2>3. \A q \in S : q.route = "direct" /\ q.path = Tail(p.path)
    BY <1>1, <1>7, OnwardsAre
  <2> QED BY <1>2, <1>7, <2>1, <2>2, <2>3
<1>8. CASE First(n, p) /\ M = {calculatePacketHash(p)} /\ S \subseteq routeRecvPacket(n, p)
  <2>1. p.path = <<>> /\ S = {}
    BY <1>3, <1>8 DEF First, ForThisNode, routeRecvPacket
  <2> QED BY <1>2, <1>8, <2>1
<1> QED BY <1>3, <1>6, <1>7, <1>8 DEF Leaves

\* Nothing but the copies and who sent them makes an errand be under way.
LEMMA GoingKeeps ==
  ASSUME TypeInv, net' = net, NEW h \in Errands, Going(h), sent[From(h)] \subseteq sent'[From(h)],
         \A a, b \in Nodes : out_path[a][b] # Unknown => out_path'[a][b] # Unknown,
         Spreads(h) => Spreads(h)',
         \A path \in Paths : Way(h, path) /\ Follows(h, path) => Follows(h, path)'
  PROVE  Going(h)'
<1>1. From(h) \in Nodes /\ For(h) \in Nodes
  BY ErrandIs
<1>2. \A path : Connects(From(h), path, For(h))' <=> Connects(From(h), path, For(h))
  BY SamePlaces
<1>3. \A path : Way(h, path)' <=> Way(h, path)
  BY <1>2, IdealStays DEF Way
<1>4. h \in sent'[From(h)] /\ From(h) # For(h)
  BY DEF Going
<1>5. CASE Spreads(h) /\ \E path \in Paths : Connects(From(h), path, For(h))
  BY <1>2, <1>4, <1>5 DEF Going
<1>6. CASE /\ out_path[From(h)][For(h)] # Unknown
           /\ \E path \in Paths : Way(h, path) /\ Follows(h, path)
  BY <1>1, <1>3, <1>4, <1>6 DEF Going
<1> QED BY <1>5, <1>6 DEF Going

\* The node a packet names next is not the one it is for.
LEMMA NotAtItsEnd ==
  ASSUME NEW h \in Errands, NEW path \in Paths, Way(h, path), NEW p,
         \E k \in 0..Len(path) : p.path = Rest(path, k),
         p.path # <<>>, NEW n, NextHopIs(n, p)
  PROVE  n # For(h)
<1> PICK k \in 0..Len(path) : p.path = Rest(path, k)
  OBVIOUS
<1>1. path \in Seq(PathBytes) /\ DOMAIN path = 1..Len(path) /\ Len(path) \in Nat
  BY DEF Paths
<1>2. /\ Rest(path, k) = <<>> <=> k = Len(path)
      /\ k < Len(path) => Head(Rest(path, k)) = path[k + 1]
  <2>1. path \in Seq(PathBytes) /\ k \in 0..Len(path)
    BY <1>1
  <2> QED BY <2>1, RestIs, Zenon
<1>3. k # Len(path)
  BY <1>2
<1>4. k < Len(path) /\ k + 1 \in 1..Len(path)
  <2> PICK len \in Nat : len = Len(path)
    BY <1>1
  <2> QED BY <1>3
<1>5. n \in net.forwarders /\ net.hash[n] = path[k + 1] /\ k + 1 \in DOMAIN path
  BY <1>1, <1>2, <1>4 DEF NextHopIs, allowPacketForward
<1> QED BY <1>5 DEF Way, Simple

\* Of an errand that neither the packet nor an answer is a copy of, all stays as it was.
LEMMA LookUntouched ==
  ASSUME NEW n \in Nodes, NEW p, Looked(n, p), NEW M, NEW S, NEW R, Leaves(n, p, M, S, R),
         n \notin forgot', NEW h \in Errands, ~Copy(p, h), \A q \in R : ~Copy(q, h)
  PROVE  Untouched(h)
<1>1. TypeInv /\ net' = net /\ p \in PacketSet /\ p \in inbox[n] /\ inbox' = [inbox EXCEPT ![n] = @ \ {p}]
  BY LookedAt DEF Looked, Looks
<1> PICK marks, sends : marks = M \cup {HashAsSent(r) : r \in R} /\ sends = S \cup R
  OBVIOUS
<1>2. S \in SUBSET PacketSet /\ R \in SUBSET PacketSet /\ Effect(n, marks, sends)
  BY DEF Leaves
<1>3. h \notin M /\ \A q \in sends : ~Copy(q, h)
  BY NotCopied
<1>4. h \notin marks
  <2>1. \A r \in R : HashAsSent(r) # h
    BY <1>2, CopyHash DEF Copy
  <2> QED BY <1>3, <2>1
<1>5. sends \in SUBSET PacketSet
  BY <1>2
<1>6. /\ \A m \in Nodes : \A q : q \in queue'[m] <=> q \in queue[m] \/ (m = n /\ q \in sends)
      /\ \A m \in Nodes : h \in sent'[m] <=>
           h \in sent[m] \/ (m = n /\ \E q \in sends : q.type = h[1] /\ q.body = h[2])
      /\ \A m \in Nodes : Marked(m, h)' <=> Marked(m, h) \/ (m = n /\ h \in marks)
  BY <1>1, <1>2, <1>5, EffectOn
<1>7. \A q \in sends : ~(q.type = h[1] /\ q.body = h[2])
  BY <1>3 DEF Copy
<1>8. \A m \in Nodes : \A q : Copy(q, h) => (q \in inbox'[m] <=> q \in inbox[m])
  BY <1>1 DEF TypeInv
<1> QED BY <1>3, <1>4, <1>6, <1>7, <1>8 DEF Untouched

\* Whoever looks at a packet, an errand under way stays so.
LEMMA LookGoing ==
  ASSUME NEW n \in Nodes, NEW p, Looked(n, p), Ideal, NEW M, NEW S, NEW R, Leaves(n, p, M, S, R),
         n \notin forgot', NEW h \in Errands, Going(h), \A q \in R : ~Copy(q, h),
         \A t \in awaiting[n] : t.from = n,
         \A a, b \in Nodes : out_path[a][b] # Unknown => out_path'[a][b] # Unknown
  PROVE  Going(h)'
<1>1. TypeInv /\ net' = net /\ p \in PacketSet /\ p \in inbox[n] /\ inbox' = [inbox EXCEPT ![n] = @ \ {p}]
  BY LookedAt DEF Looked, Looks
<1> PICK marks, sends : marks = M \cup {HashAsSent(r) : r \in R} /\ sends = S \cup R
  OBVIOUS
<1>2. S \in SUBSET PacketSet /\ R \in SUBSET PacketSet /\ Effect(n, marks, sends)
  BY DEF Leaves
<1>3. \A q \in sends : Copy(q, h) => q \in S
  OBVIOUS
<1>4. h \in marks <=> h \in M
  <2>1. \A r \in R : HashAsSent(r) # h
    BY <1>2, CopyHash DEF Copy
  <2> QED BY <2>1
<1>5. sends \in SUBSET PacketSet /\ S \subseteq sends
  BY <1>2
<1>6. /\ \A m \in Nodes : \A q : q \in queue'[m] <=> q \in queue[m] \/ (m = n /\ q \in sends)
      /\ \A m \in Nodes : h \in sent'[m] <=>
           h \in sent[m] \/ (m = n /\ \E q \in sends : q.type = h[1] /\ q.body = h[2])
      /\ \A m \in Nodes : Marked(m, h)' <=> Marked(m, h) \/ (m = n /\ h \in marks)
  BY <1>1, <1>2, <1>5, EffectOn
<1>7. sent[From(h)] \subseteq sent'[From(h)] /\ h \in sent[From(h)] /\ From(h) \in Nodes /\ For(h) \in Nodes
  BY <1>2, ErrandIs DEF Effect, Going
<1>8. CASE ~Copy(p, h)
  <2>4. Untouched(h)
    BY <1>8, LookUntouched
  <2>5. /\ Spreads(h) => Spreads(h)'
        /\ \A path \in Paths : Follows(h, path) => Follows(h, path)'
    BY <1>1, <2>4, UntouchedKeeps
  <2> QED BY <1>1, <1>7, <2>5, GoingKeeps
<1>9. ASSUME Copy(p, h), Spreads(h) PROVE Spreads(h)'
  <2>1. p.type = h[1] /\ isRouteFlood(p)
    BY <1>1, <1>9 DEF Spreads, Gathered
  <2>2. \/ Marked(n, h) /\ S = {}
        \/ /\ ~Marked(n, h) /\ h \in M /\ S \subseteq routeRecvPacket(n, p)
           /\ n # For(h) => S = routeRecvPacket(n, p)
    BY <1>9, <2>1, FloodLooked
  <2>3. \/ Marked(n, h) /\ \A q \in sends : ~Copy(q, h)
        \/ /\ ~Marked(n, h) /\ h \in marks /\ \A q \in sends : Copy(q, h) => q \in routeRecvPacket(n, p)
           /\ n # For(h) => routeRecvPacket(n, p) \subseteq sends
    BY <1>3, <1>4, <1>5, <2>2
  <2> QED BY <1>1, <1>2, <1>5, <1>7, <1>9, <2>3, LookSpreads
<1>10. ASSUME Copy(p, h), NEW path \in Paths, Way(h, path), Follows(h, path) PROVE Follows(h, path)'
  <2>1. p.route = "direct" /\ \E k \in 0..Len(path) : p.path = Rest(path, k)
    BY <1>1, <1>10 DEF Follows
  <2>2. p.path # <<>> /\ NextHopIs(n, p) => n # For(h)
    BY <1>10, <2>1, NotAtItsEnd
  <2>3. /\ \A q \in S : /\ q.route = "direct" /\ q.path = Tail(p.path)
                        /\ p.path # <<>> /\ NextHopIs(n, p) /\ Direct(h[1], Tail(p.path), h[2]) \in S
        /\ p.path # <<>> /\ NextHopIs(n, p) /\ p.type = h[1] => Marked(n, h) \/ Direct(h[1], Tail(p.path), h[2]) \in S
        /\ h \in M => p.type = h[1] /\ (p.path = <<>> \/ Direct(h[1], Tail(p.path), h[2]) \in S)
        /\ p.path = <<>> /\ p.type = h[1] => Marked(n, h) \/ h \in M
    <3>1. Copy(p, h) /\ p.route = "direct"
      BY <1>10, <2>1
    <3> QED BY <2>2, <3>1, DirectLooked
  <2>4. /\ \A q \in sends : Copy(q, h) => /\ q.route = "direct" /\ q.path = Tail(p.path)
                                          /\ p.path # <<>> /\ NextHopIs(n, p) /\ Direct(h[1], Tail(p.path), h[2]) \in sends
        /\ p.path # <<>> /\ NextHopIs(n, p) /\ p.type = h[1] => Marked(n, h) \/ Direct(h[1], Tail(p.path), h[2]) \in sends
        /\ h \in marks => p.type = h[1] /\ (p.path = <<>> \/ Direct(h[1], Tail(p.path), h[2]) \in sends)
        /\ p.path = <<>> /\ p.type = h[1] => Marked(n, h) \/ h \in marks
    BY <1>3, <1>4, <1>5, <2>3
  <2> QED BY <1>1, <1>2, <1>5, <1>10, <2>4, LookFollows
<1>11. CASE Copy(p, h)
  BY <1>1, <1>7, <1>9, <1>10, <1>11, GoingKeeps
<1> QED BY <1>8, <1>11

\* A path that leads somewhere is none that could be taken for an unknown one.
LEMMA NotUnknown ==
  ASSUME TypeInv, NEW o, NEW path \in Paths, NEW d, Connects(o, path, d)
  PROVE  path # Unknown
<1> PICK H : H = {net.hash[m] : m \in Nodes}
  OBVIOUS
<1>1. Unknown \notin Seq(H)
  BY UnknownAssumption DEF TypeInv
<1>2. path \in Seq(H)
  <2>1. CASE path = <<>>
    BY <2>1
  <2>2. CASE path # <<>>
    <3>1. PICK len \in Nat : DOMAIN path = 1..len /\ path = [i \in 1..len |-> path[i]]
      BY DEF Paths
    <3>2. PICK via \in [1..len -> net.forwarders] : \A i \in 1..len : net.hash[via[i]] = path[i]
      BY <2>2, <3>1 DEF Connects, Leads
    <3>3. \A i \in 1..len : path[i] \in H
      BY <3>2, ThisNetwork DEF TypeInv
    <3>4. path \in [1..len -> H]
      BY <3>1, <3>3
    <3> QED BY <3>4
  <2> QED BY <2>1, <2>2
<1> QED BY <1>1, <1>2

\* What looking at a packet does to paths and to what is awaited.
LEMMA LookApps ==
  ASSUME NEW n \in Nodes, NEW p, Looked(n, p), onRecvPacket(n, p)
  PROVE  /\ \A m \in Nodes : awaiting'[m] \subseteq awaiting[m]
         /\ \A a, b \in Nodes : out_path[a][b] # Unknown => out_path'[a][b] # Unknown
         /\ First(n, p) /\ (p.type = "ACK" \/ (p.type = "PATH" /\ p.body.to = n)) =>
              p.body.ack \notin awaiting'[n]
         /\ RecvPath(n, p) =>
              /\ \A a, b \in Nodes : out_path'[a][b] =
                   IF a = n /\ b = p.body.from THEN p.body.path ELSE out_path[a][b]
              /\ p.body \in Returns /\ p.body.path # Unknown
         /\ ~RecvPath(n, p) => out_path' = out_path
<1>1. /\ TypeInv /\ p \in PacketSet /\ Known(p)
      /\ awaiting \in [Nodes -> SUBSET Texts]
      /\ out_path \in [Nodes -> [Nodes -> Paths \cup {Unknown}]]
  BY LookedAt DEF TypeInv
<1>2. \/ awaiting' = awaiting
      \/ acceptAck(n, p.body.ack)
  BY DEF onRecvPacket, RecvTrace, RecvOnTheWay, RecvOwnAdvert, RecvAgain, RecvAck, RecvMultiAck,
         RecvText, RecvPath, RecvForOther, RecvGroup, RecvAdvert, appVars
<1>3. \A m \in Nodes : awaiting'[m] \subseteq awaiting[m]
  BY <1>1, <1>2 DEF acceptAck
<1>4. ASSUME First(n, p), p.type = "ACK" \/ (p.type = "PATH" /\ p.body.to = n)
      PROVE  p.body.ack \notin awaiting'[n]
  <2>1. acceptAck(n, p.body.ack)
    BY <1>4 DEF onRecvPacket, RecvTrace, RecvOnTheWay, RecvOwnAdvert, RecvAgain, RecvAck, RecvMultiAck,
           RecvText, RecvPath, RecvForOther, RecvGroup, RecvAdvert, First, ForThisNode
  <2> QED BY <1>1, <2>1 DEF acceptAck
<1>5. ASSUME RecvPath(n, p)
      PROVE  /\ \A a, b \in Nodes : out_path'[a][b] =
                   IF a = n /\ b = p.body.from THEN p.body.path ELSE out_path[a][b]
             /\ p.body \in Returns /\ p.body.path # Unknown
  <2>1. out_path' = [out_path EXCEPT ![n][p.body.from] = p.body.path] /\ p.type = "PATH"
    BY <1>5 DEF RecvPath
  <2>2. p.body \in Returns /\ Connects(p.body.to, p.body.path, p.body.from) /\ p.body.path \in Paths
    BY <1>1, <2>1 DEF Known, Returns
  <2>3. p.body.path # Unknown
    BY <1>1, <2>2, NotUnknown
  <2>4. p.body.from \in Nodes
    BY <2>2 DEF Returns
  <2>5. \A a, b \in Nodes : out_path'[a][b] =
          IF a = n /\ b = p.body.from THEN p.body.path ELSE out_path[a][b]
    BY <1>1, <2>1, <2>4
  <2> QED BY <2>2, <2>3, <2>5
<1>6. ASSUME ~RecvPath(n, p) PROVE out_path' = out_path
  BY <1>6 DEF onRecvPacket, RecvTrace, RecvOnTheWay, RecvOwnAdvert, RecvAgain, RecvAck, RecvMultiAck,
         RecvText, RecvForOther, RecvGroup, RecvAdvert, appVars
<1>7. \A a, b \in Nodes : out_path[a][b] # Unknown => out_path'[a][b] # Unknown
  BY <1>5, <1>6
<1> QED BY <1>3, <1>4, <1>5, <1>6, <1>7

\* An answer that has never been sent.
Unsent(n, q) ==
  \/ q.type = "PATH" /\ q.body.from = n /\ q.body.no = made[n]
  \/ q.type \in {"ACK", "MULTI"} /\ q.body.ack.to = n /\ q.body.no = made[n]

LEMMA AnswersNew ==
  ASSUME NEW n, NEW p, p.body.to = n, NEW q, q \in TextReply(n, p) \/ q \in PathReply(n, p)
  PROVE  Unsent(n, q)
<1>1. CASE q \in PathReply(n, p)
  BY <1>1 DEF Unsent, PathReply, Direct, Packet, PathReturn
<1>2. CASE q \in TextReply(n, p) /\ isRouteFlood(p)
  BY <1>2 DEF Unsent, TextReply, Flood, Packet, PathReturn
<1>3. CASE q \in TextReply(n, p) /\ ~isRouteFlood(p)
  <2> PICK a : a = Ack(p.body, made[n])
    OBVIOUS
  <2>0. a.ack = p.body /\ a.no = made[n]
    BY DEF Ack
  <2>1. q \in AckTo(n, p.body)
    BY <1>3 DEF TextReply
  <2>2. q.body = a /\ q.type \in {"ACK", "MULTI"}
    BY <2>1, DirectAcksFinite DEF AckTo, Flood, Packet
  <2> QED BY <1>3, <2>0, <2>2 DEF Unsent
<1> QED BY <1>1, <1>2, <1>3

LEMMA AnswersUnsent ==
  ASSUME NEW n, NEW p, NEW M, NEW S, NEW R, Leaves(n, p, M, S, R)
  PROVE  \A q \in R : Unsent(n, q)
BY AnswersNew DEF Leaves, RecvText, RecvPath

\* An errand under way has been sent, so no answer can be a copy of it.
LEMMA UnsentNotGoing ==
  ASSUME TypeInv, HashesOK, NEW h \in Errands, Going(h), NEW n \in Nodes, NEW q, Unsent(n, q)
  PROVE  ~Copy(q, h)
<1> SUFFICES ASSUME Copy(q, h) PROVE FALSE
  OBVIOUS
<1>1. From(h) \in Nodes /\ h[1] \in {"TXT", "PATH", "ACK"} /\ q.body = h[2] /\ made[n] \in Nat
  BY ErrandIs DEF Copy, TypeInv
<1>2. Used(h)
  BY <1>1 DEF Going, HashesOK
<1>3. \/ h[1] = "PATH" /\ h[2].from = n /\ h[2].no = made[n]
      \/ h[1] = "ACK" /\ h[2].ack.to = n /\ h[2].no = made[n]
  BY <1>1 DEF Unsent, Copy
<1> QED BY <1>1, <1>2, <1>3 DEF Used

\* An errand arrives when a copy of it is looked at for the first time.
LEMMA ArrivesFirst ==
  ASSUME NEW n \in Nodes, NEW p, Looked(n, p), NEW M, NEW S, NEW R, Leaves(n, p, M, S, R),
         n \notin forgot', NEW h \in Errands, Going(h), Marked(For(h), h)', ~Marked(For(h), h)
  PROVE  n = For(h) /\ First(n, p) /\ p.type = h[1] /\ p.body = h[2]
<1>1. TypeInv /\ HashesOK /\ p \in PacketSet /\ For(h) \in Nodes /\ h[1] \in {"TXT", "PATH", "ACK"} /\ p \in inbox[n]
  BY LookedAt, ErrandIs DEF Looked, Looks
<1>2. \A q \in R : HashAsSent(q) # h
  <2>1. \A q \in R : ~Copy(q, h) /\ q \in PacketSet
    BY <1>1, AnswersUnsent, UnsentNotGoing DEF Leaves
  <2> QED BY <2>1, CopyHash DEF Copy
<1> PICK marks, sends : marks = M \cup {HashAsSent(r) : r \in R} /\ sends = S \cup R
  OBVIOUS
<1>3. n = For(h) /\ h \in marks
  <2>1. sends \in SUBSET PacketSet /\ Effect(n, marks, sends)
    BY DEF Leaves
  <2> QED BY <1>1, <2>1, EffectOn
<1>4. h \in M
  BY <1>2, <1>3
<1>5. Copy(p, h)
  BY <1>4, NotCopied
<1>6. ~(PassesOn(n, p) /\ M = {calculatePacketHash(Read(n, p))})
  <2> SUFFICES ASSUME PassesOn(n, p), h = calculatePacketHash(Read(n, p)) PROVE FALSE
    BY <1>4
  <2>1. OnTheWay(p) /\ NextHopIs(n, p) /\ p.path # <<>> /\ ~isRouteFlood(p)
    BY DEF PassesOn, OnTheWay
  <2>2. PICK path \in Paths : Way(h, path) /\ Follows(h, path)
    BY <1>1, <1>5, <2>1 DEF Going, Spreads, Gathered
  <2>3. \E k \in 0..Len(path) : p.path = Rest(path, k)
    BY <1>1, <1>5, <2>2 DEF Follows
  <2> QED BY <1>3, <2>1, <2>2, <2>3, NotAtItsEnd
<1>7. First(n, p) /\ M = {calculatePacketHash(p)}
  BY <1>1, <1>4, <1>6 DEF Leaves
<1>8. p.type = h[1] /\ p.body = h[2]
  BY <1>1, <1>4, <1>7, CopyHash
<1> QED BY <1>3, <1>7, <1>8

\* A text that arrives is answered.
LEMMA TextDone ==
  ASSUME NEW n \in Nodes, NEW p, Looked(n, p), onRecvPacket(n, p), NEW h \in Errands, Going(h),
         n = For(h), First(n, p), p.type = "TXT", h[1] = "TXT", p.body = h[2]
  PROVE  Answered(h[2])'
<1>1. /\ TypeInv /\ p \in PacketSet /\ p \in inbox[n] /\ made[n] \in Nat /\ p.path \in Paths
  <2>1. TypeInv /\ p \in PacketSet /\ p \in inbox[n]
    BY LookedAt DEF Looked, Looks
  <2>2. p.path \in Paths
    BY <2>1 DEF PacketSet
  <2>3. made[n] \in Nat
    BY <2>1 DEF TypeInv
  <2> QED BY <2>1, <2>2, <2>3
<1> PICK t \in Texts : t = h[2] /\ t.to = n /\ t.from \in Nodes /\ p.body = t
  BY ErrandIs, TextEnds DEF For
<1>2. RecvText(n, p)
  BY DEF onRecvPacket, RecvTrace, RecvOnTheWay, RecvOwnAdvert, RecvAgain, RecvAck, RecvMultiAck,
         RecvPath, RecvForOther, RecvGroup, RecvAdvert, First, ForThisNode
<1>3. \A q \in TextReply(n, p) : calculatePacketHash(q) \in sent'[n]
  <2> PICK M, S : S = TextReply(n, p) /\ M = {calculatePacketHash(p)} \cup {HashAsSent(r) : r \in TextReply(n, p)}
    OBVIOUS
  <2>1. Effect(n, M, S)
    BY <1>2, TextLeaves
  <2>2. sent'[n] = sent[n] \cup {calculatePacketHash(q) : q \in S}
    BY <2>1 DEF Effect
  <2> QED BY <2>2
<1>4. CASE isRouteFlood(p)
  <2> PICK b : b = PathReturn(n, t.from, p.path, t, made[n])
    OBVIOUS
  <2>1. b \in Returns /\ b.from = n /\ b.to = t.from /\ b.ack = t
    BY <1>1 DEF PathReturn, Returns
  <2>2. Flood("PATH", b) \in TextReply(n, p)
    BY <1>4 DEF TextReply
  <2>3. <<"PATH", b>> \in sent'[n]
    BY <1>3, <2>2 DEF calculatePacketHash, Flood, Packet
  <2> QED BY <2>1, <2>3 DEF Answered
<1>5. CASE ~isRouteFlood(p)
  <2> PICK b : b = Ack(t, made[n])
    OBVIOUS
  <2>1. b \in Acks /\ b.ack = t
    BY <1>1 DEF Ack, Acks
  <2>2. \E q \in TextReply(n, p) : q.type = "ACK" /\ q.body = b
    <3>1. TextReply(n, p) = AckTo(n, t)
      BY <1>5 DEF TextReply
    <3> PICK path : path = out_path[n][t.from]
      OBVIOUS
    <3>2. CASE path = Unknown
      <4>1. AckTo(n, t) = {Flood("ACK", b)}
        BY <3>2 DEF AckTo
      <4>2. Flood("ACK", b) \in TextReply(n, p)
        BY <3>1, <4>1
      <4>3. Flood("ACK", b).type = "ACK" /\ Flood("ACK", b).body = b
        BY DEF Flood, Packet
      <4> QED BY <4>2, <4>3
    <3>3. CASE path # Unknown
      <4>1. AckTo(n, t) = DirectAcks(n, path, b)
        BY <3>3 DEF AckTo
      <4>2. Direct("ACK", path, b) \in TextReply(n, p)
        BY <3>1, <4>1 DEF DirectAcks
      <4>3. Direct("ACK", path, b).type = "ACK" /\ Direct("ACK", path, b).body = b
        BY DEF Direct, Packet
      <4> QED BY <4>2, <4>3
    <3> QED BY <3>2, <3>3
  <2>3. <<"ACK", b>> \in sent'[n]
    BY <1>3, <2>2 DEF calculatePacketHash
  <2>4. out_path[t.from][t.to] # Unknown
    <3>1. Copy(p, h) /\ From(h) = t.from /\ For(h) = t.to
      BY DEF Copy, From, For
    <3> QED BY <1>1, <1>5, <3>1 DEF Going, Spreads, Gathered
  <2>5. out_path'[t.from][t.to] # Unknown
    BY <2>4, LookApps
  <2> QED BY <2>1, <2>3, <2>5 DEF Answered
<1> QED BY <1>4, <1>5

\* An errand that arrives leads to what it is for.
LEMMA LookDone ==
  ASSUME NEW n \in Nodes, NEW p, Looked(n, p), onRecvPacket(n, p), NEW h \in Errands, Going(h),
         n = For(h), First(n, p), p.type = h[1], p.body = h[2]
  PROVE  Done(h)'
<1>1. h[1] \in {"TXT", "PATH", "ACK"} /\ (h[1] = "PATH" => h[2].from \in Nodes)
  BY ErrandIs DEF From
<1>2. CASE h[1] = "TXT"
  <2>1. Answered(h[2])'
    BY <1>2, TextDone
  <2> QED BY <1>2, <2>1 DEF Done
<1>3. CASE h[1] = "PATH"
  <2>1. p.body.to = n
    BY <1>3 DEF For
  <2>2. RecvPath(n, p)
    BY <1>3, <2>1 DEF onRecvPacket, RecvTrace, RecvOnTheWay, RecvOwnAdvert, RecvAgain, RecvAck, RecvMultiAck,
           RecvText, RecvForOther, RecvGroup, RecvAdvert, First, ForThisNode
  <2>3. out_path'[n][h[2].from] # Unknown /\ h[2].ack \notin awaiting'[n]
    BY <1>1, <1>3, <2>1, <2>2, LookApps
  <2> QED BY <1>3, <2>1, <2>3 DEF Done
<1>4. CASE h[1] = "ACK"
  <2>1. h[2].ack \notin awaiting'[n] /\ n = h[2].ack.from
    BY <1>4, LookApps DEF For
  <2> QED BY <1>4, <2>1 DEF Done
<1> QED BY <1>1, <1>2, <1>3, <1>4

\* What has been done stays so, and what was true.
LEMMA DoneStays ==
  ASSUME TypeInv, NEW h \in Errands, Done(h),
         \A m \in Nodes : sent[m] \subseteq sent'[m],
         \A m \in Nodes : \A t \in awaiting'[m] : t \in awaiting[m] \/ t \notin Issued("TXT"),
         h[1] \in {"PATH", "ACK"} => h[2].ack = NoAck \/ h[2].ack \in Issued("TXT"),
         \A m \in Nodes : NoAck \notin awaiting'[m],
         \A a, b \in Nodes : out_path[a][b] # Unknown => out_path'[a][b] # Unknown
  PROVE  Done(h)'
<1>1. /\ From(h) \in Nodes /\ For(h) \in Nodes /\ h[1] \in {"TXT", "PATH", "ACK"}
  BY ErrandIs
<1>2. CASE h[1] = "TXT"
  <2> PICK t : t = h[2]
    OBVIOUS
  <2>1. t.from \in Nodes /\ t.to \in Nodes
    BY <1>1, <1>2 DEF From, For
  <2>2. Answered(t)
    BY <1>2 DEF Done
  <2>3. Answered(t)'
    BY <2>1, <2>2 DEF Answered
  <2> QED BY <1>2, <2>3 DEF Done
<1>3. CASE h[1] = "PATH"
  <2>1. h[2].to \in Nodes /\ h[2].from \in Nodes
    BY <1>1, <1>3 DEF From, For
  <2>2. out_path'[h[2].to][h[2].from] # Unknown
    BY <1>3, <2>1 DEF Done
  <2>3. h[2].ack \notin awaiting'[h[2].to]
    BY <1>3, <2>1 DEF Done
  <2> QED BY <1>3, <2>2, <2>3 DEF Done
<1>4. CASE h[1] = "ACK"
  <2>1. h[2].ack.from \in Nodes
    BY <1>1, <1>4 DEF For
  <2>2. h[2].ack \notin awaiting'[h[2].ack.from]
    BY <1>4, <2>1 DEF Done
  <2> QED BY <1>4, <2>2 DEF Done
<1> QED BY <1>1, <1>2, <1>3, <1>4

LEMMA SaysStays ==
  ASSUME TypeInv, Grows, NEW h, Says(h)
  PROVE  Says(h)'
<1>1. \A o, path, d : Simple(o, path, d)' <=> Simple(o, path, d)
  BY IdealStays DEF Grows
<1>2. \A t : Arrived(t) => Arrived(t)'
  BY ArrivedStays
<1> QED BY <1>1, <1>2 DEF Says

\* A flood that has come to the node it is for has not come by it, nor by its sender.
LEMMA FloodSimple ==
  ASSUME TypeInv, Ideal, NEW h \in Errands, Spreads(h), NEW n \in Nodes, NEW p \in inbox[n],
         Copy(p, h), n = For(h), ~Marked(n, h)
  PROVE  Simple(From(h), p.path, n)
<1>1. /\ IsInjective(p.path)
      /\ \A i \in DOMAIN p.path : \E f \in net.forwarders \ {From(h)} :
           net.hash[f] = p.path[i] /\ h \in sent[f]
  BY DEF Spreads, Gathered
<1>2. h \notin sent[n]
  BY DEF Spreads
<1>3. ASSUME NEW i \in DOMAIN p.path, NEW f \in net.forwarders, f = From(h) \/ f = n, net.hash[f] = p.path[i]
      PROVE  FALSE
  BY <1>1, <1>2, <1>3 DEF Ideal, Unshared
<1> QED BY <1>1, <1>3 DEF Simple

\* An answer makes an errand of its own, which has not arrived.
LEMMA FloodNew ==
  ASSUME TypeInv, net' = net, NEW h \in Errands, Unused(h), From(h) # For(h), Says(h)',
         \A m \in Nodes : inbox'[m] \subseteq inbox[m],
         NEW M, NEW S \in SUBSET PacketSet, Effect(From(h), M, S), From(h) \notin forgot', h \in M,
         Flood(h[1], h[2]) \in S, \A r \in S : Copy(r, h) => r = Flood(h[1], h[2]),
         \E path \in Paths : Connects(From(h), path, For(h))
  PROVE  ErrandOK(h)'
<1>1. Spreads(h)' /\ h \in sent'[From(h)]
  BY SpreadsStart
<1>2. \A path : Connects(From(h), path, For(h))' <=> Connects(From(h), path, For(h))
  BY SamePlaces
<1>3. Going(h)'
  BY <1>1, <1>2 DEF Going
<1>4. ~Marked(For(h), h)'
  BY EffectOn, ErrandIs DEF Unused
<1> QED BY <1>3, <1>4 DEF ErrandOK

LEMMA DirectNew ==
  ASSUME TypeInv, net' = net, NEW h \in Errands, Unused(h), From(h) # For(h), Says(h)',
         \A m \in Nodes : inbox'[m] \subseteq inbox[m],
         NEW path \in Paths, Way(h, path), out_path'[From(h)][For(h)] # Unknown,
         NEW M, NEW S \in SUBSET PacketSet, Effect(From(h), M, S), From(h) \notin forgot',
         Direct(h[1], path, h[2]) \in S, \A r \in S : Copy(r, h) => r.route = "direct" /\ r.path = path
  PROVE  ErrandOK(h)'
<1>1. Follows(h, path)' /\ h \in sent'[From(h)]
  BY FollowsStart DEF Way
<1>2. Way(h, path)'
  <2>1. Connects(From(h), path, For(h))'
    BY SamePlaces DEF Way
  <2>2. Simple(From(h), path, For(h))'
    BY IdealStays DEF Way
  <2> QED BY <2>1, <2>2 DEF Way
<1>3. Going(h)'
  BY <1>1, <1>2 DEF Going
<1>4. ~Marked(For(h), h)'
  BY EffectOn, ErrandIs DEF Unused
<1> QED BY <1>3, <1>4 DEF ErrandOK

\* The errand that a text or a path which arrives belongs to.
LEMMA ArrivingErrand ==
  ASSUME NEW n \in Nodes, NEW p, Looked(n, p), ExchangesOK, First(n, p), p.type \in {"TXT", "PATH"},
         p.body.to = n, NEW h, h = <<p.type, p.body>>
  PROVE  /\ h \in Errands /\ Going(h) /\ Says(h) /\ Copy(p, h) /\ ~Marked(n, h) /\ For(h) = n
         /\ From(h) = p.body.from /\ p \in PacketSet /\ p \in inbox[n]
<1>1. TypeInv /\ p \in PacketSet /\ p \in inbox[n] /\ Known(p) /\ net \in Networks
  BY LookedAt DEF Looked, Looks, TypeInv
<1>2. h[1] = p.type /\ h[2] = p.body /\ Copy(p, h) /\ For(h) = n /\ From(h) = p.body.from
  BY DEF Copy, For, From
<1>3. h \in Errands
  <2>1. CASE p.type = "TXT"
    <3>1. [type |-> "TXT", body |-> p.body] \in net.traffic
      BY <1>1, <2>1 DEF Known, Sources
    <3>2. p.body \in Texts
      BY <1>1, <3>1 DEF Texts, Offered
    <3> QED BY <2>1, <3>2 DEF Errands
  <2>2. CASE p.type = "PATH"
    BY <1>1, <2>2 DEF Known, Errands
  <2> QED BY <2>1, <2>2
<1>4. calculatePacketHash(p) = h /\ ~Marked(n, h)
  <2>1. calculatePacketHash(p) = h
    BY <1>1, <1>2, <1>3, CopyHash
  <2> QED BY <2>1 DEF First, wasSeen, Marked
<1>5. ErrandOK(h) /\ ~Unused(h)
  BY <1>1, <1>2, <1>3 DEF ExchangesOK, Unused
<1> QED BY <1>1, <1>2, <1>3, <1>4, <1>5 DEF ErrandOK

\* What an answer to a text says is true.
LEMMA TextAnswerSays ==
  ASSUME NEW n \in Nodes, NEW p, Looked(n, p), Ideal, ExchangesOK, RecvText(n, p),
         NEW h \in Errands, NEW r \in TextReply(n, p), Copy(r, h)
  PROVE  /\ Says(h)' /\ From(h) = n /\ For(h) = p.body.from /\ n # p.body.from /\ h[2] = r.body
         /\ p.body.from \in Nodes /\ p.body.to = n
<1>1. TypeInv /\ net' = net /\ p \in PacketSet /\ p \in inbox[n] /\ Known(p) /\ IInv' /\ net \in Networks
  BY LookedAt DEF Looked, Looks, TypeInv
<1>2. p.type = "TXT" /\ p.body.to = n /\ First(n, p)
  BY DEF RecvText
<1> PICK g : g = <<"TXT", p.body>>
  OBVIOUS
<1>3. /\ g \in Errands /\ Going(g) /\ Says(g) /\ Copy(p, g) /\ ~Marked(n, g) /\ For(g) = n
      /\ From(g) = p.body.from
  BY <1>2, ArrivingErrand
<1>4. p.body.from # n /\ p.body.from \in Nodes
  BY <1>3, ErrandIs DEF Going
<1>5. Known(r)' /\ r \in PacketSet
  <2> PICK M, S : S = TextReply(n, p) /\ M = {calculatePacketHash(p)} \cup {HashAsSent(q) : q \in TextReply(n, p)}
    OBVIOUS
  <2>1. Effect(n, M, S)
    BY TextLeaves
  <2>2. r \in queue'[n]
    BY <2>1 DEF Effect
  <2> QED BY <1>1, <2>2 DEF IInv, PacketsOK, TypeInv
<1>6. h[1] \in {"TXT", "PATH", "ACK"} /\ h[2] = r.body
  BY ErrandIs DEF Copy
<1>7. CASE isRouteFlood(p)
  <2> PICK b : b = PathReturn(n, p.body.from, p.path, p.body, made[n])
    OBVIOUS
  <2>1. b.from = n /\ b.to = p.body.from /\ b.path = p.path /\ b.ack = p.body
    BY DEF PathReturn
  <2>2. r = Flood("PATH", b)
    BY <1>7 DEF TextReply
  <2>3. r.type = "PATH" /\ r.body = b
    BY <2>2 DEF Flood, Packet
  <2>4. h[1] = "PATH" /\ h[2] = b
    BY <2>3, <1>6 DEF Copy
  <2>5. Spreads(g)
    BY <1>1, <1>3, <1>7 DEF Going, Follows, isRouteFlood
  <2>6. Simple(p.body.from, p.path, n)
    BY <1>1, <1>3, <2>5, FloodSimple
  <2>7. Simple(b.to, b.path, b.from)'
    BY <1>1, <2>1, <2>6, IdealStays
  <2>8. b.ack # NoAck => Arrived(b.ack)'
    BY <1>5, <2>3 DEF Known
  <2>9. Says(h)'
    BY <2>4, <2>7, <2>8 DEF Says
  <2> QED BY <1>2, <1>4, <1>6, <2>1, <2>4, <2>9 DEF From, For
<1>8. CASE ~isRouteFlood(p)
  <2> PICK b : b = Ack(p.body, made[n])
    OBVIOUS
  <2>1. b.ack = p.body
    BY DEF Ack
  <2>2. r \in AckTo(n, p.body)
    BY <1>8 DEF TextReply
  <2>3. r.type \in {"ACK", "MULTI"} /\ r.body = b
    BY <2>2, DirectAcksFinite DEF AckTo, Flood, Packet
  <2>4. h[1] = "ACK" /\ h[2] = b
    BY <2>3, <1>6 DEF Copy
  <2>5. Arrived(b.ack)'
    BY <1>5, <2>3 DEF Known
  <2>6. Says(h)'
    BY <2>4, <2>5 DEF Says
  <2> QED BY <1>2, <1>4, <1>6, <2>1, <2>4, <2>6 DEF From, For
<1> QED BY <1>7, <1>8

\* The answer to a text is an errand under way.
LEMMA TextNew ==
  ASSUME NEW n \in Nodes, NEW p, Looked(n, p), onRecvPacket(n, p), Ideal, ExchangesOK, RecvText(n, p),
         n \notin forgot', NEW h \in Errands, Unused(h), NEW r \in TextReply(n, p), Copy(r, h)
  PROVE  ErrandOK(h)'
<1>1. /\ TypeInv /\ net' = net /\ p \in PacketSet /\ Known(p) /\ IInv' /\ RoutesOK
      /\ \A m \in Nodes : inbox'[m] \subseteq inbox[m]
  BY LookedAt DEF Looked, IInv
<1>2. /\ Says(h)' /\ From(h) = n /\ For(h) = p.body.from /\ n # p.body.from /\ h[2] = r.body
      /\ p.body.from \in Nodes /\ p.body.to = n /\ h[1] \in {"TXT", "PATH", "ACK"}
  BY TextAnswerSays, ErrandIs
<1> PICK M, S : S = TextReply(n, p) /\ M = {calculatePacketHash(p)} \cup {HashAsSent(q) : q \in TextReply(n, p)}
  OBVIOUS
<1>3. Effect(n, M, S)
  BY TextLeaves
<1>4. S \in SUBSET PacketSet
  <2>1. S \subseteq queue'[n]
    BY <1>3 DEF Effect
  <2> QED BY <1>1, <2>1 DEF IInv, TypeInv
<1>5. ASSUME S = {Flood(h[1], h[2])} PROVE ErrandOK(h)'
  <2> PICK q \in S : q = Flood(h[1], h[2]) /\ S = {q}
    BY <1>5
  <2>1. q.type = h[1] /\ q.body = h[2]
    BY DEF Flood, Packet
  <2>2. HashAsSent(q) = h
    BY <1>4, <2>1, CopyHash
  <2>3. h \in M
    BY <2>2
  <2>4. \E path \in Paths : Connects(n, path, p.body.from)
    <3>1. [type |-> "TXT", body |-> p.body] \in net.traffic
      BY <1>1 DEF RecvText, Known, Sources
    <3> PICK t \in net.traffic : t.type = "TXT" /\ t.body = p.body
      BY <3>1
    <3> QED BY <1>2 DEF Ideal
  <2> QED BY <1>1, <1>2, <1>3, <1>4, <2>3, <2>4, FloodNew
<1>6. CASE isRouteFlood(p)
  <2>1. S = {r} /\ r.type = "PATH" /\ r = Flood("PATH", r.body)
    BY <1>6 DEF TextReply, Flood, Packet
  <2>2. h[1] = "PATH"
    BY <1>2, <2>1 DEF Copy
  <2> QED BY <1>2, <1>5, <2>1, <2>2
<1> PICK b, path : b = Ack(p.body, made[n]) /\ path = out_path[n][p.body.from]
  OBVIOUS
<1>7. CASE ~isRouteFlood(p) /\ path = Unknown
  <2>1. S = {r} /\ r.type = "ACK" /\ r = Flood("ACK", r.body)
    BY <1>7 DEF TextReply, AckTo, Flood, Packet
  <2>2. h[1] = "ACK"
    BY <1>2, <2>1 DEF Copy
  <2> QED BY <1>2, <1>5, <2>1, <2>2
<1>8. CASE ~isRouteFlood(p) /\ path # Unknown
  <2>1. S = DirectAcks(n, path, b)
    BY <1>8 DEF TextReply, AckTo
  <2>2. r.body = b /\ r.type \in {"ACK", "MULTI"}
    BY <2>1, DirectAcksFinite
  <2>3. h[1] = "ACK" /\ h[2] = b
    BY <1>2, <2>2 DEF Copy
  <2>4. Direct(h[1], path, h[2]) \in S
    BY <2>1, <2>3 DEF DirectAcks
  <2>5. \A q \in S : q.route = "direct" /\ q.path = path
    BY <2>1 DEF DirectAcks, Direct, Packet
  <2>6. path \in Paths /\ Connects(n, path, p.body.from)
    BY <1>1, <1>2, <1>8 DEF RoutesOK, TypeInv
  <2>7. Simple(n, path, p.body.from)
    BY <1>2, <1>8 DEF ExchangesOK, RouteOK
  <2>8. out_path'[n][p.body.from] # Unknown
    BY <1>2, <1>8, LookApps
  <2>9. Way(h, path)
    BY <1>2, <2>6, <2>7 DEF Way
  <2> QED BY <1>1, <1>2, <1>3, <1>4, <2>4, <2>5, <2>6, <2>8, <2>9, DirectNew
<1> QED BY <1>6, <1>7, <1>8

\* The path that answers a path.
LEMMA PathNew ==
  ASSUME NEW n \in Nodes, NEW p, Looked(n, p), onRecvPacket(n, p), Ideal, ExchangesOK, RecvPath(n, p),
         n \notin forgot', NEW h \in Errands, Unused(h), NEW r \in PathReply(n, p), Copy(r, h)
  PROVE  ErrandOK(h)'
<1>1. /\ TypeInv /\ net' = net /\ p \in PacketSet /\ p \in inbox[n] /\ Known(p) /\ IInv'
      /\ \A m \in Nodes : inbox'[m] \subseteq inbox[m]
  BY LookedAt DEF Looked, Looks
<1>2. p.type = "PATH" /\ p.body.to = n /\ First(n, p)
  BY DEF RecvPath
<1> PICK g : g = <<"PATH", p.body>>
  OBVIOUS
<1>3. /\ g \in Errands /\ Going(g) /\ Says(g) /\ Copy(p, g) /\ ~Marked(n, g) /\ For(g) = n
      /\ From(g) = p.body.from
  BY <1>2, ArrivingErrand
<1>4. p.body.from # n /\ p.body.from \in Nodes
  BY <1>3, ErrandIs DEF Going
<1> PICK M, S : S = PathReply(n, p) /\ M = {calculatePacketHash(p)} \cup {HashAsSent(q) : q \in PathReply(n, p)}
  OBVIOUS
<1>5. Effect(n, M, S)
  BY PathLeaves
<1>6. S \in SUBSET PacketSet /\ r \in queue'[n]
  <2>1. S \subseteq queue'[n]
    BY <1>5 DEF Effect
  <2> QED BY <1>1, <2>1 DEF IInv, TypeInv
<1> PICK b, path : b = PathReturn(n, p.body.from, p.path, NoAck, made[n]) /\ path = p.body.path
  OBVIOUS
<1>7. b.from = n /\ b.to = p.body.from /\ b.path = p.path /\ b.ack = NoAck
  BY DEF PathReturn
<1>8. isRouteFlood(p) /\ S = {Direct("PATH", path, b)}
  BY DEF PathReply
<1>9. r = Direct("PATH", path, b)
  BY <1>8
<1>10. r.type = "PATH" /\ r.body = b /\ r.route = "direct" /\ r.path = path
  BY <1>9 DEF Direct, Packet
<1>11. h[1] = "PATH" /\ h[2] = b
  BY <1>10, ErrandIs DEF Copy
<1>12. From(h) = n /\ For(h) = p.body.from
  BY <1>7, <1>11 DEF From, For
<1>13. Says(h)'
  <2>1. Spreads(g)
    BY <1>1, <1>3, <1>8 DEF Going, Follows, isRouteFlood
  <2>2. Simple(p.body.from, p.path, n)
    BY <1>1, <1>3, <2>1, FloodSimple
  <2>3. Simple(b.to, b.path, b.from)'
    BY <1>1, <1>7, <2>2, IdealStays
  <2> QED BY <1>7, <1>11, <2>3 DEF Says
<1>14. path \in Paths /\ Connects(n, path, p.body.from)
  BY <1>1, <1>2 DEF Known, Returns
<1>15. Simple(n, path, p.body.from)
  <2>1. g[1] = "PATH" /\ g[2] = p.body
    OBVIOUS
  <2> QED BY <1>2, <1>3, <2>1 DEF Says
<1>16. Way(h, path)
  BY <1>12, <1>14, <1>15 DEF Way
<1>17. out_path'[n][p.body.from] # Unknown
  BY <1>4, LookApps
<1>18. Direct(h[1], path, h[2]) \in S /\ \A q \in S : q.route = "direct" /\ q.path = path
  BY <1>8, <1>9, <1>10, <1>11
<1> QED BY <1>1, <1>4, <1>5, <1>6, <1>12, <1>13, <1>14, <1>16, <1>17, <1>18, DirectNew

\* Whoever looks at a packet, all exchanges go on.
LEMMA LookErrands ==
  ASSUME NEW n \in Nodes, NEW p, Looked(n, p), onRecvPacket(n, p), Ideal, ExchangesOK, forgot' = {},
         NEW h \in Errands
  PROVE  ErrandOK(h)'
<1>1. TypeInv /\ HashesOK /\ net' = net /\ p \in inbox[n] /\ Grows /\ Issued("TXT")' = Issued("TXT")
  BY LookedAt DEF Looked, Looks, Issued
<1>2. PICK M, S, R : Leaves(n, p, M, S, R)
  BY LookLeaves
<1>3. ErrandOK(h)
  BY DEF ExchangesOK
<1>4. \A m \in Nodes : \A t \in awaiting[m] : t.from = m /\ t \in Issued("TXT")
  BY DEF ExchangesOK
<1>5. ASSUME Going(h), Says(h), Marked(For(h), h) => Done(h) PROVE ErrandOK(h)'
  <2>1. \A q \in R : ~Copy(q, h)
    BY <1>1, <1>2, <1>5, AnswersUnsent, UnsentNotGoing
  <2>2. Going(h)'
    BY <1>2, <1>4, <1>5, <2>1, LookApps, LookGoing
  <2>3. Says(h)'
    BY <1>1, <1>5, SaysStays
  <2>4. ASSUME Marked(For(h), h), Done(h) PROVE Done(h)'
    <3>1. \A m \in Nodes : sent[m] \subseteq sent'[m]
      BY <1>2 DEF Leaves, Effect
    <3>2. \A m \in Nodes : \A t \in awaiting'[m] : t \in awaiting[m]
      BY LookApps
    <3>3. \A m \in Nodes : NoAck \notin awaiting'[m]
      BY <1>1, <3>2, TextEnds DEF TypeInv
    <3>4. h[1] \in {"PATH", "ACK"} => h[2].ack = NoAck \/ h[2].ack \in Issued("TXT")
      BY <1>5 DEF Says, Arrived
    <3>5. \A a, b \in Nodes : out_path[a][b] # Unknown => out_path'[a][b] # Unknown
      BY LookApps
    <3> QED BY <1>1, <2>4, <3>1, <3>2, <3>3, <3>4, <3>5, DoneStays
  <2>5. ASSUME Marked(For(h), h)', ~Marked(For(h), h) PROVE Done(h)'
    <3>1. n = For(h) /\ First(n, p) /\ p.type = h[1] /\ p.body = h[2]
      BY <1>2, <1>5, <2>5, ArrivesFirst
    <3> QED BY <1>5, <3>1, LookDone
  <2> QED BY <1>5, <2>2, <2>3, <2>4, <2>5 DEF ErrandOK
<1>6. ASSUME Unused(h) PROVE ErrandOK(h)'
  <2>1. CASE \A q \in R : ~Copy(q, h)
    <3>1. ~Copy(p, h)
      BY <1>1, <1>6 DEF Unused
    <3>2. Untouched(h)
      BY <1>2, <2>1, <3>1, LookUntouched
    <3> QED BY <1>1, <1>6, <3>2, UntouchedKeeps DEF ErrandOK
  <2>2. ASSUME NEW r \in R, Copy(r, h) PROVE ErrandOK(h)'
    <3>1. (RecvText(n, p) /\ r \in TextReply(n, p)) \/ (RecvPath(n, p) /\ r \in PathReply(n, p))
      BY <1>2, <2>2 DEF Leaves
    <3> QED BY <1>6, <2>2, <3>1, TextNew, PathNew
  <2> QED BY <2>1, <2>2
<1> QED BY <1>3, <1>5, <1>6 DEF ErrandOK

\* Whoever learns a path has told the other end, or was told by it.
LEMMA LookRoutes ==
  ASSUME NEW n \in Nodes, NEW p, Looked(n, p), onRecvPacket(n, p), Ideal, ExchangesOK,
         NEW a \in Nodes, NEW c \in Nodes
  PROVE  RouteOK(a, c)'
<1>1. TypeInv /\ net' = net /\ p \in PacketSet /\ p \in inbox[n] /\ made[n] \in Nat
  BY LookedAt DEF Looked, Looks, TypeInv
<1>2. \A m \in Nodes : sent[m] \subseteq sent'[m]
  BY LookLeaves DEF Leaves, Effect
<1>3. ASSUME NEW path, path = out_path'[a][c],
             path # Unknown => /\ Simple(a, path, c)
                               /\ \/ out_path'[c][a] # Unknown
                                  \/ \E b \in Returns : b.from = a /\ b.to = c /\ <<"PATH", b>> \in sent'[a]
      PROVE  RouteOK(a, c)'
  BY <1>1, <1>3 DEF RouteOK, Simple
<1>4. CASE out_path'[a][c] = out_path[a][c]
  <2> PICK path : path = out_path[a][c]
    OBVIOUS
  <2>1. path # Unknown =>
        /\ Simple(a, path, c)
        /\ \/ out_path[c][a] # Unknown
           \/ \E b \in Returns : b.from = a /\ b.to = c /\ <<"PATH", b>> \in sent[a]
    BY <1>4 DEF ExchangesOK, RouteOK
  <2>2. path # Unknown =>
        \/ out_path'[c][a] # Unknown
        \/ \E b \in Returns : b.from = a /\ b.to = c /\ <<"PATH", b>> \in sent'[a]
    BY <1>2, <2>1, LookApps
  <2> QED BY <1>3, <1>4, <2>1, <2>2
<1>5. CASE out_path'[a][c] # out_path[a][c]
  <2>1. RecvPath(n, p) /\ a = n /\ c = p.body.from /\ out_path'[a][c] = p.body.path
    BY <1>5, LookApps
  <2>2. p.type = "PATH" /\ p.body.to = n /\ First(n, p)
    BY <2>1 DEF RecvPath
  <2> PICK g : g = <<"PATH", p.body>>
    OBVIOUS
  <2>3. /\ g \in Errands /\ Going(g) /\ Says(g) /\ Copy(p, g) /\ ~Marked(n, g) /\ For(g) = n
        /\ From(g) = p.body.from
    BY <2>2, ArrivingErrand
  <2>4. Simple(a, p.body.path, c)
    <3>1. g[1] = "PATH" /\ g[2] = p.body
      OBVIOUS
    <3> QED BY <2>1, <2>2, <2>3, <3>1 DEF Says
  <2>5. CASE isRouteFlood(p)
    <3> PICK b : b = PathReturn(n, p.body.from, p.path, NoAck, made[n])
      OBVIOUS
    <3>1. p.path \in Paths
      BY <1>1 DEF PacketSet
    <3>2. b \in Returns /\ b.from = a /\ b.to = c
      BY <1>1, <2>1, <3>1 DEF PathReturn, Returns
    <3> PICK M, S : S = PathReply(n, p) /\ M = {calculatePacketHash(p)} \cup {HashAsSent(q) : q \in PathReply(n, p)}
      OBVIOUS
    <3>3. sent'[n] = sent[n] \cup {calculatePacketHash(q) : q \in S}
      BY <2>1, PathLeaves DEF Effect
    <3>4. Direct("PATH", p.body.path, b) \in S
      BY <2>5 DEF PathReply
    <3>5. calculatePacketHash(Direct("PATH", p.body.path, b)) = <<"PATH", b>>
      BY DEF calculatePacketHash, Direct, Packet
    <3>6. <<"PATH", b>> \in sent'[a]
      BY <2>1, <3>3, <3>4, <3>5
    <3> QED BY <1>3, <2>1, <2>4, <3>2, <3>6
  <2>6. CASE ~isRouteFlood(p)
    <3>1. out_path[c][a] # Unknown
      BY <1>1, <2>1, <2>3, <2>6 DEF Going, Spreads, Gathered
    <3>2. out_path'[c][a] # Unknown
      BY <3>1, LookApps
    <3> QED BY <1>3, <2>1, <2>4, <3>2
  <2> QED BY <2>5, <2>6
<1> QED BY <1>4, <1>5

\* Receiving a packet keeps all exchanges going.
LEMMA ReceiveExchanges ==
  ASSUME IInv, HInv, XInv, NEW n \in Nodes, NEW p \in inbox[n], Receive(n, p), IInv', HInv'
  PROVE  XInv'
<1>1. Looks(n, p) /\ onRecvPacket(n, p)
  BY DEF Receive, Looks
<1>2. Looked(n, p)
  BY <1>1, ReceiveKeeps DEF Looked
<1> SUFFICES ASSUME Ideal', forgot' = {} PROVE ExchangesOK'
  BY DEF XInv
<1>3. TypeInv /\ net' = net /\ Issued("TXT")' = Issued("TXT")
  BY <1>2, LookedAt DEF Issued
<1>4. PICK M, S, R : Leaves(n, p, M, S, R)
  BY <1>1, <1>2, LookLeaves
<1>5. forgot \subseteq forgot' /\ \A m \in Nodes : sent[m] \subseteq sent'[m]
  BY <1>4 DEF Leaves, Effect
<1>6. Ideal /\ ExchangesOK
  BY <1>3, <1>5, IdealStays DEF XInv
<1>7. \A h \in Errands : ErrandOK(h)'
  BY <1>1, <1>2, <1>6, LookErrands
<1>8. \A a, c \in Nodes : RouteOK(a, c)'
  BY <1>1, <1>2, <1>6, LookRoutes
<1>9. \A t \in Issued("TXT") : <<"TXT", t>> \in sent'[t.from]
  BY <1>3, <1>5, <1>6, TextEnds DEF ExchangesOK, TypeInv
<1>10. \A m \in Nodes : \A t \in awaiting'[m] : t.from = m /\ t \in Issued("TXT")
  BY <1>1, <1>2, <1>6, LookApps DEF ExchangesOK
<1> QED BY <1>3, <1>7, <1>8, <1>9, <1>10 DEF ExchangesOK

\* A step that does not touch an errand, nor undoes what it led to.
LEMMA ErrandUntouched ==
  ASSUME TypeInv, Grows, NEW h \in Errands, ErrandOK(h), Untouched(h),
         \A m \in Nodes : sent[m] \subseteq sent'[m],
         \A m \in Nodes : \A t \in awaiting'[m] : t \in awaiting[m] \/ t \notin Issued("TXT"),
         \A m \in Nodes : NoAck \notin awaiting'[m],
         \A a, b \in Nodes : out_path[a][b] # Unknown => out_path'[a][b] # Unknown
  PROVE  ErrandOK(h)'
<1>1. net' = net /\ From(h) \in Nodes /\ For(h) \in Nodes
  BY ErrandIs DEF Grows
<1>2. CASE Unused(h)
  BY <1>1, <1>2, UntouchedKeeps DEF ErrandOK
<1>3. CASE Going(h) /\ Says(h) /\ (Marked(For(h), h) => Done(h))
  <2>1. Going(h)'
    BY <1>1, <1>3, UntouchedKeeps, GoingKeeps
  <2>2. Says(h)'
    BY <1>3, SaysStays
  <2>3. Marked(For(h), h)' => Marked(For(h), h)
    BY <1>1 DEF Untouched
  <2>4. h[1] \in {"PATH", "ACK"} => h[2].ack = NoAck \/ h[2].ack \in Issued("TXT")
    BY <1>3 DEF Says, Arrived
  <2>5. Done(h) => Done(h)'
    BY <2>4, DoneStays
  <2> QED BY <1>3, <2>1, <2>2, <2>3, <2>5 DEF ErrandOK
<1> QED BY <1>2, <1>3 DEF ErrandOK

\* A step that learns no path keeps what is known of those that were.
LEMMA RouteKept ==
  ASSUME net' = net, out_path' = out_path, \A m \in Nodes : sent[m] \subseteq sent'[m],
         NEW a \in Nodes, NEW c \in Nodes, RouteOK(a, c)
  PROVE  RouteOK(a, c)'
BY DEF RouteOK, Simple

\* So does a step that changes nothing,
LEMMA StuttersExchanges ==
  ASSUME IInv, XInv, UNCHANGED vars
  PROVE  XInv'
<1> SUFFICES ASSUME Ideal', forgot' = {} PROVE ExchangesOK'
  BY DEF XInv
<1>1. /\ net' = net /\ todo' = todo /\ queue' = queue /\ inbox' = inbox /\ seen' = seen /\ made' = made
      /\ out_path' = out_path /\ awaiting' = awaiting /\ sent' = sent /\ forgot' = forgot /\ handed' = handed
      /\ TypeInv
  BY DEF vars, appVars, history, IInv
<1>2. Ideal /\ ExchangesOK
  BY <1>1, IdealStays DEF XInv
<1>3. Grows
  BY <1>1, CountKept DEF Grows
<1>4. ASSUME NEW h \in Errands PROVE ErrandOK(h)'
  <2>1. Untouched(h)
    BY <1>1 DEF Untouched, Marked
  <2>2. \A m \in Nodes : NoAck \notin awaiting'[m]
    BY <1>1, TextEnds DEF TypeInv
  <2>3. ErrandOK(h)
    BY <1>2 DEF ExchangesOK
  <2> QED BY <1>1, <1>3, <2>1, <2>2, <2>3, ErrandUntouched
<1>5. \A a, c \in Nodes : RouteOK(a, c)'
  BY <1>1, <1>2, RouteKept DEF ExchangesOK
<1>6. Issued("TXT")' = Issued("TXT")
  BY <1>1 DEF Issued
<1> QED BY <1>1, <1>2, <1>4, <1>5, <1>6 DEF ExchangesOK

\* and at first there are none.
LEMMA StartsExchanges == Init => XInv
<1> SUFFICES ASSUME Init PROVE ExchangesOK
  BY DEF XInv
<1>1. /\ \A n \in Nodes : /\ queue[n] = {} /\ inbox[n] = {} /\ seen[n] = <<>>
                          /\ sent[n] = {} /\ awaiting[n] = {}
      /\ \A n, m \in Nodes : out_path[n][m] = Unknown
      /\ Issued("TXT") = {}
  BY DEF Init, Issued
<1>2. \A n \in Nodes : ToSet(seen[n]) = {}
  BY <1>1 DEF ToSet
<1>3. \A h \in Errands : Unused(h)
  BY <1>1, <1>2 DEF Unused, Marked
<1> QED BY <1>1, <1>3 DEF ExchangesOK, ErrandOK, RouteOK

\* Transmitting a packet keeps all exchanges going.
LEMMA TransmitExchanges ==
  ASSUME IInv, HInv, XInv, NEW n \in Nodes, NEW p \in queue[n], Transmit(n, p)
  PROVE  XInv'
<1> SUFFICES ASSUME Ideal', forgot' = {} PROVE ExchangesOK'
  BY DEF XInv
<1>0. TypeInv /\ net' = net
  BY DEF IInv, Transmit
<1>1. Ideal /\ ~net.lossy /\ Unshared
  BY <1>0, IdealStays DEF Ideal
<1>2. /\ todo' = todo /\ out_path' = out_path /\ awaiting' = awaiting /\ made' = made
      /\ sent' = sent /\ seen' = seen /\ handed' = handed /\ forgot' = forgot
      /\ \A m \in Nodes : queue'[m] \subseteq queue[m]
      /\ \A m \in Nodes : \A q \in inbox'[m] : q \in inbox[m] \/ q = p
  BY <1>0, <1>1, TransmitLeaves
<1>3. ExchangesOK
  BY <1>1, <1>2 DEF XInv
<1>4. Grows
  BY <1>0, <1>2, CountKept DEF Grows
<1>5. ASSUME NEW h \in Errands PROVE ErrandOK(h)'
  <2>1. \A m \in Nodes : Marked(m, h)' <=> Marked(m, h)
    BY <1>2 DEF Marked
  <2>2. CASE Unused(h)
    <3>1. Unused(h)'
      BY <1>2, <2>1, <2>2 DEF Unused
    <3> QED BY <3>1 DEF ErrandOK
  <2>3. CASE Going(h) /\ Says(h) /\ (Marked(For(h), h) => Done(h))
    <3>1. Spreads(h) => Spreads(h)'
      BY <1>0, <1>1, TransmitSpreads
    <3>2. \A path \in Paths : Way(h, path) /\ Follows(h, path) => Follows(h, path)'
      BY <1>0, <1>1, TransmitFollows
    <3>3. Going(h)'
      BY <1>0, <1>2, <2>3, <3>1, <3>2, GoingKeeps
    <3>4. Says(h)'
      BY <1>0, <1>4, <2>3, SaysStays
    <3>5. Done(h)' <=> Done(h)
      BY <1>2 DEF Done, Answered
    <3> QED BY <2>1, <2>3, <3>3, <3>4, <3>5, ErrandIs DEF ErrandOK
  <2> QED BY <1>3, <2>2, <2>3 DEF ExchangesOK, ErrandOK
<1>6. \A a, c \in Nodes : RouteOK(a, c)'
  BY <1>0, <1>2, <1>3, RouteKept DEF ExchangesOK
<1>7. Issued("TXT")' = Issued("TXT")
  BY <1>0, <1>2 DEF Issued
<1> QED BY <1>2, <1>3, <1>5, <1>6, <1>7 DEF ExchangesOK

\* What an application sends changes no path, and a text is awaited.
LEMMA OriginateApps ==
  ASSUME TypeInv, NEW t \in todo, Originate(t)
  PROVE  /\ out_path' = out_path /\ made' = made
         /\ \A m \in Nodes : awaiting'[m] =
              IF t.type = "TXT" /\ m = t.body.from THEN awaiting[m] \cup {t.body} ELSE awaiting[m]
<1>1. CASE t.type = "TXT"
  <2>1. SendText(t.body)
    BY <1>1 DEF Originate
  <2>2. /\ out_path' = out_path /\ made' = made
        /\ awaiting' = [awaiting EXCEPT ![t.body.from] = @ \cup {t.body}]
    BY <2>1 DEF SendText
  <2> QED BY <1>1, <2>2 DEF TypeInv
<1>2. CASE t.type # "TXT"
  BY <1>2 DEF Originate, appVars
<1> QED BY <1>1, <1>2

\* A text that is sent is an errand of its own.
LEMMA TextStarts ==
  ASSUME IInv, IInv', HInv, Ideal, ExchangesOK, NEW t \in todo, Originate(t), t.type = "TXT",
         t.body.from \notin forgot', NEW h, h = <<"TXT", t.body>>
  PROVE  h \in Errands /\ ErrandOK(h)' /\ h \in sent'[t.body.from]
<1>1. /\ TypeInv /\ RoutesOK /\ HashesOK /\ net' = net /\ inbox' = inbox /\ t \in net.traffic
      /\ t = [type |-> "TXT", body |-> t.body] /\ t.body.from \in Nodes /\ t.body \in Texts
  <2>1. t \in net.traffic /\ net \in Networks
    BY DEF IInv, TypeInv
  <2>2. t.body \in Texts
    BY <2>1 DEF Texts, Offered
  <2> QED BY <2>1, <2>2, OriginateLeaves DEF IInv, HInv
<1> PICK n \in Nodes, to \in Nodes : n = t.body.from /\ to = t.body.to
  BY <1>1, TextEnds
<1>2. h \in Errands /\ h[1] = "TXT" /\ h[2] = t.body /\ From(h) = n /\ For(h) = to
  BY <1>1 DEF Errands, From, For
<1>3. PICK q \in PacketSet : /\ q.type = "TXT" /\ q.body = t.body
                             /\ Effect(n, {calculatePacketHash(q)}, {q})
                             /\ q = IF out_path[n][to] = Unknown THEN Flood("TXT", t.body)
                                    ELSE Direct("TXT", out_path[n][to], t.body)
  BY OriginateLeaves
<1>4. calculatePacketHash(q) = h
  BY <1>2, <1>3, CopyHash
<1> PICK M, S : M = {calculatePacketHash(q)} /\ S = {q}
  OBVIOUS
<1>5. S \in SUBSET PacketSet /\ Effect(n, M, S) /\ h \in M
  BY <1>3, <1>4
<1>6. h \in sent'[n]
  <2>1. sent'[n] = sent[n] \cup {calculatePacketHash(r) : r \in S}
    BY <1>5 DEF Effect
  <2> QED BY <1>4, <2>1
<1>7. Unused(h)
  <2> SUFFICES ASSUME Going(h) PROVE FALSE
    BY <1>2 DEF ExchangesOK, ErrandOK
  <2>1. Used(h)
    BY <1>1, <1>2 DEF Going, HashesOK
  <2> QED BY <1>1, <1>2, <2>1 DEF Used, Sources
<1>8. /\ n # to /\ \E path \in Paths : Connects(n, path, to)
  BY <1>1 DEF Ideal
<1>9. Says(h)'
  BY <1>2 DEF Says
<1>10. \A m \in Nodes : inbox'[m] \subseteq inbox[m]
  BY <1>1
<1>11. CASE out_path[n][to] = Unknown
  <2>1. S = {Flood(h[1], h[2])}
    BY <1>2, <1>3, <1>11
  <2>2. Flood(h[1], h[2]) \in S /\ \A r \in S : Copy(r, h) => r = Flood(h[1], h[2])
    BY <2>1
  <2>3. ErrandOK(h)'
    BY <1>1, <1>2, <1>5, <1>7, <1>8, <1>9, <1>10, <2>2, FloodNew
  <2> QED BY <1>2, <1>6, <2>3
<1>12. CASE out_path[n][to] # Unknown
  <2> PICK path : path = out_path[n][to]
    OBVIOUS
  <2>1. q = Direct(h[1], path, h[2])
    BY <1>2, <1>3, <1>12
  <2>2. Direct(h[1], path, h[2]) \in S /\ \A r \in S : r.route = "direct" /\ r.path = path
    BY <2>1 DEF Direct, Packet
  <2>3. path \in Paths /\ Connects(n, path, to)
    BY <1>1, <1>12 DEF RoutesOK, TypeInv
  <2>4. Simple(n, path, to)
    BY <1>12 DEF ExchangesOK, RouteOK
  <2>5. Way(h, path)
    BY <1>2, <2>3, <2>4 DEF Way
  <2>6. out_path'[n][to] # Unknown
    BY <1>1, <1>12, OriginateApps
  <2>7. ErrandOK(h)'
    BY <1>1, <1>2, <1>5, <1>7, <1>8, <1>9, <1>10, <2>2, <2>3, <2>5, <2>6, DirectNew
  <2> QED BY <1>2, <1>6, <2>7
<1> QED BY <1>11, <1>12

\* Sending what an application wants sent starts an exchange, and keeps all others going.
LEMMA OriginateExchanges ==
  ASSUME IInv, IInv', HInv, XInv, NEW t \in todo, Originate(t)
  PROVE  XInv'
<1> SUFFICES ASSUME Ideal', forgot' = {} PROVE ExchangesOK'
  BY DEF XInv
<1>1. /\ TypeInv /\ net' = net /\ todo' = todo \ {t} /\ inbox' = inbox /\ t \in net.traffic
      /\ t = [type |-> t.type, body |-> t.body] /\ t.body.from \in Nodes /\ t.type \in Sources
      /\ \A u \in net.traffic : u = [type |-> u.type, body |-> u.body]
  <2>1. TypeInv /\ t \in net.traffic
    BY DEF IInv, TypeInv
  <2>2. \A u \in net.traffic : u = [type |-> u.type, body |-> u.body]
    BY <2>1, ThisNetwork DEF TypeInv, Message
  <2> QED BY <2>1, <2>2, OriginateLeaves
<1> PICK n \in Nodes : n = t.body.from
  BY <1>1
<1>2. PICK q \in PacketSet : /\ q.type = t.type /\ q.body = t.body
                             /\ Effect(n, {calculatePacketHash(q)}, {q})
  BY OriginateLeaves
<1> PICK M, S : M = {calculatePacketHash(q)} /\ S = {q}
  OBVIOUS
<1>3. S \in SUBSET PacketSet /\ Effect(n, M, S)
  BY <1>2
<1>4. /\ \A m \in Nodes : sent[m] \subseteq sent'[m] /\ handed[m] \subseteq handed'[m]
      /\ forgot \subseteq forgot'
  BY <1>3 DEF Effect
<1>5. Ideal /\ ExchangesOK
  BY <1>1, <1>4, IdealStays DEF XInv
<1>6. /\ out_path' = out_path /\ made' = made
      /\ \A m \in Nodes : awaiting'[m] =
           IF t.type = "TXT" /\ m = n THEN awaiting[m] \cup {t.body} ELSE awaiting[m]
  BY <1>1, OriginateApps
<1>7. Grows
  <2>1. net.chats \subseteq Nodes
    BY <1>1, ThisNetwork DEF TypeInv
  <2> QED BY <1>1, <1>4, <1>6, <2>1, CountKept DEF Grows
<1>8. t.type = "TXT" => t.body \notin Issued("TXT") /\ t.body \in Texts /\ t.body # NoAck
  <2> SUFFICES ASSUME t.type = "TXT" PROVE t.body \notin Issued("TXT") /\ t.body \in Texts /\ t.body # NoAck
    OBVIOUS
  <2>1. t.body \in Texts
    BY <1>1 DEF Texts, Offered, TypeInv
  <2>2. t.body \notin Issued("TXT")
    BY <1>1 DEF Issued
  <2> QED BY <2>1, <2>2, TextEnds
<1>9. \A m \in Nodes : NoAck \notin awaiting'[m]
  <2>1. \A m \in Nodes : NoAck \notin awaiting[m]
    BY <1>1, TextEnds DEF TypeInv
  <2> QED BY <1>6, <1>8, <2>1
<1>10. \A m \in Nodes : \A u \in awaiting'[m] : u \in awaiting[m] \/ u \notin Issued("TXT")
  BY <1>6, <1>8
<1>11. ASSUME NEW h \in Errands PROVE ErrandOK(h)'
  <2>1. CASE ~Copy(q, h)
    <3>1. calculatePacketHash(q) # h
      BY <2>1, CopyHash
    <3>2. \A r \in S : ~Copy(r, h) /\ ~(r.type = h[1] /\ r.body = h[2])
      BY <2>1 DEF Copy
    <3>3. h \notin M
      BY <3>1
    <3>4. /\ \A m \in Nodes : \A r : r \in queue'[m] <=> r \in queue[m] \/ (m = n /\ r \in S)
          /\ \A m \in Nodes : h \in sent'[m] <=>
               h \in sent[m] \/ (m = n /\ \E r \in S : r.type = h[1] /\ r.body = h[2])
          /\ \A m \in Nodes : Marked(m, h)' <=> Marked(m, h) \/ (m = n /\ h \in M)
      BY <1>1, <1>3, EffectOn
    <3>5. Untouched(h)
      BY <1>1, <3>2, <3>3, <3>4 DEF Untouched
    <3>6. ErrandOK(h)
      BY <1>5 DEF ExchangesOK
    <3> QED BY <1>1, <1>4, <1>6, <1>7, <1>9, <1>10, <3>5, <3>6, ErrandUntouched
  <2>2. CASE Copy(q, h)
    <3>1. t.type = "TXT" /\ h = <<"TXT", t.body>>
      BY <1>1, <1>2, <2>2, ErrandIs DEF Copy, Sources
    <3> QED BY <1>5, <3>1, TextStarts
  <2> QED BY <2>1, <2>2
<1>12. \A a, c \in Nodes : RouteOK(a, c)'
  BY <1>1, <1>4, <1>5, <1>6, RouteKept DEF ExchangesOK
<1>13. \A u \in Issued("TXT")' : u \in Issued("TXT") \/ (t.type = "TXT" /\ u = t.body)
  BY <1>1 DEF Issued
<1>14. \A u \in Issued("TXT")' : <<"TXT", u>> \in sent'[u.from]
  <2> SUFFICES ASSUME NEW u, u \in Issued("TXT")' PROVE <<"TXT", u>> \in sent'[u.from]
    OBVIOUS
  <2>1. CASE u \in Issued("TXT")
    BY <1>1, <1>4, <1>5, <2>1, TextEnds DEF ExchangesOK, TypeInv
  <2>2. CASE t.type = "TXT" /\ u = t.body
    BY <1>5, <2>2, TextStarts
  <2> QED BY <1>13, <2>1, <2>2
<1>15. Issued("TXT") \subseteq Issued("TXT")' /\ (t.type = "TXT" => t.body \in Issued("TXT")')
  BY <1>1 DEF Issued
<1>16. \A m \in Nodes : \A u \in awaiting'[m] : u.from = m /\ u \in Issued("TXT")'
  <2>1. \A m \in Nodes : \A u \in awaiting[m] : u.from = m /\ u \in Issued("TXT")'
    BY <1>5, <1>15 DEF ExchangesOK
  <2> PICK issued : issued = Issued("TXT")'
    OBVIOUS
  <2>2. ASSUME NEW m \in Nodes, NEW u \in awaiting'[m] PROVE u.from = m /\ u \in issued
    <3>1. CASE t.type = "TXT" /\ m = n
      <4>1. awaiting'[m] = awaiting[m] \cup {t.body}
        BY <1>6, <3>1
      <4> QED BY <1>15, <2>1, <3>1, <4>1
    <3>2. CASE ~(t.type = "TXT" /\ m = n)
      <4>1. awaiting'[m] = awaiting[m]
        BY <1>6, <3>2
      <4> QED BY <1>15, <2>1, <4>1
    <3> QED BY <3>1, <3>2
  <2> QED BY <2>2
<1> QED BY <1>11, <1>12, <1>14, <1>16 DEF ExchangesOK

\* A set of numbers has a least one.
LEMMA LeastNumber ==
  ASSUME NEW S, S \subseteq Nat, S # {}
  PROVE  \E m \in S : \A n \in S : m <= n
<1>1. PICK R : /\ IsWellFoundedOn(R, Nat)
               /\ \A a, b \in Nat : a < b => <<a, b>> \in R
  <2> DEFINE R == {ss \in Nat \X Nat : ss[1] < ss[2]}
  <2>1. IsWellFoundedOn(R, Nat)
    BY NatLessThanWellFounded DEF OpToRel
  <2>2. \A a, b \in Nat : a < b => <<a, b>> \in R
    OBVIOUS
  <2> QED BY <2>1, <2>2
<1>2. \E m \in S : \A n \in S : ~(<<n, m>> \in R)
  <2>1. IsWellFoundedOn(R, Nat)
    BY <1>1
  <2> QED BY <2>1, WFMin, Zenon
<1>3. PICK m \in S : \A n \in S : ~(<<n, m>> \in R)
  BY <1>2
<1>4. ASSUME NEW n \in S PROVE m <= n
  <2>1. m \in Nat /\ n \in Nat
    OBVIOUS
  <2>2. ~(n < m)
    BY <1>1, <1>3, <2>1
  <2> QED BY <2>1, <2>2
<1> QED BY <1>4

\* What holds at 0, and one further wherever it holds, holds at the end.
LEMMA StepByStep ==
  ASSUME NEW S, NEW len \in Nat, 0 \in S, \A k \in 0..len : k \in S /\ k # len => k + 1 \in S
  PROVE  len \in S
<1> SUFFICES ASSUME len \notin S PROVE FALSE
  OBVIOUS
<1> PICK Missing : Missing = {k \in 0..len : k \notin S}
  OBVIOUS
<1>1. PICK m \in Missing : \A k \in Missing : m <= k
  BY LeastNumber
<1>2. m \in 1..len /\ m - 1 \in 0..len /\ m - 1 # len /\ m \notin S
  OBVIOUS
<1>3. m - 1 \notin Missing
  BY <1>1, <1>2
<1> QED BY <1>2, <1>3

\* Once all is quiet, an errand under way has arrived.
LEMMA QuietArrives ==
  ASSUME TypeInv, Quiet, NEW h \in Errands, Going(h)
  PROVE  Marked(For(h), h)
<1>1. \A n \in Nodes : queue[n] = {} /\ inbox[n] = {}
  BY DEF Quiet, Packets
<1>2. /\ From(h) \in Nodes /\ For(h) \in Nodes /\ h \in sent[From(h)] /\ net.forwarders \subseteq Nodes
      /\ \A n : Neighbours(n) \subseteq Nodes
  BY ErrandIs, ThisNetwork DEF Going, TypeInv, Neighbours
<1> SUFFICES ASSUME ~Marked(For(h), h) PROVE FALSE
  OBVIOUS
<1>3. ASSUME Spreads(h), NEW path \in Paths, Connects(From(h), path, For(h)) PROVE FALSE
  <2>1. ASSUME NEW n \in Nodes, h \in sent[n]
        PROVE  For(h) \notin Neighbours(n) /\ \A m \in net.forwarders \cap Neighbours(n) : h \in sent[m]
    <3>1. Heeded(n, h)
      BY <1>3, <2>1 DEF Spreads
    <3>2. \A m \in Neighbours(n) : Marked(m, h)
      BY <1>1, <1>2, <2>1, <3>1 DEF Heeded
    <3> QED BY <1>3, <3>2 DEF Spreads
  <2>2. PICK last \in Nodes : Leads(From(h), path, last) /\ For(h) \in Neighbours(last)
    BY <1>3 DEF Connects
  <2>3. CASE path = <<>>
    BY <1>2, <2>1, <2>2, <2>3 DEF Leads
  <2>4. CASE path # <<>>
    <3> PICK len \in Nat : len = Len(path) /\ DOMAIN path = 1..len
      BY DEF Paths
    <3>1. len # 0
      BY <2>4 DEF Paths
    <3>2. PICK via \in [1..len -> net.forwarders] :
               /\ via[1] \in Neighbours(From(h)) /\ via[len] = last
               /\ \A i \in 1..(len - 1) : via[i + 1] \in Neighbours(via[i])
      BY <2>2, <2>4 DEF Leads
    <3> PICK S : S = {k \in 0..len : k = 0 \/ h \in sent[via[k]]}
      OBVIOUS
    <3>3. ASSUME NEW k \in 0..len, k \in S, k # len PROVE k + 1 \in S
      <4>1. k + 1 \in 1..len /\ k + 1 \in 0..len /\ (k # 0 => k \in 1..(len - 1) /\ k \in 1..len)
        BY <3>3
      <4>2. via[k + 1] \in net.forwarders
        BY <3>2, <4>1
      <4>3. CASE k = 0
        BY <1>2, <2>1, <3>2, <4>1, <4>2, <4>3
      <4>4. CASE k # 0
        <5>1. h \in sent[via[k]] /\ via[k] \in Nodes /\ via[k + 1] \in Neighbours(via[k])
          BY <1>2, <3>2, <3>3, <4>1, <4>4
        <5> QED BY <2>1, <4>1, <4>2, <5>1
      <4> QED BY <4>3, <4>4
    <3>4. 0 \in S
      OBVIOUS
    <3>5. len \in S
      BY <3>3, <3>4, StepByStep
    <3>6. h \in sent[last]
      BY <3>1, <3>2, <3>5
    <3> QED BY <2>1, <2>2, <3>6
  <2> QED BY <2>3, <2>4
<1>4. ASSUME NEW path \in Paths, Follows(h, path) PROVE FALSE
  <2> PICK len \in Nat : len = Len(path)
    BY DEF Paths
  <2>1. ASSUME NEW k \in 0..len, NEW n \in Nodes, At(h, path, k, n), h \in sent[n] PROVE Passed(h, path, k)
    BY <1>1, <1>4, <2>1 DEF Follows
  <2>2. ~Ended(h, path)
    <3> SUFFICES ASSUME NEW n \in Nodes, At(h, path, len, n), h \in sent[n] PROVE FALSE
      BY DEF Ended
    <3>1. Passed(h, path, len)
      BY <2>1
    <3> QED BY <1>1, <1>2, <3>1 DEF Passed
  <2> PICK S : S = {k \in 0..len : \E n \in Nodes : At(h, path, k, n) /\ h \in sent[n]}
    OBVIOUS
  <2>3. 0 \in S
    BY <1>2 DEF At
  <2>4. ASSUME NEW k \in 0..len, k \in S, k # len PROVE k + 1 \in S
    <3>1. Passed(h, path, k)
      BY <2>1, <2>4
    <3>2. \E m \in Nodes : At(h, path, k + 1, m) /\ h \in sent[m]
      BY <1>1, <2>2, <2>4, <3>1 DEF Passed
    <3>3. k + 1 \in 0..len
      BY <2>4
    <3> QED BY <3>2, <3>3
  <2>5. len \in S
    BY <2>3, <2>4, StepByStep
  <2> QED BY <2>2, <2>5 DEF Ended
<1> QED BY <1>3, <1>4 DEF Going

\* and has led to what it is for.
LEMMA QuietDone ==
  ASSUME TypeInv, Quiet, ExchangesOK, NEW h \in Errands, NEW n \in Nodes, h \in sent[n]
  PROVE  Done(h)
<1>1. Going(h) /\ (Marked(For(h), h) => Done(h))
  BY DEF ExchangesOK, ErrandOK, Unused
<1> QED BY <1>1, QuietArrives

-----------------------------------------------------------------------------
(* Theorems *)

\* What is known of packets, paths and texts, wherever packets are and however many
\* there are, is kept by every step.
THEOREM Invariance == Spec => []IInv
<1>1. IInv /\ [Next]_vars => IInv'
  <2> SUFFICES ASSUME IInv, [Next]_vars PROVE IInv'
    OBVIOUS
  <2>1. ASSUME NEW t \in todo, Originate(t) PROVE IInv'
    BY <2>1, OriginateKeeps
  <2>2. ASSUME NEW n \in Nodes, NEW p \in queue[n], Transmit(n, p) PROVE IInv'
    BY <2>2, TransmitKeeps
  <2>3. ASSUME NEW n \in Nodes, NEW p \in inbox[n], Receive(n, p) PROVE IInv'
    BY <2>3, ReceiveKeeps
  <2>4. ASSUME NEW n \in Nodes, Restart(n) PROVE IInv'
    BY <2>4, RestartKeeps
  <2>5. CASE UNCHANGED vars
    BY <2>5, Stutters
  <2> QED BY <2>1, <2>2, <2>3, <2>4, <2>5 DEF Next, NodeStep
<1> QED BY <1>1, Starts, PTL DEF Spec

\* So is what the rings of hashes hold of the packets that nodes have acted on, and
\* where a trace can be next.
THEOREM InvarianceOnce == Spec => [](IInv /\ HInv)
<1>1. IInv /\ HInv /\ [Next]_vars => (IInv /\ HInv)'
  <2> SUFFICES ASSUME IInv, HInv, [Next]_vars PROVE IInv' /\ HInv'
    OBVIOUS
  <2>1. ASSUME NEW t \in todo, Originate(t) PROVE IInv' /\ HInv'
    BY <2>1, OriginateKeeps, OriginateOnce
  <2>2. ASSUME NEW n \in Nodes, NEW p \in queue[n], Transmit(n, p) PROVE IInv' /\ HInv'
    BY <2>2, TransmitKeeps, TransmitOnce
  <2>3. ASSUME NEW n \in Nodes, NEW p \in inbox[n], Receive(n, p) PROVE IInv' /\ HInv'
    BY <2>3, ReceiveKeeps, ReceiveOnce
  <2>4. ASSUME NEW n \in Nodes, Restart(n) PROVE IInv' /\ HInv'
    BY <2>4, RestartKeeps, RestartOnce
  <2>5. CASE UNCHANGED vars
    BY <2>5, Stutters, StuttersOnce
  <2> QED BY <2>1, <2>2, <2>3, <2>4, <2>5 DEF Next, NodeStep
<1>2. Init => IInv /\ HInv
  BY Starts, StartsOnce
<1> QED BY <1>1, <1>2, PTL DEF Spec

\* Packets are well formed and no longer than they may be, and the ring never
\* holds more than its size.
THEOREM TypeCorrect == Spec => []TypeOK
<1>1. IInv => TypeOK
  <2> SUFFICES ASSUME IInv PROVE TypeOK
    OBVIOUS
  <2>1. TypeInv /\ PacketsOK
    BY DEF IInv
  <2>2. ASSUME NEW p \in Packets
        PROVE  /\ DOMAIN p = {"type", "route", "path", "body"}
               /\ p.route \in {"flood", "direct"} /\ Len(p.path) <= net.path_max
    <3>1. PICK n \in Nodes : p \in queue[n] \/ p \in inbox[n]
      BY <2>2 DEF Packets
    <3>2. p \in PacketSet /\ Known(p)
      BY <2>1, <3>1 DEF TypeInv, PacketsOK
    <3> QED BY <3>2 DEF PacketSet, Known
  <2> QED BY <2>1, <2>2 DEF TypeOK, TypeInv, HashesTyped
<1> QED BY <1>1, Invariance, PTL

\* An ack ends the wait for a text only after the text was handed over: whatever
\* is lost, repeated, overheard or reordered, and whoever restarts on the way.
THEOREM AckedIsHanded == Spec => []AckMeansHanded
<1>1. IInv => AckMeansHanded
  BY DEF IInv, TextsOK, Arrived, AckMeansHanded
<1> QED BY <1>1, Invariance, PTL

\* The paths that nodes learn lead to the contact: each forwarder named is in
\* reach of the one before, and the contact in reach of the last.
THEOREM PathsLead == Spec => []LearnedPathsConnect
<1>1. IInv => LearnedPathsConnect
  <2> SUFFICES ASSUME IInv, NEW n \in net.chats, NEW m \in net.chats \ {n},
                      out_path[n][m] # Unknown
               PROVE  Connects(n, out_path[n][m], m)
    BY DEF LearnedPathsConnect
  <2>1. n \in Nodes /\ m \in Nodes
    BY ThisNetwork DEF IInv, TypeInv
  <2> QED BY <2>1 DEF IInv, RoutesOK
<1> QED BY <1>1, Invariance, PTL

\* Wherever a direct packet is, the rest of its path leads to the one it is for,
\* if no two forwarders within reach of the same node have the same hash.  Where
\* they have, the wrong one may take the packet.
THEOREM RoutesLead == Spec => [](HashesDiffer => DirectRoutesConnect)
<1>1. IInv => (HashesDiffer => DirectRoutesConnect)
  BY DEF IInv, PacketsOK, Queued, Directed, DirectRoutesConnect
<1> QED BY <1>1, Invariance, PTL

\* No node whose ring has had room for every hash transmits or hands over a packet
\* twice, but for what it had acted on before a restart, acks among multi-acks and
\* the end of a trace where forwarders share a hash.
THEOREM OnlyOnce == Spec => []ActsOnce
<1>1. IInv /\ HInv => ActsOnce
  BY DEF HInv
<1> QED BY <1>1, InvarianceOnce, PTL

\* A trace that comes back is always somewhere on its way, ahead of the marks that
\* it left.
THEOREM InvarianceTraces == Spec => [](IInv /\ HInv /\ TInv)
<1>1. IInv /\ HInv /\ TInv /\ (IInv /\ HInv)' /\ [Next]_vars => TInv'
  <2> SUFFICES ASSUME IInv, HInv, TInv, IInv', HInv', [Next]_vars PROVE TInv'
    OBVIOUS
  <2>1. ASSUME NEW t \in todo, Originate(t) PROVE TInv'
    BY <2>1, OriginateTraces
  <2>2. ASSUME NEW n \in Nodes, NEW p \in queue[n], Transmit(n, p) PROVE TInv'
    BY <2>2, TransmitTraces
  <2>3. ASSUME NEW n \in Nodes, NEW p \in inbox[n], Receive(n, p) PROVE TInv'
    BY <2>3, ReceiveTraces
  <2>4. ASSUME NEW n \in Nodes, Restart(n) PROVE TInv'
    <3>1. net' = net /\ restarts < net.restarts /\ restarts \in 0..net.restarts
      BY <2>4 DEF Restart, IInv, TypeInv
    <3>2. ~Guided
      BY <3>1 DEF Guided
    <3> QED BY <3>1, <3>2, GuidedStays DEF TInv
  <2>5. CASE UNCHANGED vars
    BY <2>5, StuttersTraces
  <2> QED BY <2>1, <2>2, <2>3, <2>4, <2>5 DEF Next, NodeStep
<1>2. Init => TInv
  BY StartsTraces
<1> QED BY <1>1, <1>2, InvarianceOnce, PTL DEF Spec

\* Where nothing is lost and no two forwarders share a hash, a trace whose hops lead
\* back to its sender has come to its end once all is quiet, however often it passed
\* the same node.
THEOREM TracesEnd == Spec => [](Guided => TraceCompletes)
<1>1. IInv /\ TInv => (Guided => TraceCompletes)
  <2> SUFFICES ASSUME IInv, TInv, Guided, Quiet, NEW t \in Issued("TRACE")
               PROVE  <<"TRACE", t, Len(t.hops)>> \in handed[t.from]
    BY DEF TraceCompletes
  <2>1. \A n \in Nodes : queue[n] = {} /\ inbox[n] = {}
    BY DEF Quiet, Packets
  <2>2. Underway(t)
    BY DEF TInv
  <2>3. t.from \in Nodes
    BY TraceSender DEF IInv
  <2> QED BY <2>1, <2>2, <2>3 DEF Underway
<1> QED BY <1>1, InvarianceTraces, PTL

\* In an ideal mesh every text, returned path and ack is on its way to the one it is
\* for, or has arrived and led to what it is for: a text is answered, a path is
\* learned, and an ack is no longer awaited.
THEOREM InvarianceExchanges == Spec => [](IInv /\ HInv /\ XInv)
<1>1. IInv /\ HInv /\ XInv /\ (IInv /\ HInv)' /\ [Next]_vars => XInv'
  <2> SUFFICES ASSUME IInv, HInv, XInv, IInv', HInv', [Next]_vars PROVE XInv'
    OBVIOUS
  <2>1. ASSUME NEW t \in todo, Originate(t) PROVE XInv'
    BY <2>1, OriginateExchanges
  <2>2. ASSUME NEW n \in Nodes, NEW p \in queue[n], Transmit(n, p) PROVE XInv'
    BY <2>2, TransmitExchanges
  <2>3. ASSUME NEW n \in Nodes, NEW p \in inbox[n], Receive(n, p) PROVE XInv'
    BY <2>3, ReceiveExchanges
  <2>4. ASSUME NEW n \in Nodes, Restart(n) PROVE XInv'
    <3>1. net' = net /\ restarts < net.restarts /\ restarts \in 0..net.restarts
      BY <2>4 DEF Restart, IInv, TypeInv
    <3>2. ~Ideal
      BY <3>1 DEF Ideal
    <3> QED BY <3>1, <3>2, IdealStays DEF XInv
  <2>5. CASE UNCHANGED vars
    BY <2>5, StuttersExchanges
  <2> QED BY <2>1, <2>2, <2>3, <2>4, <2>5 DEF Next, NodeStep
<1>2. Init => XInv
  BY StartsExchanges
<1> QED BY <1>1, <1>2, InvarianceOnce, PTL DEF Spec

\* Where nothing is lost or forgotten, no two forwarders share a hash and a path has
\* room for all of them, a text is acknowledged and both ends know a path to each
\* other once all is quiet, whatever the order in which things are sent and heard.
THEOREM ExchangesEnd == Spec => [](Ideal /\ forgot = {} => ExchangeCompletes)
<1>1. IInv /\ XInv => (Ideal /\ forgot = {} => ExchangeCompletes)
  <2> SUFFICES ASSUME IInv, XInv, Ideal, forgot = {}, Quiet, NEW t \in Issued("TXT")
               PROVE  /\ t \notin awaiting[t.from]
                      /\ out_path[t.from][t.to] # Unknown
                      /\ out_path[t.to][t.from] # Unknown
    BY DEF ExchangeCompletes
  <2>1. TypeInv /\ ExchangesOK
    BY DEF IInv, XInv
  <2>2. t \in Texts /\ t.from \in Nodes /\ t.to \in Nodes
    BY <2>1, TextEnds DEF TypeInv
  <2> PICK h : h = <<"TXT", t>>
    OBVIOUS
  <2>3. h \in Errands /\ h[1] = "TXT" /\ h[2] = t
    BY <2>2 DEF Errands
  <2>4. Answered(t)
    <3>1. h \in sent[t.from]
      BY <2>1 DEF ExchangesOK
    <3>2. Done(h)
      BY <2>1, <2>2, <2>3, <3>1, QuietDone
    <3> QED BY <2>3, <3>2 DEF Done
  <2>5. ASSUME NEW b \in Returns, NEW n \in Nodes, <<"PATH", b>> \in sent[n]
        PROVE  out_path[b.to][b.from] # Unknown /\ b.ack \notin awaiting[b.to]
    <3> PICK g : g = <<"PATH", b>>
      OBVIOUS
    <3>1. g \in Errands /\ g[1] = "PATH" /\ g[2] = b /\ g \in sent[n]
      BY <2>5 DEF Errands
    <3>2. Done(g)
      BY <2>1, <3>1, QuietDone
    <3> QED BY <3>1, <3>2 DEF Done
  <2>6. ASSUME NEW b \in Acks, NEW n \in Nodes, <<"ACK", b>> \in sent[n]
        PROVE  b.ack \notin awaiting[b.ack.from]
    <3> PICK g : g = <<"ACK", b>>
      OBVIOUS
    <3>1. g \in Errands /\ g[1] = "ACK" /\ g[2] = b /\ g \in sent[n]
      BY <2>6 DEF Errands
    <3>2. Done(g)
      BY <2>1, <3>1, QuietDone
    <3> QED BY <3>1, <3>2 DEF Done
  <2>7. t \notin awaiting[t.from] /\ out_path[t.from][t.to] # Unknown
    BY <2>2, <2>4, <2>5, <2>6 DEF Answered
  <2>8. out_path[t.to][t.from] # Unknown
    <3>1. RouteOK(t.from, t.to)
      BY <2>1, <2>2 DEF ExchangesOK
    <3> QED BY <2>2, <2>5, <2>7, <3>1 DEF RouteOK
  <2> QED BY <2>7, <2>8
<1>2. IInv /\ HInv /\ XInv => (Ideal /\ forgot = {} => ExchangeCompletes)
  BY <1>1
<1> QED BY <1>2, InvarianceExchanges, PTL
=============================================================================
