------------------------------- MODULE MCMesh -------------------------------
EXTENDS Mesh

CONSTANTS A, B, R1, R2

Text(from, to, no) == [type |-> "TXT", body |-> [from |-> from, to |-> to, no |-> no]]
Group(from) == [type |-> "GRP", body |-> [from |-> from]]
Advert(from, signed) == [type |-> "ADVERT", body |-> [from |-> from, signed |-> signed]]
Trace(from, hops) == [type |-> "TRACE", body |-> [from |-> from, hops |-> hops]]

OwnHash == [n \in {A, B, R1, R2} |-> n]
\* The first byte of two public keys may be the same.
SharedHash == [OwnHash EXCEPT ![R2] = R1]

Diamond == {{A, R1}, {A, R2}, {B, R1}, {B, R2}}

\* Two chat nodes that do not hear each other, and one forwarder between them,
\* which sends multi-acks, as does B.  A text may find a path already learned.
Relay ==
  [links |-> {{A, R1}, {R1, B}}, hash |-> OwnHash,
   chats |-> {A, B}, forwarders |-> {R1}, multi_ackers |-> {B, R1},
   traffic |-> {Text(A, B, 1), Text(A, B, 2)},
   path_max |-> 3, ring_size |-> 12, restarts |-> 0, lossy |-> TRUE]

\* The same without multi-acks.
PlainRelay == [Relay EXCEPT !.multi_ackers = {}]

\* Two forwarders between them, one after the other; one may restart.
Chain ==
  [Relay EXCEPT !.links = {{A, R1}, {R1, R2}, {R2, B}}, !.forwarders = {R1, R2},
                !.traffic = {Text(A, B, 1)}, !.restarts = 1]

\* Two forwarders next to each other, that have the same hash, and a sender that
\* forwards as well.
TwoWays ==
  [Chain EXCEPT !.links = Diamond, !.hash = SharedHash,
                !.forwarders = {A, R1, R2}, !.multi_ackers = {},
                !.restarts = 0]

\* The same in an ideal world.
Lossless ==
  [TwoWays EXCEPT !.forwarders = {R1, R2}, !.restarts = 0, !.lossy = FALSE]

\* And with a hash of its own for each forwarder.
Apart ==
  [Lossless EXCEPT !.hash = OwnHash, !.multi_ackers = {B, R1}]

\* Two forwarders that hear each other and remember one packet, the second out of
\* the sender's reach.
Storm ==
  [links |-> {{A, R1}, {R1, R2}}, hash |-> OwnHash,
   chats |-> {A}, forwarders |-> {R1, R2}, multi_ackers |-> {},
   traffic |-> {Group(A), Advert(A, TRUE)},
   path_max |-> 4, ring_size |-> 1, restarts |-> 1, lossy |-> TRUE]

\* Everybody hears everybody, and a trace goes back the way it came.
Tour ==
  [links |-> {{n, m} : n, m \in {A, R1, R2}}, hash |-> OwnHash,
   chats |-> {A}, forwarders |-> {R1, R2}, multi_ackers |-> {},
   traffic |-> {Advert(R1, FALSE), Trace(A, <<R1, R2, R1>>)},
   path_max |-> 4, ring_size |-> 10, restarts |-> 0, lossy |-> FALSE]

All == {Relay, Chain, TwoWays, Lossless, Apart, Storm, Tour}
Flooded == {PlainRelay}
=============================================================================
