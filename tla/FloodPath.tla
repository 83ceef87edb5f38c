----------------------------- MODULE FloodPath -----------------------------
(***************************************************************************)
(* The path of one packet, at the widths of the code: the length byte that *)
(* packs a two-bit hash size and a six-bit hash count, and the 64 bytes of *)
(* path behind it.  A flood packet collects the hash of every node that    *)
(* forwards it; the receiver returns the path, and a direct packet then    *)
(* follows it and loses one hash at every hop.                             *)
(*                                                                         *)
(* The node that forwards k-th is called k, and byte b of its hash is the  *)
(* pair <<k, b>>: what a real hash is made of does not matter here, only   *)
(* where its bytes end up.                                                 *)
(***************************************************************************)
EXTENDS Integers, Sequences

CONSTANTS
  FloodMax,         \* flood_max, 0..64: allowPacketForward() refuses a longer path
  MaxHops           \* bound of the model: nodes in the chain

VARIABLES
  path_len,         \* the length byte
  path,             \* the path bytes
  route,            \* "flood" on the way out, "direct" on the way back out again
  forwarders,       \* how many nodes have forwarded the flood
  followed          \* how many of them the direct packet has passed

pathVars == <<path_len, path, route, forwarders, followed>>

MAX_PATH_SIZE == 64
Bytes == 0..(MAX_PATH_SIZE - 1)
HashSizes == 1..3           \* path_hash_mode + 1

getPathHashSize(w) == (w \div 64) + 1
getPathHashCount(w) == w % 64

\* path_len &= ~63; path_len |= n.  A count of 64 is the bit above the count.
setPathHashCount(w, n) ==
  LET size_bits == w - (w % 64)
  IN IF n < 64 \/ (w \div 64) % 2 = 1 THEN size_bits + (n % 64)
                                      ELSE size_bits + n

setPathHashSizeAndCount(size, n) == ((size - 1) * 64) + (n % 64)

\* sendFlood().  The buffer still holds what the pool's packet carried before.
FloodInit ==
  /\ \E size \in HashSizes : path_len = setPathHashSizeAndCount(size, 0)
  /\ path = [i \in Bytes |-> <<0, 0>>]
  /\ route = "flood"
  /\ forwarders = 0 /\ followed = 0

HasRoom(n, size) == (n + 1) * size <= MAX_PATH_SIZE

\* routeRecvPacket(), at the next node of a chain.
routeRecvPacket ==
  LET n == getPathHashCount(path_len)
      size == getPathHashSize(path_len)
      own == n * size
  IN /\ route = "flood" /\ forwarders < MaxHops
     /\ HasRoom(n, size) /\ n < FloodMax
     /\ path' = [i \in Bytes |-> IF i \in own..(own + size - 1)
                                   THEN <<forwarders + 1, i - own>>
                                   ELSE path[i]]
     /\ path_len' = setPathHashCount(path_len, n + 1)
     /\ forwarders' = forwarders + 1
     /\ UNCHANGED <<route, followed>>

\* The receiver of the flood returns its path; sendDirect() copies it into a
\* packet of its own, byte for byte, with the same length byte.
sendDirect ==
  /\ route = "flood" /\ route' = "direct"
  /\ UNCHANGED <<path_len, path, forwarders, followed>>

Hop(i) == path[i * getPathHashSize(path_len)][1]

\* removeSelfFromPath(): count one less, and the rest shuffled down by an entry.
removeLastFromPath ==
  /\ path_len' = setPathHashCount(path_len, getPathHashCount(path_len) - 1)
  /\ UNCHANGED path

removeSelfFromPath ==
  LET left == getPathHashCount(path_len) - 1
      size == getPathHashSize(path_len)
  IN /\ path_len' = setPathHashCount(path_len, left)
     /\ path' = [i \in Bytes |-> IF i < left * size THEN path[i + size] ELSE path[i]]

\* onRecvPacket(), at the node the first hash of the path names.
followPath ==
  /\ route = "direct" /\ getPathHashCount(path_len) > 0
  /\ removeSelfFromPath
  /\ followed' = Hop(0)
  /\ UNCHANGED <<route, forwarders>>

FloodNext == routeRecvPacket \/ sendDirect \/ followPath

FloodSpec == FloodInit /\ [][FloodNext]_pathVars

-----------------------------------------------------------------------------
\* Whoever reads the path of a flood packet finds the hash of every node that
\* has forwarded it, whole and in order, and whoever reads the path of a direct
\* packet finds those the packet has still to visit.  The last one to forward
\* must not push the count out of its six bits, and a hash must not be written
\* past the buffer.
PathHoldsHops ==
  LET size == getPathHashSize(path_len)
  IN /\ getPathHashCount(path_len) = forwarders - followed
     /\ getPathHashCount(path_len) * size <= MAX_PATH_SIZE
     /\ \A k \in 1..(forwarders - followed) : \A b \in 0..(size - 1) :
          path[(k - 1) * size + b] = <<followed + k, b>>

\* A forwarded packet never outgrows the hop ceilings of its hash size: 63, 32
\* and 21 hops.
HopCeiling ==
  forwarders <= CASE getPathHashSize(path_len) = 1 -> 63
                  [] getPathHashSize(path_len) = 2 -> 32
                  [] OTHER -> 21
=============================================================================
