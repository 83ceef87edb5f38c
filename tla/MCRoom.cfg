\* Two seats and two posts, so that a third node and a third post push something out.
SPECIFICATION Spec
CONSTANTS
  a = a
  b = b
  c = c
  NoNode = NoNode
  Nodes = {a, b, c}
  Capacity = 2
  RingSize = 2
  MaxFailures = 3
  Rooms <- AllRooms
INVARIANTS TypeOK NoPostSkipped AckedIsStoredOnce PushesStop
PROPERTIES EveryPostArrives
\* The room falls silent once every client has its posts or has been given up.
CHECK_DEADLOCK FALSE
