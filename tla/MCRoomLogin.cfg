\* A client comes back, with its password or without one.
SPECIFICATION Spec
CONSTANTS
  a = a
  b = b
  c = c
  NoNode = NoNode
  Nodes = {a, b, c}
  Capacity = 2
  RingSize = 2
  MaxFailures = 3
  Rooms <- ComesBack
PROPERTIES LoginResumes
\* The room falls silent once every client has its posts or has been given up.
CHECK_DEADLOCK FALSE
