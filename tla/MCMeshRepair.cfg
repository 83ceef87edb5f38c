SPECIFICATION Spec
CONSTANTS
  A = A  B = B  R1 = R1  R2 = R2
  Nodes = {A, B, R1, R2}
  Networks <- Flooded
  Unknown = Unknown
  NoAck = NoAck
PROPERTIES FloodedAckRepairsPath
\* All is said and done.
CHECK_DEADLOCK FALSE
