SPECIFICATION Spec
CONSTANTS
  A = A  B = B  R1 = R1  R2 = R2
  Nodes = {A, B, R1, R2}
  Networks <- All
  Unknown = Unknown
  NoAck = NoAck
INVARIANTS
  TypeOK
  ActsOnce
  LearnedPathsConnect
  DirectRoutesConnect
  AckMeansHanded
  ExchangeCompletes
  TraceCompletes
PROPERTIES
  EventuallyQuiet
\* All is said and done.
CHECK_DEADLOCK FALSE
