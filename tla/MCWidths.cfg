\* The budget: one packet at a duty cycle of 1/4.
\* The path: flood.max one below its default, which keeps the count inside its six bits.
SPECIFICATION WidthsSpec
CONSTANTS
  Packets = {p1}
  Priorities = {0}
  Delays = {0}
  AirTimes = {1, 3, 4}
  EstAirTime = 4
  AirtimeFactor = 3
  MaxBudget = 4
  MinReserve = 0
  CADRetryDelay = 0
  CADMaxDuration = 0
  NoPacket = NoPacket
  MaxOnAir = 14
  MaxCredited = 9
  Word = 8
  Capacity = 3
  TablePriorities = {0, 1, 254}
  TableDelays = {0, 1, 3}
  FloodMax = 63
  MaxHops = 66
INVARIANTS
  AirtimeWithinTwiceBudget
  ScanFindsBest
  CountedIsThere
  TimerAgrees
  PathHoldsHops
\* A packet that has run out of path has arrived.
CHECK_DEADLOCK FALSE
