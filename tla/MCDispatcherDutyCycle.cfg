SPECIFICATION MCSpec
CONSTANTS
  Packets = {p1}
  Priorities = {0}
  Delays = {0}
  AirTimes = {1, 3, 4}
  EstAirTime = 4
  AirtimeFactor = 7
  MaxBudget = 4
  MinReserve = 0
  CADRetryDelay = 0
  CADMaxDuration = 0
  NoPacket = NoPacket
  MaxOnAir = 24
  MaxCredited = 20
INVARIANTS DutyCycleLimit
