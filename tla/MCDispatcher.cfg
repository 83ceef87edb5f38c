SPECIFICATION Spec
CONSTANTS
  Packets = {p1, p2}
  Priorities = {0, 1}
  Delays = {0, 1}
  AirTimes = {2}
  EstAirTime = 4
  AirtimeFactor = 1
  MaxBudget = 2
  MinReserve = 1
  CADRetryDelay = 0
  CADMaxDuration = 1
  NoPacket = NoPacket
INVARIANTS TypeOK PoolConserved QueuesHaveRoom RadioAgrees BudgetBacksOutbound
PROPERTIES UrgentPacketLeaves DelayedPacketHandled LifecycleSpec
