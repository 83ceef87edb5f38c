\* flood.max at its default.
SPECIFICATION FloodSpec
CONSTANTS
  FloodMax = 64
  MaxHops = 66
INVARIANTS HopCeiling
\* A packet that has run out of path has arrived.
CHECK_DEADLOCK FALSE
