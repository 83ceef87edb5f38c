SPECIFICATION Spec
CONSTANTS
  Slots = {0, 1, 2}
  MaxLiveTls = 1
  TerminalPenalty = 2
  SuccessBar = 1
  QueueDepth = 1
  StartFailsEarly = TRUE
  Scenarios <- ClockOnly
INVARIANT ConnectingIsTrying
