SPECIFICATION Spec
CONSTANTS
  ProcessorCount = 2
  TickTime = 2
  MaxTicks = 3
INVARIANT TimeHasPassed
CHECK_DEADLOCK FALSE
