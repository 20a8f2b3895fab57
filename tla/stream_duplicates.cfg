SPECIFICATION Spec
CONSTANTS
  InPacketsMaxSize = 4
  BatchLimit = 0
  SegCountMax = 2
  TicksPerSecond = 2
  IntMax = 15
  NaN = NaN
  None = None
  Sessions = {s1}
  PacketKinds <- MCTwoKinds
  UninitSlide = {TRUE, FALSE}
  UninitTarget <- MCZeroTarget
  UninitIndex <- MCIndices
  MaxPackets = 6
INVARIANTS
  NoDuplicates
CHECK_DEADLOCK FALSE
