SPECIFICATION FairSpec
CONSTANTS
  InPacketsMaxSize = 3
  BatchLimit = 0
  SegCountMax = 2
  TicksPerSecond = 2
  IntMax = 15
  NaN = NaN
  None = None
  Sessions = {s1, s2}
  PacketKinds <- MCOneKind
  UninitSlide = {TRUE, FALSE}
  UninitTarget <- MCZeroTarget
  UninitIndex = {0}
  MaxPackets = 4
PROPERTIES
  DeliversOrEvicts
CHECK_DEADLOCK FALSE
