SPECIFICATION FairSpec
CONSTANTS
  InPacketsMaxSize = 3
  BatchLimit = 0
  SegCountMax = 2
  TicksPerSecond = 2
  IntMax = 15
  NaN = NaN
  None = None
  Sessions = {s1}
  PacketKinds <- MCPlainKinds
  UninitSlide = {FALSE}
  UninitTarget <- MCZeroTarget
  UninitIndex <- MCIndices
  MaxPackets = 7
PROPERTIES
  PollerIsServed
CHECK_DEADLOCK FALSE
