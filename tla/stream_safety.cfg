SPECIFICATION Spec
CONSTANTS
  InPacketsMaxSize = 4
  BatchLimit = 1
  SegCountMax = 2
  TicksPerSecond = 2
  IntMax = 15
  NaN = NaN
  None = None
  Sessions = {s1}
  PacketKinds <- MCKinds
  UninitSlide = {TRUE, FALSE}
  UninitTarget <- MCTargets
  UninitIndex <- MCIndices
  MaxPackets = 7
INVARIANTS
  FirstAgrees
  FromAgrees
  CursorAdvances
  TypeOK
  WindowIsLatest
  SegmentsAreLatest
  PlaylistServable
  TargetCovers
  DeliveredInOrder
PROPERTIES
  NothingSkipped
  ImplementsLivePlaylist
CHECK_DEADLOCK FALSE
