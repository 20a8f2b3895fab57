SPECIFICATION FairSpec
CONSTANTS
  InPacketsMaxSize = 2
  BatchLimit = 0
  Frames <- MCFrames
  StreamIndices = {0, 1}
  TsIoBufferLen = 2
  UShortValues = 4
  TryConnectCountMax = 2
  MaxConnects = 3
  MaxPackets = 3
INVARIANTS
  TypeOK
  ContextsSound
  TsDataComplete
PROPERTIES
  ImplementsSource
  ImplementsPullThread
  UnreachableIsGivenUp
CHECK_DEADLOCK FALSE
