SPECIFICATION FairSpec
CONSTANTS
  Tags = {t1, t2}
  Cameras = {c1, c2, c3}
  None = None
  Ports <- MCPorts
  TcpTables <- MCTcpTables
  TooLong = TooLong
  TryConnectCountMax = 1
  MaxConnects = 1
INVARIANTS
  TypeOK
  ThreadGoneFirst
  OnlyFailedAreDeleted
  OneCameraPerTag
  LiveIsMapped
  PortsAreDistinct
PROPERTIES
  ImplementsDirectory
  FailedIsDeleted
