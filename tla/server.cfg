SPECIFICATION FairSpec
CONSTANTS
  Tags = {t1}
  TheCamera = c1
  Ports <- MCPorts
  TcpTables <- MCTcpTables
  TooLong = TooLong
  TryConnectCountMax = 1
  MaxConnects = 1
  Guids = {g1}
  Objects = {o1, o2}
  SessionTimeout = 1
  MaxTime = 2
  None = None
INVARIANTS
  TypeOK
  ThreadsGoneFirst
  OnlyFailedIsDestroyed
PROPERTIES
  FailedIsGone
  RequestEnds
