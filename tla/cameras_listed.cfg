SPECIFICATION Spec
CONSTANTS
  Tags = {t1}
  Cameras = {c1, c2}
  None = None
  Ports <- MCOnePort
  TcpTables <- MCEmptyTable
  TooLong = TooLong
  TryConnectCountMax = 1
  MaxConnects = 2
INVARIANTS
  EveryCameraIsListed
