SPECIFICATION FairSpec
CONSTANTS
  Guids = {g1, g2}
  Objects = {o1, o2, o3}
  None = None
  SessionTimeout = 0
  MaxTime = 1
  Destroys = TRUE
INVARIANTS
  TypeOK
  ClientsAreListed
  KeysAreUnique
  MapHoldsLive
  LiveIsMapped
  CleanerGoneFirst
PROPERTIES
  DeletedOnce
  ClearLeavesInFlight
  IdleIsDeleted
CHECK_DEADLOCK FALSE
