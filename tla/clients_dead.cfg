SPECIFICATION Spec
CONSTANTS
  Guids = {g1, g2}
  Objects = {o1, o2}
  None = None
  SessionTimeout = 1
  MaxTime = 3
  Destroys = FALSE
PROPERTIES
  OnlyDeadAreDeleted
