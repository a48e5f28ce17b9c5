SPECIFICATION Spec
CONSTANTS
  j1 = j1
  j2 = j2
  Jobs = {j1, j2}
  StopsServer = TRUE
  MaxFaults = 1
  MaxRestarts = 1
INVARIANTS
  TypeOK
  JobsAreSound
PROPERTIES
  NothingIsUndone
  JobEnds
CHECK_DEADLOCK FALSE
