SPECIFICATION Spec
CONSTANTS
  w1 = w1
  w2 = w2
  s1 = s1
  s2 = s2
  Workers = {w1, w2}
  Servers = {s1, s2}
  ServerOf <- OwnServers
  MaxSteps = 2
  MaxAttempts = 2
  MaxFaults = 1
INVARIANTS
  TypeOK
  BeliefHolds
  WorldTicks
PROPERTIES
  FreezeEnds
CHECK_DEADLOCK FALSE
