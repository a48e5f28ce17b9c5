SPECIFICATION Spec
CONSTANTS
  w1 = w1
  w2 = w2
  s1 = s1
  s2 = s2
  Workers = {w1}
  Servers = {s1}
  ServerOf <- OneServer
  MaxSteps = 2
  MaxAttempts = 2
  MaxFaults = 1
PROPERTIES
  ClosedWorldRuns
CHECK_DEADLOCK FALSE
