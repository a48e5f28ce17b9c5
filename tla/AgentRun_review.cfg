SPECIFICATION Spec
CONSTANTS
  Tasks <- MCCreative
  MaxSteps = 1
  Interval = 0
  MaxAttempts = 0
  TimeoutRetries = 0
  TransientRetries = 0
  MaxRevisions = 0
  MaxLosses = 0
PROPERTIES
  HumanDecisionStands
CHECK_DEADLOCK FALSE
