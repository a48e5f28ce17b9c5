SPECIFICATION FairSpec
CONSTANTS
  Tasks <- MCTasks
  MaxSteps = 3
  Interval = 2
  MaxAttempts = 1
  TimeoutRetries = 1
  TransientRetries = 2
  MaxRevisions = 1
  MaxLosses = 1
INVARIANTS
  TypeOK
  RecordsTellTheRun
PROPERTIES
  LateDecisionStands
  AttemptEnds
CHECK_DEADLOCK FALSE
