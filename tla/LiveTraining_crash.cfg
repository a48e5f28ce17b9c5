SPECIFICATION Spec
CONSTANTS
  t1 = t1
  t2 = t2
  t3 = t3
  NoTask = NoTask
  NoVerdict = NoVerdict
  NoReport = NoReport
  NoRevision = NoRevision
  Waves <- TwoWaves
  TaskOrder <- Reversed
  WorkerCount = 2
  MaxTaskRetries = 1
  ModelTimeoutRequeues = 1
  WorkerFailureRequeues = 1
  Endings <- RetryEndings
  Revisions = {1, 2}
  MaxCrashes = 1
  MaxForeignWrites = 1
  RecorderMayFail = TRUE
INVARIANTS
  TypeOK
  BarrierHolds
  AttemptsAreSound
PROPERTIES
  DurableIsFinal
  ImplementsJob
CHECK_DEADLOCK FALSE
