SPECIFICATION FairSpec
CONSTANTS
  t1 = t1
  t2 = t2
  t3 = t3
  NoTask = NoTask
  NoVerdict = NoVerdict
  NoReport = NoReport
  NoRevision = NoRevision
  Waves <- OneWave
  TaskOrder <- Reversed
  WorkerCount = 2
  MaxTaskRetries = 0
  ModelTimeoutRequeues = 1
  WorkerFailureRequeues = 1
  Endings <- PolicyEndings
  Revisions = {1}
  MaxCrashes = 1
  MaxForeignWrites = 0
  RecorderMayFail = TRUE
PROPERTIES
  JobReports
