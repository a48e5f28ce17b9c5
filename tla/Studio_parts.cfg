SPECIFICATION Spec
CHECK_DEADLOCK FALSE
CONSTANTS
  Clip = 2
  Ring = 3
  Post = 2
  MaxPending = 1
  Scores = {0, 3}
  Meaningful = 2
  FeedbackTasks = 2
  MaxDeeds = 2
  MaxFrames = 3
  ClipLength = 2
  Clips <- ClipPolicies
  Frames = {1, 5, 6, 7}
  ScoreThresholds = {4}
  Whole = 10
  Responses <- ScorerResponses
  Prompts = 2
  MaxWrong = 1
  RetryLimit = 1
  SpectatedRuns = 2
  MaxBodies = 4
  Kinds <- TaskKinds
  Requests <- TaskRequests
  Sizes = {100, 0, 3}
  Workers = {1, 3}
  PoolThresholds = {300}
  MaxTasks = 4
  Servers = {1, 2}
  Files <- PoolFiles
  Arguments <- LaunchArguments
  MaxStarts = 2
  MaxDeaths = 1
  MaxRestarts = 1
  AloneDeaths = 1
  AuthoredTasks <- TaughtTasks
  Deeds <- TakenSteps
  AuthoredSteps = 4
  AuthoredRuns = 2
  MinRelevance = 50
  Shipped = {"dig"}
  Learned = {"hunt"}
  Given = {"hunt", "mine"}
  Policies = {"skip", "replace", "error"}
  MaxRows = 4
  MaxWrites = 4
  MaxImports = 1
  Items = {"axe", "log"}
  Mobs = {1}
  Initial <- FirstInventories
  EvidenceTasks <- CheckedTasks
  Rows = 1
  MaxSteps = 2
  MaxCount = 2
  MaxEvents = 2
INVARIANTS
  TypeOK
  FeedbackIsSound
  EvaluationIsSound
  SpectatorIsSound
  SelectionIsSound
  
  AuthoringIsSound
  
PROPERTIES
  CatalogueIsKept
