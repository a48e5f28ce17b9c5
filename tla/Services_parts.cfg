SPECIFICATION Spec
CHECK_DEADLOCK FALSE
CONSTANTS
  Editors = {"ann", "bob"}
  Prompts = {"system"}
  Chunks = {"chunk"}
  HardHidden = {}
  PromptEdits = 2
  MaxTurns = 2
  PromptLosses = 1
  ResetTasks <- SmallResets
  ResetConfig <- FullReset
  MaxResets = 2
  ResetFaults = 1
  MaxAttempts = 2
  MaxRequests = 4
  RpcFaults = 2
  QueueTasks = {"t1", "t2"}
  Concurrency = 2
  Results = {"succeeded", "timeout"}
  MaxRuns = 2
  QueueFaults = 1
  Initial <- InitialWorlds
  Script <- ScriptedActions
  Places = {0, 1, 2}
  BenchmarkSteps = 6
  Databases = {1, 2}
  Runs = {"r1", "r2"}
  Rows <- HistoryRows
  Contents <- Histories
  MaxRows = 4
  MaxChanges = 2
  MaxImports = 2
  ContextSteps = 4
  Interval = 2
  RecentCount = 2
  MaxSegment = 2
  MaxSources = 2
  Phases = {"navigation"}
  Queries = {"recipe"}
  Skills = {1, 2}
  Rankings <- SkillRankings
  MaxSkills = 1
  Keys = {1}
  Sizes <- EntrySizes
  Budget <- ContextBudget
  ContextLosses = 1
  CorpusEdits = 1
  Mobs = {"m1", "m2"}
  SpeciesOf <- Names
  CarriedItems = {"sword", "bow", "dirt", "arrow"}
  Bows = {"bow"}
  Requests <- BotRequests
  MaxActions = 2
INVARIANTS
  PromptsAreSound
  
  WorkerIsOwn
  QueueIsServed
  BenchmarkIsSound
  ImportIsFaithful
  ContextIsSound
  
