SPECIFICATION FairSysSpec
CONSTANTS
  j1 = j1
  Jobs <- OneJob
  MinReplicas = 0
  MaxRunners = 1
  IdleCooldown = 0
  StartupGrace = 1
  JobTTL = 0
  RunnerGrace = 1
  ObserveTimeout = 0
  TrackedJobs = 1
  Scope = "repo"
  HasCounter = FALSE
  Regions = 2
  LostReplies = FALSE
  BlindRestarts = FALSE
  MaxPool = 1
  MaxHandlers = 1
PROPERTIES
  QueuedJobsAreServed
