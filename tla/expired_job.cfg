SPECIFICATION SysSpec
CONSTANTS
  j1 = j1
  Jobs <- OneJob
  MinReplicas = 0
  MaxRunners = 1
  IdleCooldown = 1
  StartupGrace = 1
  JobTTL = 2
  RunnerGrace = 1
  ObserveTimeout = 1
  TrackedJobs = 1
  Scope = "repo"
  HasCounter = FALSE
  Regions = 2
  LostReplies = FALSE
  BlindRestarts = FALSE
  MaxPool = 2
  MaxHandlers = 1
INVARIANTS
  OutstandingIsTracked
