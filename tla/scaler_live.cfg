SPECIFICATION FairSpec
CONSTANTS
  j1 = j1
  j2 = j2
  Jobs <- TwoJobs
  MinReplicas = 0
  MaxRunners = 2
  IdleCooldown = 1
  StartupGrace = 1
  JobTTL = 1
  RunnerGrace = 1
  ObserveTimeout = 0
  TrackedJobs = 1
  Scope = "org"
  HasCounter = FALSE
  Regions = 2
  LostReplies = FALSE
  BlindRestarts = FALSE
  MaxPool = 2
  MaxHandlers = 1
PROPERTIES
  DemandIsMet
  PoolDrains
