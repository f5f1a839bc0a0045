SPECIFICATION FairSpec
CONSTANTS
  j1 = j1
  j2 = j2
  Jobs <- TwoJobs
  MinReplicas = 0
  MaxRunners = 2
  IdleCooldown = 1
  StartupGrace = 1
  JobTTL = 1
  RunnerGrace = 0
  ObserveTimeout = 1
  TrackedJobs = 2
  Scope = "none"
  HasCounter = FALSE
  Regions = 2
  LostReplies = TRUE
  BlindRestarts = FALSE
  MaxPool = 2
  MaxHandlers = 1
PROPERTIES
  DemandIsMet
