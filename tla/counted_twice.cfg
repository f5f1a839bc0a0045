SPECIFICATION Spec
CONSTANTS
  j1 = j1
  j2 = j2
  Jobs <- TwoJobs
  MinReplicas = 0
  MaxRunners = 2
  IdleCooldown = 1
  StartupGrace = 1
  JobTTL = 2
  RunnerGrace = 1
  ObserveTimeout = 1
  TrackedJobs = 1
  Scope = "repo"
  HasCounter = FALSE
  Regions = 2
  LostReplies = FALSE
  BlindRestarts = FALSE
  MaxPool = 3
  MaxHandlers = 2
INVARIANTS
  EachJobCountedOnce
