SPECIFICATION Spec
CONSTANTS
  j1 = j1
  j2 = j2
  Jobs <- TwoJobs
  MinReplicas = 0
  MaxRunners = 2
  IdleCooldown = 1
  StartupGrace = 2
  JobTTL = 2
  RunnerGrace = 1
  ObserveTimeout = 1
  TrackedJobs = 1
  Scope = "repo"
  HasCounter = FALSE
  Regions = 2
  LostReplies = FALSE
  BlindRestarts = TRUE
  MaxPool = 3
  MaxHandlers = 2
SYMMETRY JobSymmetry
INVARIANTS
  TypeOK
  NoLostWakeup
  AppliedIsActual
PROPERTIES
  GuardedShrink
