SPECIFICATION FairSpec
CONSTANTS
  MaxAttempts = 2
  Machines <- MCMachines
  Broken <- MCBroken
  Targets <- MCTargets
  HasBusy = TRUE
INVARIANTS TypeOK CountedIsDone
PROPERTIES BusyRunnersAreSpared ImplementsBackendCall CallsActAtOnce TargetIsReached
