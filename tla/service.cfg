SPECIFICATION FairSpec
CONSTANTS
  Environments <- MCEnvironments
  Deliveries <- MCDeliveries
  Kind <- MCKind
  TrackedDeliveries = 2
  Slots = {1, 2}
  ResolveWait = 2
INVARIANTS ServiceTypeOK ConfigIsSound AckedIsApplied DuplicatesAreDropped
PROPERTIES StartupEnds StopsWhenTold
