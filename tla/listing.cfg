SPECIFICATION Spec
CONSTANTS
  Jobs <- MCJobs
  Runs <- MCRuns
  RunOf <- MCRunOf
  Ours <- MCOurs
  PerPage = 2
  MaxRunPages = 2
INVARIANTS TypeOK OutstandingIsReported ReportedOnce
