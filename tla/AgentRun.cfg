\* Three runs and two failures: a failure before, between and after successes,
\* and two cancellations racing each other and the main task.
CONSTANTS
  Runs = 3
  MaxFailures = 2
  GcBetweenRuns = TRUE
  Cancels = {c1, c2}
SPECIFICATION FairSpec
INVARIANTS TypeOK SnapshotConsistent CompleteIsCaptured AttemptBudget OneLateBuild EndsAsReported
PROPERTIES AgentExits ImplementsLifecycle
