\* The ack wait of an agent that nobody cancels.
CONSTANTS
  Runs = 1
  MaxFailures = 1
  GcBetweenRuns = FALSE
  Cancels = {}
SPECIFICATION Spec
INVARIANT AckCanArrive
