\* Both loops with two instances and one poll at a time.
CONSTANTS
  Runs = 1
  Instances = {i1, i2}
  Polls = {p1}
  Modes = {"cli", "tui"}
  Timeout = TRUE
  Keep = FALSE
SPECIFICATION FairSpec
INVARIANT CliWaitsForAll
PROPERTIES TimeoutEndsRun TuiMovesOn
