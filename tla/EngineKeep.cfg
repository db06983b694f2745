\* One instance that completes under the TUI, with --keep.
CONSTANTS
  Runs = 1
  Instances = {i1}
  Polls = {p1}
  Modes = {"tui"}
  Timeout = FALSE
  Keep = TRUE
SPECIFICATION Spec
INVARIANT KeptAreNotTerminated
