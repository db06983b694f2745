\* One instance that completes under the TUI.
CONSTANTS
  Runs = 1
  Instances = {i1}
  Polls = {p1}
  Modes = {"tui"}
  Timeout = FALSE
  Keep = FALSE
SPECIFICATION Spec
INVARIANT ResultsAreWritten
