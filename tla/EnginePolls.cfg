\* The TUI: two polls that may overtake each other, and two instances of which
\* one or both can be polled.
CONSTANTS
  Runs = 1
  Instances = {i1, i2}
  Polls = {p1, p2}
  Modes = {"tui"}
  Timeout = FALSE
  Keep = FALSE
SPECIFICATION Spec
SYMMETRY Symmetry
INVARIANTS TypeOK CompleteHasResults OnlyFinishedAreTerminated AckedOnce AckedAreTerminated
PROPERTY AckedIsFinal
