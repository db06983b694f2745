\* Two instances; a channel and a buffer that overflow, a buffer that has an order.
CONSTANTS
  N = 2
  InitPhases = 2
  Capacity = 2
  MaxLines = 2
  Averages = {1, 2}
  Lines = 2
SPECIFICATION FairSpec
INVARIANTS TypeOK NoEngineIsForgotten TailIsShown
PROPERTY QuitEnds
\* The program ends.
CHECK_DEADLOCK FALSE
