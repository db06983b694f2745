\* Two machines, which may fail or stall in every way; the delays of the library.
CONSTANTS
  Types = {t1, t2}
  Delays = 3
SPECIFICATION FairSpec
INVARIANTS TypeOK OnlyContactedServe
PROPERTIES StartupSettles
\* The system comes to rest: see StartupSettles.
CHECK_DEADLOCK FALSE
