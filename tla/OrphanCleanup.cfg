\* A run with a group and its instance, and one with bucket, role and profile; every
\* kind of command line, any number of commands.
CONSTANTS
  r1 = r1
  r2 = r2
  i1 = i1
  Runs <- MCRuns
  Instances <- MCInstances
  Owned <- MCOwned
  Options <- MCOptions
  MaxRetries = 1
SPECIFICATION Spec
INVARIANTS TypeOK CleanReportIsClean
PROPERTIES OnlyMatchedAreDeleted GroupGoesLast
