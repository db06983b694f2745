\* Two instances, and every configuration of a run.
CONSTANTS
  i1 = i1
  i2 = i2
  Instances = {i1, i2}
  Configs <- Config
SPECIFICATION FairSpec
INVARIANTS TypeOK NothingIsLost GroupGoesLast CleanupIsComplete
PROPERTIES ImplementsOwnership DroppedAreDeleted CommitReturns
