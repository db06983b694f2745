\* The process ends while the executor has work.
CONSTANTS
  i1 = i1
  Instances = {i1}
  Configs <- Config
SPECIFICATION Spec
INVARIANT GuardsTriggerCleanup
