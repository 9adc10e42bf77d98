\* A pod of the Job was evicted before another one succeeded.
SPECIFICATION Spec
CONSTANTS
  Codes <- OneCode
  Required <- None
  Modules <- None
  MaxUid = 1
  MaxDeleted = 0
  MaxRemoved = 0
  MaxPods = 2
  MaxDeploys = 2
  MaxLag = 1
  MaxFaults = 0
INVARIANTS
  DeployedHasAddress
CHECK_DEADLOCK FALSE
