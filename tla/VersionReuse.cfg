\* A ContractVersion that is deleted and created again under its name.
SPECIFICATION Spec
CONSTANTS
  Codes <- TwoCodes
  Required <- None
  Modules <- None
  MaxUid = 2
  MaxDeleted = 1
  MaxRemoved = 0
  MaxPods = 1
  MaxDeploys = 2
  MaxLag = 1
  MaxFaults = 0
INVARIANTS
  OneJobPerVersion
  OwnCodeDeployed
PROPERTIES
  OutcomeRecorded
  DeploymentStarts
CHECK_DEADLOCK FALSE
