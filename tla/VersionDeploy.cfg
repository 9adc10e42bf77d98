\* One ContractVersion: failed calls, restarts, evicted pods, late dependencies.
SPECIFICATION Spec
CONSTANTS
  Codes <- OneCode
  Required <- Wallet
  Modules <- Module
  MaxUid = 1
  MaxDeleted = 0
  MaxRemoved = 1
  MaxPods = 2
  MaxDeploys = 2
  MaxLag = 1
  MaxFaults = 1
INVARIANTS
  TypeOK
  OneJobPerVersion
PROPERTIES
  DeployedNotDemoted
  OutcomeRecorded
  DeploymentStarts
CHECK_DEADLOCK FALSE
