\* The Job of a deployed ContractVersion is deleted.
SPECIFICATION Spec
CONSTANTS
  Codes <- OneCode
  Required <- None
  Modules <- None
  MaxUid = 1
  MaxDeleted = 0
  MaxRemoved = 1
  MaxPods = 1
  MaxDeploys = 2
  MaxLag = 1
  MaxFaults = 0
PROPERTIES
  AddressImmutable
CHECK_DEADLOCK FALSE
