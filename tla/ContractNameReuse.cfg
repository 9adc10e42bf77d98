\* A name that is deleted and created again.
SPECIFICATION Spec
CONSTANTS
  Contracts <- OneContract
  Networks <- TwoNetworks
  Texts <- SomeTexts
  Empty = ""
  Missing = Missing
  Keys <- NoKeys
  NoRef = NoRef
  Specs <- InlineSpecs
  ConfigMaps <- NoConfigMaps
  MaxUid = 2
  MaxGen = 1
  MaxConfig = 1
  MaxFaults = 0
INVARIANTS
  CurrentVersionDeployed
CHECK_DEADLOCK FALSE
