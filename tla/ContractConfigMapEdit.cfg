\* A ConfigMap that is edited after the code was deployed.
SPECIFICATION Spec
CONSTANTS
  Contracts <- OneContract
  Networks <- TwoNetworks
  Texts <- SomeTexts
  Empty = ""
  Missing = Missing
  Keys <- CodeKey
  NoRef = NoRef
  Specs <- CodeRefSpecs
  ConfigMaps <- CodeMaps
  MaxUid = 1
  MaxGen = 1
  MaxConfig = 2
  MaxFaults = 0
PROPERTIES
  ConfigMapUpdatesDeployed
CHECK_DEADLOCK FALSE
