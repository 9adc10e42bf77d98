\* Code and tests in ConfigMaps that come late and are edited.
SPECIFICATION Spec
CONSTANTS
  Contracts <- OneContract
  Networks <- TwoNetworks
  Texts <- SomeTexts
  Empty = ""
  Missing = Missing
  Keys <- TwoKeys
  NoRef = NoRef
  Specs <- RefSpecs
  ConfigMaps <- CodeAndTestMaps
  MaxUid = 1
  MaxGen = 1
  MaxConfig = 3
  MaxFaults = 1
INVARIANTS
  TypeOK
  VersionFaithful
PROPERTIES
  RolloutConverges
CHECK_DEADLOCK FALSE
