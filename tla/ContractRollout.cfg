\* One Contract with inline code: edits, name reuse, faults and restarts.
SPECIFICATION Spec
CONSTANTS
  Contracts <- OneContract
  Networks <- TwoNetworks
  Texts <- SomeTexts
  Empty = ""
  Missing = Missing
  Keys <- NoKeys
  NoRef = NoRef
  Specs <- InlineSpecs
  ConfigMaps <- NoConfigMaps
  MaxUid = 2
  MaxGen = 2
  MaxConfig = 1
  MaxFaults = 1
INVARIANTS
  CurrentVersionComplete
  VersionFaithful
PROPERTIES
  CurrentVersionNeverRegresses
  RolloutConverges
  ImplementsRollout
CHECK_DEADLOCK FALSE
