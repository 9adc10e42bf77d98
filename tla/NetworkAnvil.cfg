\* Two Networks that share the anvil objects.
SPECIFICATION Spec
CONSTANTS
  Networks <- TwoNetworks
  RPCProviders = {}
  BlockExplorers = {"scan"}
  NoRef = NoRef
  Specs <- SharedSpecs
  MaxWrites = 2
  MaxLag = 1
  MaxEvents = 1
INVARIANTS
  TypeOK
  ObjectsGuarded
PROPERTIES
  DeletedNetworkGoes
  AnvilProvided
  StatusConverges
CHECK_DEADLOCK FALSE
