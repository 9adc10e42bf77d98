\* Two objects, whose Secrets, endpoints and incarnations change.
SPECIFICATION Spec
CONSTANTS
  Objects = {"a", "b"}
  Secrets = {"s", "t"}
  Urls = {"u", "v"}
  SecretData <- SomeData
  MaxEvents = 2
INVARIANTS
  TypeOK
  HealthyWasAnswered
  ReportsMakeSense
PROPERTIES
  HealthConverges
CHECK_DEADLOCK FALSE
