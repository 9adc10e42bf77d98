\* A status update that fails after the Secret was created.
SPECIFICATION Spec
CONSTANTS
  UserKey = 1
  NoPublicKey = NoPublicKey
  MaxUid = 1
  MaxEdits = 0
  MaxLag = 1
  MaxFaults = 1
INVARIANTS
  SecretHoldsKey
CHECK_DEADLOCK FALSE
