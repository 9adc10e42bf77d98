\* A Wallet that is created, edited, deleted and created again; faults; a user's Secret that
\* comes late, without publicKey or with an empty one.
SPECIFICATION Spec
CONSTANTS
  UserKey = 1
  NoPublicKey = NoPublicKey
  MaxUid = 2
  MaxEdits = 1
  MaxLag = 2
  MaxFaults = 1
INVARIANTS
  TypeOK
  SecretExists
PROPERTIES
  KeyNeverChanges
  WalletReady
  LateKeyRecorded
CHECK_DEADLOCK FALSE
