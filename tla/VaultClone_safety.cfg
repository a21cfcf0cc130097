SPECIFICATION Spec
CONSTANTS
  a = a
  b = b
  Addr = {a, b}
  Zero = Zero
  Self = Self
  Salts = {s1}
  Policies = {TRUE, FALSE}
  Signable <- MCSignable
  MaxToken = 2
  MaxNonce = 2
  MaxPrivate = 1
  MaxTime = 2
  MaxDelay = 1
  MaxSignatures = 2
CHECK_DEADLOCK FALSE
INVARIANTS
  TypeOK
  NoncesNeverReused
  PendingRecoveryIsArmed
  CommitmentsBacked
PROPERTIES
  EachSignatureOnce
  OwnershipMoves
