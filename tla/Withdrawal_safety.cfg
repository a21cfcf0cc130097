SPECIFICATION Spec
CONSTANTS
  Calls = {c1, c2}
  Sweepers = {s1, s2}
  Nobody = Nobody
  d1 = d1
  d2 = d2
  k1 = k1
  k2 = k2
  nokey = nokey
  NoKey = nokey
  Bodies <- SafetyBodies
  InitCustody = {"none", "platform", "user"}
  RequireUserSignature = FALSE
  Threshold = 3
  DailyCap = 9
  Fee = 1
  Delay = 1
  Lifetime = 1
  RelayLifetime = 1
  Batch = 2
  FaultKinds = {"step", "answer", "nonce", "update", "crash", "drop"}
  RateMinor = 2
  BaseUnits = 1
  InitBalance = 9
  InitToken = 4
  MaxTime = 2
  MaxQuoteTime = 1
  MaxFaults = 1
  MaxSends = 2
SYMMETRY Symmetry
CHECK_DEADLOCK FALSE
INVARIANTS
  SignedMovesOnce
  DebitsAreBacked
  ClaimIsExclusive
PROPERTIES
  NoEarlyRelease
  SettledIsFinal
