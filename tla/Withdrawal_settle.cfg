SPECIFICATION FairSpec
CONSTANTS
  Calls = {c1, c2}
  Sweepers = {s1}
  Nobody = Nobody
  d1 = d1
  d2 = d2
  k1 = k1
  k2 = k2
  nokey = nokey
  NoKey = nokey
  Bodies <- SignedLocked
  InitCustody = {"user"}
  RequireUserSignature = FALSE
  Threshold = 3
  DailyCap = 9
  Fee = 1
  Delay = 1
  Lifetime = 1
  RelayLifetime = 1
  Batch = 1
  FaultKinds = {"step", "answer", "nonce", "drop"}
  RateMinor = 2
  BaseUnits = 1
  InitBalance = 6
  InitToken = 3
  MaxTime = 3
  MaxQuoteTime = 2
  MaxFaults = 1
  MaxSends = 2
CHECK_DEADLOCK FALSE
PROPERTIES
  SignedElevationsSettle
