SPECIFICATION Spec
CONSTANTS
  Requests = {r1, r2, r3}
  avail = avail
  savings = savings
  usdc = usdc
  fees = fees
  k1 = k1
  k2 = k2
  none = none
  nokey = nokey
  i1 = i1
  i2 = i2
  Instances = {i1, i2}
  Accounts <- MCAccounts
  Platform = fees
  NoAccount = none
  Keys = {k1, k2}
  NoKey = nokey
  Inputs <- SafetyInputs
  Pending = Pending
  Failed = Failed
  InitLedger <- EdgeInitLedger
  InitAccounts = {avail, savings, fees}
  MaxMinor = 6
  MaxFaults = 1
SYMMETRY Symmetry
INVARIANTS
  TypeOK
  OneTransactionPerKey
  RepliesAreCommitted
  PlatformProjection
  VaultProjection
  LedgerExplained
