SPECIFICATION FairSpec
CONSTANTS
  Requests = {r1, r2}
  avail = avail
  savings = savings
  usdc = usdc
  fees = fees
  k1 = k1
  k2 = k2
  none = none
  nokey = nokey
  i1 = i1
  i2 = i2
  Instances = {i1, i2}
  Accounts <- MCAccounts
  Platform = fees
  NoAccount = none
  Keys = {k1, k2}
  NoKey = nokey
  Inputs <- MixedInputs
  Pending = Pending
  Failed = Failed
  InitLedger <- MCInitLedger
  InitAccounts = {avail, savings, usdc, fees}
  MaxMinor = 6
  MaxFaults = 1
PROPERTIES
  ImplementsAtomicLedger
  EveryCallReturns
