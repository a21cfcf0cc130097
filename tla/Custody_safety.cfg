SPECIFICATION MCSpec
CONSTANTS
  u1 = u1
  u2 = u2
  w1 = w1
  w2 = w2
  Users = {u1, u2}
  Broken = {u2}
  Requests = {r1, r2}
  r1 = r1
  r2 = r2
  zero = zero
  Created <- OldestFirst
  Workloads <- AllWorkloads
  Reconciler = reconciler
  Addr = {w1, w2, platform, zero}
  Platform = platform
  Callees = {w2}
  Zero = zero
  None = none
  NoRow = norow
  Wallet <- WalletOf
  FaultKinds = {"read", "db", "send", "replace", "expire", "drop", "reset"}
  MaxFaults = 1
  MaxEvents = 2
INVARIANTS
  TypeOK
  RowsAreBacked
PROPERTIES
  
  CacheConverges
