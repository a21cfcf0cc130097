SPECIFICATION Spec
CONSTANTS
  r1 = r1
  r2 = r2
  r3 = r3
  r4 = r4
  Requests = {r1, r2, r3, r4}
  Workloads <- AllWorkloads
  NoRow = norow
  NoUser = nouser
  None = none
  MaxAttempt = 2
  FaultKinds = {"db", "mail"}
  MaxFaults = 1
CHECK_DEADLOCK FALSE
INVARIANTS
  TypeOK
  AccountIsProven
  GuessesCounted
