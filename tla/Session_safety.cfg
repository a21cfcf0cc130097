SPECIFICATION Spec
CONSTANTS
  r1 = r1
  r2 = r2
  r3 = r3
  s1 = s1
  s2 = s2
  x1 = x1
  Requests = {r1, r2, r3}
  Workloads <- AllWorkloads
  Old = {s1, s2, x1}
  Foreign = {x1}
  OldDevice <- DeviceOfOld
  FirstPassword = "p0"
  FirstPin = "n0"
  FirstSecret = "a0"
  None = none
  MaxAttempts = 1
  FaultKinds = {"db", "restart"}
  MaxFaults = 1
CHECK_DEADLOCK FALSE
INVARIANTS
  TypeOK
  FormerPasswordSignsOut
  EnabledIsProven
  PinGuessesBounded
  NewDeviceReported
