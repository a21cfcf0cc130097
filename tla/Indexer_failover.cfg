SPECIFICATION Spec
CONSTANTS
  p1 = p1
  p2 = p2
  u1 = u1
  u2 = u2
  w1 = w1
  w2 = w2
  c1 = c1
  t1 = t1
  t2 = t2
  Nobody = Nobody
  NoAddress = NoAddress
  Instances = {i1, i2}
  Operators = {}
  Payments = {p1, p2}
  Pay <- Clones
  Users = {u1, u2}
  Wallets = {w1, w2}
  Commitments = {c1}
  Txs = {t1, t2}
  PrivacyMode = FALSE
  MinConfirmations = 1
  StartBlock = 0
  FaultKinds = {"crash"}
  MaxHead = 5
  MaxLinks = 0
  MaxFaults = 1
CHECK_DEADLOCK FALSE
INVARIANT FailoverSkipsNothing
