SPECIFICATION FairSpec
CONSTANTS
  u1 = u1
  u2 = u2
  c1 = c1
  c2 = c2
  o1 = o1
  o2 = o2
  Users = {u1, u2}
  Connections = {c1, c2}
  UserOf <- Owner
  Slow = {c1}
  Operations = {o1, o2}
  Changes <- AllChanges
  SubBuffer = 1
  MaxFaults = 1
CHECK_DEADLOCK FALSE
INVARIANTS
  TypeOK
  NoChangeMissed
PROPERTY
  ReadersCatchUp
