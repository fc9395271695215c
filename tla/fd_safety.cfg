CONSTANTS
  c1 = c1
  c2 = c2
  p1 = p1
  p2 = p2
  u1 = u1
  Consumers = {c1, c2}
  Partitions = {p1, p2}
  Users = {u1}
  Log <- MCLog
  LogSize <- MCLogSize
  ResetToLatest = TRUE
  NoOwner = NoOwner
  MaxRebalances = 1
  MaxRestarts = 1
  MaxFaults = 1
SPECIFICATION Spec
INVARIANT TypeOK
INVARIANT CommittedWasHandled
 
SYMMETRY Symmetry
CHECK_DEADLOCK FALSE
