CONSTANTS
  c1 = c1
  c2 = c2
  p1 = p1
  p2 = p2
  u1 = u1
  Consumers = {c1, c2}
  Partitions = {p1, p2}
  Users = {u1}
  Log <- MCLog
  LogSize <- MCLogSize
  BatchSize = 2
  ResetToLatest = TRUE
  NoOwner = NoOwner
  MaxRebalances = 0
  MaxRestarts = 1
  MaxFaults = 1
SPECIFICATION FairSpec
 
PROPERTY BufferDrains
PROPERTY ImplementsAtLeastOnce
CHECK_DEADLOCK FALSE
