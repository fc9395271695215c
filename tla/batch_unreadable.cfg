CONSTANTS
  c1 = c1
  c2 = c2
  p1 = p1
  p2 = p2
  u1 = u1
  Consumers = {c1}
  Partitions = {p1}
  Users = {u1}
  Log <- MCUnreadableLog
  LogSize <- MCUnreadableLogSize
  BatchSize = 2
  ResetToLatest = TRUE
  NoOwner = NoOwner
  MaxRebalances = 0
  MaxRestarts = 0
  MaxFaults = 0
SPECIFICATION FairSpec
PROPERTY NoMessageBlocksTheNext
CHECK_DEADLOCK FALSE
