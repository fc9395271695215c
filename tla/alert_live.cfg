CONSTANTS
  c1 = c1
  c2 = c2
  p1 = p1
  u1 = u1
  Consumers = {c1, c2}
  Partitions = {p1}
  Users = {u1}
  Log <- MCBadLog
  LogSize <- MCBadLogSize
  ResetToLatest = TRUE
  NoOwner = NoOwner
  MaxRebalances = 0
  MaxRestarts = 2
  MaxFaults = 1
SPECIFICATION FairSpec
PROPERTY CriticalUserIsBlocked
CHECK_DEADLOCK FALSE
