CONSTANTS
  c1 = c1
  c2 = c2
  p1 = p1
  p2 = p2
  u1 = u1
  Consumers = {c1}
  Partitions = {p1}
  Users = {u1}
  Log <- MCLog
  LogSize <- MCLogSize
  BatchSize = 2
  DriverFits = TRUE
  ResetToLatest = FALSE
  NoOwner = NoOwner
  MaxRebalances = 0
  MaxTroubles = 1
SPECIFICATION FairSpec
INVARIANT CommittedIsKept
INVARIANT AccountsCountAlerts
 
CHECK_DEADLOCK FALSE
