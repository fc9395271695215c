CONSTANTS
  c1 = c1
  c2 = c2
  p1 = p1
  p2 = p2
  u1 = u1
  Consumers = {c1}
  Partitions = {p1, p2}
  Users = {u1}
  Log <- MCLiveLog
  LogSize <- MCLiveLogSize
  ResetToLatest = TRUE
  NoOwner = NoOwner
  MaxRebalances = 0
  MaxRestarts = 1
  MaxFaults = 1
SPECIFICATION FairSpec
PROPERTY EveryMessageHandled
PROPERTY OutcomesDelivered
PROPERTY ImplementsAtLeastOnce
CHECK_DEADLOCK FALSE
