CONSTANTS
  s1 = s1
  s2 = s2
  s3 = s3
  u1 = u1
  u2 = u2
  w1 = w1
  w2 = w2
  a1 = a1
  Names = {s1, s2, s3}
  Unknown = Unknown
  KafkaServices = {}
  Profiles <- MCProfiles
  MaxAttempts = 2
  Users = {u1, u2}
  Log <- MCLog
  CacheSize = 1
  EvictSize = 1
  SaveEvery = 2
  CheckEvery = 3
  WindowSize = 2
  MinSamples = 1
  MinTested = 1
  MinLabelled = 2
  MinHistory = 2
  MaxHistory = 2
  Degradation = 5
  MaxRestarts = 1
  MaxFaults = 2
  MaxOthers = 1
  Signs <- MCSigns
  Unscorable = {2}
  BatchSize = 2
  MaxFailures = 2
  Workers = {w1, w2}
  Tracked = w1
  Accounts = {a1}
  Totals = {0, 1, 3}
  PollBatch = 2
  BufferSize = 1
  DaySlots = 3
  PeakSlots = {0, 1}
  MaxSlot = 4
  MaxMade = 2
  MaxTrouble = 1
SPECIFICATION MCSpec
INVARIANT StartedInOrder
INVARIANT EverythingIsRemoved
INVARIANT ProfileKeepsCount
INVARIANT ScoreBelongsToMessage
INVARIANT WholeModelOutsideSwaps
INVARIANT EveryAmountIsScored
 
INVARIANT NeverMoreThanAsked
 
SYMMETRY Symmetry
CHECK_DEADLOCK FALSE
