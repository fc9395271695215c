CONSTANTS
  p1 = p1
  p2 = p2
  m1 = m1
  m2 = m2
  t1 = t1
  t2 = t2
  u1 = u1
  u2 = u2
  Processes = {p1, p2}
  Datasets = {1}
  Scores = {1, 2}
  Threshold = 2
  NTrials = 2
  Patience = 1
  MaxAttempts = 1
  MaxSecond = 1
  MaxCalls = 2
  MaxTroubles = 2
  None = None
  Torn = Torn
  Managers = {m1, m2}
  Tools = {t1, t2}
  Users = {u1, u2}
  Splits = {50}
  Bucket <- MCBucket
  Every = 1
  MinEach = 1
  HalfTarget = 1
  Nil = Nil
  MaxStart = 2
  MaxResults = 2
  MaxMishaps = 1
SPECIFICATION MCSpec
INVARIANT CheckpointsLoad
INVARIANT CompletedTrialsKept
INVARIANT StoppedCanResume
INVARIANT ResultsCounted
INVARIANT EndedForAll
INVARIANT OneVariantPerUser
SYMMETRY Symmetry
CHECK_DEADLOCK FALSE
