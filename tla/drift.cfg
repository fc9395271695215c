CONSTANTS
  m1 = m1
  m2 = m2
  t1 = t1
  t2 = t2
  Monitors = {m1, m2}
  Triggers = {t1, t2}
  Interval = 1
  MinScores = 2
  MinSamples = 0
  Cooldown = 1
  MaxErrors = 1
  None = None
  MaxScores = 4
  MaxTime = 1
  MaxTroubles = 1
SPECIFICATION FairSpec
PROPERTY BaselineKept
PROPERTY CooldownKept
PROPERTY EveryAlertAnswered
CHECK_DEADLOCK FALSE
