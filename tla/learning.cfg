CONSTANTS
  w1 = w1
  w2 = w2
  main = main
  x1 = x1
  x2 = x2
  Workers = {w1, w2}
  Txns = {x1, x2}
  Feedback <- MCFeedback
  MinConfirmations = 2
  MaxAge = 1
  Main = main
  Updaters = {w1, w2, main}
  Batches <- MCBatches
  SizeOf <- MCSizeOf
  MinBatch = 1
  QueueMax = 1
  MaxModels = 3
  Traffic <- MCTraffic
  MaxHour = 1
  MaxTroubles = 1
SPECIFICATION FairSpec
 
INVARIANT OnlyValidatedModels
INVARIANT ClearedWasTrained
PROPERTY WorkflowsSettle
CHECK_DEADLOCK FALSE
