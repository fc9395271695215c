--------------------------- MODULE MCOrchestrator ---------------------------
EXTENDS Orchestrator

CONSTANTS w1, w2, main, x1, x2

record(txn, label, good) ==
    [txn |-> txn, label |-> label, weight |-> 1, good |-> good, at |-> 0, readable |-> TRUE]

MCFeedback == <<record(x1, "fraud", TRUE), record(x1, "fraud", TRUE)>>
MCBatches == SUBSET DOMAIN MCFeedback
MCSizeOf == [b \in MCBatches |-> IF b = {} THEN 1 ELSE Cardinality({MCFeedback[i].txn : i \in b})]

event(type) == [type |-> type, retrain |-> TRUE]
MCTraffic == {<<event("feedback"), event("feedback")>>, <<event("feedback"), event("drift")>>,
              <<event("drift"), event("feedback")>>}
=============================================================================
