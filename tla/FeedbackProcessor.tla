------------------------- MODULE FeedbackProcessor -------------------------
(***************************************************************************)
(* FeedbackProcessor (src/ml/online_learning/feedback_processor.py): the   *)
(* investigators' feedback on transactions is gathered per transaction in  *)
(* a dictionary, and turned into a training label once there is enough of  *)
(* it.  The orchestrator's worker threads share the one instance and no    *)
(* lock protects its dictionaries: an action is a piece of a method that   *)
(* another thread cannot cut in two.                                       *)
(*                                                                         *)
(* Redis has no part in it: json.dumps does not take the enumerations of a *)
(* record, so that nothing is ever stored.                                 *)
(***************************************************************************)
EXTENDS Integers, Sequences, FiniteSets, SequencesExt, FiniteSetsExt

CONSTANTS
    Workers,          \* the threads of the executor
    Txns,             \* transactions
    Feedback,         \* the fraud-feedback topic
    MinConfirmations, \* min_confirmations
    MaxAge            \* max_feedback_age_hours

\* A record: good is whether it passes the quality checks, weight the product
\* of its confidence, experience and consistency scores, at its timestamp.
\* One that cannot be parsed is not readable.
Record == [txn: Txns, label: {"fraud", "legitimate"}, weight: Nat \ {0}, good: BOOLEAN,
           at: Nat, readable: BOOLEAN]

ASSUME FeedbackAssumption ==
    /\ Feedback \in Seq(Record)
    /\ MinConfirmations \in Nat \ {0} /\ MaxAge \in Nat

VARIABLES
    hour,       \* the time
    collected,  \* how far the feedback-processor group has read the topic
    pending,    \* pending_feedback: lists of records, for the keys it has
    processed,  \* keys of processed_feedback
    fpc,        \* per worker, where it is in the methods below
    hand,       \* the record a worker adds
    keys,       \* the keys its pass has still to look at
    judged,     \* the transaction it has just processed, with the records used
    results     \* processed_batch

feedbackVars == <<hour, collected, pending, processed, fpc, hand, keys, judged, results>>
scanVars == <<keys, judged, results>>

Indices == DOMAIN Feedback
Nobody == [txn |-> CHOOSE x \in Txns : TRUE, recs |-> {}]
Judgement == [txn: Txns, recs: SUBSET Indices]

FeedbackTypeOK ==
    /\ hour \in Nat /\ collected \in 0 .. Len(Feedback)
    /\ DOMAIN pending \subseteq Txns
    /\ \A x \in DOMAIN pending : pending[x] \in Seq(Indices)
    /\ processed \in SUBSET Txns
    /\ fpc \in [Workers -> {"idle", "collect", "add", "create", "append", "scan", "claim",
                            "done", "failed"}]
    /\ hand \in [Workers -> Indices \cup {0}]
    /\ keys \in [Workers -> SUBSET Txns]
    /\ judged \in [Workers -> Judgement] /\ results \in [Workers -> SUBSET Judgement]

FeedbackInit ==
    /\ hour = 0 /\ collected = 0 /\ pending = <<>> /\ processed = {}
    /\ fpc = [w \in Workers |-> "idle"] /\ hand = [w \in Workers |-> 0]
    /\ keys = [w \in Workers |-> {}]
    /\ judged = [w \in Workers |-> Nobody] /\ results = [w \in Workers |-> {}]

-----------------------------------------------------------------------------
GotoF(w, step) == fpc' = [fpc EXCEPT ![w] = step]
TxnInHand(w) == Feedback[hand[w]].txn
With(f, x, v) == [y \in DOMAIN f \cup {x} |-> IF y = x THEN v ELSE f[y]]
Without(f, x) == [y \in DOMAIN f \ {x} |-> f[y]]

(* collect_feedback(timeout=0.1) takes at most one record, and none if the *)
(* fetch has not come in by then, or fails.                                *)
Collect(w, works) ==
    /\ fpc[w] = "collect"
    /\ \/ /\ ~works \/ collected = Len(Feedback)
          /\ GotoF(w, "done")
          /\ UNCHANGED <<collected, hand>>
       \/ /\ works /\ collected < Len(Feedback)
          /\ collected' = collected + 1
          /\ hand' = [hand EXCEPT ![w] = collected + 1]
          /\ GotoF(w, IF Feedback[collected + 1].readable THEN "add" ELSE "done")
    /\ UNCHANGED <<hour, pending, processed, scanVars>>

\* Mutant: every record gets a new list.
NeverPending(x) == FALSE

HasPending(x) == x \in DOMAIN pending

(* add_feedback: "not in" and the assignment of a new list are two steps.  *)
LookForList(w) ==
    /\ fpc[w] = "add"
    /\ GotoF(w, IF HasPending(TxnInHand(w)) THEN "append" ELSE "create")
    /\ UNCHANGED <<hour, collected, pending, processed, hand, scanVars>>

CreateList(w) ==
    /\ fpc[w] = "create"
    /\ pending' = With(pending, TxnInHand(w), <<>>)
    /\ GotoF(w, "append")
    /\ UNCHANGED <<hour, collected, processed, hand, scanVars>>

(* The append; then process_pending_feedback takes its list of keys.  That *)
(* add_feedback returns False, always, is not looked at.                   *)
AppendRecord(w) ==
    /\ fpc[w] = "append"
    /\ pending' = IF TxnInHand(w) \in DOMAIN pending
                    THEN With(pending, TxnInHand(w), Append(pending[TxnInHand(w)], hand[w]))
                    ELSE pending
    /\ keys' = [keys EXCEPT ![w] = DOMAIN pending']
    /\ hand' = [hand EXCEPT ![w] = 0]
    /\ GotoF(w, "scan")
    /\ UNCHANGED <<hour, collected, processed, judged, results>>

(* _should_process_feedback: enough records, or an hour without a new one; *)
(* none of them too old, or they are left for good.                        *)
ShouldProcess(recs) ==
    LET age(i) == hour - Feedback[i].at
    IN  /\ recs # <<>>
        /\ \/ Len(recs) >= MinConfirmations
           \/ \A i \in ToSet(recs) : age(i) >= 1
        /\ \A i \in ToSet(recs) : age(i) <= MaxAge

ValidRecords(recs) == {i \in ToSet(recs) : Feedback[i].good}

(* _resolve_feedback_conflicts: the weight behind a label, of the total.   *)
Votes(recs, label) ==
    MapThenSumSet(LAMBDA i : Feedback[i].weight, {i \in recs : Feedback[i].label = label})

(* The winning label has four fifths of the weight or the transaction      *)
(* stays pending (feedback_validation_threshold = 0.8).                    *)
Agreed(recs) ==
    \E label \in {"fraud", "legitimate"} :
        5 * Votes(recs, label) >= 4 * (Votes(recs, "fraud") + Votes(recs, "legitimate"))

(* One turn of the loop of process_pending_feedback, up to the moment the  *)
(* transaction is moved: the key may be gone (KeyError).                   *)
Judge(w) ==
    /\ fpc[w] = "scan" /\ keys[w] # {}
    /\ \E x \in keys[w] :
          /\ keys' = [keys EXCEPT ![w] = @ \ {x}]
          /\ \/ x \notin DOMAIN pending /\ GotoF(w, "failed") /\ UNCHANGED judged
             \/ /\ x \in DOMAIN pending
                /\ LET valid == ValidRecords(pending[x])
                   IN  IF ShouldProcess(pending[x]) /\ valid # {} /\ Agreed(valid)
                         THEN /\ judged' = [judged EXCEPT ![w] = [txn |-> x, recs |-> valid]]
                              /\ GotoF(w, "claim")
                         ELSE UNCHANGED <<judged, fpc>>
    /\ UNCHANGED <<hour, collected, pending, processed, hand, results>>

(* processed_feedback[x] = ...; del pending_feedback[x], a KeyError when   *)
(* another worker was there first.                                         *)
Claim(w) ==
    /\ fpc[w] = "claim"
    /\ LET x == judged[w].txn
       IN  /\ processed' = processed \cup {x}
           /\ IF x \in DOMAIN pending
                THEN /\ pending' = Without(pending, x)
                     /\ results' = [results EXCEPT ![w] = @ \cup {judged[w]}]
                     /\ GotoF(w, "scan")
                ELSE GotoF(w, "failed") /\ UNCHANGED <<pending, results>>
    /\ judged' = [judged EXCEPT ![w] = Nobody]
    /\ UNCHANGED <<hour, collected, hand, keys>>

EndScan(w) ==
    /\ fpc[w] = "scan" /\ keys[w] = {}
    /\ GotoF(w, "done")
    /\ UNCHANGED <<hour, collected, pending, processed, hand, scanVars>>

FeedbackStep(w, works) ==
    \/ Collect(w, works)
    \/ works /\ (\/ LookForList(w) \/ CreateList(w) \/ AppendRecord(w)
                 \/ Judge(w) \/ Claim(w) \/ EndScan(w))

(* The locals of its methods are gone when the workflow has its results.   *)
EndFeedback(w) ==
    /\ GotoF(w, "idle")
    /\ keys' = [keys EXCEPT ![w] = {}] /\ results' = [results EXCEPT ![w] = {}]
    /\ UNCHANGED <<hour, collected, pending, processed, hand, judged>>

(* The process is started again: nothing of the feedback was stored.       *)
ForgetFeedback ==
    /\ pending' = <<>> /\ processed' = {}
    /\ fpc' = [w \in Workers |-> "idle"] /\ hand' = [w \in Workers |-> 0]
    /\ keys' = [w \in Workers |-> {}]
    /\ judged' = [w \in Workers |-> Nobody] /\ results' = [w \in Workers |-> {}]
    /\ UNCHANGED <<hour, collected>>

\* The transactions a worker is in the middle of.
Handling(w) ==
    CASE fpc[w] \in {"create", "append"} -> {TxnInHand(w)}
      [] fpc[w] \in {"scan", "claim"} -> keys[w] \cup (IF fpc[w] = "claim" THEN {judged[w].txn} ELSE {})
      [] OTHER -> {}
=============================================================================
