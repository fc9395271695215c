------------------------ MODULE IncrementalLearner -------------------------
(***************************************************************************)
(* IncrementalLearner (src/ml/online_learning/incremental_learner.py): a   *)
(* queue of training batches and the updates that train the next model on  *)
(* it.  The orchestrator's main loop and its workers share the one         *)
(* instance; model_state, which is to keep updates apart, is an ordinary   *)
(* attribute that is read in one step and written in another.              *)
(*                                                                         *)
(* A model is a number, 0 being the one loaded at the start.  The update   *)
(* makes a new model object (the boosters, and the retraining of models    *)
(* that cannot be trained further); partial_fit is not modelled, no model  *)
(* of this repository having it.                                           *)
(***************************************************************************)
EXTENDS Integers, Sequences, FiniteSets, SequencesExt, FiniteSetsExt

CONSTANTS
    Updaters,   \* the threads that may update the model
    Batches,    \* training batches
    SizeOf,     \* total_samples of a batch
    MinBatch,   \* min_samples_for_update
    QueueMax,   \* maxlen of training_queue
    MaxModels   \* bound: how many models are trained

ASSUME LearnerAssumption ==
    /\ SizeOf \in [Batches -> Nat \ {0}]
    /\ MinBatch \in Nat /\ QueueMax \in Nat \ {0} /\ MaxModels \in Nat

VARIABLES
    queue,      \* training_queue
    current,    \* current_model
    modelState, \* model_state
    stored,     \* current_fraud_model in Redis
    upc,        \* per thread, where it is in perform_incremental_update
    backup,     \* model_backup
    candidate,  \* new_model
    taken,      \* the batches combined_batch is made of
    models,     \* ghost: how many models have been trained
    validated,  \* ghost: the models that passed the validation
    trainedOn,  \* ghost: the batches some model was trained on
    late,       \* ghost: batches that came while an update was under way
    cleared     \* ghost: batches that left the queue at the end of an update

learnerVars == <<queue, current, modelState, stored, upc, backup, candidate, taken,
                 models, validated, trainedOn, late, cleared>>

Models == 0 .. MaxModels

LearnerTypeOK ==
    /\ queue \in Seq(Batches) /\ Len(queue) <= QueueMax
    /\ current \in Models /\ stored \in Models
    /\ modelState \in {"idle", "training", "validating", "failed"}
    /\ upc \in [Updaters -> {"idle", "begin", "train", "validate", "save", "clear", "done",
                             "refused"}]
    /\ backup \in [Updaters -> Models] /\ candidate \in [Updaters -> Models]
    /\ taken \in [Updaters -> SUBSET Batches]
    /\ models \in Models /\ validated \in SUBSET Models
    /\ {trainedOn, late, cleared} \subseteq SUBSET Batches

LearnerInit ==
    /\ queue = <<>> /\ current = 0 /\ stored = 0 /\ modelState = "idle"
    /\ upc = [t \in Updaters |-> "idle"]
    /\ backup = [t \in Updaters |-> 0] /\ candidate = [t \in Updaters |-> 0]
    /\ taken = [t \in Updaters |-> {}]
    /\ models = 0 /\ validated = {0} /\ trainedOn = {} /\ late = {} /\ cleared = {}

-----------------------------------------------------------------------------
GotoU(t, step) == upc' = [upc EXCEPT ![t] = step]
Updating == \E t \in Updaters : upc[t] \notin {"idle", "begin", "done", "refused"}

QueuedSamples(q) == FoldSeq(LAMBDA b, n : n + SizeOf[b], 0, q)

(* _should_trigger_update, the strategy being CONTINUOUS.                  *)
ShouldTrigger(q) == modelState = "idle" /\ QueuedSamples(q) >= MinBatch

Pushed(q, b) == Append(IF Len(q) = QueueMax THEN Tail(q) ELSE q, b)

(* _combine_training_batches: all that is in the queue.                    *)
Combined(q) == ToSet(q)

(* add_training_batch: the queue drops its oldest batch when it is full.   *)
(* What is stored in Redis of a batch is never read.  The operator is true *)
(* of scheduled when an update message is to be sent.                      *)
AddBatch(b, scheduled) ==
    /\ queue' = Pushed(queue, b)
    /\ late' = IF Updating THEN late \cup {b} ELSE late
    /\ scheduled = ShouldTrigger(queue')
    /\ UNCHANGED <<current, modelState, stored, upc, backup, candidate, taken, models,
                   validated, trainedOn, cleared>>

(* perform_incremental_update asks whether the learner is idle ...         *)
CallUpdate(t, force) ==
    /\ GotoU(t, IF modelState = "idle" /\ (force \/ ShouldTrigger(queue))
                  THEN "begin" ELSE "refused")
    /\ UNCHANGED <<queue, current, modelState, stored, backup, candidate, taken, models,
                   validated, trainedOn, late, cleared>>

(* ... and then says that it is not: the batches are combined and the      *)
(* model backed up.  An empty queue ends the update.                       *)
BeginUpdate(t) ==
    /\ upc[t] = "begin"
    /\ IF queue = <<>>
         THEN modelState' = "idle" /\ GotoU(t, "refused") /\ UNCHANGED <<backup, taken>>
         ELSE /\ modelState' = "training"
              /\ taken' = [taken EXCEPT ![t] = Combined(queue)]
              /\ backup' = [backup EXCEPT ![t] = current]
              /\ GotoU(t, "train")
    /\ UNCHANGED <<queue, current, stored, candidate, models, validated, trainedOn, late,
                   cleared>>

\* Mutant: the queue is cleared when the training has failed.
ClearsAnyway == "clear"

AfterFailedTraining == "refused"

(* _update_model_incrementally: a new model, or None: then the learner has *)
(* FAILED, and nothing makes it idle again.                                *)
Train(t, works) ==
    /\ upc[t] = "train"
    /\ \/ /\ works /\ models < MaxModels
          /\ models' = models + 1
          /\ candidate' = [candidate EXCEPT ![t] = models + 1]
          /\ trainedOn' = trainedOn \cup taken[t]
          /\ modelState' = "validating"
          /\ GotoU(t, "validate")
       \/ /\ ~works
          /\ modelState' = "failed" /\ GotoU(t, AfterFailedTraining)
          /\ UNCHANGED <<models, candidate, trainedOn>>
    /\ UNCHANGED <<queue, current, stored, backup, taken, validated, late, cleared>>

\* Mutant: the model is replaced whatever the validation says.
InstallsAlways(t, passed) == current' = candidate[t]

Install(t, passed) == current' = IF passed THEN candidate[t] ELSE backup[t]

(* _validate_updated_model.  Either way the learner is idle after it, with *)
(* the saving of the model and the clearing of the queue still to come.    *)
Validate(t) ==
    /\ upc[t] = "validate"
    /\ \E passed \in BOOLEAN :
          /\ Install(t, passed)
          /\ validated' = IF passed THEN validated \cup {candidate[t]} ELSE validated
          /\ GotoU(t, IF passed THEN "save" ELSE "refused")
    /\ modelState' = "idle"
    /\ UNCHANGED <<queue, stored, backup, candidate, taken, models, trainedOn, late, cleared>>

(* _save_updated_model saves current_model; its errors are logged.         *)
SaveModel(t, works) ==
    /\ upc[t] = "save"
    /\ stored' = IF works THEN current ELSE stored
    /\ GotoU(t, "clear")
    /\ UNCHANGED <<queue, current, modelState, backup, candidate, taken, models, validated,
                   trainedOn, late, cleared>>

ClearQueue(t) ==
    /\ upc[t] = "clear"
    /\ cleared' = cleared \cup ToSet(queue)
    /\ queue' = <<>>
    /\ GotoU(t, "done")
    /\ UNCHANGED <<current, modelState, stored, backup, candidate, taken, models, validated,
                   trainedOn, late>>

UpdateStep(t, works) ==
    \/ Train(t, works) \/ SaveModel(t, works)
    \/ works /\ (BeginUpdate(t) \/ Validate(t) \/ ClearQueue(t))

(* Its locals are gone when it returns.                                    *)
EndUpdate(t) ==
    /\ GotoU(t, "idle")
    /\ backup' = [backup EXCEPT ![t] = 0] /\ candidate' = [candidate EXCEPT ![t] = 0]
    /\ taken' = [taken EXCEPT ![t] = {}]
    /\ UNCHANGED <<queue, current, modelState, stored, models, validated, trainedOn, late,
                   cleared>>

(* The process is started again: the model is the stored one.              *)
ReloadLearner ==
    /\ queue' = <<>> /\ current' = stored /\ modelState' = "idle"
    /\ upc' = [t \in Updaters |-> "idle"]
    /\ backup' = [t \in Updaters |-> 0] /\ candidate' = [t \in Updaters |-> 0]
    /\ taken' = [t \in Updaters |-> {}]
    /\ UNCHANGED <<stored, models, validated, trainedOn, late, cleared>>

-----------------------------------------------------------------------------
(* However updates overlap, fail and are rolled back, the model in use and *)
(* the model in Redis have passed the validation, or are the first one.    *)
OnlyValidatedModels == current \in validated /\ stored \in validated

(* The queue is cleared at the end of an update, whatever it holds then.   *)
(* A batch that goes without any model trained on it had come while an     *)
(* update was under way.                                                   *)
ClearedWasTrained == cleared \subseteq trainedOn \cup late
=============================================================================
