------------------------------ MODULE Training ------------------------------
(***************************************************************************)
(* The training pipeline of src/ml/training/core: PipelineOrchestrator     *)
(* takes a pipeline through its stages and stores its state in a file,     *)
(* DataProcessor caches the dataset, HyperparameterOptimizer runs the      *)
(* trials of an Optuna study, CheckpointManager stores the model of every  *)
(* trial, and the best one is packaged for production and registered.      *)
(*                                                                         *)
(* Several processes may train at the same time.  They share the           *)
(* directories and the study database; the locks of the classes are        *)
(* threading locks, and hold nobody back in another process.               *)
(***************************************************************************)
EXTENDS Integers, Sequences

CONSTANTS
  Processes,    \* the processes that run a TrainingPipeline
  Datasets,     \* what preprocessing the same files may select (mutual information is estimated at random)
  Scores,       \* the cross-validation scores a trial may have
  Threshold,    \* the least score that is deployed
  NTrials,      \* n_trials of one call of optimize
  Patience,     \* convergence_patience
  MaxAttempts,  \* max_recovery_attempts
  MaxSecond,    \* bound: the clock stops there
  MaxCalls,     \* bound on the calls of run and resume_from_failure together
  MaxTroubles,  \* bound on the failing calls and kills together
  None,         \* Python's None, and a file that is not there
  Torn          \* a file opened for writing and not yet written

ASSUME TrainingAssumption ==
  /\ Scores \subseteq Nat \ {0} /\ Threshold \in Nat
  /\ NTrials \in Nat \ {0} /\ Patience \in Nat \ {0} /\ MaxAttempts \in Nat
  /\ MaxSecond \in Nat /\ MaxCalls \in Nat /\ MaxTroubles \in Nat
  /\ {None, Torn} \cap Datasets = {}

VARIABLES
  clock,       \* the second it is: pipelines are named after the second they start
  file,        \* file[q]: the stored state of pipeline q and its recovery attempts
  study,       \* study[q]: the trials of q in the database
  models,      \* checkpoints/: the checkpoints whose model is stored
  listed,      \* metadata/: the checkpoints whose metadata is stored
  cache,       \* the cached dataset: its data and its metadata, two files
  production,  \* models/ieee_fraud_model_production.pkl
  registered,  \* the packages in the model registry
  proc,        \* proc[p]: what process p holds in memory, and where it is
  killed,      \* the pipelines some process was killed in
  calls,       \* calls of run and resume_from_failure so far
  troubles     \* failing calls and kills so far

vars == <<clock, file, study, models, listed, cache, production, registered, proc, killed, calls, troubles>>
stores == <<study, models, listed, cache, production, registered>>

Pipelines == 0 .. MaxSecond

(***************************************************************************)
(* PipelineStateMachine.                                                   *)
(***************************************************************************)
States == {"initialized", "data_loading", "data_loaded", "optimization_starting", "optimization_running",
           "optimization_completed", "model_validation", "model_validated", "production_deployment",
           "completed", "failed", "recovering"}

\* Mutant: a failing deployment was forgotten.
FailsBeforeDeployment == States \ {"initialized", "model_validated", "completed", "failed"}
MayFail == States \ {"initialized", "completed", "failed"}

ValidTransitions ==
  [s \in States |->
     (IF s \in MayFail THEN {"failed"} ELSE {}) \union
     (CASE s = "initialized"            -> {"data_loading", "recovering"}
        [] s = "data_loading"           -> {"data_loaded"}
        [] s = "data_loaded"            -> {"optimization_starting"}
        [] s = "optimization_starting"  -> {"optimization_running"}
        [] s = "optimization_running"   -> {"optimization_completed"}
        [] s = "optimization_completed" -> {"model_validation"}
        [] s = "model_validation"       -> {"model_validated"}
        [] s = "model_validated"        -> {"production_deployment"}
        [] s = "production_deployment"  -> {"completed"}
        [] s = "failed"                 -> {"recovering"}
        [] s = "recovering"             -> {"data_loading", "optimization_starting", "model_validation"}
        [] OTHER                        -> {})]

\* A process between two calls of its pipeline: only the checkpoint manager's best is kept.
Idle(best) ==
  [pc |-> "idle", pipeline |-> None, outer |-> None, attempts |-> 0, data |-> None, done |-> 0,
   top |-> 0, since |-> 0, trial |-> None, best |-> best, chosen |-> None]

Init ==
  /\ clock = 0
  /\ file = [q \in Pipelines |-> None]
  /\ study = [q \in Pipelines |-> << >>]
  /\ models = {} /\ listed = {}
  /\ cache = [data |-> None, meta |-> None]
  /\ production = None
  /\ registered = {}
  /\ proc = [p \in Processes |-> Idle(None)]
  /\ killed = {}
  /\ calls = 0
  /\ troubles = 0

Trouble == troubles < MaxTroubles /\ troubles' = troubles + 1

\* The states a context goes through are stored one after the other in place:
\* what matters is the last one.
Store(p, state) == file' = [file EXCEPT ![proc[p].pipeline] = [state |-> state, attempts |-> proc[p].attempts]]

\* An exception reaches execute_pipeline or resume_pipeline, whose own context
\* is the one from before the stage that failed.
Fail(p) ==
  /\ IF "failed" \in ValidTransitions[proc[p].outer] THEN Store(p, "failed") ELSE UNCHANGED file
  /\ proc' = [proc EXCEPT ![p] = Idle(@.best)]

Goes(p, changes) ==
  proc' = [proc EXCEPT ![p] = [f \in DOMAIN @ |-> IF f \in DOMAIN changes THEN changes[f] ELSE @[f]]]
(***************************************************************************)
(* execute_pipeline and resume_pipeline, up to the first stage.            *)
(***************************************************************************)
\* Loading the data takes more than a second: two pipelines have the same name
\* only when they are called together.
Execute(p) ==
  /\ file[clock] \in {None, [state |-> "data_loading", attempts |-> 0]}
  /\ proc[p].pc = "idle" /\ calls < MaxCalls /\ calls' = calls + 1
  /\ proc' = [proc EXCEPT ![p] = [Idle(@.best) EXCEPT !.pc = "load", !.pipeline = clock, !.outer = "initialized"]]
  /\ file' = [file EXCEPT ![clock] = [state |-> "data_loading", attempts |-> 0]]
  /\ UNCHANGED <<clock, stores, killed, troubles>>

\* The context is loaded without its dataset, result and checkpoint, so that
\* every stage runs again.
Resume(p, q) ==
  /\ proc[p].pc = "idle" /\ calls < MaxCalls /\ calls' = calls + 1
  /\ file[q] # None
  /\ file[q].attempts < MaxAttempts
  /\ "recovering" \in ValidTransitions[file[q].state]
  /\ LET attempts == file[q].attempts + 1 IN
       /\ proc' = [proc EXCEPT ![p] = [Idle(@.best) EXCEPT !.pc = "load", !.pipeline = q,
                                         !.outer = "recovering", !.attempts = attempts]]
       /\ file' = [file EXCEPT ![q] = [state |-> "data_loading", attempts |-> attempts]]
  /\ UNCHANGED <<clock, stores, killed, troubles>>
(***************************************************************************)
(* The data: from the cache when both files can be read and agree in shape *)
(* and fraud rate, which two selections from the same files do.            *)
(***************************************************************************)
Cached == {cache.data, cache.meta} \cap {None, Torn} = {}

DataLoaded(p, dataset) ==
  /\ Goes(p, [pc |-> "study", data |-> dataset, outer |-> "data_loaded"])
  /\ Store(p, "optimization_starting")

LoadFromCache(p) ==
  /\ proc[p].pc = "load" /\ Cached
  /\ DataLoaded(p, [columns |-> cache.data, names |-> cache.meta])
  /\ UNCHANGED <<clock, stores, killed, calls, troubles>>

Preprocess(p, d) ==
  /\ proc[p].pc = "load" /\ ~Cached
  /\ Goes(p, [pc |-> "cache_data", data |-> [columns |-> d, names |-> d]])
  /\ cache' = [cache EXCEPT !.data = Torn]
  /\ UNCHANGED <<clock, file, study, models, listed, production, registered, killed, calls, troubles>>

CacheData(p) ==
  /\ proc[p].pc = "cache_data"
  /\ cache' = [cache EXCEPT !.data = proc[p].data.columns]
  /\ Goes(p, [pc |-> "cache_meta"])
  /\ UNCHANGED <<clock, file, study, models, listed, production, registered, killed, calls, troubles>>

CacheMeta(p) ==
  /\ proc[p].pc = "cache_meta"
  /\ cache' = [cache EXCEPT !.meta = proc[p].data.names]
  /\ DataLoaded(p, proc[p].data)
  /\ UNCHANGED <<clock, study, models, listed, production, registered, killed, calls, troubles>>

DataFails(p) ==
  /\ proc[p].pc \in {"load", "cache_data", "cache_meta"}
  /\ Trouble /\ Fail(p)
  /\ UNCHANGED <<clock, stores, killed, calls>>
(***************************************************************************)
(* The study.  Its trials are in the database; the handle of a process     *)
(* knows the best score and the trials since then.                         *)
(***************************************************************************)
Complete(q) == {i \in DOMAIN study[q] : study[q][i].state = "complete"}
TopScore(q) == IF Complete(q) = {} THEN 0 ELSE CHOOSE s \in {study[q][i].score : i \in Complete(q)} :
                                             \A i \in Complete(q) : study[q][i].score <= s

\* create_study: it loads what there is, and study.best_trial raises without a complete trial.
CreateStudy(p) ==
  LET q == proc[p].pipeline IN
  /\ proc[p].pc = "study"
  /\ IF study[q] # << >> /\ Complete(q) = {} THEN Fail(p)
     ELSE LET best == {i \in Complete(q) : study[q][i].score = TopScore(q)}
              since == IF best = {} THEN 0 ELSE Len(study[q]) - (CHOOSE i \in best : \A j \in best : i <= j)
          IN /\ Store(p, "optimization_running")
             /\ Goes(p, [pc |-> "trial", done |-> 0, top |-> TopScore(q), since |-> since])
  /\ UNCHANGED <<clock, stores, killed, calls, troubles>>

BeginTrial(p) ==
  LET q == proc[p].pipeline IN
  /\ proc[p].pc = "trial" /\ proc[p].done < NTrials
  /\ study' = [study EXCEPT ![q] = Append(@, [state |-> "running", score |-> 0])]
  /\ Goes(p, [pc |-> "train", trial |-> Len(study[q]) + 1])
  /\ UNCHANGED <<clock, file, models, listed, cache, production, registered, killed, calls, troubles>>

\* The checkpoint of the trial a process is at.  Its identifier is a hash of
\* the trial's number and score and of the time.
Checkpoint(p, score) ==
  [pipeline |-> proc[p].pipeline, trial |-> proc[p].trial, score |-> score, columns |-> proc[p].data.columns]

Tell(p, trial) == study' = [study EXCEPT ![proc[p].pipeline][proc[p].trial] = trial]

\* Training, or one of the two moves of save_atomic, fails: the trial is pruned.
\* Mutant: a failed trial returns a sentinel.
ScoredAllTheSame == [state |-> "complete", score |-> 0]
FailedTrial == [state |-> "pruned", score |-> 0]

TrialFails(p) ==
  /\ proc[p].pc \in {"train", "save_model", "save_metadata"}
  /\ Trouble
  /\ Tell(p, FailedTrial)
  /\ Goes(p, [pc |-> "trial", done |-> proc[p].done + 1, chosen |-> None])
  /\ UNCHANGED <<clock, file, models, listed, cache, production, registered, killed, calls>>

Train(p, score) ==
  /\ proc[p].pc = "train"
  /\ Goes(p, [pc |-> "save_model", chosen |-> Checkpoint(p, score)])
  /\ UNCHANGED <<clock, file, stores, killed, calls, troubles>>
\* save_atomic moves the model into place, then the metadata.
\* Mutant: the other way round.
MetadataFirst(nth, c) ==
  IF nth = 2 THEN models' = models \union {c} /\ UNCHANGED listed
             ELSE listed' = listed \union {c} /\ UNCHANGED models

MoveFile(nth, c) ==
  IF nth = 1 THEN models' = models \union {c} /\ UNCHANGED listed
             ELSE listed' = listed \union {c} /\ UNCHANGED models

SaveModel(p) ==
  /\ proc[p].pc = "save_model"
  /\ MoveFile(1, proc[p].chosen)
  /\ Goes(p, [pc |-> "save_metadata"])
  /\ UNCHANGED <<clock, file, study, cache, production, registered, killed, calls, troubles>>

SaveMetadata(p) ==
  LET c == proc[p].chosen IN
  /\ proc[p].pc = "save_metadata"
  /\ MoveFile(2, c)
  /\ Goes(p, [pc |-> "tell", best |-> IF proc[p].best = None \/ c.score > proc[p].best.score THEN c ELSE proc[p].best])
  /\ UNCHANGED <<clock, file, study, cache, production, registered, killed, calls, troubles>>

\* The study records the trial, then the callback counts it and may stop the search.
TellComplete(p) ==
  LET score == proc[p].chosen.score
      since == IF score > proc[p].top THEN 0 ELSE proc[p].since + 1
  IN
  /\ proc[p].pc = "tell"
  /\ Tell(p, [state |-> "complete", score |-> score])
  /\ Goes(p, [pc |-> IF since >= Patience THEN "search_over" ELSE "trial", done |-> proc[p].done + 1,
              chosen |-> None, since |-> since, top |-> IF score > proc[p].top THEN score ELSE proc[p].top])
  /\ UNCHANGED <<clock, file, models, listed, cache, production, registered, killed, calls, troubles>>
\* load_checkpoint wants both files.
Loadable == listed \intersect models

\* load_best_checkpoint: the best this process saved, whatever the pipeline; a
\* process that saved none takes the best of the directory.
BestCheckpoints(p) ==
  Loadable \intersect (IF proc[p].best # None THEN {proc[p].best}
                       ELSE {c \in listed : \A d \in listed : d.score <= c.score})

\* All trials are done, the search has converged, or its time is over.
EndSearch(p) ==
  /\ \/ proc[p].pc = "search_over"
     \/ proc[p].pc = "trial" /\ proc[p].done > 0
  /\ IF BestCheckpoints(p) = {} THEN Fail(p)
     ELSE Goes(p, [pc |-> "validate", outer |-> "optimization_completed"]) /\ Store(p, "model_validation")
  /\ UNCHANGED <<clock, stores, killed, calls, troubles>>
(***************************************************************************)
(* Validation and deployment.                                              *)
(***************************************************************************)
Deployable(c) == c.score >= Threshold

Validate(p) ==
  /\ proc[p].pc = "validate"
  /\ IF \E c \in BestCheckpoints(p) : Deployable(c)
     THEN /\ \E c \in BestCheckpoints(p) : Goes(p, [pc |-> "deploy", outer |-> "model_validated", chosen |-> c])
          /\ Store(p, "production_deployment")
     ELSE Fail(p)
  /\ UNCHANGED <<clock, stores, killed, calls, troubles>>

\* The production package is pickled in place.
Package(p) == [checkpoint |-> proc[p].chosen, names |-> proc[p].data.names, pipeline |-> proc[p].pipeline]

OpenProduction(p) ==
  /\ proc[p].pc = "deploy"
  /\ production' = Torn
  /\ Goes(p, [pc |-> "dump"])
  /\ UNCHANGED <<clock, file, study, models, listed, cache, registered, killed, calls, troubles>>

DumpProduction(p) ==
  /\ proc[p].pc = "dump"
  /\ production' = Package(p)
  /\ Goes(p, [pc |-> "register"])
  /\ UNCHANGED <<clock, file, study, models, listed, cache, registered, killed, calls, troubles>>

\* Whatever else raises: the study database, the file of the search's results,
\* a checkpoint that cannot be read, the production file.
StageFails(p) ==
  /\ proc[p].pc \in {"study", "trial", "tell", "search_over", "validate", "deploy", "dump"}
  /\ Trouble /\ Fail(p)
  /\ UNCHANGED <<clock, stores, killed, calls>>

\* A failing registration is a warning.
Register(p) ==
  /\ proc[p].pc = "register"
  /\ \/ registered' = registered \union {Package(p)} /\ UNCHANGED troubles
     \/ Trouble /\ UNCHANGED registered
  /\ Goes(p, [pc |-> "complete"])
  /\ UNCHANGED <<clock, file, study, models, listed, cache, production, killed, calls>>

\* The results are written after the state: when that fails, a completed
\* pipeline raises, and cannot be marked as failed.
CompletePipeline(p) ==
  /\ proc[p].pc = "complete"
  /\ Store(p, "completed")
  /\ proc' = [proc EXCEPT ![p] = Idle(@.best)]
  /\ UNCHANGED <<clock, stores, killed, calls, troubles>>
(***************************************************************************)
(* The environment.                                                        *)
(***************************************************************************)
Kill(p) ==
  /\ proc[p].pc # "idle"
  /\ Trouble
  /\ proc' = [proc EXCEPT ![p] = Idle(None)]
  /\ killed' = killed \union {proc[p].pipeline}
  /\ UNCHANGED <<clock, file, stores, calls>>

\* A process ends after its pipeline; the next one starts with nothing in memory.
Exit(p) ==
  /\ proc[p].pc = "idle" /\ proc[p].best # None
  /\ proc' = [proc EXCEPT ![p] = Idle(None)]
  /\ UNCHANGED <<clock, file, stores, killed, calls, troubles>>

Tick ==
  /\ clock < MaxSecond
  /\ clock' = clock + 1
  /\ UNCHANGED <<file, stores, proc, killed, calls, troubles>>

Next ==
  \/ \E p \in Processes :
       \/ Execute(p)
       \/ \E q \in Pipelines : Resume(p, q)
       \/ LoadFromCache(p) \/ CacheData(p) \/ CacheMeta(p) \/ DataFails(p)
       \/ \E d \in Datasets : Preprocess(p, d)
       \/ CreateStudy(p) \/ BeginTrial(p) \/ TrialFails(p)
       \/ \E s \in Scores : Train(p, s)
       \/ SaveModel(p) \/ SaveMetadata(p) \/ TellComplete(p) \/ EndSearch(p)
       \/ Validate(p) \/ OpenProduction(p) \/ DumpProduction(p) \/ StageFails(p)
       \/ Register(p) \/ CompletePipeline(p)
       \/ Kill(p) \/ Exit(p)
  \/ Tick

Spec == Init /\ [][Next]_vars
-----------------------------------------------------------------------------
(***************************************************************************)
(* Properties.                                                             *)
(***************************************************************************)
\* A checkpoint that list_checkpoints returns has its model: whatever is
\* killed, fails or saves at the same time, load_checkpoint finds both files
\* (the order of the two moves in save_atomic).
CheckpointsLoad == listed \subseteq models

\* Every trial the study counts as complete has its model stored: a crash in
\* the middle of a search throws no completed trial away (objective's
\* "immediate persistence", before the score is returned).
CompletedTrialsKept ==
  \A q \in Pipelines : \A i \in Complete(q) :
    \E c \in Loadable : c.pipeline = q /\ c.trial = i /\ c.score = study[q][i].score

\* A pipeline nobody works on is completed or failed, so that it can be resumed,
\* unless a process was killed in it or its first attempt to load data failed
\* (VALID_TRANSITIONS has a way to FAILED from wherever a stage may raise).
StoppedCanResume ==
  \A q \in Pipelines :
    \/ file[q] = None
    \/ file[q].state \in {"completed", "failed"}
    \/ \E p \in Processes : proc[p].pipeline = q
    \/ q \in killed
    \/ file[q] = [state |-> "data_loading", attempts |-> 0]
=============================================================================
