------------------------------- MODULE Scorer -------------------------------
(***************************************************************************)
(* How the fraud detector scores (src/consumers/fraud_detector.py): the     *)
(* model's parts are attributes of the detector, loaded at the start and   *)
(* replaced one by one by the thread that watches the registry. That       *)
(* thread holds a lock which the scoring thread never takes, so a score    *)
(* reads some parts before and some after an assignment. Batches are       *)
(* scored as a matrix, and each score is handed on to extract_features     *)
(* through an attribute, _batch_override_score. What cannot be scored by   *)
(* the model is scored by rules.                                           *)
(*                                                                         *)
(* A part is "file" or "reg" for the model it came with. The registry's    *)
(* deployments are read once, at the start, so there is one such model.    *)
(***************************************************************************)
EXTENDS Integers, Sequences, FiniteSets, SequencesExt, FiniteSetsExt

CONSTANTS
  Signs,        \* Signs[m]: what the rules see in message m
  Unscorable,   \* the messages whose amount is not a number
  BatchSize,    \* messages in a batch
  MaxFailures   \* bound: loads and predictions that fail without a reason of ours

ASSUME ScorerAssumption == Signs \in Seq(SUBSET STRING) /\ BatchSize \in Nat \ {0}

VARIABLES
  parts,        \* ml_model, scaler, model_features, _encoder_lookup, _scaler_mean/_scale
  engine,       \* fast_inference_engine holds the file's model
  modelVersion, \* model_version: "unknown" or "reg"
  modelStatus,  \* model_status
  useModel,     \* use_ml_model
  deployed,     \* what the registry has for production: "nothing", a "dict", a "raw" model
  swap,         \* the next assignment of _unpack_model_data, 0 when none is going on
  experiment,   \* ab_test_manager has an active experiment
  batching,     \* batch_mode
  spc,          \* what the scoring thread does next
  phase,        \* who asked for the score: "single", "matrix", "each" or "post"
  at, first,    \* the message being scored, and the first one of its batch
  target,       \* the model asked: "production" or "variant"
  used,         \* used[m]: the parts that went into the score of message m
  during,       \* a swap was going on at some time since the batch began
  batchScores,  \* fraud_scores
  override,     \* _batch_override_score
  result,       \* result[m]: the score that message m was given
  failures

svars == <<parts, engine, modelVersion, modelStatus, useModel, deployed, swap, experiment, batching,
           spc, phase, at, first, target, used, during, batchScores, override, result, failures>>
modelVars == <<parts, engine, modelVersion, useModel, deployed, swap, experiment, batching>>

Batch(m) == {n \in DOMAIN Signs : first <= n /\ n < first + BatchSize}
NoParts == [model |-> "none", scaler |-> "none", features |-> "none", lookup |-> "none", params |-> "none"]
AllParts(v) == [p \in DOMAIN NoParts |-> v]
NoScore == [of |-> 0, how |-> "none", used |-> {}, during |-> FALSE, value |-> 0]

\* The rules' score, in hundredths: what each sign adds, and at most 100.
Weight(sign) ==
  CASE sign \in {"five_times_average"} -> 30
    [] sign \in {"rapid"} -> 25
    [] sign \in {"three_times_average", "high_amount", "ten_an_hour"} -> 20
    [] sign \in {"unusual_hour", "fifty_a_day"} -> 15
    [] OTHER -> 10
RuleScore(signs) == Min({100, MapThenSumSet(Weight, signs)})

MayBreak(breaks) == failures' = failures + (IF breaks THEN 1 ELSE 0) /\ failures' <= MaxFailures

SInit ==
  /\ parts = NoParts /\ engine = FALSE /\ modelVersion = "unknown" /\ modelStatus = "loading"
  /\ useModel \in BOOLEAN /\ deployed \in {"nothing", "dict", "raw"}
  /\ swap = 0 /\ experiment \in BOOLEAN /\ batching \in BOOLEAN
  /\ spc = "start" /\ phase = "single" /\ at = 1 /\ first = 1 /\ target = "production"
  /\ used = [m \in DOMAIN Signs |-> {}] /\ during = FALSE
  /\ batchScores = [m \in DOMAIN Signs |-> NoScore] /\ override = NoScore
  /\ result = [m \in DOMAIN Signs |-> NoScore] /\ failures = 0

-----------------------------------------------------------------------------
\* Loading a model at the start, and replacing it.

\* Mutant: the lookup tables of the replaced model stay.
UnpackAllButLookup == <<"model", "scaler", "features", "params_cleared", "params">>

\* The order of the assignments of _unpack_model_data, _rebuild_encoder_lookup and
\* _rebuild_scaler_params.
UnpackOrder == <<"model", "scaler", "features", "lookup", "params_cleared", "params">>

\* One assignment of _unpack_model_data. A model that is not in a dict leaves the
\* scaler as it is, and has no features and no encoders.
Assigned(ps, step) ==
  LET v == IF deployed = "dict" THEN "reg" ELSE "none"
  IN CASE step = "model" -> [ps EXCEPT !.model = "reg"]
       [] step = "scaler" -> IF deployed = "dict" THEN [ps EXCEPT !.scaler = v] ELSE ps
       [] step = "features" -> [ps EXCEPT !.features = v]
       [] step = "lookup" -> [ps EXCEPT !.lookup = v]
       [] step = "params_cleared" -> [ps EXCEPT !.params = "none"]
       [] step = "params" -> [ps EXCEPT !.params = ps.scaler]

\* _load_ml_model's first attempt: the registry's production model. It is unpacked before
\* there is another thread, over the None that every part is until then.
LoadFromRegistry ==
  /\ useModel /\ deployed # "nothing"
  /\ parts' = IF deployed = "dict" THEN AllParts("reg") ELSE [NoParts EXCEPT !.model = "reg"]
  /\ modelVersion' = "reg"
  /\ UNCHANGED <<engine, useModel, failures>>

\* The second one: the file, after the inference engine has loaded it. A file that is
\* not there, or fails to load, turns use_ml_model off; the engine stays.
LoadFromFile ==
  /\ useModel
  /\ \E registryFails, missing, fails \in BOOLEAN :
       /\ registryFails = (deployed # "nothing") /\ (missing => ~fails)
       /\ failures' = failures + Cardinality({b \in {1, 2} : (b = 1 /\ registryFails) \/ (b = 2 /\ (missing \/ fails))})
       /\ failures' <= MaxFailures
       /\ engine' \in IF missing THEN {FALSE} ELSE BOOLEAN
       /\ parts' = IF missing THEN parts ELSE [AllParts("file") EXCEPT !.model = IF fails THEN "none" ELSE "file"]
       /\ useModel' = ~(missing \/ fails)
  /\ UNCHANGED modelVersion

\* __init__, to the start of the refresh thread.
StartScorer ==
  /\ spc = "start"
  /\ \/ LoadFromRegistry
     \/ LoadFromFile
     \/ ~useModel /\ UNCHANGED <<parts, engine, modelVersion, useModel, failures>>
  /\ modelStatus' = IF parts'.model # "none" THEN "ml_primary" ELSE "rules_fallback"
  /\ spc' = "idle"
  /\ UNCHANGED <<deployed, swap, experiment, batching, phase, at, first, target, used, during,
                 batchScores, override, result>>

\* _check_and_refresh_model, from the thread of _model_refresh_loop: a version other than
\* the one in use is loaded, and swapped in under the lock.
BeginSwap ==
  /\ spc # "start" /\ swap = 0
  /\ deployed # "nothing" /\ modelVersion # "reg"
  /\ \E fails \in BOOLEAN : MayBreak(fails) /\ swap' = IF fails THEN 0 ELSE 1
  /\ during' = TRUE
  /\ UNCHANGED <<parts, engine, modelVersion, modelStatus, useModel, deployed, experiment, batching,
                 spc, phase, at, first, target, used, batchScores, override, result>>

SwapStep ==
  /\ swap \in DOMAIN UnpackOrder
  /\ parts' = Assigned(parts, UnpackOrder[swap])
  /\ swap' = swap + 1 /\ during' = TRUE
  /\ UNCHANGED <<engine, modelVersion, modelStatus, useModel, deployed, experiment, batching, spc, phase,
                 at, first, target, used, batchScores, override, result, failures>>

SwapVersion ==
  /\ swap = Len(UnpackOrder) + 1
  /\ modelVersion' = "reg" /\ swap' = swap + 1 /\ during' = TRUE
  /\ UNCHANGED <<parts, engine, modelStatus, useModel, deployed, experiment, batching, spc, phase,
                 at, first, target, used, batchScores, override, result, failures>>

EndSwap ==
  /\ swap = Len(UnpackOrder) + 2
  /\ modelStatus' = "ml_primary" /\ swap' = 0 /\ during' = TRUE
  /\ UNCHANGED <<parts, engine, modelVersion, useModel, deployed, experiment, batching, spc, phase,
                 at, first, target, used, batchScores, override, result, failures>>

-----------------------------------------------------------------------------
\* The scoring thread. A score is asked for (spc = "ask"), what it needs of the model is
\* read piece by piece, and the prediction goes back to whoever asked.

\* _process_batch asks for the scores of the whole batch at once, when there is a model;
\* process_transaction goes straight to extract_features.
BeginMessages ==
  /\ spc = "idle" /\ at \in DOMAIN Signs
  /\ first' = at /\ during' = (swap # 0)
  /\ used' = [m \in DOMAIN Signs |-> {}]
  /\ batchScores' = [m \in DOMAIN Signs |-> NoScore]
  /\ phase' = IF ~batching THEN "single" ELSE IF useModel /\ parts.model # "none" THEN "matrix" ELSE "post"
  /\ spc' = IF phase' = "matrix" THEN "v_features" ELSE "extract"
  /\ target' = "production"
  /\ UNCHANGED <<modelVars, modelStatus, at, override, result, failures>>

LastOfBatch == ~batching \/ at + 1 \notin Batch(first)
NextMessage ==
  /\ at' = at + 1
  /\ spc' = IF LastOfBatch THEN "idle" ELSE "extract"

\* Mutant: the override outlives a message that raises.
KeepAfterRaise(raises, placed) == IF raises THEN placed ELSE NoScore

\* The finally clause in _process_batch's loop: the override is no longer there, whether
\* extract_features has raised or not.
AfterExtract(raises, placed) == NoScore

ByRules(m) == [NoScore EXCEPT !.of = m, !.how = "rules", !.value = RuleScore(Signs[m])]
ByModel(m, how, ps) == [NoScore EXCEPT !.of = m, !.how = how, !.used = ps, !.during = during]

\* extract_features has the score.
Conclude(score) ==
  /\ result' = [result EXCEPT ![at] = score]
  /\ override' = AfterExtract(FALSE, override)
  /\ NextMessage

\* One score more for the batch, asked for message by message.
GiveToBatch(score) ==
  /\ batchScores' = [batchScores EXCEPT ![at] = score]
  /\ IF LastOfBatch THEN phase' = "post" /\ spc' = "extract" /\ at' = first
                    ELSE phase' = phase /\ spc' = "ask" /\ at' = at + 1
  /\ UNCHANGED <<override, result>>

\* extract_features. The score of the batch is put in its place first. An amount that is
\* not a number raises, and the message is done with. Without a model, or once it has
\* failed, the rules score. _score_with_ab_testing assigns a variant: none, the control,
\* or a treatment, whose model may not be there.
Extract ==
  /\ spc = "extract"
  /\ LET placed == IF phase = "post" /\ batchScores[at] # NoScore THEN batchScores[at] ELSE override
         byModel == modelStatus = "ml_primary" /\ parts.model # "none"
     IN \/ /\ at \in Unscorable
           /\ override' = AfterExtract(TRUE, placed)
           /\ NextMessage /\ UNCHANGED <<result, target>>
        \/ /\ at \notin Unscorable /\ ~byModel
           /\ Conclude(ByRules(at)) /\ UNCHANGED target
        \/ /\ at \notin Unscorable /\ byModel
           /\ override' = placed
           /\ target' \in IF experiment THEN {"production", "variant"} ELSE {"production"}
           /\ spc' = IF target' = "variant" THEN "v_features" ELSE "ask"
           /\ UNCHANGED <<at, result>>
  /\ UNCHANGED <<modelVars, modelStatus, phase, first, used, during, batchScores, failures>>

\* _calculate_ml_fraud_score: a score that is in place is taken, whatever it is of.
Ask ==
  /\ spc = "ask"
  /\ IF override = NoScore
     THEN /\ spc' = "v_features" /\ used' = [used EXCEPT ![at] = {}]
          /\ UNCHANGED <<at, phase, batchScores, override, result>>
     ELSE /\ IF phase = "each" THEN GiveToBatch(override) ELSE Conclude(override) /\ UNCHANGED <<phase, batchScores>>
          /\ UNCHANGED used
  /\ target' = "production"
  /\ UNCHANGED <<modelVars, modelStatus, first, during, failures>>

Reads(ps) == used' = [used EXCEPT ![at] = @ \cup ps]

\* _extract_ml_features: the names of the V features, the tables of the encoders, the
\* names in the model's order, and the scaling. Without cached parameters the scaler
\* itself is asked; one of another size raises, and the values are left unscaled.
Read ==
  /\ \/ spc = "v_features" /\ Reads({parts.features}) /\ spc' = "lookup" /\ at' = at
     \/ spc = "lookup" /\ Reads({parts.lookup}) /\ spc' = "features" /\ at' = at
     \/ spc = "features" /\ Reads({parts.features}) /\ spc' = "scale" /\ at' = at
     \/ /\ spc = "scale" /\ Reads({IF parts.params = "none" THEN parts.scaler ELSE parts.params})
        /\ IF phase = "matrix" /\ ~LastOfBatch
           THEN spc' = "v_features" /\ at' = at + 1
           ELSE spc' = "predict" /\ at' = at
  /\ UNCHANGED <<modelVars, modelStatus, phase, first, target, during, batchScores, override, result, failures>>

\* The prediction of a model with the values read: no names make an empty vector, which
\* no model takes; values made for one model may not suit another.
Outcomes(ps) ==
  IF "none" \in ps THEN {"raises"}
  ELSE IF Cardinality(ps) > 1 THEN {"raises", "score"} ELSE {"score"}
Predicts(ps, outcome) ==
  \/ outcome \in Outcomes(ps) /\ UNCHANGED failures
  \/ outcome = "raises" /\ outcome \notin Outcomes(ps) /\ MayBreak(TRUE)

\* _calculate_ml_fraud_scores_batch: when it fails, each message is scored by itself.
PredictMatrix ==
  /\ spc = "predict" /\ phase = "matrix"
  /\ LET whole == [m \in Batch(first) |-> used[m] \cup {parts.model}]
     IN \E outcome \in {"raises", "score"} :
          /\ Predicts(UNION {whole[m] : m \in Batch(first)}, outcome)
          /\ IF outcome = "raises"
             THEN phase' = "each" /\ spc' = "ask" /\ UNCHANGED batchScores
             ELSE /\ phase' = "post" /\ spc' = "extract"
                  /\ batchScores' = [m \in DOMAIN Signs |-> IF m \in Batch(first)
                                                            THEN ByModel(m, "model", whole[m]) ELSE NoScore]
  /\ at' = first
  /\ UNCHANGED <<modelVars, modelStatus, first, target, used, during, override, result>>

\* Mutant: no rules after a failed prediction.
DropUnscored(m) == [ByRules(m) EXCEPT !.how = "none"]

\* The rules' score for a message the model has failed on.
Fallback(m) == ByRules(m)

\* _calculate_ml_fraud_score. The inference engine, once loaded, is asked in the model's
\* place, whatever model that is by now. A failure turns to the rules until the next
\* swap; they need an amount, and in a batch nothing catches what they raise.
PredictOne ==
  /\ spc = "predict" /\ phase # "matrix" /\ target = "production"
  /\ LET ps == used[at] \cup {IF engine THEN "file" ELSE parts.model}
     IN \E outcome \in {"raises", "score"} :
          /\ Predicts(ps, outcome)
          /\ modelStatus' = IF outcome = "raises" THEN "rules_fallback" ELSE modelStatus
          /\ LET score == IF outcome = "raises" THEN Fallback(at) ELSE ByModel(at, "model", ps)
             IN IF phase = "each"
                THEN IF outcome = "raises" /\ at \in Unscorable
                     THEN spc' = "dead" /\ UNCHANGED <<at, phase, batchScores, override, result>>
                     ELSE GiveToBatch(score)
                ELSE Conclude(score) /\ UNCHANGED <<phase, batchScores>>
  /\ UNCHANGED <<modelVars, first, target, used, during>>

\* _score_with_model: the variant's model with the production model's features. When it
\* raises, the production model scores.
PredictVariant ==
  /\ spc = "predict" /\ target = "variant"
  /\ \/ Conclude(ByModel(at, "variant", used[at])) /\ UNCHANGED target
     \/ spc' = "ask" /\ target' = "production" /\ UNCHANGED <<at, override, result>>
  /\ UNCHANGED <<modelVars, modelStatus, phase, first, used, during, batchScores, failures>>

\* A bound: the refresh thread runs on after the last message, to no effect on scores.
SNext ==
  /\ at \in DOMAIN Signs
  /\ \/ StartScorer \/ BeginMessages \/ Extract \/ Ask \/ Read
     \/ PredictMatrix \/ PredictOne \/ PredictVariant
     \/ BeginSwap \/ SwapStep \/ SwapVersion \/ EndSwap

-----------------------------------------------------------------------------
\* Properties.

\* In every mode, and after every failure in a batch, the score a message gets is one
\* computed from that message: the attribute through which batches hand scores on never
\* holds another message's (fraud_detector.py:1935-1943, :1214-1217).
ScoreBelongsToMessage == \A m \in DOMAIN Signs : result[m].of \in {0, m}

\* A score that no replacement of the model overlapped is one model's: names, encoders,
\* scaling and prediction are of the same version. The one exception is known: an
\* inference engine that was loaded with the file goes on after the replacement.
WholeModelOutsideSwaps ==
  \A m \in DOMAIN Signs :
    result[m].how = "model" /\ ~result[m].during /\ ~(engine /\ modelVersion = "reg")
      => Cardinality(result[m].used) = 1

\* A model that fails, is replaced at the wrong moment, or is not there at all, never
\* costs a transaction its score: the rules score what the model does not.
EveryAmountIsScored ==
  \A m \in DOMAIN Signs \ Unscorable : m < first => result[m].how # "none"
=============================================================================
