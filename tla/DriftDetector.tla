--------------------------- MODULE DriftDetector ---------------------------
(***************************************************************************)
(* DriftDetector (src/ml/online_learning/drift_detector.py): a window      *)
(* of recent predictions and a history of performance figures, compared    *)
(* with reference data. Two programs drive it: the enhanced fraud detector *)
(* (EnhancedDetector), which never gives it reference data or labels, and  *)
(* the demonstration script, which does.                                   *)
(***************************************************************************)
EXTENDS Integers, Sequences, FiniteSets, SequencesExt

CONSTANTS
  WindowSize,     \* performance_window_size (1000 in the code)
  MinSamples,     \* min_current_samples (500)
  MinTested,      \* the samples a feature test needs (30)
  MinLabelled,    \* the labelled samples a concept drift test needs (50)
  MinHistory,     \* the performance figures needed (10)
  MaxHistory,     \* performance_history's length (1000)
  Degradation     \* performance_threshold, in percent (5)

VARIABLES
  reference,      \* reference_data has been set
  window,         \* current_window: for each sample, whether it has a label
  history,        \* performance_history: the AUC scores, in percent
  lastCheck,      \* last_drift_check: "never", "recent" or "old" (an hour ago)
  found           \* the kinds of drift the last check found

driftVars == <<reference, window, history, lastCheck, found>>

\* The kinds of drift that are the data's to have: what the Population Stability Index,
\* the Kolmogorov-Smirnov, chi-square and proportion tests say is left open.
DriftKinds == {"data", "feature", "concept"}

DriftInit ==
  /\ reference = FALSE /\ window = <<>> /\ history = <<>>
  /\ lastCheck = "never" /\ found = {}

\* A new process begins with nothing again.
DriftReset ==
  /\ reference' = FALSE /\ window' = <<>> /\ history' = <<>>
  /\ lastCheck' = "never" /\ found' = {}

\* set_reference_data: the baseline statistics go to Redis too, an error is logged.
SetReference ==
  /\ reference' = TRUE
  /\ UNCHANGED <<window, history, lastCheck, found>>

\* Appending to a deque that is full drops its oldest element.
Pushed(s, x, max) == IF Len(s) < max THEN Append(s, x) ELSE Append(Tail(s), x)

\* add_prediction_sample: the window has the sample even when Redis refuses it, and
\* the error goes up to the caller.
AddSample(labelled) ==
  /\ window' = Pushed(window, labelled, WindowSize)
  /\ UNCHANGED <<reference, history, lastCheck, found>>

\* add_performance_metrics
AddMetrics(auc) ==
  /\ history' = Pushed(history, auc, MaxHistory)
  /\ UNCHANGED <<reference, window, lastCheck, found>>

\* At least an hour passes.
HourPasses ==
  /\ lastCheck = "recent" /\ lastCheck' = "old"
  /\ UNCHANGED <<reference, window, history, found>>

\* _should_run_drift_check
ShouldRun == Len(window) >= MinSamples /\ lastCheck # "recent"

\* _detect_data_drift: no reference data or an empty window end it.
DataDrift == reference /\ window # <<>>

\* _detect_performance_drift: the first fifth of the history against the last.
PerformanceDrift ==
  LET size == IF Len(history) \div 5 > 2 THEN Len(history) \div 5 ELSE 2
      total(scores) == FoldSeq(LAMBDA x, y : x + y, 0, scores)
  IN /\ Len(history) >= MinHistory
     /\ total(SubSeq(history, 1, size)) - total(SubSeq(history, Len(history) - size + 1, Len(history)))
          > size * Degradation

\* _detect_single_feature_drift: too few samples are no drift.
EnoughToTest == Len(window) >= MinTested

\* _detect_feature_drift: every feature of the reference data in turn.
FeatureDrift == reference /\ EnoughToTest

\* _detect_concept_drift: without reference labels it fails, and finds nothing.
ConceptDrift == reference /\ Cardinality({i \in DOMAIN window : window[i]}) >= MinLabelled

\* What a check finds, when the data of the kinds has drifted.
Detected(drifted) ==
  {k \in drifted : \/ k = "data" /\ DataDrift
                   \/ k = "feature" /\ FeatureDrift
                   \/ k = "concept" /\ ConceptDrift}
  \cup (IF PerformanceDrift THEN {"performance"} ELSE {})

\* _process_drift_alerts: an alert compares a NumPy number with a threshold, so its
\* requires_retraining is a NumPy boolean, which json.dumps refuses. No alert is ever
\* stored, sent to the drift-alerts topic, or the cause of a retraining.
Processed(alerts) == alerts = {}

\* detect_drift: the hour until the next check begins only when everything that was
\* found has been processed; otherwise the check ends with a log line. The caller is
\* told what was found either way.
DetectDrift(force, drifted) ==
  /\ force \/ ShouldRun
  /\ found' = Detected(drifted)
  /\ lastCheck' = IF Processed(Detected(drifted)) THEN "recent" ELSE lastCheck
  /\ UNCHANGED <<reference, window, history>>

\* _demo_drift_detection of the demonstration script: reference data, samples with
\* labels, and one check that does not wait for enough of them.
Demonstrate ==
  \/ ~reference /\ SetReference
  \/ reference /\ Len(window) < WindowSize /\ AddSample(TRUE)
  \/ reference /\ Len(window) = WindowSize /\ lastCheck = "never"
       /\ \E drifted \in SUBSET DriftKinds : DetectDrift(TRUE, drifted)
=============================================================================
