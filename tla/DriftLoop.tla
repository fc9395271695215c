----------------------------- MODULE DriftLoop -----------------------------
(***************************************************************************)
(* From the detectors' fraud scores to retraining jobs: the drift monitor  *)
(* inside every fraud detector (src/ml/online_learning/                    *)
(* live_drift_monitor.py), the model-drift-alerts topic, and the           *)
(* retraining trigger (retraining_trigger.py).  The monitors share one     *)
(* baseline and the triggers one saved state, both in Redis; each process  *)
(* works on the copy it loaded when it started.                            *)
(*                                                                         *)
(* The alert topic has one partition here: its messages are keyed by time, *)
(* so that the order of partitions means nothing.                          *)
(***************************************************************************)
EXTENDS Integers, Sequences, FiniteSets, SequencesExt

CONSTANTS
    Monitors,    \* the fraud detectors, each with its drift monitor
    Triggers,    \* the processes of retraining-trigger-group
    Interval,    \* check_interval
    MinScores,   \* below this many scores no check is made (50)
    MinSamples,  \* min_labeled_samples
    Cooldown,    \* cooldown_hours, in units of the clock
    MaxErrors,   \* max_consecutive_errors
    None,        \* no baseline, no member holds the partition
    MaxScores,   \* bound: how many scores there are
    MaxTime,     \* bound: how far the clock goes
    MaxTroubles  \* bound: how often a process stops or is killed, or a call fails

ASSUME DriftAssumption ==
    /\ Interval \in Nat \ {0} /\ MinScores \in 1 .. 2 * Interval
    /\ MinSamples \in Nat /\ Cooldown \in Nat /\ MaxErrors \in Nat \ {0}
    /\ None \notin Triggers
    /\ MaxScores \in Nat /\ MaxTime \in Nat /\ MaxTroubles \in Nat

VARIABLES
    population,   \* what the scores of the day look like
    scores,       \* how many scores there have been
    watching,     \* whether the monitor's process runs
    monitorRedis, \* _redis_available of a monitor
    window,       \* _score_buffer
    sinceCheck,   \* _scores_since_last_check
    baseline,     \* _baseline_distribution
    storedBaseline, \* drift_monitor:baseline
    alertQueue,   \* alerts a monitor's producer has not delivered
    alertTopic,   \* model-drift-alerts: the severity of each alert
    uninformed    \* ghost: monitors that found no baseline when they started

monitorVars == <<population, scores, watching, monitorRedis, window, sinceCheck,
                 baseline, storedBaseline, alertQueue, uninformed>>

VARIABLES
    tpc,          \* what a trigger is about to do
    triggerRedis, \* _redis_available of a trigger
    lastRetrain,  \* _last_retrain_time
    savedRetrain, \* last_retrain_time of retrain_trigger:state
    errors,       \* consecutive_errors
    holder,       \* the trigger the partition is assigned to
    next,         \* the holder's position
    committed,    \* the group's offset
    jobQueue,     \* jobs a trigger's producer has not delivered
    jobTopic,     \* model-retraining-jobs: the jobs, by their number
    clock

triggerVars == <<tpc, triggerRedis, lastRetrain, savedRetrain, errors, holder, next,
                 committed, jobQueue, jobTopic>>

VARIABLES
    troubles,     \* ghost: how many stops, kills and failing calls there were
    jobs,         \* ghost: when each job was scheduled
    considered,   \* ghost: the alerts whose guards were evaluated
    excusedAlerts,\* ghost: alerts a reset to the end or a kill passed over
    lostJobs,     \* ghost: jobs that went with their process
    unaware,      \* ghost: triggers that had no way to know the latest job
    saveLags      \* ghost: the latest job has not been saved

loopGhosts == <<troubles, jobs, considered, excusedAlerts, lostJobs, unaware, saveLags>>
loopVars == <<monitorVars, alertTopic, triggerVars, clock, loopGhosts>>

Scores == {"usual", "shifted"}
Severities == {"medium", "high", "critical"}
Never == -1
NoOffset == -1

\* How many of a window's scores are shifted, and how many scores it has.
Share == {s \in [shifted: 0 .. 2 * Interval, of: 1 .. 2 * Interval] : s.shifted <= s.of}

LoopTypeOK ==
    /\ population \in Scores /\ scores \in 0 .. MaxScores
    /\ watching \in [Monitors -> BOOLEAN] /\ monitorRedis \in [Monitors -> BOOLEAN]
    /\ \A m \in Monitors : window[m] \in Seq(Scores) /\ Len(window[m]) <= 2 * Interval
    /\ sinceCheck \in [Monitors -> 0 .. Interval - 1]
    /\ baseline \in [Monitors -> Share \cup {None}] /\ storedBaseline \in Share \cup {None}
    /\ alertQueue \in [Monitors -> Seq(Severities)] /\ alertTopic \in Seq(Severities)
    /\ uninformed \in SUBSET Monitors
    /\ tpc \in [Triggers -> {"down", "poll", "handle", "save"}]
    /\ triggerRedis \in [Triggers -> BOOLEAN]
    /\ lastRetrain \in [Triggers -> Nat \cup {Never}] /\ savedRetrain \in Nat \cup {Never}
    /\ errors \in [Triggers -> 0 .. MaxErrors - 1]
    /\ holder \in Triggers \cup {None}
    /\ next \in 0 .. Len(alertTopic) /\ committed \in (0 .. next) \cup {NoOffset}
    /\ \A t \in Triggers : jobQueue[t] \subseteq DOMAIN jobs
    /\ jobTopic \subseteq DOMAIN jobs /\ lostJobs \subseteq DOMAIN jobs
    /\ clock \in 0 .. MaxTime /\ troubles \in 0 .. MaxTroubles /\ jobs \in Seq(Nat)
    /\ considered \subseteq DOMAIN alertTopic /\ excusedAlerts \subseteq DOMAIN alertTopic
    /\ unaware \in SUBSET Triggers /\ saveLags \in BOOLEAN

LoopInit ==
    /\ population = "usual" /\ scores = 0
    /\ watching = [m \in Monitors |-> FALSE] /\ monitorRedis = [m \in Monitors |-> FALSE]
    /\ window = [m \in Monitors |-> <<>>] /\ sinceCheck = [m \in Monitors |-> 0]
    /\ baseline = [m \in Monitors |-> None] /\ storedBaseline = None
    /\ alertQueue = [m \in Monitors |-> <<>>] /\ alertTopic = <<>> /\ uninformed = {}
    /\ tpc = [t \in Triggers |-> "down"] /\ triggerRedis = [t \in Triggers |-> FALSE]
    /\ lastRetrain = [t \in Triggers |-> Never] /\ savedRetrain = Never
    /\ errors = [t \in Triggers |-> 0]
    /\ holder = None /\ next = 0 /\ committed = NoOffset
    /\ jobQueue = [t \in Triggers |-> {}] /\ jobTopic = {}
    /\ clock = 0 /\ troubles = 0 /\ jobs = <<>>
    /\ considered = {} /\ excusedAlerts = {} /\ lostJobs = {} /\ unaware = {}
    /\ saveLags = FALSE

\* An external call that works, and one that does not.
CallWorks == UNCHANGED troubles
Trouble == troubles < MaxTroubles /\ troubles' = troubles + 1

-----------------------------------------------------------------------------
(* The drift monitor of m.                                                 *)

(* A detector starts.  Redis may not answer the ping, or not the GET that  *)
(* follows: in both cases the monitor goes on without a baseline, and only *)
(* in the first it will not write one either.                              *)
StartMonitor(m) ==
    /\ ~watching[m]
    /\ watching' = [watching EXCEPT ![m] = TRUE]
    /\ \/ /\ CallWorks
          /\ monitorRedis' = [monitorRedis EXCEPT ![m] = TRUE]
          /\ baseline' = [baseline EXCEPT ![m] = storedBaseline]
       \/ /\ Trouble
          /\ \E up \in BOOLEAN : monitorRedis' = [monitorRedis EXCEPT ![m] = up]
          /\ baseline' = [baseline EXCEPT ![m] = None]
    /\ window' = [window EXCEPT ![m] = <<>>]
    /\ sinceCheck' = [sinceCheck EXCEPT ![m] = 0]
    /\ uninformed' = IF baseline'[m] = None THEN uninformed \cup {m} ELSE uninformed \ {m}
    /\ UNCHANGED <<population, scores, storedBaseline, alertQueue, alertTopic,
                   triggerVars, clock, jobs, considered, excusedAlerts, lostJobs,
                   unaware, saveLags>>

ShareOf(w) == [shifted |-> Len(SelectSeq(w, LAMBDA s : s = "shifted")), of |-> Len(w)]

(* What the population stability index of two windows can come to, as the  *)
(* severity of its alert, None being an index below the threshold.  It is  *)
(* 0 for equal shares, and far above 0.5 where the two have no score in    *)
(* common: each share is then compared with 1e-8.                          *)
DriftLevels(b, w) ==
    LET allUsual(s) == s.shifted = 0
        allShifted(s) == s.shifted = s.of
    IN  IF b.shifted * w.of = w.shifted * b.of THEN {None}
        ELSE IF \/ allUsual(b) /\ allShifted(w)
                \/ allShifted(b) /\ allUsual(w) THEN {"critical"}
        ELSE Severities \cup {None}

\* Mutant: every check calibrates anew.
AlwaysCalibrates(m) == TRUE

(* A monitor without a baseline takes the window for one.                  *)
Calibrates(m) == baseline[m] = None

(* _calibrate_baseline, with the SET that stores the result.               *)
Calibrate(m, share) ==
    /\ baseline' = [baseline EXCEPT ![m] = share]
    /\ \/ CallWorks /\ storedBaseline' = IF monitorRedis[m] THEN share ELSE storedBaseline
       \/ monitorRedis[m] /\ Trouble /\ UNCHANGED storedBaseline
    /\ UNCHANGED alertQueue

(* _run_drift_check on the window w.                                       *)
DriftCheck(m, w) ==
    \/ Len(w) < MinScores /\ CallWorks /\ UNCHANGED <<baseline, storedBaseline, alertQueue>>
    \/ Len(w) >= MinScores /\ Calibrates(m) /\ Calibrate(m, ShareOf(w))
    \/ /\ Len(w) >= MinScores /\ ~Calibrates(m)
       /\ \E level \in DriftLevels(baseline[m], ShareOf(w)) :
             alertQueue' = IF level = None THEN alertQueue
                           ELSE [alertQueue EXCEPT ![m] = Append(@, level)]
       /\ CallWorks
       /\ UNCHANGED <<baseline, storedBaseline>>

Kept(w) == IF Len(w) > 2 * Interval THEN Tail(w) ELSE w

(* record_score: the buffer keeps the last 2 * check_interval scores.      *)
RecordScore(m) ==
    /\ watching[m] /\ scores < MaxScores
    /\ scores' = scores + 1
    /\ LET kept == Kept(Append(window[m], population))
       IN  /\ window' = [window EXCEPT ![m] = kept]
           /\ IF sinceCheck[m] + 1 >= Interval
                THEN /\ sinceCheck' = [sinceCheck EXCEPT ![m] = 0]
                     /\ DriftCheck(m, kept)
                ELSE /\ sinceCheck' = [sinceCheck EXCEPT ![m] = @ + 1]
                     /\ UNCHANGED <<baseline, storedBaseline, alertQueue, troubles>>
    /\ UNCHANGED <<population, watching, monitorRedis, alertTopic, uninformed, triggerVars,
                   clock, jobs, considered, excusedAlerts, lostJobs, unaware, saveLags>>

(* librdkafka delivers an alert; the producer is never flushed.            *)
DeliverAlert(m) ==
    /\ alertQueue[m] # <<>>
    /\ alertTopic' = Append(alertTopic, Head(alertQueue[m]))
    /\ alertQueue' = [alertQueue EXCEPT ![m] = Tail(@)]
    /\ UNCHANGED <<population, scores, watching, monitorRedis, window, sinceCheck, baseline,
                   storedBaseline, uninformed, triggerVars, clock, loopGhosts>>

StopMonitor(m) ==
    /\ watching[m] /\ Trouble
    /\ watching' = [watching EXCEPT ![m] = FALSE]
    /\ alertQueue' = [alertQueue EXCEPT ![m] = <<>>]
    /\ UNCHANGED <<population, scores, monitorRedis, window, sinceCheck, baseline,
                   storedBaseline, alertTopic, uninformed, triggerVars, clock, jobs,
                   considered, excusedAlerts, lostJobs, unaware, saveLags>>

(* The scores of the day change; the stored baseline expires (30 days).    *)
Shift ==
    /\ population = "usual" /\ population' = "shifted"
    /\ UNCHANGED <<scores, watching, monitorRedis, window, sinceCheck, baseline,
                   storedBaseline, alertQueue, alertTopic, uninformed, triggerVars,
                   clock, loopGhosts>>

Expire ==
    /\ storedBaseline # None /\ Trouble
    /\ storedBaseline' = None
    /\ UNCHANGED <<population, scores, watching, monitorRedis, window, sinceCheck, baseline,
                   alertQueue, alertTopic, uninformed, triggerVars, clock, jobs, considered,
                   excusedAlerts, lostJobs, unaware, saveLags>>

-----------------------------------------------------------------------------
(* The retraining trigger t.                                               *)
TriggerGoto(t, step) == tpc' = [tpc EXCEPT ![t] = step]

(* The constructor; its failures are those of StartMonitor.                *)
StartTrigger(t) ==
    /\ tpc[t] = "down"
    /\ TriggerGoto(t, "poll")
    /\ \/ /\ CallWorks
          /\ triggerRedis' = [triggerRedis EXCEPT ![t] = TRUE]
          /\ lastRetrain' = [lastRetrain EXCEPT ![t] = savedRetrain]
          /\ unaware' = IF saveLags THEN unaware \cup {t} ELSE unaware \ {t}
       \/ /\ Trouble
          /\ \E up \in BOOLEAN : triggerRedis' = [triggerRedis EXCEPT ![t] = up]
          /\ lastRetrain' = [lastRetrain EXCEPT ![t] = Never]
          /\ unaware' = unaware \cup {t}
    /\ errors' = [errors EXCEPT ![t] = 0]
    /\ UNCHANGED <<monitorVars, alertTopic, savedRetrain, holder, next, committed,
                   jobQueue, jobTopic, clock, jobs, considered, excusedAlerts, lostJobs,
                   saveLags>>

\* Mutant: the consumer always starts at the end.
StartsAtEnd == Len(alertTopic)

StartPosition == IF committed = NoOffset THEN Len(alertTopic) ELSE committed

(* The group gives the partition to t; without an offset it starts at the  *)
(* end of the topic (auto.offset.reset is latest).                         *)
Assign(t) ==
    /\ tpc[t] # "down" /\ holder = None
    /\ holder' = t
    /\ next' = StartPosition
    /\ excusedAlerts' = IF committed = NoOffset THEN DOMAIN alertTopic ELSE excusedAlerts
    /\ UNCHANGED <<monitorVars, alertTopic, tpc, triggerRedis, lastRetrain, savedRetrain,
                   errors, committed, jobQueue, jobTopic, clock, troubles, jobs, considered,
                   lostJobs, unaware, saveLags>>

PollAlert(t) ==
    /\ tpc[t] = "poll" /\ holder = t /\ next < Len(alertTopic)
    /\ next' = next + 1
    /\ errors' = [errors EXCEPT ![t] = 0]
    /\ TriggerGoto(t, "handle")
    /\ UNCHANGED <<monitorVars, alertTopic, triggerRedis, lastRetrain, savedRetrain, holder,
                   committed, jobQueue, jobTopic, clock, loopGhosts>>

(* librdkafka commits by a timer what poll() has returned.                 *)
AutoCommit ==
    /\ holder # None /\ next > 0 /\ committed # next
    /\ committed' = next
    /\ UNCHANGED <<monitorVars, alertTopic, tpc, triggerRedis, lastRetrain, savedRetrain,
                   errors, holder, next, jobQueue, jobTopic, clock, loopGhosts>>

\* update_labeled_sample_count, which would raise it, has no caller in src/.
LabeledSamples(t) == 0

SeverityRank == [medium |-> 1, high |-> 2, critical |-> 3]

(* _should_retrain: enough samples, no cooldown, a drift severe enough (a  *)
(* monitor's alert always is).                                             *)
ShouldRetrain(t, severity) ==
    /\ LabeledSamples(t) >= MinSamples
    /\ lastRetrain[t] # Never => clock - lastRetrain[t] >= Cooldown
    /\ SeverityRank[severity] >= SeverityRank["medium"]

(* _handle_alert up to the saving of the state: produce() and the update   *)
(* of memory.  A job is queued and the others of the group do not hear.    *)
HandleAlert(t) ==
    /\ tpc[t] = "handle"
    /\ IF ShouldRetrain(t, alertTopic[next])
         THEN /\ jobs' = Append(jobs, clock)
              /\ jobQueue' = [jobQueue EXCEPT ![t] = @ \cup {Len(jobs) + 1}]
              /\ lastRetrain' = [lastRetrain EXCEPT ![t] = clock]
              /\ unaware' = {s \in Triggers : s # t /\ tpc[s] # "down"}
              /\ saveLags' = TRUE
              /\ TriggerGoto(t, "save")
         ELSE TriggerGoto(t, "poll") /\ UNCHANGED <<jobs, jobQueue, lastRetrain, unaware, saveLags>>
    /\ considered' = considered \cup {next}
    /\ UNCHANGED <<monitorVars, alertTopic, triggerRedis, savedRetrain, errors, holder, next,
                   committed, jobTopic, clock, troubles, excusedAlerts, lostJobs>>

\* Mutant: the time of the job is not among the things saved.
SavedWithoutTime(t) == savedRetrain

SavedTime(t) == lastRetrain[t]

SaveState(t) ==
    /\ tpc[t] = "save"
    /\ TriggerGoto(t, "poll")
    /\ \/ /\ triggerRedis[t] /\ CallWorks
          /\ savedRetrain' = SavedTime(t) /\ saveLags' = FALSE
       \/ ~triggerRedis[t] /\ CallWorks /\ UNCHANGED <<savedRetrain, saveLags>>
       \/ triggerRedis[t] /\ Trouble /\ UNCHANGED <<savedRetrain, saveLags>>
    /\ UNCHANGED <<monitorVars, alertTopic, triggerRedis, lastRetrain, errors, holder, next,
                   committed, jobQueue, jobTopic, clock, jobs, considered, excusedAlerts,
                   lostJobs, unaware>>

DeliverJob(t) ==
    /\ jobQueue[t] # {}
    /\ \E j \in jobQueue[t] :
          /\ jobTopic' = jobTopic \cup {j}
          /\ jobQueue' = [jobQueue EXCEPT ![t] = @ \ {j}]
    /\ UNCHANGED <<monitorVars, alertTopic, tpc, triggerRedis, lastRetrain, savedRetrain,
                   errors, holder, next, committed, clock, loopGhosts>>

(* t leaves the group and its process ends, with the jobs lost.            *)
End(t, lost, offset) ==
    /\ TriggerGoto(t, "down")
    /\ holder' = IF holder = t THEN None ELSE holder
    /\ committed' = IF holder = t THEN offset ELSE committed
    /\ jobTopic' = jobTopic \cup (jobQueue[t] \ lost)
    /\ jobQueue' = [jobQueue EXCEPT ![t] = {}]
    /\ lostJobs' = lostJobs \cup lost

(* _cleanup: flush(timeout=5) delivers, or does not in time; close()       *)
(* commits the position.                                                   *)
Cleanup(t) ==
    \E lost \in {{}, jobQueue[t]} : End(t, lost, IF next > 0 THEN next ELSE committed)

(* A Kafka error, or an exception in the loop: too many in a row end it.   *)
LoopError(t) ==
    /\ tpc[t] = "poll" /\ Trouble
    /\ IF errors[t] + 1 >= MaxErrors
         THEN Cleanup(t) /\ UNCHANGED errors
         ELSE /\ errors' = [errors EXCEPT ![t] = @ + 1]
              /\ UNCHANGED <<tpc, holder, committed, jobTopic, jobQueue, lostJobs>>
    /\ UNCHANGED <<monitorVars, alertTopic, triggerRedis, lastRetrain, savedRetrain, next,
                   clock, jobs, considered, excusedAlerts, unaware, saveLags>>

(* SIGTERM, heeded between two alerts.                                     *)
StopTrigger(t) ==
    /\ tpc[t] = "poll" /\ Trouble
    /\ Cleanup(t)
    /\ UNCHANGED <<monitorVars, alertTopic, triggerRedis, lastRetrain, savedRetrain, errors,
                   next, clock, jobs, considered, excusedAlerts, unaware, saveLags>>

(* The process is killed: the alert it was at may have been committed.     *)
KillTrigger(t) ==
    /\ tpc[t] # "down" /\ Trouble
    /\ End(t, jobQueue[t], committed)
    /\ excusedAlerts' = IF tpc[t] = "handle" THEN excusedAlerts \cup {next} ELSE excusedAlerts
    /\ UNCHANGED <<monitorVars, alertTopic, triggerRedis, lastRetrain, savedRetrain, errors,
                   next, clock, jobs, considered, unaware, saveLags>>

Tick ==
    /\ clock < MaxTime /\ clock' = clock + 1
    /\ UNCHANGED <<monitorVars, alertTopic, triggerVars, loopGhosts>>

RunTrigger(t) == PollAlert(t) \/ HandleAlert(t) \/ SaveState(t) \/ DeliverJob(t)

LoopNext ==
    \/ \E m \in Monitors : StartMonitor(m) \/ RecordScore(m) \/ DeliverAlert(m) \/ StopMonitor(m)
    \/ \E t \in Triggers :
          \/ StartTrigger(t) \/ Assign(t) \/ RunTrigger(t)
          \/ LoopError(t) \/ StopTrigger(t) \/ KillTrigger(t)
    \/ AutoCommit \/ Shift \/ Expire \/ Tick

LoopSpec == LoopInit /\ [][LoopNext]_loopVars

\* A process that runs goes on, the group assigns its partition, librdkafka
\* delivers.  Nothing in the repository starts a trigger or a detector again.
FairSpec ==
    /\ LoopSpec
    /\ \A m \in Monitors : WF_loopVars(DeliverAlert(m))
    /\ \A t \in Triggers : WF_loopVars(RunTrigger(t))
    /\ WF_loopVars(\E t \in Triggers : Assign(t))

-----------------------------------------------------------------------------
(* A stored baseline is the reference for all monitors.  It changes under  *)
(* them only when it expires or by a monitor that found none when it       *)
(* started: one that came up before it was stored, or whose GET failed.    *)
BaselineKept ==
    [][storedBaseline # None => \/ storedBaseline' \in {storedBaseline, None}
                                \/ \E m \in uninformed : storedBaseline' = baseline'[m]
      ]_loopVars

(* The cooldown holds over the life of the processes: a job comes sooner   *)
(* after the last one only from a trigger that could not know of it.  Such *)
(* a trigger ran already when another scheduled that job, started before   *)
(* it was saved, or could not load the state.                              *)
CooldownKept ==
    [][\A t \in Triggers :
          Len(jobs') > Len(jobs) /\ jobs # <<>> /\ tpc[t] = "handle" /\ tpc'[t] = "save"
             => clock - Last(jobs) >= Cooldown \/ t \in unaware
      ]_loopVars

(* As long as some trigger runs in the end, the guards are evaluated for   *)
(* every alert in the topic that the group did not skip or a kill cut off; *)
(* and every job arrives that did not go with its process.                 *)
EveryAlertAnswered ==
    <>[](/\ \/ \A t \in Triggers : tpc[t] = "down"
            \/ DOMAIN alertTopic \subseteq considered \cup excusedAlerts
         /\ DOMAIN jobs = jobTopic \cup lostJobs)
=============================================================================
