---------------------------- MODULE Orchestrator ----------------------------
(***************************************************************************)
(* OnlineLearningOrchestrator (src/ml/online_learning/                     *)
(* online_learning_orchestrator.py) over the feedback processor and the    *)
(* incremental learner it owns: its main loop turns Kafka events into      *)
(* workflows, an executor's threads run them, a third thread clears away   *)
(* those that have ended.  active_workflows is a dictionary all of them    *)
(* use without a lock, keyed by the type of the workflow and the second it *)
(* was made in.                                                            *)
(***************************************************************************)
EXTENDS FeedbackProcessor, IncrementalLearner

CONSTANTS
    Main,        \* the thread of the orchestration loop
    Traffic,     \* sequences of feedback events and drift alerts to be polled
    MaxHour,     \* bound: how long it goes on
    MaxTroubles  \* bound: how often the process is killed or a call fails

\* One feedback event for each record; retrain is requires_retraining.
Event == [type: {"feedback", "drift"}, retrain: BOOLEAN]

ASSUME OrchestratorAssumption ==
    /\ Traffic \subseteq Seq(Event)
    /\ Updaters = Workers \cup {Main} /\ Main \notin Workers
    /\ Batches = SUBSET Indices
    /\ MaxHour \in Nat /\ MaxTroubles \in Nat

VARIABLES
    events,    \* the events of the day, of which Traffic is the choice
    polled,    \* how many events the loop has polled
    requests,  \* update messages in the model-updates topic still to be polled
    active,    \* active_workflows: which event's workflow is under an identifier
    idOf,      \* the identifier of an event's workflow
    status,    \* the status of an event's workflow
    tasks,     \* the queue of the executor: events whose workflow is to run
    task,      \* the event a worker's task is about
    held,      \* the event whose workflow it found under the identifier
    wpc,       \* what a worker is about to do
    mainPc,    \* what the loop is about to do
    ended,     \* events whose future is done
    troubles,  \* ghost: how often the process was killed or a call failed
    ran,       \* ghost: events whose task found a workflow to work for
    lostInCrash, \* ghost: events and feedback a killed process had not finished
    dropped,   \* ghost: feedback of a pass that failed
    unwanted,  \* ghost: feedback not to be trained on, or put into a batch
    contended  \* ghost: transactions two workers were in the middle of at once

workflowVars == <<events, polled, active, idOf, status, tasks, task, held, wpc, mainPc, ended, ran>>
orchestratorVars == <<workflowVars, requests, troubles, lostInCrash, dropped, unwanted, contended>>
vars == <<feedbackVars, learnerVars, orchestratorVars>>

EventNumbers == DOMAIN events

TypeOK ==
    /\ FeedbackTypeOK /\ LearnerTypeOK
    /\ hour <= MaxHour /\ events \in Traffic /\ polled \in 0 .. Len(events) /\ requests \in Nat
    /\ DOMAIN active \subseteq EventNumbers
    /\ \A id \in DOMAIN active : active[id] \in EventNumbers /\ idOf[active[id]] = id
    /\ idOf \in [EventNumbers -> 0 .. Len(events)]
    /\ status \in [EventNumbers -> {"none", "processing", "completed", "failed"}]
    /\ tasks \in Seq(EventNumbers)
    /\ task \in [Workers -> EventNumbers \cup {0}] /\ held \in [Workers -> EventNumbers \cup {0}]
    /\ wpc \in [Workers -> {"idle", "feedback", "update", "finish", "fail"}]
    /\ mainPc \in {"poll", "update"}
    /\ {ended, ran} \subseteq SUBSET EventNumbers
    /\ troubles \in 0 .. MaxTroubles
    /\ lostInCrash \in [events: SUBSET EventNumbers, feedback: SUBSET Indices]
    /\ {dropped, unwanted} \subseteq SUBSET Indices /\ contended \in SUBSET Txns

Init ==
    /\ FeedbackInit /\ LearnerInit
    /\ events \in Traffic /\ polled = 0 /\ requests = 0 /\ active = <<>>
    /\ idOf = [e \in EventNumbers |-> 0] /\ status = [e \in EventNumbers |-> "none"]
    /\ tasks = <<>> /\ task = [w \in Workers |-> 0] /\ held = [w \in Workers |-> 0]
    /\ wpc = [w \in Workers |-> "idle"] /\ mainPc = "poll"
    /\ ended = {} /\ troubles = 0 /\ ran = {} /\ lostInCrash = [events |-> {}, feedback |-> {}]
    /\ dropped = {} /\ unwanted = {} /\ contended = {}

Meets(works) ==
    IF works THEN UNCHANGED troubles ELSE troubles < MaxTroubles /\ troubles' = troubles + 1

-----------------------------------------------------------------------------
(* The main loop.                                                          *)

(* The identifiers an event's workflow may get: one of its own, or that of *)
(* the event of its type before it, when both come within one second.      *)
Identifiers(e) ==
    LET before == {d \in 1 .. e - 1 : events[d].type = events[e].type}
    IN  {e} \cup (IF before = {} THEN {} ELSE {idOf[Max(before)]})

(* _handle_feedback_event, _handle_drift_alert.                            *)
HandleEvent ==
    /\ mainPc = "poll" /\ polled < Len(events)
    /\ polled' = polled + 1
    /\ \E id \in Identifiers(polled + 1) :
          /\ active' = With(active, id, polled + 1)
          /\ idOf' = [idOf EXCEPT ![polled + 1] = id]
    /\ status' = [status EXCEPT ![polled + 1] = "processing"]
    /\ tasks' = Append(tasks, polled + 1)
    /\ UNCHANGED <<feedbackVars, learnerVars, events, requests, task, held, wpc, mainPc, ended, ran,
                   troubles, lostInCrash, dropped, unwanted, contended>>

(* _handle_model_update_event runs in the loop itself.                     *)
HandleUpdateRequest ==
    /\ mainPc = "poll" /\ requests > 0
    /\ requests' = requests - 1
    /\ CallUpdate(Main, FALSE)
    /\ mainPc' = "update"
    /\ UNCHANGED <<feedbackVars, events, polled, active, idOf, status, tasks, task, held, wpc, ended,
                   ran, troubles, lostInCrash, dropped, unwanted, contended>>

MainUpdates ==
    /\ mainPc = "update"
    /\ \/ /\ \E works \in BOOLEAN : UpdateStep(Main, works) /\ Meets(works)
          /\ UNCHANGED mainPc
       \/ /\ upc[Main] \in {"done", "refused"}
          /\ mainPc' = "poll"
          /\ EndUpdate(Main)
          /\ UNCHANGED troubles
    /\ UNCHANGED <<feedbackVars, requests, events, polled, active, idOf, status, tasks, task, held,
                   wpc, ended, ran, lostInCrash, dropped, unwanted, contended>>

-----------------------------------------------------------------------------
(* A worker w.                                                             *)
GotoW(w, step) == wpc' = [wpc EXCEPT ![w] = step]

(* The beginning of both workflows: without a workflow under its           *)
(* identifier, which another of the same second has deleted, the task ends *)
(* and nothing has been done for its event.                                *)
TakeTask(w) ==
    /\ wpc[w] = "idle" /\ tasks # <<>>
    /\ tasks' = Tail(tasks)
    /\ LET e == Head(tasks)
       IN  IF idOf[e] \notin DOMAIN active
             THEN /\ ended' = ended \cup {e}
                  /\ UNCHANGED <<fpc, task, held, wpc, ran, learnerVars>>
             ELSE /\ task' = [task EXCEPT ![w] = e]
                  /\ held' = [held EXCEPT ![w] = active[idOf[e]]]
                  /\ ran' = ran \cup {e}
                  /\ \/ /\ events[e].type = "feedback"
                        /\ GotoF(w, "collect") /\ GotoW(w, "feedback") /\ UNCHANGED learnerVars
                     \/ /\ events[e].type = "drift" /\ events[active[idOf[e]]].retrain
                        /\ CallUpdate(w, TRUE) /\ GotoW(w, "update") /\ UNCHANGED fpc
                     \/ /\ events[e].type = "drift" /\ ~events[active[idOf[e]]].retrain
                        /\ GotoW(w, "finish") /\ UNCHANGED <<fpc, learnerVars>>
                  /\ UNCHANGED ended
    /\ UNCHANGED <<hour, collected, pending, processed, hand, scanVars, requests, events, polled, active,
                   idOf, status, mainPc, troubles, lostInCrash, dropped, unwanted, contended>>

(* _process_feedback_workflow within the feedback processor.               *)
ProcessFeedback(w) ==
    /\ wpc[w] = "feedback"
    /\ \E works \in BOOLEAN : FeedbackStep(w, works) /\ Meets(works)
    /\ contended' = contended \cup UNION {Handling(w)' \cap Handling(v) : v \in Workers \ {w}}
    /\ UNCHANGED <<learnerVars, requests, workflowVars, lostInCrash, dropped, unwanted>>

RecordsOf(rs) == UNION {r.recs : r \in rs}

(* What it makes of the processed feedback: those of sufficient quality    *)
(* are put into a batch, and an update is asked for when there is enough.  *)
LearnFromFeedback(w) ==
    /\ wpc[w] = "feedback" /\ fpc[w] \in {"done", "failed"}
    /\ EndFeedback(w)
    /\ IF fpc[w] = "failed"
         THEN /\ GotoW(w, "fail")
              /\ dropped' = dropped \cup RecordsOf(results[w])
              /\ UNCHANGED <<learnerVars, requests, unwanted>>
         ELSE \E included \in SUBSET results[w] :
              /\ GotoW(w, "finish")
              /\ unwanted' = unwanted \cup RecordsOf(results[w])
              /\ IF included = {} THEN UNCHANGED <<learnerVars, requests>>
                 ELSE \E scheduled \in BOOLEAN :
                         /\ AddBatch(RecordsOf(included), scheduled)
                         /\ requests' = requests + (IF scheduled THEN 1 ELSE 0)
              /\ UNCHANGED dropped
    /\ UNCHANGED <<events, polled, active, idOf, status, tasks, task, held, mainPc, ended, ran,
                   troubles, lostInCrash, contended>>

(* _process_drift_workflow within the learner.  After a successful update  *)
(* ModelMetadata.DeploymentStage, which there is not, is an error: the     *)
(* model is never registered.                                              *)
RespondToDrift(w) ==
    /\ wpc[w] = "update"
    /\ \/ /\ \E works \in BOOLEAN : UpdateStep(w, works) /\ Meets(works)
          /\ UNCHANGED wpc
       \/ /\ upc[w] \in {"done", "refused"}
          /\ GotoW(w, IF upc[w] = "done" THEN "fail" ELSE "finish")
          /\ EndUpdate(w)
          /\ UNCHANGED troubles
    /\ UNCHANGED <<feedbackVars, requests, events, polled, active, idOf, status, tasks, task, held,
                   mainPc, ended, ran, lostInCrash, dropped, unwanted, contended>>

(* The workflow is completed and deleted; one that is not there any more   *)
(* is a KeyError without consequence.  A failed one is only marked.        *)
EndWorkflow(w) ==
    LET e == task[w]
        id == idOf[e]
    IN  /\ \/ /\ wpc[w] = "finish"
              /\ status' = [status EXCEPT ![held[w]] = "completed"]
              /\ active' = Without(active, id)
           \/ /\ wpc[w] = "fail"
              /\ status' = IF id \in DOMAIN active
                             THEN [status EXCEPT ![active[id]] = "failed"] ELSE status
              /\ UNCHANGED active
        /\ ended' = ended \cup {e}
        /\ GotoW(w, "idle")
        /\ task' = [task EXCEPT ![w] = 0] /\ held' = [held EXCEPT ![w] = 0]
        /\ UNCHANGED <<feedbackVars, learnerVars, requests, events, polled, idOf, tasks, mainPc,
                       ran, troubles, lostInCrash, dropped, unwanted, contended>>

\* Mutant: a failed workflow is not cleared away.
CompletedOnly(id) == status[active[id]] = "completed" /\ active[id] \in ended

HasEnded(id) == status[active[id]] \in {"completed", "failed"} /\ active[id] \in ended

(* _cleanup_completed_workflows, in its own thread.                        *)
CleanUp ==
    /\ \E id \in DOMAIN active : HasEnded(id)
    /\ active' = [id \in {i \in DOMAIN active : ~HasEnded(i)} |-> active[id]]
    /\ UNCHANGED <<feedbackVars, learnerVars, requests, events, polled, idOf, status, tasks, task, held,
                   wpc, mainPc, ended, ran, troubles, lostInCrash, dropped, unwanted, contended>>

-----------------------------------------------------------------------------
InHands(i) ==
    \/ \E w \in Workers :
          \/ fpc[w] \in {"add", "create", "append"} /\ hand[w] = i
          \/ i \in RecordsOf(results[w])
    \/ \E x \in DOMAIN pending : i \in ToSet(pending[x])

(* The process is killed and started again: what was in memory is gone,    *)
(* and its offsets have been committed by the timer.                       *)
Crash ==
    /\ Meets(FALSE)
    /\ lostInCrash' = [events |-> 1 .. polled \ ended,
                       feedback |-> lostInCrash.feedback \cup {i \in Indices : InHands(i)}]
    /\ ForgetFeedback
    /\ ReloadLearner
    /\ active' = <<>> /\ tasks' = <<>> /\ mainPc' = "poll"
    /\ wpc' = [w \in Workers |-> "idle"]
    /\ task' = [w \in Workers |-> 0] /\ held' = [w \in Workers |-> 0]
    /\ UNCHANGED <<requests, events, polled, idOf, status, ended, ran, dropped, unwanted, contended>>

Tick ==
    /\ hour < MaxHour /\ hour' = hour + 1
    /\ UNCHANGED <<collected, pending, processed, fpc, hand, scanVars, learnerVars,
                   orchestratorVars>>

Work(w) ==
    \/ TakeTask(w) \/ ProcessFeedback(w) \/ LearnFromFeedback(w) \/ RespondToDrift(w)
    \/ EndWorkflow(w)

Loop == HandleEvent \/ HandleUpdateRequest \/ MainUpdates

Next == Loop \/ (\E w \in Workers : Work(w)) \/ CleanUp \/ Crash \/ Tick

Spec == Init /\ [][Next]_vars

\* Every thread of the process goes on, and the cleanup comes round.
FairSpec == Spec /\ WF_vars(Loop) /\ WF_vars(CleanUp) /\ \A w \in Workers : WF_vars(Work(w))

-----------------------------------------------------------------------------
(* A record of feedback that was collected is in somebody's hands, pending,*)
(* has been put into a batch or judged unfit.  It vanishes only with its   *)
(* process, or by a race: two workers in the middle of its transaction, or *)
(* a KeyError, itself from such a race, that drops the other transactions  *)
(* of the pass.                                                            *)
FeedbackAccounted ==
    /\ \A i \in 1 .. collected :
          \/ ~Feedback[i].readable \/ ~Feedback[i].good
          \/ InHands(i) \/ i \in unwanted \cup dropped \cup lostInCrash.feedback
          \/ Feedback[i].txn \in contended
    /\ dropped # {} => contended # {}

(* Every workflow leaves active_workflows in the end, and every event has  *)
(* had its workflow run, unless it shared its second with another of its   *)
(* type or the process was killed.                                         *)
WorkflowsSettle ==
    <>[](/\ DOMAIN active = {}
         /\ \A e \in 1 .. polled :
               e \in ran \cup lostInCrash.events
                  \/ \E d \in 1 .. polled : d # e /\ idOf[d] = idOf[e])
=============================================================================
