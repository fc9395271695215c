--------------------------- MODULE AlertProcessor ---------------------------
(***************************************************************************)
(* The alert response consumer (src/consumers/alert_processor.py) and what *)
(* it shares with the fraud detector: the fraud-alerts topic, whose        *)
(* messages are keyed by user, and Redis, where the processor works in     *)
(* database 1 and the detector in database 0.                              *)
(***************************************************************************)
EXTENDS KafkaGroup, FiniteSets

CONSTANTS
    Users,        \* the users the alerts are about
    Log,          \* per partition, the alerts in the order they are raised
    MaxRestarts,  \* bound: how many times a process stops or is killed
    MaxFaults     \* bound: how many Redis or produce() calls fail

\* What parses as an alert, what is not JSON, and what fails otherwise: bytes
\* that cannot be decoded, or JSON that is not an object.
Kinds == {"alert", "bad_json", "bad_bytes"}

\* score is the fraud score in tenths; surge: a rapid transaction or a velocity
\* over 15; large: an amount of 1000 or more.
Alert == [user: Users, kind: Kinds, score: 0 .. 10, surge: BOOLEAN, large: BOOLEAN]

Actions == {"block", "investigate", "review", "notify", "escalate", "log"}

ASSUME ProcessorAssumption ==
    /\ Partitions # {}
    /\ Log \in [Partitions -> Seq(Alert)]
    /\ \A p \in Partitions : LogSize[p] = Len(Log[p])
    /\ MaxRestarts \in Nat
    /\ MaxFaults \in Nat

\* The detector produces an alert under the key of its user, and the key picks
\* the partition.
ASSUME KeyedByUser ==
    \A p, q \in Partitions : \A i \in DOMAIN Log[p], j \in DOMAIN Log[q] :
        LET a == Log[p][i]
            b == Log[q][j]
        IN  a.kind = "alert" /\ b.kind = "alert" /\ a.user = b.user => p = q

VARIABLES
    pc,          \* what each process is about to do
    cur,         \* the alert it works on: its partition and offset
    context,     \* what it knows of it: the action, whether it failed, and the
                 \*    risk profile it has read
    blocked,     \* per Redis database, the blocked_users set
    blockRecord, \* block:{user}: not written, there, or past its 24 hours
    queued,      \* the alerts in investigation_queue and manual_review_queue
    risk,        \* user_risk:{user}: the number of alerts, and the risk level
    timeline,    \* user_alerts:{key}: the responses recorded under a key
    outbox,      \* per process, the responses librdkafka has not delivered
    responses,   \* the alert-responses topic
    handled,     \* ghost: the messages some process has finished with
    riskWrites,  \* ghost: per user, how many risk profile writes succeeded
    restarts,    \* ghost: how many times a process stopped or was killed
    faults       \* ghost: how many external calls failed

processVars == <<pc, cur, context>>
redisVars == <<blocked, blockRecord, queued, risk, timeline>>
outputVars == <<outbox, responses>>
ghostVars == <<handled, riskWrites, restarts, faults>>
localVars == <<processVars, redisVars, outputVars, ghostVars>>
vars == <<groupVars, processVars, redisVars, outputVars, ghostVars>>

DetectorDb == 0
ProcessorDb == 1

\* The key the timeline is kept under is not the user but the second part of
\* the alert id, "alert_{transaction_id}_{time}".
TransactionKey == "transaction"

Offset == [part: Partitions, off: Nat]
Risk == [total: Nat, high: BOOLEAN]
Response == [alert: Offset, action: Actions, completed: BOOLEAN]
Steps == {"down", "poll", "enrich", "act", "act_more", "read_risk", "write_risk",
          "audit", "publish", "commit", "stopping"}

TypeOK ==
    /\ GroupTypeOK
    /\ pc \in [Consumers -> Steps]
    /\ cur \in [Consumers -> Offset]
    /\ context \in [Consumers -> [action: Actions, failed: BOOLEAN, risk: Risk]]
    /\ blocked \in [{DetectorDb, ProcessorDb} -> SUBSET Users]
    /\ blockRecord \in [Users -> {"none", "live", "expired"}]
    /\ queued \in SUBSET (Offset \X {"investigate", "review"})
    /\ risk \in [Users -> Risk]
    /\ timeline \in [Users \cup {TransactionKey} -> SUBSET Offset]
    /\ outbox \in [Consumers -> SUBSET Response]
    /\ responses \in SUBSET Response
    /\ handled \in SUBSET Offset
    /\ riskWrites \in [Users -> Nat]
    /\ restarts \in Nat
    /\ faults \in Nat

DefaultRisk == [total |-> 0, high |-> FALSE]
NoContext == [action |-> "log", failed |-> FALSE, risk |-> DefaultRisk]
SomeOffset == [part |-> CHOOSE p \in Partitions : TRUE, off |-> 0]

Message(x) == Log[x.part][x.off + 1]
UserOf(c) == Message(cur[c]).user

Init ==
    /\ GroupInit
    /\ pc = [c \in Consumers |-> "poll"]
    /\ cur = [c \in Consumers |-> SomeOffset]
    /\ context = [c \in Consumers |-> NoContext]
    /\ blocked \in [{DetectorDb, ProcessorDb} -> SUBSET Users]
    /\ blocked[ProcessorDb] = {}
    /\ blockRecord = [u \in Users |-> "none"]
    /\ queued = {}
    /\ risk = [u \in Users |-> DefaultRisk]
    /\ timeline = [k \in Users \cup {TransactionKey} |-> {}]
    /\ outbox = [c \in Consumers |-> {}]
    /\ responses = {}
    /\ handled = {}
    /\ riskWrites = [u \in Users |-> 0]
    /\ restarts = 0
    /\ faults = 0

-----------------------------------------------------------------------------
(* The decision: classify_alert_severity and _recommend_action.            *)

\* Severities below "high" have no effect but the response time that is logged.
Severity(a) ==
    IF a.score >= 9 THEN "critical"
    ELSE IF (a.score >= 7 \/ (a.large /\ a.score >= 5)) /\ a.surge THEN "high"
    ELSE "other"

\* The responses that _get_user_alert_history finds: those of the user's
\* timeline with an alert:{id} hash, which nothing writes.
AlertHashes == {}
History(u) == timeline[u] \cap AlertHashes

\* confirmed_fraud_count, which nothing increments, is left out.
RecommendedAction(a, high, history) ==
    LET recent == Cardinality(history)
        repeatOffender == recent >= 3
    IN  CASE a.score >= 9 \/ (a.score >= 7 /\ repeatOffender) -> "block"
          [] a.score = 8 -> IF recent >= 3 THEN "investigate" ELSE "review"
          [] a.score \in 6 .. 7 /\ ~(a.score = 7 /\ repeatOffender) ->
                IF high \/ recent >= 2 THEN "review" ELSE "notify"
          [] a.score < 6 /\ (repeatOffender \/ recent >= 5) -> "escalate"
          [] OTHER -> IF a.score >= 3 THEN "notify" ELSE "log"

\* Mutant: an alert starts the count over.
RiskRestarted(r, severity) ==
    [total |-> 1, high |-> r.high \/ severity = "critical"]

(* update_user_risk_profile, on the profile it has read.                   *)
UpdatedRisk(r, severity) ==
    LET total == r.total + 1
    IN  [total |-> total,
         high |-> \/ r.high
                  \/ severity = "critical"
                  \/ severity = "high" /\ total >= 3
                  \/ total >= 10]

-----------------------------------------------------------------------------
CallFails == faults < MaxFaults /\ faults' = faults + 1
CallWorks == UNCHANGED faults

Goto(c, step) == pc' = [pc EXCEPT ![c] = step]

Finish(x) == handled' = handled \cup {x}

(* The detector scores the next transaction of p's alerts and raises the   *)
(* alert, unless it finds the user in the blocked_users set it reads.      *)
RaiseAlert(p) ==
    /\ logEnd[p] < LogSize[p]
    /\ Log[p][logEnd[p] + 1].user \notin blocked[DetectorDb]
    /\ Produce(p)
    /\ UNCHANGED localVars

Start(c) ==
    /\ pc[c] = "down"
    /\ Goto(c, "poll")
    /\ UNCHANGED <<groupVars, cur, context, redisVars, outputVars, ghostVars>>

PollAlert(c, p) ==
    /\ pc[c] = "poll" /\ CanPoll(c, p)
    /\ LET x == [part |-> p, off |-> position[p]]
       IN  Message(x).kind = "alert" /\ cur' = [cur EXCEPT ![c] = x]
    /\ Goto(c, "enrich")
    /\ Advance(p)
    /\ UNCHANGED <<logEnd, owner, committed, commitQueue, resetTo, rebalances,
                   context, redisVars, outputVars, ghostVars>>

(* Not JSON: logged and committed, without the dead letter queue.  A       *)
(* commit that raises here ends the loop.                                  *)
PollBadJson(c, p) ==
    /\ pc[c] = "poll" /\ CanPoll(c, p)
    /\ LET x == [part |-> p, off |-> position[p]]
       IN  /\ Message(x).kind = "bad_json"
           /\ Finish(x)
           /\ \/ RequestCommit(c, p, x.off) /\ CallWorks /\ UNCHANGED pc
              \/ CallFails /\ Goto(c, "stopping") /\ UNCHANGED commitQueue
    /\ Advance(p)
    /\ UNCHANGED <<logEnd, owner, committed, resetTo, rebalances, cur, context,
                   redisVars, outputVars, riskWrites, restarts>>

(* Any other failure to decode: logged and not committed.                  *)
PollBadBytes(c, p) ==
    /\ pc[c] = "poll" /\ CanPoll(c, p)
    /\ LET x == [part |-> p, off |-> position[p]]
       IN  Message(x).kind = "bad_bytes" /\ Finish(x)
    /\ Advance(p)
    /\ UNCHANGED <<logEnd, owner, committed, commitQueue, resetTo, rebalances,
                   processVars, redisVars, outputVars, riskWrites, restarts, faults>>

(* get_alert_context: a failed read of the profile is the default one, a   *)
(* failed read of the history an empty one.                                *)
Enrich(c) ==
    /\ pc[c] = "enrich"
    /\ LET u == UserOf(c)
           decide(r, h) ==
               context' = [context EXCEPT ![c].action =
                              RecommendedAction(Message(cur[c]), r.high, h)]
       IN  \/ decide(risk[u], History(u)) /\ CallWorks
           \/ (decide(DefaultRisk, History(u)) \/ decide(risk[u], {})) /\ CallFails
    /\ Goto(c, "act")
    /\ UNCHANGED <<groupVars, cur, redisVars, outputVars, handled, riskWrites, restarts>>

\* Mutant: a block stops after SADD, without its block:{user} record.
BlockInOneCall(action) == IF action = "review" THEN "act_more" ELSE "read_risk"

(* The actions that need a second Redis command.                           *)
AfterFirstCall(action) ==
    IF action \in {"block", "investigate", "review"} THEN "act_more" ELSE "read_risk"

(* execute_response_action, its first command: SADD blocked_users, or HSET *)
(* of the review or investigation.  The others only send a notification,   *)
(* which never raises.  What raises here makes the response a failed one.  *)
Act(c) ==
    /\ pc[c] = "act"
    /\ LET action == context[c].action
       IN  \/ /\ CallWorks
              /\ blocked' = IF action = "block"
                              THEN [blocked EXCEPT ![ProcessorDb] = @ \cup {UserOf(c)}]
                              ELSE blocked
              /\ Goto(c, AfterFirstCall(action))
              /\ UNCHANGED context
           \/ /\ AfterFirstCall(action) = "act_more" /\ CallFails
              /\ context' = [context EXCEPT ![c].failed = TRUE]
              /\ Goto(c, "read_risk")
              /\ UNCHANGED blocked
    /\ UNCHANGED <<groupVars, cur, blockRecord, queued, risk, timeline, outputVars,
                   handled, riskWrites, restarts>>

(* Its second command: HSET block:{user} with its 24 hours, or LPUSH into  *)
(* the queue.                                                              *)
ActMore(c) ==
    /\ pc[c] = "act_more"
    /\ LET action == context[c].action
       IN  \/ /\ CallWorks /\ UNCHANGED context
              /\ IF action = "block"
                   THEN /\ blockRecord' = [blockRecord EXCEPT ![UserOf(c)] = "live"]
                        /\ UNCHANGED queued
                   ELSE /\ queued' = queued \cup {<<cur[c], action>>}
                        /\ UNCHANGED blockRecord
           \/ /\ CallFails /\ context' = [context EXCEPT ![c].failed = TRUE]
              /\ UNCHANGED <<blockRecord, queued>>
    /\ Goto(c, "read_risk")
    /\ UNCHANGED <<groupVars, cur, blocked, risk, timeline, outputVars,
                   handled, riskWrites, restarts>>

(* update_user_risk_profile reads the profile again; what it cannot read   *)
(* it takes for that of a new user.                                        *)
ReadRisk(c) ==
    /\ pc[c] = "read_risk"
    /\ \/ CallWorks /\ context' = [context EXCEPT ![c].risk = risk[UserOf(c)]]
       \/ CallFails /\ context' = [context EXCEPT ![c].risk = DefaultRisk]
    /\ Goto(c, "write_risk")
    /\ UNCHANGED <<groupVars, cur, redisVars, outputVars, handled, riskWrites, restarts>>

WriteRisk(c) ==
    /\ pc[c] = "write_risk"
    /\ LET u == UserOf(c)
       IN  \/ /\ CallWorks
              /\ risk' = [risk EXCEPT ![u] =
                             UpdatedRisk(context[c].risk, Severity(Message(cur[c])))]
              /\ riskWrites' = [riskWrites EXCEPT ![u] = @ + 1]
           \/ CallFails /\ UNCHANGED <<risk, riskWrites>>
    /\ Goto(c, "audit")
    /\ UNCHANGED <<groupVars, cur, context, blocked, blockRecord, queued, timeline,
                   outputVars, handled, restarts>>

(* store_audit_trail; an error is logged.                                  *)
Audit(c) ==
    /\ pc[c] = "audit"
    /\ \/ CallWorks /\ timeline' = [timeline EXCEPT ![TransactionKey] = @ \cup {cur[c]}]
       \/ CallFails /\ UNCHANGED timeline
    /\ Goto(c, "publish")
    /\ UNCHANGED <<groupVars, cur, context, blocked, blockRecord, queued, risk,
                   outputVars, handled, riskWrites, restarts>>

\* Mutant: a response is "completed" whatever its action did.
AlwaysCompleted(c) ==
    [alert |-> cur[c], action |-> context[c].action, completed |-> TRUE]

ResponseOf(c) ==
    [alert |-> cur[c], action |-> context[c].action, completed |-> ~context[c].failed]

(* publish_response hands the response to librdkafka; an error is logged.  *)
Publish(c) ==
    /\ pc[c] = "publish"
    /\ \/ CallWorks /\ outbox' = [outbox EXCEPT ![c] = @ \cup {ResponseOf(c)}]
       \/ CallFails /\ UNCHANGED outbox
    /\ Goto(c, "commit")
    /\ UNCHANGED <<groupVars, cur, context, redisVars, responses,
                   handled, riskWrites, restarts>>

(* commit(msg); when the call raises the error is logged and the offset is *)
(* left to a later commit.                                                 *)
Commit(c) ==
    /\ pc[c] = "commit"
    /\ \/ CallWorks /\ RequestCommit(c, cur[c].part, cur[c].off)
       \/ CallFails /\ UNCHANGED commitQueue
    /\ Finish(cur[c])
    /\ Goto(c, "poll")
    /\ cur' = [cur EXCEPT ![c] = SomeOffset]
    /\ context' = [context EXCEPT ![c] = NoContext]
    /\ UNCHANGED <<logEnd, owner, position, committed, resetTo, rebalances,
                   redisVars, outputVars, riskWrites, restarts>>

-----------------------------------------------------------------------------
(* SIGTERM, or a Kafka error returned by poll().                           *)
StopRunning(c) ==
    /\ pc[c] = "poll"
    /\ restarts < MaxRestarts
    /\ restarts' = restarts + 1
    /\ Goto(c, "stopping")
    /\ UNCHANGED <<groupVars, cur, context, redisVars, outputVars,
                   handled, riskWrites, faults>>

(* _cleanup: flush the responses (at most 10 s), close the consumer.       *)
Cleanup(c) ==
    /\ pc[c] = "stopping"
    /\ commitQueue[c] = <<>>
    /\ \/ CallWorks /\ responses' = responses \cup outbox[c]
       \/ CallFails /\ UNCHANGED responses
    /\ outbox' = [outbox EXCEPT ![c] = {}]
    /\ Leave(c)
    /\ Goto(c, "down")
    /\ UNCHANGED <<cur, context, redisVars, handled, riskWrites, restarts>>

(* The process is killed.                                                  *)
Crash(c) ==
    /\ pc[c] # "down"
    /\ restarts < MaxRestarts
    /\ restarts' = restarts + 1
    /\ outbox' = [outbox EXCEPT ![c] = {}]
    /\ Leave(c)
    /\ Goto(c, "down")
    /\ cur' = [cur EXCEPT ![c] = SomeOffset]
    /\ context' = [context EXCEPT ![c] = NoContext]
    /\ UNCHANGED <<redisVars, responses, handled, riskWrites, faults>>

Deliver(c) ==
    /\ \E r \in outbox[c] :
          /\ responses' = responses \cup {r}
          /\ outbox' = [outbox EXCEPT ![c] = @ \ {r}]
    /\ UNCHANGED <<groupVars, processVars, redisVars, ghostVars>>

(* Redis drops block:{user} after 24 hours.  The member of blocked_users   *)
(* has no expiry.                                                          *)
BlockRecordExpires(u) ==
    /\ blockRecord[u] = "live"
    /\ blockRecord' = [blockRecord EXCEPT ![u] = "expired"]
    /\ UNCHANGED <<groupVars, processVars, blocked, queued, risk, timeline,
                   outputVars, ghostVars>>

Group ==
    /\ \/ \E p \in Partitions : Revoke(p)
       \/ \E c \in Consumers : AnswerCommit(c)
       \/ \E c \in Consumers, p \in Partitions : pc[c] # "down" /\ Assign(c, p)
    /\ UNCHANGED localVars

Poll(c) == \E p \in Partitions :
    PollAlert(c, p) \/ PollBadJson(c, p) \/ PollBadBytes(c, p)

Process(c) ==
    \/ Enrich(c) \/ Act(c) \/ ActMore(c) \/ ReadRisk(c) \/ WriteRisk(c)
    \/ Audit(c) \/ Publish(c) \/ Commit(c)

Next ==
    \/ Group
    \/ \E p \in Partitions : RaiseAlert(p)
    \/ \E u \in Users : BlockRecordExpires(u)
    \/ \E c \in Consumers :
          \/ Start(c) \/ Poll(c) \/ Process(c) \/ Deliver(c)
          \/ StopRunning(c) \/ Cleanup(c) \/ Crash(c)

Spec == Init /\ [][Next]_vars

\* As for the detectors: the container is started again, a running process and
\* the client library go on, the coordinator assigns partitions and answers.
FairSpec ==
    /\ Spec
    /\ \A c \in Consumers :
          /\ WF_vars(Start(c))
          /\ WF_vars(Poll(c))
          /\ WF_vars(Process(c))
          /\ WF_vars(Cleanup(c))
          /\ WF_vars(AnswerCommit(c) /\ UNCHANGED localVars)
    /\ \A p \in Partitions :
          WF_vars(\E c \in Consumers : pc[c] # "down" /\ Assign(c, p) /\ UNCHANGED localVars)

-----------------------------------------------------------------------------
Undisturbed == rebalances = 0 /\ faults = 0

(* Alerts are keyed by user, so one process at a time reads and writes a   *)
(* user's risk profile: until a rebalance lets two of them work on one     *)
(* user, or a read fails, it counts every alert, redeliveries included.    *)
RiskKeepsCount ==
    Undisturbed => \A u \in Users : risk[u].total = riskWrites[u]

(* A response that says "completed" is about something that was done: the  *)
(* user is blocked and the block has a record, or the review is queued.    *)
ResponsesTellTruth ==
    \A r \in responses : r.completed =>
        CASE r.action = "block" ->
                LET u == Message(r.alert).user
                IN  u \in blocked[ProcessorDb] /\ blockRecord[u] # "none"
          [] r.action \in {"investigate", "review"} -> <<r.alert, r.action>> \in queued
          [] OTHER -> TRUE

Done(p, o) == [part |-> p, off |-> o] \in handled \/ o < resetTo[p]

(* A critical alert blocks its user in the end, past crashes, stops and    *)
(* rebalances, and with the record that says why and until when, although  *)
(* _execute_immediate_block writes it after SADD: a crash in between       *)
(* leaves the alert uncommitted, and it is processed again.  Excepted are  *)
(* a failing Redis, whose error is logged and the alert committed, and the *)
(* alerts a first start at the end of the log passes over.                 *)
CriticalUserIsBlocked ==
    \A p \in Partitions : \A o \in 0 .. LogSize[p] - 1 :
        LET a == Log[p][o + 1]
        IN  (o < logEnd[p] /\ a.kind = "alert" /\ Severity(a) = "critical")
              ~> (\/ a.user \in blocked[ProcessorDb] /\ blockRecord[a.user] # "none"
                  \/ o < resetTo[p]
                  \/ faults > 0)

(* The alert processor, too, commits only what it has finished with.       *)
LogMessages == UNION {{[part |-> p, off |-> o] : o \in 0 .. LogSize[p] - 1} : p \in Partitions}

ALO == INSTANCE AtLeastOnce
    WITH produced <- logEnd,
         done <- {x \in LogMessages : Done(x.part, x.off)}

ImplementsAtLeastOnce == ALO!Spec
=============================================================================
