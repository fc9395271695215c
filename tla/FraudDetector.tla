---------------------------- MODULE FraudDetector ----------------------------
(***************************************************************************)
(* The fraud detection consumer in single-message mode                     *)
(* (src/consumers/fraud_detector.py, FraudDetector._run_single and         *)
(* process_transaction): a group of identical processes that read the      *)
(* synthetic-transactions topic, keep one profile per user in Redis db 0,  *)
(* and publish through librdkafka's background producer.                   *)
(*                                                                         *)
(* Every call that other processes can observe (a Redis command, a commit  *)
(* request, a delivery) is a step of its own, so that two detectors, a     *)
(* rebalance and a crash interleave where they can in the program.         *)
(***************************************************************************)
EXTENDS KafkaGroup, FiniteSets

CONSTANTS
    Users,        \* the users (card1) of the transactions
    Log,          \* per partition, its messages as they are produced
    MaxRestarts,  \* bound: how many times a process stops or is killed
    MaxFaults     \* bound: how many Redis, produce() or commit() calls fail

\* A message is a transaction, or fails before there is one: text that is not
\* JSON, and bytes that are not UTF-8 (with a schema registry, not Avro).
Kinds == {"transaction", "bad_json", "bad_bytes"}

\* What process_transaction may make of a transaction: the model or the rules
\* find it fraudulent or fair, or it lacks a field and a KeyError is raised.
Verdicts == {"fraud", "fair", "raises"}

Transaction == [user: Users, kind: Kinds, verdicts: (SUBSET Verdicts) \ {{}}]

ASSUME DetectorAssumption ==
    /\ Partitions # {}
    /\ Log \in [Partitions -> Seq(Transaction)]
    /\ \A p \in Partitions : LogSize[p] = Len(Log[p])
    /\ MaxRestarts \in Nat
    /\ MaxFaults \in Nat

VARIABLES
    pc,        \* what each process is about to do
    cur,       \* the message it works on: its partition and offset
    loaded,    \* the user's profile it has read from Redis, and its verdict
    profile,   \* Redis db 0, user_profile:{user}: its total_transactions
    blocked,   \* Redis db 0, the blocked_users set.  The code never writes it
               \*        there (see AlertProcessor); an operator may have
    outbox,    \* per process, what produce() queued and librdkafka still holds
    topics,    \* what the broker has of the output topics
    handled,   \* ghost: the messages some process has finished with
    saves,     \* ghost: per user, how many profile writes succeeded
    overlap,   \* ghost: the users whose profile was read while another process
               \*        was between its own read and write, or read as empty
    restarts,  \* ghost: how many times a process stopped or was killed
    faults     \* ghost: how many external calls failed

detectorVars == <<pc, cur, loaded>>
redisVars == <<profile, blocked>>
outputVars == <<outbox, topics>>
ghostVars == <<handled, saves, overlap, restarts, faults>>
localVars == <<detectorVars, redisVars, outputVars, ghostVars>>
vars == <<groupVars, detectorVars, redisVars, outputVars, ghostVars>>

Alerts == "fraud-alerts"
Results == "fraud-detection-results"
BlockedTxns == "blocked-transactions"
DLQ == "dead-letter-queue"

Offset == [part: Partitions, off: Nat]
Output == [topic: {Alerts, Results, BlockedTxns, DLQ}, part: Partitions, off: Nat]

Steps == {"down", "poll", "check", "load", "save", "publish", "commit", "stopping"}
Working == {"check", "load", "save", "publish", "commit"}

TypeOK ==
    /\ GroupTypeOK
    /\ pc \in [Consumers -> Steps]
    /\ cur \in [Consumers -> Offset]
    /\ loaded \in [Consumers -> [total: Nat, fraud: BOOLEAN]]
    /\ profile \in [Users -> Nat]
    /\ blocked \in SUBSET Users
    /\ outbox \in [Consumers -> SUBSET Output]
    /\ topics \in SUBSET Output
    /\ handled \in SUBSET Offset
    /\ saves \in [Users -> Nat]
    /\ overlap \in SUBSET Users
    /\ restarts \in Nat
    /\ faults \in Nat

Scored(total, verdict) == [total |-> total, fraud |-> verdict = "fraud"]
NothingLoaded == [total |-> 0, fraud |-> FALSE]
SomeOffset == [part |-> CHOOSE p \in Partitions : TRUE, off |-> 0]

Message(x) == Log[x.part][x.off + 1]
UserOf(c) == Message(cur[c]).user
OutputOf(x, t) == [topic |-> t, part |-> x.part, off |-> x.off]

Init ==
    /\ GroupInit
    /\ pc = [c \in Consumers |-> "poll"]
    /\ cur = [c \in Consumers |-> SomeOffset]
    /\ loaded = [c \in Consumers |-> NothingLoaded]
    /\ profile = [u \in Users |-> 0]
    /\ blocked \in SUBSET Users
    /\ outbox = [c \in Consumers |-> {}]
    /\ topics = {}
    /\ handled = {}
    /\ saves = [u \in Users |-> 0]
    /\ overlap = {}
    /\ restarts = 0
    /\ faults = 0

-----------------------------------------------------------------------------
(* An external call of the step in hand fails; faults bounds how often.    *)
CallFails == faults < MaxFaults /\ faults' = faults + 1
CallWorks == UNCHANGED faults

Goto(c, step) == pc' = [pc EXCEPT ![c] = step]

(* produce() accepts what it is given, or raises: the error is logged.     *)
Enqueue(c, wanted) ==
    \/ outbox' = [outbox EXCEPT ![c] = @ \cup wanted] /\ CallWorks
    \/ \E kept \in SUBSET wanted :
          /\ kept # wanted
          /\ outbox' = [outbox EXCEPT ![c] = @ \cup kept]
          /\ CallFails

Finish(x) == handled' = handled \cup {x}

-----------------------------------------------------------------------------
(* The process is started again: FraudDetector.__init__, then _run_single. *)
Start(c) ==
    /\ pc[c] = "down"
    /\ Goto(c, "poll")
    /\ UNCHANGED <<groupVars, cur, loaded, redisVars, outputVars, ghostVars>>

(* poll() returns a message that parses: process_transaction begins.       *)
PollTransaction(c, p) ==
    /\ pc[c] = "poll" /\ CanPoll(c, p)
    /\ LET x == [part |-> p, off |-> position[p]]
       IN  /\ Message(x).kind = "transaction"
           /\ cur' = [cur EXCEPT ![c] = x]
    /\ Goto(c, "check")
    /\ Advance(p)
    /\ UNCHANGED <<logEnd, owner, committed, commitQueue, resetTo, rebalances,
                   loaded, redisVars, outputVars, ghostVars>>

(* The message is not JSON: dead letter queue, then commit to skip it.  A  *)
(* commit that raises here, inside the handler, ends the loop.             *)
PollBadJson(c, p) ==
    /\ pc[c] = "poll" /\ CanPoll(c, p)
    /\ LET x == [part |-> p, off |-> position[p]]
       IN  /\ Message(x).kind = "bad_json"
           /\ \/ /\ Enqueue(c, {OutputOf(x, DLQ)})
                 /\ RequestCommit(c, p, x.off)
                 /\ UNCHANGED pc
              \/ /\ CallFails
                 /\ outbox' = [outbox EXCEPT ![c] = @ \cup {OutputOf(x, DLQ)}]
                 /\ UNCHANGED commitQueue
                 /\ Goto(c, "stopping")
           /\ Finish(x)
    /\ Advance(p)
    /\ UNCHANGED <<logEnd, owner, committed, resetTo, rebalances,
                   cur, loaded, redisVars, topics, saves, overlap, restarts>>

(* Decoding raises something else: dead letter queue, and no commit.  The  *)
(* next poll() returns the next message all the same.                      *)
PollBadBytes(c, p) ==
    /\ pc[c] = "poll" /\ CanPoll(c, p)
    /\ LET x == [part |-> p, off |-> position[p]]
       IN  /\ Message(x).kind = "bad_bytes"
           /\ Enqueue(c, {OutputOf(x, DLQ)})
           /\ Finish(x)
    /\ Advance(p)
    /\ UNCHANGED <<logEnd, owner, committed, commitQueue, resetTo, rebalances,
                   detectorVars, redisVars, topics, saves, overlap, restarts>>

(* SISMEMBER blocked_users: a blocked user's transaction is only reported; *)
(* if Redis fails the transaction is scored (fail open).  When card1 is    *)
(* what the transaction lacks, the KeyError is logged and that is all.     *)
CheckBlocked(c) ==
    /\ pc[c] = "check"
    /\ \/ /\ "raises" \in Message(cur[c]).verdicts
          /\ Goto(c, "commit")
          /\ UNCHANGED outbox
          /\ CallWorks
       \/ /\ UserOf(c) \in blocked
          /\ Enqueue(c, {OutputOf(cur[c], BlockedTxns)})
          /\ Goto(c, "commit")
       \/ /\ (UserOf(c) \notin blocked /\ CallWorks) \/ CallFails
          /\ Goto(c, "load")
          /\ UNCHANGED outbox
    /\ UNCHANGED <<groupVars, cur, loaded, redisVars, topics,
                   handled, saves, overlap, restarts>>

(* get_user_profile (a failed read is an empty profile), then              *)
(* extract_features, which scores the transaction or raises.  What raises  *)
(* inside process_transaction is logged there and goes no further.         *)
LoadAndScore(c) ==
    /\ pc[c] = "load"
    /\ LET u == UserOf(c)
           others == \E d \in Consumers \ {c} : pc[d] = "save" /\ UserOf(d) = u
       IN  \E v \in Message(cur[c]).verdicts :
             /\ \/ /\ loaded' = [loaded EXCEPT ![c] = Scored(profile[u], v)]
                   /\ CallWorks
                   /\ overlap' = IF others THEN overlap \cup {u} ELSE overlap
                \/ /\ loaded' = [loaded EXCEPT ![c] = Scored(0, v)]
                   /\ CallFails
                   /\ overlap' = overlap \cup {u}
             /\ Goto(c, IF v = "raises" THEN "commit" ELSE "save")
    /\ UNCHANGED <<groupVars, cur, redisVars, outputVars, handled, saves, restarts>>

\* Mutant: a fraudulent transaction is not counted.
CountUnlessFraud(c) == IF loaded[c].fraud THEN loaded[c].total ELSE loaded[c].total + 1

(* update_transaction_stats, on the profile that was read.                 *)
CountTransaction(c) == loaded[c].total + 1

(* update_daily_stats, update_transaction_stats and save_user_profile: the *)
(* whole hash is written from what was read before.  An error is logged.   *)
SaveProfile(c) ==
    /\ pc[c] = "save"
    /\ LET u == UserOf(c)
       IN  \/ /\ profile' = [profile EXCEPT ![u] = CountTransaction(c)]
              /\ saves' = [saves EXCEPT ![u] = @ + 1]
              /\ CallWorks
           \/ CallFails /\ UNCHANGED <<profile, saves>>
    /\ Goto(c, "publish")
    /\ UNCHANGED <<groupVars, cur, loaded, blocked, outputVars, handled, overlap, restarts>>

\* Mutant: the result is published only when there is no alert.
AlertOrResult(c) ==
    {OutputOf(cur[c], IF loaded[c].fraud THEN Alerts ELSE Results)}

(* publish_fraud_alert above the threshold, publish_fraud_detection_result *)
(* always.                                                                 *)
Announcements(c) ==
    {OutputOf(cur[c], Results)}
        \cup (IF loaded[c].fraud THEN {OutputOf(cur[c], Alerts)} ELSE {})

Publish(c) ==
    /\ pc[c] = "publish"
    /\ Enqueue(c, Announcements(c))
    /\ Goto(c, "commit")
    /\ UNCHANGED <<groupVars, cur, loaded, redisVars, topics,
                   handled, saves, overlap, restarts>>

(* consumer.commit(msg); if the call itself raises, the message goes to    *)
(* the dead letter queue although it was processed.                        *)
Commit(c) ==
    /\ pc[c] = "commit"
    /\ \/ /\ RequestCommit(c, cur[c].part, cur[c].off)
          /\ CallWorks
          /\ UNCHANGED outbox
       \/ /\ CallFails
          /\ outbox' = [outbox EXCEPT ![c] = @ \cup {OutputOf(cur[c], DLQ)}]
          /\ UNCHANGED commitQueue
    /\ Finish(cur[c])
    /\ Goto(c, "poll")
    /\ cur' = [cur EXCEPT ![c] = SomeOffset]
    /\ loaded' = [loaded EXCEPT ![c] = NothingLoaded]
    /\ UNCHANGED <<logEnd, owner, position, committed, resetTo, rebalances,
                   redisVars, topics, saves, overlap, restarts>>

-----------------------------------------------------------------------------
(* SIGTERM, or a Kafka error returned by poll(): the loop ends.            *)
StopRunning(c) ==
    /\ pc[c] = "poll"
    /\ restarts < MaxRestarts
    /\ restarts' = restarts + 1
    /\ Goto(c, "stopping")
    /\ UNCHANGED <<groupVars, cur, loaded, redisVars, outputVars,
                   handled, saves, overlap, faults>>

(* _cleanup: flush the detector's producer (at most 10 s), close the       *)
(* consumer.  The dead letter publisher has a producer of its own, which   *)
(* nothing flushes.                                                        *)
Cleanup(c) ==
    /\ pc[c] = "stopping"
    /\ commitQueue[c] = <<>>
    /\ \/ CallWorks /\ topics' = topics \cup {x \in outbox[c] : x.topic # DLQ}
       \/ CallFails /\ UNCHANGED topics
    /\ outbox' = [outbox EXCEPT ![c] = {}]
    /\ Leave(c)
    /\ Goto(c, "down")
    /\ UNCHANGED <<cur, loaded, redisVars, handled, saves, overlap, restarts>>

(* The process is killed: what it had not handed to a broker is gone.      *)
Crash(c) ==
    /\ pc[c] # "down"
    /\ restarts < MaxRestarts
    /\ restarts' = restarts + 1
    /\ outbox' = [outbox EXCEPT ![c] = {}]
    /\ Leave(c)
    /\ Goto(c, "down")
    /\ cur' = [cur EXCEPT ![c] = SomeOffset]
    /\ loaded' = [loaded EXCEPT ![c] = NothingLoaded]
    /\ UNCHANGED <<redisVars, topics, handled, saves, overlap, faults>>

(* librdkafka's background thread delivers a queued message.               *)
Deliver(c) ==
    /\ \E x \in outbox[c] :
          /\ topics' = topics \cup {x}
          /\ outbox' = [outbox EXCEPT ![c] = @ \ {x}]
    /\ UNCHANGED <<groupVars, detectorVars, redisVars, ghostVars>>

Group ==
    /\ \/ \E p \in Partitions : Produce(p) \/ Revoke(p)
       \/ \E c \in Consumers : AnswerCommit(c)
       \/ \E c \in Consumers, p \in Partitions : pc[c] # "down" /\ Assign(c, p)
    /\ UNCHANGED localVars

Poll(c) == \E p \in Partitions :
    PollTransaction(c, p) \/ PollBadJson(c, p) \/ PollBadBytes(c, p)

Process(c) ==
    CheckBlocked(c) \/ LoadAndScore(c) \/ SaveProfile(c) \/ Publish(c) \/ Commit(c)

Next ==
    \/ Group
    \/ \E c \in Consumers :
          \/ Start(c) \/ Poll(c) \/ Process(c) \/ Deliver(c)
          \/ StopRunning(c) \/ Cleanup(c) \/ Crash(c)

Spec == Init /\ [][Next]_vars

\* The processes run under Kubernetes, which starts a stopped container again;
\* a running process and the client library's threads go on; the group
\* coordinator assigns free partitions and answers commits.  Nothing obliges
\* a stop, a rebalance or a failing call to happen.
FairSpec ==
    /\ Spec
    /\ \A c \in Consumers :
          /\ WF_vars(Start(c))
          /\ WF_vars(Poll(c))
          /\ WF_vars(Process(c))
          /\ WF_vars(Cleanup(c))
          /\ WF_vars(Deliver(c))
          /\ WF_vars(AnswerCommit(c) /\ UNCHANGED localVars)
    /\ \A p \in Partitions :
          WF_vars(\E c \in Consumers : pc[c] # "down" /\ Assign(c, p) /\ UNCHANGED localVars)

-----------------------------------------------------------------------------
(* Offset o of p is done with: some process finished with the message, or  *)
(* the group's first start at the end of the log passed over it.           *)
Done(p, o) == [part |-> p, off |-> o] \in handled \/ o < resetTo[p]

(* The group never commits past a message that no process has finished     *)
(* with, whatever the interleaving of commits, rebalances and crashes:     *)
(* _run_single commits a message only after processing it, and a consumer  *)
(* reads the messages of a partition in order.                             *)
CommittedWasHandled ==
    \A p \in Partitions : \A o \in 0 .. committed[p] - 1 : Done(p, o)

(* get_user_profile and save_user_profile lose an update only when two     *)
(* processes interleave on the user, or when the read failed.              *)
ProfileCountsEverySave ==
    \A u \in Users \ overlap : profile[u] = saves[u]

Produced(p, o) == o < logEnd[p]

(* Every message a producer appends is eventually finished with, or is     *)
(* passed over by a start at the end of the log.                           *)
EveryMessageHandled ==
    \A p \in Partitions : \A o \in 0 .. LogSize[p] - 1 : Produced(p, o) ~> Done(p, o)

(* What a handled transaction must tell the other services.                *)
Reported(x) == \E t \in {Results, BlockedTxns} : OutputOf(x, t) \in topics

(* Unless a process stops or a call fails, the outcome of every handled    *)
(* transaction that has all its fields reaches its topic.                  *)
OutcomesDelivered ==
    \A p \in Partitions : \A o \in 0 .. LogSize[p] - 1 :
        LET x == [part |-> p, off |-> o]
        IN  (/\ x \in handled
             /\ Message(x).kind = "transaction"
             /\ "raises" \notin Message(x).verdicts)
               ~> (Reported(x) \/ restarts > 0 \/ faults > 0)

(* The detectors keep the promise of a consumer group with manual commits. *)
LogMessages == UNION {{[part |-> p, off |-> o] : o \in 0 .. LogSize[p] - 1} : p \in Partitions}

ALO == INSTANCE AtLeastOnce
    WITH produced <- logEnd,
         done <- {x \in LogMessages : Done(x.part, x.off)}

ImplementsAtLeastOnce == ALO!Spec
=============================================================================
