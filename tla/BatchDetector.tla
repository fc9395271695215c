---------------------------- MODULE BatchDetector ----------------------------
(***************************************************************************)
(* The fraud detection consumer in batch mode                              *)
(* (src/consumers/fraud_detector.py, _run_batch and _process_batch): each  *)
(* process buffers messages, flushes the buffer when it is full or its     *)
(* timer fires, reads all the user profiles of the batch before it         *)
(* processes the first message, and commits the last message only.         *)
(***************************************************************************)
EXTENDS KafkaGroup, FiniteSets

CONSTANTS
    Users,        \* the users (card1) of the transactions
    Log,          \* per partition, its messages as they are produced
    BatchSize,    \* --batch-size
    MaxRestarts,  \* bound: how many times a process is stopped or killed
    MaxFaults     \* bound: how many Redis, produce() or commit() calls fail

\* A transaction; a message whose parsing raises (text that is not JSON, whose
\* handler then raises, or bytes that are not UTF-8); JSON that is no object.
Kinds == {"transaction", "unreadable", "no_object"}

Verdicts == {"fraud", "fair", "raises"}

BatchMessage == [user: Users, kind: Kinds, verdicts: (SUBSET Verdicts) \ {{}}]

ASSUME BatchAssumption ==
    /\ Log \in [Partitions -> Seq(BatchMessage)]
    /\ \A p \in Partitions : LogSize[p] = Len(Log[p])
    /\ BatchSize \in Nat \ {0}
    /\ MaxRestarts \in Nat
    /\ MaxFaults \in Nat

VARIABLES
    pc,        \* what each process is about to do
    buffer,    \* msg_buffer: the messages it has polled and not processed
    loaded,    \* user_profiles: the totals it has read for the batch so far
    index,     \* idx: how many messages of the batch it is done with
    ending,    \* its loop is over: this batch is the last
    profile,   \* Redis db 0, user_profile:{user}: its total_transactions
    outbox,    \* per process, what produce() queued and librdkafka still holds
    topics,    \* what the broker has of the output topics
    handled,   \* ghost: the messages some process has finished with
    savedNow,  \* ghost: per process, the users its current batch has saved
    batches,   \* ghost: per user, how many batches saved the profile
    overlap,   \* ghost: the users whose profile was read while another batch
               \*        held it, or read as empty
    restarts,  \* ghost: how many times a process was stopped or killed
    faults     \* ghost: how many external calls failed

processVars == <<pc, buffer, loaded, index, ending>>
outputVars == <<outbox, topics>>
ghostVars == <<handled, savedNow, batches, overlap, restarts, faults>>
localVars == <<processVars, profile, outputVars, ghostVars>>
vars == <<groupVars, processVars, profile, outputVars, ghostVars>>

Alerts == "fraud-alerts"
Results == "fraud-detection-results"

Offset == [part: Partitions, off: Nat]
Output == [topic: {Alerts, Results}, part: Partitions, off: Nat]
Steps == {"down", "poll", "load", "score", "commit", "cleanup"}

TypeOK ==
    /\ GroupTypeOK
    /\ pc \in [Consumers -> Steps]
    /\ buffer \in [Consumers -> Seq(Offset)]
    /\ loaded \in [Consumers -> Seq(Nat)]
    /\ index \in [Consumers -> Nat]
    /\ \A c \in Consumers :
          Len(loaded[c]) <= Len(buffer[c]) /\ index[c] <= Len(buffer[c])
    /\ \A c \in Consumers : Len(buffer[c]) <= BatchSize
    /\ ending \in [Consumers -> BOOLEAN]
    /\ profile \in [Users -> Nat]
    /\ outbox \in [Consumers -> SUBSET Output]
    /\ topics \in SUBSET Output
    /\ handled \in SUBSET Offset
    /\ savedNow \in [Consumers -> SUBSET Users]
    /\ batches \in [Users -> Nat]
    /\ overlap \in SUBSET Users
    /\ restarts \in Nat
    /\ faults \in Nat

Message(x) == Log[x.part][x.off + 1]
OutputOf(x, t) == [topic |-> t, part |-> x.part, off |-> x.off]

Init ==
    /\ GroupInit
    /\ pc = [c \in Consumers |-> "poll"]
    /\ buffer = [c \in Consumers |-> <<>>]
    /\ loaded = [c \in Consumers |-> <<>>]
    /\ index = [c \in Consumers |-> 0]
    /\ ending = [c \in Consumers |-> FALSE]
    /\ profile = [u \in Users |-> 0]
    /\ outbox = [c \in Consumers |-> {}]
    /\ topics = {}
    /\ handled = {}
    /\ savedNow = [c \in Consumers |-> {}]
    /\ batches = [u \in Users |-> 0]
    /\ overlap = {}
    /\ restarts = 0
    /\ faults = 0

-----------------------------------------------------------------------------
CallFails == faults < MaxFaults /\ faults' = faults + 1
CallWorks == UNCHANGED faults

Goto(c, step) == pc' = [pc EXCEPT ![c] = step]

(* What c keeps of a batch once it is over.                                *)
ForgetBatch(c) ==
    /\ buffer' = [buffer EXCEPT ![c] = <<>>]
    /\ loaded' = [loaded EXCEPT ![c] = <<>>]
    /\ index' = [index EXCEPT ![c] = 0]
    /\ savedNow' = [savedNow EXCEPT ![c] = {}]

(* c exits without _cleanup: what its producer still held is gone.         *)
Die(c) ==
    /\ Leave(c)
    /\ ForgetBatch(c)
    /\ ending' = [ending EXCEPT ![c] = FALSE]
    /\ outbox' = [outbox EXCEPT ![c] = {}]
    /\ Goto(c, "down")

(* The loop ends: the finally clause first processes what is buffered.     *)
EndLoop(c) ==
    /\ ending' = [ending EXCEPT ![c] = TRUE]
    /\ Goto(c, IF buffer[c] = <<>> THEN "cleanup" ELSE "load")

Start(c) ==
    /\ pc[c] = "down"
    /\ Goto(c, "poll")
    /\ UNCHANGED <<groupVars, buffer, loaded, index, ending, profile, outputVars, ghostVars>>

(* poll() returns a message that parses; a full batch is processed next.   *)
PollMessage(c, p) ==
    /\ pc[c] = "poll" /\ CanPoll(c, p)
    /\ LET x == [part |-> p, off |-> position[p]]
       IN  /\ Message(x).kind # "unreadable"
           /\ buffer' = [buffer EXCEPT ![c] = Append(@, x)]
    /\ Goto(c, IF Len(buffer'[c]) = BatchSize THEN "load" ELSE "poll")
    /\ Advance(p)
    /\ UNCHANGED <<logEnd, owner, committed, commitQueue, resetTo, rebalances,
                   loaded, index, ending, profile, outputVars, ghostVars>>

(* Parsing raises.  For text that is not JSON the handler names an         *)
(* attribute, _dlq_publisher, that does not exist: like a decoding error,  *)
(* the AttributeError ends the loop, and the message is not committed.     *)
PollUnreadable(c, p) ==
    /\ pc[c] = "poll" /\ CanPoll(c, p)
    /\ Message([part |-> p, off |-> position[p]]).kind = "unreadable"
    /\ EndLoop(c)
    /\ Advance(p)
    /\ UNCHANGED <<logEnd, owner, committed, commitQueue, resetTo, rebalances,
                   buffer, loaded, index, profile, outputVars, ghostVars>>

\* Mutant: only a full batch is flushed.
FlushWhenFull(c) == Len(buffer[c]) = BatchSize

(* The batch timer has fired, or the flow controller has shrunk the batch, *)
(* to a single message at least.                                           *)
FlushDue(c) == buffer[c] # <<>>

Flush(c) ==
    /\ pc[c] = "poll" /\ FlushDue(c)
    /\ Goto(c, "load")
    /\ UNCHANGED <<groupVars, buffer, loaded, index, ending, profile, outputVars, ghostVars>>

-----------------------------------------------------------------------------
UserAt(c, i) == Message(buffer[c][i]).user

HasNoObject(c) ==
    \E i \in 1 .. Len(buffer[c]) : Message(buffer[c][i]).kind = "no_object"

(* d has read u's profile for its batch and may still write it.            *)
Holds(d, u) ==
    /\ pc[d] \in {"load", "score"}
    /\ \E i \in 1 .. Len(loaded[d]) : i > index[d] /\ UserAt(d, i) = u

(* The user ids of a batch with a message that is no object cannot be      *)
(* collected: the error ends the loop, whose finally clause hits it again, *)
(* and _cleanup is never reached.                                          *)
FailOnNoObject(c) ==
    /\ pc[c] = "load" /\ HasNoObject(c)
    /\ Die(c)
    /\ UNCHANGED <<profile, topics, handled, batches, overlap, restarts, faults>>

(* get_user_profile for the next message of the batch, before any of them  *)
(* is processed; a failed read is an empty profile.                        *)
LoadNext(c) ==
    /\ pc[c] = "load" /\ ~HasNoObject(c)
    /\ LET u == UserAt(c, Len(loaded[c]) + 1)
       IN  \/ /\ CallWorks
              /\ loaded' = [loaded EXCEPT ![c] = Append(@, profile[u])]
              /\ overlap' = IF \E d \in Consumers \ {c} : Holds(d, u)
                              THEN overlap \cup {u} ELSE overlap
           \/ /\ CallFails
              /\ loaded' = [loaded EXCEPT ![c] = Append(@, 0)]
              /\ overlap' = overlap \cup {u}
    /\ Goto(c, IF Len(loaded'[c]) = Len(buffer[c]) THEN "score" ELSE "load")
    /\ UNCHANGED <<groupVars, buffer, index, ending, profile, outputVars,
                   handled, savedNow, batches, restarts>>

\* Mutant: both update_daily_stats and update_transaction_stats count.
CountTwice(c) == loaded[c][index[c] + 1] + 2

CountTransaction(c) == loaded[c][index[c] + 1] + 1

(* The alert, above the threshold, and the result of the message at x.     *)
Announcements(x, verdict) ==
    {OutputOf(x, Results)} \cup (IF verdict = "fraud" THEN {OutputOf(x, Alerts)} ELSE {})

(* save_user_profile, then the publishing of x, whose errors are logged.   *)
(* At most one of the calls of a message fails here.                       *)
SaveAndPublish(c, x, verdict) ==
    LET u == Message(x).user
        wanted == Announcements(x, verdict)
        save == /\ profile' = [profile EXCEPT ![u] = CountTransaction(c)]
                /\ savedNow' = [savedNow EXCEPT ![c] = @ \cup {u}]
                /\ batches' = IF u \in savedNow[c] THEN batches
                                ELSE [batches EXCEPT ![u] = @ + 1]
        queue(sent) == outbox' = [outbox EXCEPT ![c] = @ \cup sent]
    IN  \/ CallWorks /\ save /\ queue(wanted)
        \/ CallFails /\ save /\ \E sent \in (SUBSET wanted) \ {wanted} : queue(sent)
        \/ CallFails /\ UNCHANGED <<profile, savedNow, batches>> /\ queue(wanted)

(* One message of the batch: what raises before the profile is saved is    *)
(* logged, and the message skipped.                                        *)
ScoreNext(c) ==
    /\ pc[c] = "score"
    /\ LET x == buffer[c][index[c] + 1]
       IN  \E v \in Message(x).verdicts :
              \/ v # "raises" /\ SaveAndPublish(c, x, v)
              \/ v = "raises" /\ UNCHANGED <<profile, savedNow, batches, outbox, faults>>
          /\ handled' = handled \cup {x}
    /\ index' = [index EXCEPT ![c] = @ + 1]
    /\ Goto(c, IF index'[c] = Len(buffer[c]) THEN "commit" ELSE "score")
    /\ UNCHANGED <<groupVars, buffer, loaded, ending, topics, overlap, restarts>>

(* commit(message = messages[-1]); an error is logged.                     *)
Commit(c) ==
    /\ pc[c] = "commit"
    /\ LET last == buffer[c][Len(buffer[c])]
       IN  \/ CallWorks /\ RequestCommit(c, last.part, last.off)
           \/ CallFails /\ UNCHANGED commitQueue
    /\ ForgetBatch(c)
    /\ Goto(c, IF ending[c] THEN "cleanup" ELSE "poll")
    /\ UNCHANGED <<logEnd, owner, position, committed, resetTo, rebalances,
                   ending, profile, outputVars, handled, batches, overlap, restarts>>

-----------------------------------------------------------------------------
(* SIGTERM, or a Kafka error returned by poll().                           *)
StopRunning(c) ==
    /\ pc[c] = "poll"
    /\ restarts < MaxRestarts
    /\ restarts' = restarts + 1
    /\ EndLoop(c)
    /\ UNCHANGED <<groupVars, buffer, loaded, index, profile, outputVars,
                   handled, savedNow, batches, overlap, faults>>

(* _cleanup: flush the producer (at most 10 s), close the consumer.        *)
Cleanup(c) ==
    /\ pc[c] = "cleanup"
    /\ commitQueue[c] = <<>>
    /\ \/ CallWorks /\ topics' = topics \cup outbox[c]
       \/ CallFails /\ UNCHANGED topics
    /\ Die(c)
    /\ UNCHANGED <<profile, handled, batches, overlap, restarts>>

(* The process is killed.                                                  *)
Crash(c) ==
    /\ pc[c] # "down"
    /\ restarts < MaxRestarts
    /\ restarts' = restarts + 1
    /\ Die(c)
    /\ UNCHANGED <<profile, topics, handled, batches, overlap, faults>>

Deliver(c) ==
    /\ \E x \in outbox[c] :
          /\ topics' = topics \cup {x}
          /\ outbox' = [outbox EXCEPT ![c] = @ \ {x}]
    /\ UNCHANGED <<groupVars, processVars, profile, ghostVars>>

Group ==
    /\ \/ \E p \in Partitions : Produce(p) \/ Revoke(p)
       \/ \E c \in Consumers : AnswerCommit(c)
       \/ \E c \in Consumers, p \in Partitions : pc[c] # "down" /\ Assign(c, p)
    /\ UNCHANGED localVars

Poll(c) == \E p \in Partitions : PollMessage(c, p) \/ PollUnreadable(c, p)

ProcessBatch(c) == FailOnNoObject(c) \/ LoadNext(c) \/ ScoreNext(c) \/ Commit(c)

Next ==
    \/ Group
    \/ \E c \in Consumers :
          \/ Start(c) \/ Poll(c) \/ Flush(c) \/ ProcessBatch(c) \/ Deliver(c)
          \/ StopRunning(c) \/ Cleanup(c) \/ Crash(c)

Spec == Init /\ [][Next]_vars

\* The container is started again; the loop goes on, and its timer fires; the
\* coordinator assigns partitions and answers commits.
FairSpec ==
    /\ Spec
    /\ \A c \in Consumers :
          /\ WF_vars(Start(c))
          /\ WF_vars(Poll(c))
          /\ WF_vars(Flush(c))
          /\ WF_vars(ProcessBatch(c))
          /\ WF_vars(Cleanup(c))
          /\ WF_vars(AnswerCommit(c) /\ UNCHANGED localVars)
    /\ \A p \in Partitions :
          WF_vars(\E c \in Consumers : pc[c] # "down" /\ Assign(c, p) /\ UNCHANGED localVars)

-----------------------------------------------------------------------------
Done(p, o) == [part |-> p, off |-> o] \in handled \/ o < resetTo[p]

(* A batch adds one to a user's profile however many transactions of the   *)
(* user it holds, because all profiles are read before the first is        *)
(* written.  That is the only way to lose a count, as long as no other     *)
(* process holds the profile and every read works.                         *)
ProfileCountsBatches ==
    \A u \in Users \ overlap : profile[u] = batches[u]

(* What is buffered does not wait for more: the timer flushes a batch that *)
(* does not fill, a shutdown flushes the rest, or the process ends.        *)
BufferDrains ==
    \A c \in Consumers : buffer[c] # <<>> ~> buffer[c] = <<>>

(* The documentation's claim (docs/fraud-detection): a failed message at   *)
(* any stage is routed to the dead letter queue, so that it does not stop  *)
(* what is behind it.                                                      *)
NoMessageBlocksTheNext ==
    \A p \in Partitions : \A o \in 0 .. LogSize[p] - 1 :
        (o < logEnd[p] /\ Log[p][o + 1].kind = "transaction") ~> Done(p, o)

(* Batch mode, too, commits only what is behind it.                        *)
LogMessages == UNION {{[part |-> p, off |-> o] : o \in 0 .. LogSize[p] - 1} : p \in Partitions}

ALO == INSTANCE AtLeastOnce
    WITH produced <- logEnd,
         done <- {x \in LogMessages : Done(x.part, x.off)}

ImplementsAtLeastOnce == ALO!Spec
=============================================================================
