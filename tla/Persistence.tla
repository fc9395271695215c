---------------------------- MODULE Persistence ----------------------------
(***************************************************************************)
(* The persistence consumer (src/consumers/persistence_consumer.py), which *)
(* buffers what it polls and writes it to ClickHouse and PostgreSQL        *)
(* (src/persistence/database.py), composed with the dead letter queue that *)
(* takes what it cannot handle.  Its offsets are committed by librdkafka's *)
(* timer, whatever has become of the messages.                             *)
(***************************************************************************)
EXTENDS KafkaGroup, SequencesExt

CONSTANTS
    Users,
    Log,          \* per partition, its messages
    BatchSize,    \* batch_size
    DriverFits,   \* external: psycopg is as the code takes it to be, so that
                  \*    fetchone()[0] of health_check is the row's first column
                  \*    and a dictionary is accepted for a JSONB column
    MaxTroubles   \* bound: how many times a process stops or is killed, or a
                  \*    database, file or Kafka call fails

Topics == {"results", "records", "audit"}

\* What is complete, what lacks a field or has one that is no number (a result
\* of medium severity or more without a model's score is one of them), and what
\* cannot be decoded.  performance-metrics are written as records are.
Kinds == {"complete", "malformed", "unreadable"}

Item == [topic: Topics, kind: Kinds, user: Users, severity: {"low", "medium", "high"}]

\* A topic has finitely many partitions and a group finitely many members; the
\* consumer asks for auto.offset.reset = earliest.
ASSUME PersistenceAssumption ==
    /\ Partitions # {} /\ IsFiniteSet(Partitions) /\ IsFiniteSet(Consumers)
    /\ ~ResetToLatest
    /\ Log \in [Partitions -> Seq(Item)]
    /\ \A p \in Partitions : LogSize[p] = Len(Log[p])
    /\ BatchSize \in Nat \ {0}
    /\ DriverFits \in BOOLEAN
    /\ MaxTroubles \in Nat

Offset == [part: Partitions, off: Nat]
LogItems == UNION {{[part |-> p, off |-> o] : o \in 0 .. LogSize[p] - 1} : p \in Partitions}

VARIABLES
    pc,       \* what each process is about to do
    batch,    \* current_batch: the messages it has buffered
    todo,     \* of the batch it is writing, the messages still to come
    ending,   \* whether it is shutting down
    stored,   \* transaction_records, performance_metrics and system_audit_log
              \*    hold the message's row
    alertRows,\* how many rows of fraud_alerts a message has led to
    account,  \* user_accounts
    audited,  \* messages whose alert is in system_audit_log
    troubles, \* ghost: how many stops, kills and failing calls there were
    excused,  \* ghost: messages a failing call or the end of a process lost
    torn,     \* ghost: per user, alert rows whose account was never updated
    letterQueue, letterTopic, readerPc, readerNext, letterCommitted, letterFile

Dead == INSTANCE DeadLetters WITH Publishers <- Consumers, Letters <- LogItems

restOfLetters == <<letterTopic, readerPc, readerNext, letterCommitted, letterFile>>
letterVars == <<letterQueue, restOfLetters>>
processVars == <<pc, batch, todo, ending>>
tableVars == <<stored, alertRows, account, audited>>
ghostVars == <<troubles, excused, torn>>
localVars == <<processVars, tableVars, ghostVars>>
vars == <<groupVars, localVars, letterVars>>

Account == [total: Nat, high: Nat, medium: BOOLEAN]

TypeOK ==
    /\ GroupTypeOK
    /\ Dead!LettersTypeOK
    /\ pc \in [Consumers -> {"down", "poll", "work", "alert", "account", "audit", "close"}]
    /\ batch \in [Consumers -> Seq(LogItems)]
    /\ todo \in [Consumers -> Seq(LogItems)]
    /\ \A c \in Consumers :
          /\ Len(batch[c]) <= BatchSize
          /\ pc[c] \in {"alert", "account", "audit"} => todo[c] # <<>>
    /\ ending \in [Consumers -> BOOLEAN]
    /\ stored \in SUBSET LogItems
    /\ alertRows \in [LogItems -> Nat]
    /\ account \in [Users -> Account]
    /\ audited \in SUBSET LogItems
    /\ troubles \in 0 .. MaxTroubles
    /\ excused \in SUBSET LogItems
    /\ torn \in [Users -> Nat]

At(x) == Log[x.part][x.off + 1]

\* medium: a ghost in the row, whether an alert of medium severity was counted.
NoAccount == [total |-> 0, high |-> 0, medium |-> FALSE]

Init ==
    /\ GroupInit
    /\ Dead!LettersInit
    /\ pc = [c \in Consumers |-> "down"]
    /\ batch = [c \in Consumers |-> <<>>]
    /\ todo = [c \in Consumers |-> <<>>]
    /\ ending = [c \in Consumers |-> FALSE]
    /\ stored = {}
    /\ alertRows = [x \in LogItems |-> 0]
    /\ account = [u \in Users |-> NoAccount]
    /\ audited = {}
    /\ troubles = 0
    /\ excused = {}
    /\ torn = [u \in Users |-> 0]

-----------------------------------------------------------------------------
Goto(c, step) == pc' = [pc EXCEPT ![c] = step]

\* An external call that works, and one that fails and loses the messages xs.
CallWorks == UNCHANGED <<troubles, excused>>
Trouble == troubles < MaxTroubles /\ troubles' = troubles + 1
CallFails(xs) == Trouble /\ excused' = excused \cup xs

(* The constructor: both databases answer the health check.                *)
HealthCheck == DriverFits

Start(c) ==
    /\ pc[c] = "down"
    /\ HealthCheck
    /\ Goto(c, "poll")
    /\ UNCHANGED <<groupVars, letterVars, batch, todo, ending, tableVars, ghostVars>>

(* The messages of a batch, grouped by topic, the topics in the order of   *)
(* their first message.                                                    *)
FirstOfTopic(s, i) == Min({j \in DOMAIN s : At(s[j]).topic = At(s[i]).topic})
ComesBefore(s, i, j) ==
    \/ FirstOfTopic(s, i) < FirstOfTopic(s, j)
    \/ FirstOfTopic(s, i) = FirstOfTopic(s, j) /\ i < j
Grouped(s) ==
    LET before(i) == Cardinality({j \in DOMAIN s : ComesBefore(s, j, i)})
    IN  [n \in DOMAIN s |-> s[CHOOSE i \in DOMAIN s : before(i) = n - 1]]

StartBatch(c, b) ==
    /\ Goto(c, "work")
    /\ todo' = [todo EXCEPT ![c] = Grouped(b)]

(* _process_messages and _handle_message: a message that can be decoded is *)
(* buffered, another goes to the dead letter queue.                        *)
Poll(c, p) ==
    /\ pc[c] = "poll" /\ CanPoll(c, p)
    /\ LET x == [part |-> p, off |-> position[p]]
           b == Append(batch[c], x)
       IN  \/ /\ At(x).kind # "unreadable"
              /\ batch' = [batch EXCEPT ![c] = b]
              /\ IF Len(b) >= BatchSize THEN StartBatch(c, b) ELSE UNCHANGED <<pc, todo>>
              /\ UNCHANGED letterQueue
           \/ /\ At(x).kind = "unreadable"
              /\ Dead!PublishLetters(c, {x})
              /\ UNCHANGED <<pc, batch, todo>>
    /\ Advance(p)
    /\ UNCHANGED <<logEnd, owner, committed, commitQueue, resetTo, rebalances,
                   restOfLetters, ending, tableVars, ghostVars>>

\* Mutant: only a full batch is written.
NeverDue(c) == FALSE

(* _check_batch_timeout, asked after every poll.                           *)
BatchDue(c) == batch[c] # <<>>

TimerFires(c) ==
    /\ pc[c] = "poll" /\ BatchDue(c)
    /\ StartBatch(c, batch[c])
    /\ UNCHANGED <<groupVars, letterVars, batch, ending, tableVars, ghostVars>>

-----------------------------------------------------------------------------
(* The next messages of the batch are done with; the batch is cleared at   *)
(* its end.                                                                *)
Finish(c, n) ==
    LET rest == SubSeq(todo[c], n + 1, Len(todo[c]))
    IN  /\ todo' = [todo EXCEPT ![c] = rest]
        /\ batch' = IF rest = <<>> THEN [batch EXCEPT ![c] = <<>>] ELSE batch
        /\ Goto(c, IF rest # <<>> THEN "work" ELSE IF ending[c] THEN "close" ELSE "poll")

Current(c) == Head(todo[c])
WritingResult(c) ==
    pc[c] = "work" /\ todo[c] # <<>> /\ At(Current(c)).topic = "results"

(* How many messages of the first one's topic come together at the front.  *)
RunLength(s) == Min({n \in DOMAIN s : n = Len(s) \/ At(s[n + 1]).topic # At(s[1]).topic})

(* What one call inserts: of records and metrics those of the batch that   *)
(* parse, the others being counted and dropped; of audit events one.       *)
InsertRows(c) ==
    /\ pc[c] = "work" /\ todo[c] # <<>>
    /\ LET topic == At(Current(c)).topic
           count == IF topic = "records" THEN RunLength(todo[c]) ELSE 1
           parsed == {x \in ToSet(SubSeq(todo[c], 1, count)) : At(x).kind = "complete"}
       IN  /\ topic # "results"
           /\ \/ CallWorks /\ stored' = stored \cup parsed
              \/ parsed # {} /\ CallFails(parsed) /\ UNCHANGED stored
           /\ Finish(c, count)
    /\ UNCHANGED <<groupVars, letterVars, ending, alertRows, account, audited, torn>>

(* A result that cannot be parsed goes to the dead letter queue.           *)
RejectResult(c) ==
    /\ WritingResult(c)
    /\ At(Current(c)).kind = "malformed"
    /\ Dead!PublishLetters(c, {Current(c)})
    /\ Finish(c, 1)
    /\ UNCHANGED <<groupVars, restOfLetters, ending, tableVars, ghostVars>>

IsAlert(x) ==
    At(x).topic = "results" /\ At(x).kind = "complete" /\ At(x).severity \in {"medium", "high"}

(* The insertions into ClickHouse; their errors are logged and passed over.*)
InsertResult(c) ==
    /\ WritingResult(c)
    /\ At(Current(c)).kind = "complete"
    /\ LET x == Current(c)
       IN  /\ \/ CallWorks /\ stored' = stored \cup {x}
              \/ CallFails({x}) /\ UNCHANGED stored
           /\ IF IsAlert(x) THEN Goto(c, "alert") /\ UNCHANGED <<todo, batch>>
                            ELSE Finish(c, 1)
    /\ UNCHANGED <<groupVars, letterVars, ending, alertRows, account, audited, torn>>

(* What PostgreSQL is asked for one alert is three transactions.  The      *)
(* first that fails ends the handling of the alert: persist_fraud_...      *)
(* returns False, which the caller does not look at.                       *)
InsertAlert(c) ==
    /\ pc[c] = "alert"
    /\ \/ /\ CallWorks
          /\ alertRows' = [alertRows EXCEPT ![Current(c)] = @ + 1]
          /\ Goto(c, "account")
          /\ UNCHANGED <<todo, batch>>
       \/ CallFails({Current(c)}) /\ Finish(c, 1) /\ UNCHANGED alertRows
    /\ UNCHANGED <<groupVars, letterVars, ending, stored, account, audited, torn>>

\* Mutant: an update starts the total over, as it does the high severity count.
RestartedTotal(a, severity) ==
    [total |-> 1,
     high |-> IF severity = "high" THEN a.high + 1 ELSE 0,
     medium |-> a.medium \/ severity = "medium"]

(* ON CONFLICT DO UPDATE: the total is incremented; so is the high         *)
(* severity count, which another alert sets to EXCLUDED's 0.               *)
UpsertedAccount(a, severity) ==
    [total |-> a.total + 1,
     high |-> IF severity = "high" THEN a.high + 1 ELSE 0,
     medium |-> a.medium \/ severity = "medium"]

UpsertAccount(c) ==
    /\ pc[c] = "account"
    /\ LET m == At(Current(c))
       IN  \/ /\ CallWorks
              /\ account' = [account EXCEPT ![m.user] = UpsertedAccount(@, m.severity)]
              /\ Goto(c, "audit")
              /\ UNCHANGED <<todo, batch, torn>>
           \/ /\ CallFails({Current(c)})
              /\ torn' = [torn EXCEPT ![m.user] = @ + 1]
              /\ Finish(c, 1)
              /\ UNCHANGED account
    /\ UNCHANGED <<groupVars, letterVars, ending, stored, alertRows, audited>>

AuditAlert(c) ==
    /\ pc[c] = "audit"
    /\ \/ CallWorks /\ audited' = audited \cup {Current(c)}
       \/ CallFails({Current(c)}) /\ UNCHANGED audited
    /\ Finish(c, 1)
    /\ UNCHANGED <<groupVars, letterVars, ending, stored, alertRows, account, torn>>

-----------------------------------------------------------------------------
\* Mutant: the buffered messages are left.
CloseAtOnce(c) == Goto(c, "close") /\ UNCHANGED todo

(* _shutdown first processes what is buffered.                             *)
FinalBatch(c) ==
    IF batch[c] = <<>> THEN Goto(c, "close") /\ UNCHANGED todo ELSE StartBatch(c, batch[c])

(* SIGTERM.                                                                *)
StopRunning(c) ==
    /\ pc[c] = "poll"
    /\ Trouble
    /\ ending' = [ending EXCEPT ![c] = TRUE]
    /\ FinalBatch(c)
    /\ UNCHANGED <<groupVars, letterVars, batch, tableVars, excused, torn>>

(* The consumer's close() commits the positions of its partitions and      *)
(* leaves the group; dead letters still queued go with the process.        *)
Close(c) ==
    /\ pc[c] = "close"
    /\ committed' = [p \in Partitions |->
                        IF owner[p] = c /\ position[p] > 0 THEN position[p] ELSE committed[p]]
    /\ owner' = [p \in Partitions |-> IF owner[p] = c THEN NoOwner ELSE owner[p]]
    /\ commitQueue' = [commitQueue EXCEPT ![c] = <<>>]
    /\ Goto(c, "down")
    /\ ending' = [ending EXCEPT ![c] = FALSE]
    /\ batch' = [batch EXCEPT ![c] = <<>>]
    /\ Dead!ForgetLetters(c)
    /\ excused' = excused \cup letterQueue[c]
    /\ UNCHANGED <<logEnd, position, resetTo, rebalances, restOfLetters, todo,
                   tableVars, troubles, torn>>

(* The process is killed: what it had buffered is excused from here on.    *)
Crash(c) ==
    /\ pc[c] # "down"
    /\ Trouble
    /\ excused' = excused \cup letterQueue[c] \cup ToSet(batch[c])
    /\ torn' = IF pc[c] = "account"
                 THEN [torn EXCEPT ![At(Current(c)).user] = @ + 1] ELSE torn
    /\ Leave(c)
    /\ Goto(c, "down")
    /\ batch' = [batch EXCEPT ![c] = <<>>]
    /\ todo' = [todo EXCEPT ![c] = <<>>]
    /\ ending' = [ending EXCEPT ![c] = FALSE]
    /\ Dead!ForgetLetters(c)
    /\ UNCHANGED <<rebalances, restOfLetters, tableVars>>

(* librdkafka's timer (auto.commit.interval.ms) commits what poll() has    *)
(* returned.  That the coordinator answers later makes no difference: the  *)
(* answer comes while c owns p, or never.                                  *)
AutoCommit(c, p) ==
    /\ pc[c] # "down" /\ owner[p] = c
    /\ position[p] > 0
    /\ committed[p] # position[p]
    /\ committed' = [committed EXCEPT ![p] = position[p]]
    /\ UNCHANGED <<logEnd, owner, position, commitQueue, resetTo, rebalances,
                   localVars, letterVars>>

Group ==
    /\ \/ \E p \in Partitions : Produce(p) \/ Revoke(p)
       \/ \E c \in Consumers, p \in Partitions : pc[c] # "down" /\ Assign(c, p)
    /\ UNCHANGED <<localVars, letterVars>>

(* The dead letter consumer, whose file or commit may fail.                *)
ReadLetters ==
    /\ \/ Dead!StartReader
       \/ Dead!ReadLetter(TRUE) \/ Dead!CommitLetter(TRUE)
       \/ \E c \in Consumers : Dead!DeliverLetter(c)
    /\ UNCHANGED <<groupVars, localVars>>

DisturbReader ==
    /\ \/ Dead!ReadLetter(FALSE) /\ CallFails({letterTopic[readerNext + 1]})
       \/ Dead!CommitLetter(FALSE) /\ CallFails({})
       \/ Dead!StopReader /\ CallFails({})
    /\ UNCHANGED <<groupVars, processVars, tableVars, torn>>

WriteBatch(c) ==
    \/ InsertRows(c) \/ RejectResult(c) \/ InsertResult(c)
    \/ InsertAlert(c) \/ UpsertAccount(c) \/ AuditAlert(c)

Next ==
    \/ Group \/ ReadLetters \/ DisturbReader
    \/ \E c \in Consumers :
          \/ Start(c) \/ TimerFires(c) \/ WriteBatch(c)
          \/ StopRunning(c) \/ Close(c) \/ Crash(c)
          \/ \E p \in Partitions : Poll(c, p) \/ AutoCommit(c, p)

Spec == Init /\ [][Next]_vars

\* The processes go on and are started again, the timer fires, partitions are
\* assigned, letters delivered.  The timed commit is under no obligation.
FairSpec ==
    /\ Spec
    /\ WF_vars(ReadLetters)
    /\ \A c \in Consumers :
          /\ WF_vars(Start(c))
          /\ WF_vars(TimerFires(c))
          /\ WF_vars(WriteBatch(c))
          /\ WF_vars(Close(c))
          /\ WF_vars(\E p \in Partitions : Poll(c, p))
    /\ \A p \in Partitions :
          WF_vars(/\ \E c \in Consumers : pc[c] # "down" /\ Assign(c, p)
                  /\ UNCHANGED <<localVars, letterVars>>)

-----------------------------------------------------------------------------
(* A message has left its trace: its rows, or its line in the dead letter  *)
(* file.  Malformed records are dropped without one.                       *)
Recorded(x) ==
    \/ x \in stored /\ (IsAlert(x) => x \in audited /\ alertRows[x] > 0)
    \/ x \in letterFile
    \/ At(x).topic # "results" /\ At(x).kind = "malformed"

(* It is still on its way through the consumer or the dead letter queue.   *)
Held(x) ==
    \/ \E c \in Consumers : x \in ToSet(batch[c]) \cup letterQueue[c]
    \/ \E i \in readerNext + 1 .. Len(letterTopic) : letterTopic[i] = x
    \/ \E i \in letterCommitted + 1 .. Len(letterTopic) : letterTopic[i] = x

(* Offsets are committed by a timer, ahead of the work.  What is lost by   *)
(* that is what a killed process had buffered and what a failing call was  *)
(* about: any other message below the committed offset is recorded or      *)
(* still held by somebody.                                                 *)
CommittedIsKept ==
    \A p \in Partitions : \A o \in 0 .. committed[p] - 1 :
        LET x == [part |-> p, off |-> o]
        IN  Recorded(x) \/ Held(x) \/ x \in excused

(* The rows of fraud_alerts of a user.                                     *)
SumOf(m, S) == FoldFunctionOnSet(+, 0, m, S)
AlertRowsOf(u) == SumOf(alertRows, {x \in LogItems : At(x).user = u})

(* An account counts the alert rows of its user, those excepted that a     *)
(* failing call or a kill cut off from their account, and those whose      *)
(* account comes next; the high severity count agrees until an alert of    *)
(* medium severity sets it back.                                           *)
AccountsCountAlerts ==
    \A u \in Users :
        LET next == {c \in Consumers : pc[c] = "account" /\ At(Current(c)).user = u}
        IN  /\ AlertRowsOf(u) = account[u].total + torn[u] + Cardinality(next)
            /\ ~account[u].medium => account[u].high = account[u].total

(* Every message is recorded in the end, in a database or in the dead      *)
(* letter file, unless a failing call or the end of a process lost it.     *)
(* (Logs end, and what is recorded stays so.)                              *)
EveryMessageRecorded ==
    <>[](\A x \in LogItems : logEnd[x.part] > x.off => Recorded(x) \/ x \in excused)
=============================================================================
