------------------------------ MODULE Producer ------------------------------
(***************************************************************************)
(* The synthetic transaction producer (src/producers/                      *)
(* synthetic_transaction_producer.py): worker processes, each with its own *)
(* connection, users and statistics, that make transactions in batches     *)
(* until they have made as many as they were asked for or their time is    *)
(* over. Delivery reports come from Kafka's thread and are counted when    *)
(* the worker polls.                                                       *)
(*                                                                         *)
(* A transaction's time deltas come from the times a worker has kept of    *)
(* its entities. Time goes in slots, some to a day; fraud is moved to a    *)
(* slot of the same day at which fraud peaks, and kept under that time.    *)
(***************************************************************************)
EXTENDS Integers, FiniteSets, FiniteSetsExt

CONSTANTS
  Workers,       \* the processes of --workers
  Tracked,       \* the worker whose users' times are followed: workers share nothing
  Accounts,      \* user_pool: the simulated users
  Totals,        \* what --total may ask for
  PollBatch,     \* poll_batch (100)
  BufferSize,    \* queue.buffering.max.messages
  DaySlots,      \* the slots of a day
  PeakSlots,     \* PEAK_FRAUD_HOURS
  MaxSlot,       \* bound: the last slot of the clock
  MaxMade,       \* bound: transactions of one worker
  MaxTrouble     \* bound: kills, interrupts and refusals of Kafka

\* There are workers, as many as --workers says; a batch may be of nothing, but not of
\* less; the hours of PEAK_FRAUD_HOURS are hours of a day.
ProducerAssumption ==
  /\ IsFiniteSet(Workers) /\ Tracked \in Workers
  /\ Totals \subseteq Nat /\ PollBatch \in Nat
  /\ DaySlots \in Nat \ {0} /\ PeakSlots \subseteq 0..(DaySlots - 1) /\ PeakSlots # {}
  /\ MaxSlot \in Nat
ASSUME ProducerAssumption

VARIABLES
  total,         \* --total
  topic,         \* the topic exists
  slot,          \* time.time()
  wpc,           \* what each worker does next
  expired,       \* the workers whose end_time has passed
  batchLeft,     \* what is left of a worker's batch
  made,          \* messages_sent, the transactions given to produce_transaction
  stats,         \* stats of each worker
  buffer,        \* librdkafka's queue: messages waiting, and reports to be polled
  lost,          \* the transactions counted when an interrupt came, and not produced
  lastTime,      \* user_lasttxn: the time kept for each user, or NoTime
  lastTrue,      \* when each user's last transaction was made, or NoTime
  trouble

pvars == <<total, topic, slot, wpc, expired, batchLeft, made, stats, buffer, lost, lastTime, lastTrue,
           trouble>>
counts == <<made, stats, buffer, lost>>
times == <<lastTime, lastTrue>>

NoTime == -1
NoStats == [total |-> 0, fraud |-> 0, legitimate |-> 0, errors |-> 0]
EmptyBuffer == [waiting |-> 0, delivered |-> 0, failed |-> 0]
Buffered(w) == buffer[w].waiting + buffer[w].delivered + buffer[w].failed

\* main divides the total; no more than one worker takes it whole. A share of 0 is no
\* limit: less than one each is as if no total had been asked for.
Share == total \div Cardinality(Workers)

MayTrouble(t) == trouble' = trouble + (IF t THEN 1 ELSE 0) /\ trouble' <= MaxTrouble

\* A bound: the clock stands at its end, or else the other workers are killed at once.
PInit ==
  /\ total \in Totals /\ topic \in BOOLEAN /\ expired = {}
  /\ \/ slot = MaxSlot /\ wpc = [w \in Workers |-> "look"]
     \/ slot = 0 /\ wpc = [w \in Workers |-> IF w = Tracked THEN "look" ELSE "killed"]
  /\ batchLeft = [w \in Workers |-> 0] /\ made = [w \in Workers |-> 0]
  /\ stats = [w \in Workers |-> NoStats] /\ buffer = [w \in Workers |-> EmptyBuffer]
  /\ lost = [w \in Workers |-> 0]
  /\ lastTime = [a \in Accounts |-> NoTime] /\ lastTrue = lastTime /\ trouble = 0

Goto(w, p) == wpc' = [wpc EXCEPT ![w] = p]

-----------------------------------------------------------------------------
\* run_production.

\* setup_topic: a topic that is not there is created; a worker that finds it absent and
\* another's by the time it creates it is refused, and gives up.
LookForTopic(w) ==
  /\ wpc[w] = "look"
  /\ \E refused \in BOOLEAN :
       /\ MayTrouble(refused)
       /\ Goto(w, IF refused THEN "report" ELSE IF topic THEN "loop" ELSE "create")
  /\ UNCHANGED <<total, topic, slot, expired, batchLeft, counts, times>>

CreateTopic(w) ==
  /\ wpc[w] = "create"
  /\ \E refused \in BOOLEAN :
       /\ MayTrouble(refused)
       /\ topic' = (topic \/ ~refused)
       /\ Goto(w, IF refused \/ topic THEN "report" ELSE "loop")
  /\ UNCHANGED <<total, slot, expired, batchLeft, counts, times>>

\* Mutant: a batch is full whatever is left to make.
FullBatch(w) == PollBatch

\* The size of the next batch.
BatchCount(w) == IF Share > 0 THEN Min({PollBatch, Share - made[w]}) ELSE PollBatch

\* The condition of the while loop.
BeginBatch(w) ==
  /\ wpc[w] = "loop"
  /\ IF w \in expired \/ (Share > 0 /\ made[w] >= Share)
     THEN Goto(w, "flush") /\ UNCHANGED batchLeft
     ELSE Goto(w, "batch") /\ batchLeft' = [batchLeft EXCEPT ![w] = BatchCount(w)]
  /\ UNCHANGED <<total, topic, slot, expired, counts, times, trouble>>

\* Mutant: the hour of a fraud is one of the first day.
TimesFromTheFirstDay(fraud) == {slot} \cup (IF fraud THEN PeakSlots ELSE {})

\* _generate_transaction: the time it is given, which _determine_if_fraud's verdict may
\* move to a peak of the day.
TimesOf(fraud) ==
  {slot} \cup (IF fraud THEN {slot - (slot % DaySlots) + p : p \in PeakSlots} ELSE {})

\* The days since the user's last transaction: the first one is 0, and what the moves of
\* fraud turn negative is 0 too.
DaysSince(kept, time) == IF kept = NoTime THEN 0 ELSE Max({0, time - kept})

\* _generate_time_delta_features: whatever the time is, it is kept.
TrackTime(w, a, time) ==
  IF w # Tracked THEN UNCHANGED times
  ELSE /\ lastTime' = [lastTime EXCEPT ![a] = time]
       /\ lastTrue' = [lastTrue EXCEPT ![a] = slot]

\* Mutant: what cannot be serialised or queued is counted as an error alone.
CountIfQueued(s, fraud, queued) ==
  IF queued THEN [s EXCEPT !.fraud = @ + (IF fraud THEN 1 ELSE 0),
                           !.legitimate = @ + (IF fraud THEN 0 ELSE 1)]
  ELSE [s EXCEPT !.errors = @ + 1]

\* produce_transaction: fraud and legitimate transactions are counted first, and errors
\* besides.
CountProduced(s, fraud, queued) ==
  [s EXCEPT !.fraud = @ + (IF fraud THEN 1 ELSE 0),
            !.legitimate = @ + (IF fraud THEN 0 ELSE 1),
            !.errors = @ + (IF queued THEN 0 ELSE 1)]

\* One turn of the inner loop. A full queue refuses the message.
ProduceOne(w) ==
  /\ wpc[w] = "batch" /\ batchLeft[w] > 0 /\ w \notin expired
  /\ made[w] < MaxMade
  /\ \E a \in Accounts, fraud, broken \in BOOLEAN :
       LET queued == ~broken /\ Buffered(w) < BufferSize
       IN /\ MayTrouble(broken)
          /\ \E time \in TimesOf(fraud) : TrackTime(w, a, time)
          /\ stats' = [stats EXCEPT ![w] = CountProduced(@, fraud, queued)]
          /\ buffer' = IF queued THEN [buffer EXCEPT ![w].waiting = @ + 1] ELSE buffer
  /\ made' = [made EXCEPT ![w] = @ + 1]
  /\ batchLeft' = [batchLeft EXCEPT ![w] = @ - 1]
  /\ UNCHANGED <<total, topic, slot, wpc, expired, lost>>

\* _delivery_callback, for every report there is.
Polled(s, b) == [s EXCEPT !.total = @ + b.delivered, !.errors = @ + b.failed]

\* The batch is made, or the time is over; poll(0) runs the callbacks.
PollReports(w) ==
  /\ wpc[w] = "batch" /\ (batchLeft[w] = 0 \/ w \in expired)
  /\ stats' = [stats EXCEPT ![w] = Polled(@, buffer[w])]
  /\ buffer' = [buffer EXCEPT ![w] = [EmptyBuffer EXCEPT !.waiting = buffer[w].waiting]]
  /\ Goto(w, "loop")
  /\ UNCHANGED <<total, topic, slot, expired, batchLeft, made, lost, times, trouble>>

\* flush: until the queue is empty, or too long.
FlushWorker(w) ==
  /\ wpc[w] = "flush"
  /\ stats' = [stats EXCEPT ![w] = Polled(@, buffer[w])]
  /\ buffer' = [buffer EXCEPT ![w] = [EmptyBuffer EXCEPT !.waiting = buffer[w].waiting]]
  /\ \E late \in BOOLEAN :
       /\ late => buffer[w].waiting > 0
       /\ MayTrouble(late)
       /\ Goto(w, IF late \/ buffer[w].waiting = 0 THEN "report" ELSE "flush")
  /\ UNCHANGED <<total, topic, slot, expired, batchLeft, made, lost, times>>

\* _worker_process: the statistics of a worker that is done are in result_dict.
Report(w) ==
  /\ wpc[w] = "report"
  /\ Goto(w, "done")
  /\ UNCHANGED <<total, topic, slot, expired, batchLeft, counts, times, trouble>>

\* A KeyboardInterrupt ends the loop with a flush, anything else that is raised without
\* one; the interrupt may come after a transaction is counted and before it is produced.
Interrupt(w) ==
  /\ wpc[w] \in {"loop", "batch"} /\ MayTrouble(TRUE)
  /\ \E next \in {"flush", "report"} : Goto(w, next)
  /\ \E midway \in BOOLEAN :
       /\ midway => wpc'[w] = "flush" /\ wpc[w] = "batch" /\ batchLeft[w] > 0
       /\ lost' = [lost EXCEPT ![w] = IF midway THEN 1 ELSE 0]
       /\ stats' = IF midway THEN [stats EXCEPT ![w].legitimate = @ + 1] ELSE stats
  /\ UNCHANGED <<total, topic, slot, expired, batchLeft, made, buffer, times>>

KillWorker(w) ==
  /\ wpc[w] # "done" /\ wpc[w] # "killed" /\ MayTrouble(TRUE)
  /\ Goto(w, "killed")
  /\ UNCHANGED <<total, topic, slot, expired, batchLeft, counts, times>>

-----------------------------------------------------------------------------
\* Kafka's thread, and time.

Answer(w) ==
  /\ buffer[w].waiting > 0 /\ wpc[w] \notin {"done", "killed"}
  /\ \E fails \in BOOLEAN :
       /\ MayTrouble(fails)
       /\ buffer' = [buffer EXCEPT ![w].waiting = @ - 1,
                                   ![w].failed = @ + (IF fails THEN 1 ELSE 0),
                                   ![w].delivered = @ + (IF fails THEN 0 ELSE 1)]
  /\ UNCHANGED <<total, topic, slot, wpc, expired, batchLeft, made, stats, lost, times>>

\* A bound: time passes when the worker that is followed is about to read it.
TimePasses ==
  /\ wpc[Tracked] = "batch"
  /\ slot < MaxSlot /\ slot' = slot + 1
  /\ UNCHANGED <<total, topic, wpc, expired, batchLeft, counts, times, trouble>>

\* duration_seconds have passed since a worker began.
EndTimeComes(w) ==
  /\ w \notin expired /\ wpc[w] \in {"loop", "batch"}
  /\ expired' = expired \cup {w}
  /\ UNCHANGED <<total, topic, slot, wpc, batchLeft, counts, times, trouble>>

PNext ==
  \/ \E w \in Workers :
       \/ LookForTopic(w) \/ CreateTopic(w) \/ BeginBatch(w) \/ ProduceOne(w) \/ PollReports(w)
       \/ FlushWorker(w) \/ Report(w) \/ Interrupt(w) \/ KillWorker(w) \/ Answer(w) \/ EndTimeComes(w)
  \/ TimePasses

-----------------------------------------------------------------------------
\* Properties.

\* Every transaction counted as fraud or legitimate is, at any time, delivered, an error,
\* or still in Kafka's hands, whatever order reports, refusals, polls and the end come
\* in; only an interrupt costs one. The rates printed from these counts (run_production's
\* statistics, and main's sums) can be trusted.
StatisticsBalance ==
  \A w \in Workers :
    stats[w].fraud + stats[w].legitimate = stats[w].total + stats[w].errors + Buffered(w) + lost[w]

MadeTogether == FoldSet(LAMBDA w, n : n + made[w], 0, Workers)

\* With at least one transaction for every worker to make, the workers together never
\* make more than --total asks for (main's division, the batches of run_production).
NeverMoreThanAsked == Share > 0 => MadeTogether <= total

\* The time told since a user's last transaction (d2) is off by no more than one fraud
\* can be moved back in its day and another forward, however many frauds there have been:
\* their moves do not add up (_generate_time_delta_features, _generate_transaction).
DeltasStayTrue ==
  [][\A a \in Accounts :
       <<lastTime[a], lastTrue[a]>>' # <<lastTime[a], lastTrue[a]>> /\ lastTime[a] # NoTime =>
         LET told == DaysSince(lastTime[a], lastTime'[a])
             off == told - (lastTrue'[a] - lastTrue[a])
             most == DaySlots - 1 + Max(PeakSlots)
         IN off \in -most..most]_pvars
=============================================================================
