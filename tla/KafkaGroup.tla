----------------------------- MODULE KafkaGroup -----------------------------
(***************************************************************************)
(* What the consumers of this repository rely on in Kafka: one topic, one  *)
(* consumer group and its committed offsets.  The broker and librdkafka    *)
(* are not under src/: they are modelled from how src/kafka/config.py      *)
(* configures them and how the consumers call poll() and commit().         *)
(*                                                                         *)
(*   - no rebalance callback is registered, so a partition can be taken    *)
(*     from a consumer while it is in the middle of a message of it;       *)
(*   - commit(msg) is asynchronous (confluent_kafka's default): it queues  *)
(*     a request that the group coordinator answers later;                 *)
(*   - a consumer that has rejoined may still commit for a partition it    *)
(*     no longer owns: the coordinator then applies or refuses it;         *)
(*   - a partition with no committed offset starts at the end of its log   *)
(*     (auto.offset.reset = latest) or at its beginning (earliest).        *)
(***************************************************************************)
EXTENDS Integers, Sequences

CONSTANTS
    Consumers,      \* the instances of the consumer group
    Partitions,     \* the partitions of the topic
    LogSize,        \* how many messages a producer appends to each partition
    ResetToLatest,  \* auto.offset.reset: TRUE for latest, FALSE for earliest
    NoOwner,        \* no consumer is assigned the partition
    MaxRebalances   \* bound: how many partitions are taken from a live consumer

ASSUME GroupAssumption ==
    /\ LogSize \in [Partitions -> Nat]
    /\ ResetToLatest \in BOOLEAN
    /\ NoOwner \notin Consumers
    /\ MaxRebalances \in Nat

VARIABLES
    logEnd,         \* log end offset of each partition
    owner,          \* the consumer each partition is assigned to
    position,       \* the next offset the owner's poll() returns
    committed,      \* the group's committed offset, NoOffset when there is none
    commitQueue,    \* per consumer, the commit requests not yet answered
    resetTo,        \* ghost: the highest offset a "latest" reset jumped to
    rebalances      \* ghost: how many rebalances took place

groupVars == <<logEnd, owner, position, committed, commitQueue, resetTo, rebalances>>

NoOffset == -1

Request == [part: Partitions, next: Nat]

GroupTypeOK ==
    /\ logEnd \in [Partitions -> Nat]
    /\ owner \in [Partitions -> Consumers \cup {NoOwner}]
    /\ position \in [Partitions -> Nat]
    /\ committed \in [Partitions -> Nat \cup {NoOffset}]
    /\ commitQueue \in [Consumers -> Seq(Request)]
    /\ resetTo \in [Partitions -> Nat]
    /\ rebalances \in Nat

GroupInit ==
    /\ logEnd = [p \in Partitions |-> 0]
    /\ owner = [p \in Partitions |-> NoOwner]
    /\ position = [p \in Partitions |-> 0]
    /\ committed = [p \in Partitions |-> NoOffset]
    /\ commitQueue = [c \in Consumers |-> <<>>]
    /\ resetTo = [p \in Partitions |-> 0]
    /\ rebalances = 0

-----------------------------------------------------------------------------
(* The producer appends the next message of p.                             *)
Produce(p) ==
    /\ logEnd[p] < LogSize[p]
    /\ logEnd' = [logEnd EXCEPT ![p] = @ + 1]
    /\ UNCHANGED <<owner, position, committed, commitQueue, resetTo, rebalances>>

\* Mutants: no reset when the group has no offset; a start at the log's end.
StartWithoutReset(p) == committed[p]
StartAtEnd(p) == logEnd[p]

(* Where a consumer starts to read p once it is assigned to it.            *)
StartOffset(p) ==
    IF committed[p] # NoOffset THEN committed[p]
    ELSE IF ResetToLatest THEN logEnd[p] ELSE 0

(* The coordinator assigns the unowned p to the live consumer c.           *)
Assign(c, p) ==
    /\ owner[p] = NoOwner
    /\ owner' = [owner EXCEPT ![p] = c]
    /\ position' = [position EXCEPT ![p] = StartOffset(p)]
    /\ resetTo' = IF committed[p] = NoOffset
                    THEN [resetTo EXCEPT ![p] = StartOffset(p)]
                    ELSE resetTo
    /\ UNCHANGED <<logEnd, committed, commitQueue, rebalances>>

(* A rebalance takes p from its owner, whatever that owner is doing.       *)
Revoke(p) ==
    /\ owner[p] # NoOwner
    /\ rebalances < MaxRebalances
    /\ owner' = [owner EXCEPT ![p] = NoOwner]
    /\ rebalances' = rebalances + 1
    /\ UNCHANGED <<logEnd, position, committed, commitQueue, resetTo>>

(* The coordinator answers c's oldest commit request.  It refuses one only *)
(* when c has lost the partition meanwhile, and may accept it even then.   *)
AnswerCommit(c) ==
    /\ commitQueue[c] # <<>>
    /\ LET r == Head(commitQueue[c])
       IN  \/ committed' = [committed EXCEPT ![r.part] = r.next]
           \/ owner[r.part] # c /\ UNCHANGED committed
    /\ commitQueue' = [commitQueue EXCEPT ![c] = Tail(@)]
    /\ UNCHANGED <<logEnd, owner, position, resetTo, rebalances>>

-----------------------------------------------------------------------------
(* Pieces of the consumers' own steps.                                     *)

(* poll() can return the message of p at its position.                     *)
CanPoll(c, p) == owner[p] = c /\ position[p] < logEnd[p]

Advance(p) == position' = [position EXCEPT ![p] = @ + 1]

\* Mutant: the committed offset is one too high.
CommitOneTooFar(c, p, o) ==
    commitQueue' = [commitQueue EXCEPT ![c] = Append(@, [part |-> p, next |-> o + 2])]

(* consumer.commit(msg) for the message of p at offset o.                  *)
RequestCommit(c, p, o) ==
    commitQueue' = [commitQueue EXCEPT ![c] = Append(@, [part |-> p, next |-> o + 1])]

(* c leaves the group: its partitions are free, its unanswered commit      *)
(* requests are gone with the process.                                     *)
Leave(c) ==
    /\ owner' = [p \in Partitions |-> IF owner[p] = c THEN NoOwner ELSE owner[p]]
    /\ commitQueue' = [commitQueue EXCEPT ![c] = <<>>]
    /\ UNCHANGED <<logEnd, position, committed, resetTo, rebalances>>
=============================================================================
