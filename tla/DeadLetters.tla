---------------------------- MODULE DeadLetters ----------------------------
(***************************************************************************)
(* The dead letter queue: the publisher every consumer has of its own      *)
(* (src/kafka/dlq.py), the dead-letter-queue topic, and the consumer that  *)
(* appends what it reads to a file (src/consumers/dlq_consumer.py).  The   *)
(* topic has one partition and its group one member: nothing of theirs     *)
(* depends on more.  The module composes with the consumer that publishes; *)
(* which external calls fail is for that module to say.                    *)
(***************************************************************************)
EXTENDS Integers, Sequences

CONSTANTS
    Publishers,  \* the processes that publish dead letters
    Letters      \* what they publish: the failed messages

VARIABLES
    letterQueue,     \* per publisher, the letters librdkafka has not delivered
    letterTopic,     \* the dead-letter-queue topic
    readerPc,        \* what the reading consumer is about to do
    readerNext,      \* how many letters it has read
    letterCommitted, \* the committed offset of dlq-investigation-group
    letterFile       \* the letters in the JSON-lines file

LettersTypeOK ==
    /\ letterQueue \in [Publishers -> SUBSET Letters]
    /\ letterTopic \in Seq(Letters)
    /\ readerPc \in {"down", "poll", "commit"}
    /\ readerNext \in 0 .. Len(letterTopic)
    /\ letterCommitted \in 0 .. Len(letterTopic)
    /\ letterFile \in SUBSET Letters

LettersInit ==
    /\ letterQueue = [c \in Publishers |-> {}]
    /\ letterTopic = <<>>
    /\ readerPc = "poll"
    /\ readerNext = 0
    /\ letterCommitted = 0
    /\ letterFile = {}

-----------------------------------------------------------------------------
(* publish(): produce and poll(0).  It never raises: an error is logged.   *)
(* The other variables are for the caller's step to constrain.             *)
PublishLetters(c, xs) == letterQueue' = [letterQueue EXCEPT ![c] = @ \cup xs]

(* The publisher's process ends: flush() is never called, so what is still *)
(* queued is gone.                                                         *)
ForgetLetters(c) == letterQueue' = [letterQueue EXCEPT ![c] = {}]

DeliverLetter(c) ==
    /\ \E x \in letterQueue[c] :
          /\ letterTopic' = Append(letterTopic, x)
          /\ letterQueue' = [letterQueue EXCEPT ![c] = @ \ {x}]
    /\ UNCHANGED <<readerPc, readerNext, letterCommitted, letterFile>>

(* Appending a letter to the file; an OSError is logged.                   *)
WriteLetter(x, works) == letterFile' = IF works THEN letterFile \cup {x} ELSE letterFile

(* _handle_message up to the commit: the commit follows whether or not the *)
(* letter could be written.                                                *)
ReadLetter(works) ==
    /\ readerPc = "poll"
    /\ readerNext < Len(letterTopic)
    /\ WriteLetter(letterTopic[readerNext + 1], works)
    /\ readerNext' = readerNext + 1
    /\ readerPc' = "commit"
    /\ UNCHANGED <<letterQueue, letterTopic, letterCommitted>>

(* commit(msg); a KafkaException ends run().  The request takes effect at  *)
(* some time before the reader's next step or its end.                     *)
CommitLetter(works) ==
    /\ readerPc = "commit"
    /\ IF works THEN readerPc' = "poll" /\ letterCommitted' = readerNext
                ELSE readerPc' = "down" /\ UNCHANGED letterCommitted
    /\ UNCHANGED <<letterQueue, letterTopic, readerNext, letterFile>>

(* SIGTERM between two messages, or the process is killed.                 *)
StopReader ==
    /\ readerPc # "down"
    /\ readerPc' = "down"
    /\ UNCHANGED <<letterQueue, letterTopic, readerNext, letterCommitted, letterFile>>

(* A group without an offset starts at the beginning (analytics: earliest).*)
ReaderStart == letterCommitted

StartReader ==
    /\ readerPc = "down"
    /\ readerPc' = "poll"
    /\ readerNext' = ReaderStart
    /\ UNCHANGED <<letterQueue, letterTopic, letterCommitted, letterFile>>
=============================================================================
