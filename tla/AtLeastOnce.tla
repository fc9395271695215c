---------------------------- MODULE AtLeastOnce ----------------------------
(***************************************************************************)
(* What a consumer group with manual commits promises about one topic:     *)
(* messages are finished in any order and as often as it happens, and an   *)
(* offset is committed only when every message below it is done with.  A   *)
(* group that starts without an offset may pass over what is in the log.   *)
(* FraudDetector (one message at a time), BatchDetector (batches) and      *)
(* AlertProcessor implement it.                                            *)
(***************************************************************************)
EXTENDS Integers

CONSTANTS Partitions, LogSize

VARIABLES
    produced,   \* the log end offset of each partition
    done,       \* the messages finished with or passed over
    committed   \* the committed offset of each partition, -1 for none

vars == <<produced, done, committed>>

Message(p, o) == [part |-> p, off |-> o]

Init ==
    /\ produced = [p \in Partitions |-> 0]
    /\ done = {}
    /\ committed = [p \in Partitions |-> -1]

Produce(p) ==
    /\ produced[p] < LogSize[p]
    /\ produced' = [produced EXCEPT ![p] = @ + 1]
    /\ UNCHANGED <<done, committed>>

(* Finishing with a message that is in the log, perhaps not for the first  *)
(* time.                                                                   *)
Finish(p, o) ==
    /\ o < produced[p]
    /\ done' = done \cup {Message(p, o)}
    /\ UNCHANGED <<produced, committed>>

(* A group without a committed offset starts at the end of the log.        *)
PassOver(p) ==
    /\ committed[p] = -1
    /\ done' = done \cup {Message(p, o) : o \in 0 .. produced[p] - 1}
    /\ UNCHANGED <<produced, committed>>

(* The committed offset may also go back: an old request answered late.    *)
Commit(p, n) ==
    /\ \A o \in 0 .. n - 1 : Message(p, o) \in done
    /\ committed' = [committed EXCEPT ![p] = n]
    /\ UNCHANGED <<produced, done>>

Next ==
    \E p \in Partitions :
        \/ Produce(p)
        \/ PassOver(p)
        \/ \E o \in 0 .. LogSize[p] - 1 : Finish(p, o)
        \/ \E n \in 0 .. LogSize[p] : Commit(p, n)

Spec == Init /\ [][Next]_vars
=============================================================================
