------------------------ MODULE BatchDetector_proofs ------------------------
(***************************************************************************)
(* Batch mode implements AtLeastOnce, for every batch size, every number   *)
(* of processes, partitions, users and messages, and every bound on        *)
(* rebalances, restarts and failing calls.                                 *)
(***************************************************************************)
EXTENDS BatchDetector, TLAPS, SequenceTheorems

USE GroupAssumption, BatchAssumption

(* What the argument needs of the types.                                   *)
Types ==
    /\ GroupTypeOK
    /\ pc \in [Consumers -> Steps]
    /\ buffer \in [Consumers -> Seq(Offset)]
    /\ index \in [Consumers -> Nat]
    /\ ending \in [Consumers -> BOOLEAN]
    /\ handled \in SUBSET Offset
    /\ \A p \in Partitions : /\ logEnd[p] <= LogSize[p]
                             /\ resetTo[p] <= logEnd[p]
                             /\ ResetToLatest \/ resetTo[p] = 0

(* How far a process is with its batch: what lies behind index is handled, *)
(* and at the commit that is all of it.                                    *)
Progress(c) ==
    /\ pc[c] \notin {"score", "commit"} => index[c] = 0
    /\ pc[c] = "load" => buffer[c] # <<>>
    /\ pc[c] = "score" => index[c] < Len(buffer[c])
    /\ pc[c] = "commit" => buffer[c] # <<>> /\ index[c] = Len(buffer[c])
    /\ pc[c] \in {"down", "cleanup"} => buffer[c] = <<>>
    /\ pc[c] \in {"down", "poll"} => ~ending[c]
    /\ \A i \in 1 .. index[c] : buffer[c][i] \in handled

(* A message is done with, or in the batch of c.                           *)
InBatch(c, x) == \E i \in 1 .. Len(buffer[c]) : buffer[c][i] = x
Reached(c, p, o) == Done(p, o) \/ InBatch(c, [part |-> p, off |-> o])

(* A request is in the log, and for what is done with.                     *)
Granted(r) == r.next <= logEnd[r.part] /\ \A o \in 0 .. r.next - 1 : Done(r.part, o)

(* What is before a message of a batch is done with or in the batch.       *)
Ordered(c, x) == x.off < logEnd[x.part] /\ \A o \in 0 .. x.off - 1 : Reached(c, x.part, o)

CommittedDone == \A p \in Partitions : \A o \in 0 .. committed[p] - 1 : Done(p, o)
RequestsGranted ==
    \A c \in Consumers : \A i \in 1 .. Len(commitQueue[c]) : Granted(commitQueue[c][i])
BatchesOrdered ==
    \A c \in Consumers : \A i \in 1 .. Len(buffer[c]) : Ordered(c, buffer[c][i])

(* A process whose loop has not ended has what it read in its batch, or    *)
(* done with: the message that ended the loop is the exception.            *)
PositionsReached ==
    \A p \in Partitions : owner[p] # NoOwner =>
        \/ ending[owner[p]]
        \/ \A o \in 0 .. position[p] - 1 : Reached(owner[p], p, o)

BatchInv ==
    /\ Types
    /\ \A c \in Consumers : Progress(c)
    /\ CommittedDone
    /\ RequestsGranted
    /\ BatchesOrdered
    /\ PositionsReached

LEMMA BatchInit == Init => BatchInv
<1> SUFFICES ASSUME Init PROVE BatchInv
  OBVIOUS
<1> USE DEF Init, GroupInit
<1>1. GroupTypeOK
  BY DEF GroupTypeOK, Request, NoOffset
<1>2. Types
  BY <1>1 DEF Types, Steps
<1>3. ASSUME NEW c \in Consumers
      PROVE  Progress(c)
  <2>1. pc[c] = "poll" /\ index[c] = 0 /\ ending[c] = FALSE /\ 1 .. index[c] = {}
    OBVIOUS
  <2> QED
    BY <2>1 DEF Progress
<1>4. CommittedDone
  BY DEF CommittedDone, NoOffset
<1>5. RequestsGranted /\ BatchesOrdered
  BY DEF RequestsGranted, BatchesOrdered
<1>6. PositionsReached
  BY DEF PositionsReached
<1> QED
  BY <1>2, <1>3, <1>4, <1>5, <1>6 DEF BatchInv

-----------------------------------------------------------------------------
(* What is done with stays so, and logs grow.                              *)
Monotone ==
    /\ handled \subseteq handled'
    /\ \A p \in Partitions : resetTo[p] <= resetTo'[p] /\ logEnd[p] <= logEnd'[p]

LEMMA MonotoneUnchanged ==
    ASSUME Types, handled \subseteq handled', UNCHANGED <<resetTo, logEnd>>
    PROVE  Monotone
BY DEF Types, GroupTypeOK, Monotone

LEMMA DoneStays ==
    ASSUME Types, Types', Monotone, NEW p \in Partitions, NEW o \in Int, Done(p, o)
    PROVE  Done(p, o)'
<1>1. resetTo[p] \in Nat /\ resetTo'[p] \in Nat
  BY DEF Types, GroupTypeOK
<1>2. resetTo[p] <= resetTo'[p] /\ handled \subseteq handled'
  BY DEF Monotone
<1>3. CASE [part |-> p, off |-> o] \in handled
  BY <1>2, <1>3 DEF Done
<1>4. CASE o < resetTo[p]
  BY <1>1, <1>2, <1>4 DEF Done
<1> QED
  BY <1>3, <1>4 DEF Done

LEMMA CommittedStays ==
    ASSUME Types, Types', Monotone, CommittedDone, UNCHANGED committed
    PROVE  CommittedDone'
<1> SUFFICES ASSUME NEW p \in Partitions, NEW o \in 0 .. committed[p] - 1
             PROVE  Done(p, o)'
  BY DEF CommittedDone
<1>1. Done(p, o) /\ o \in Int
  BY DEF CommittedDone, Types, GroupTypeOK, NoOffset
<1> QED
  BY <1>1, DoneStays

LEMMA GrantedStays ==
    ASSUME Types, Types', Monotone, NEW r \in Request, Granted(r)
    PROVE  Granted(r)'
<1>1. r.part \in Partitions /\ r.next \in Nat
  BY DEF Request
<1>2. logEnd[r.part] \in Nat /\ logEnd'[r.part] \in Nat /\ logEnd[r.part] <= logEnd'[r.part]
  BY <1>1 DEF Types, GroupTypeOK, Monotone
<1>3. PICK p : p = r.part
  OBVIOUS
<1>4. \A o \in 0 .. r.next - 1 : Done(p, o)'
  BY <1>1, <1>3, DoneStays DEF Granted
<1> QED
  BY <1>1, <1>2, <1>3, <1>4 DEF Granted

(* Requests are dropped, or one that is granted is added.                  *)
LEMMA RequestsStay ==
    ASSUME Types, Types', Monotone, RequestsGranted,
           \A d \in Consumers : \A i \in 1 .. Len(commitQueue'[d]) :
              \/ \E j \in 1 .. Len(commitQueue[d]) : commitQueue'[d][i] = commitQueue[d][j]
              \/ \E r : r = commitQueue'[d][i] /\ Granted(r)'
    PROVE  RequestsGranted'
<1> SUFFICES ASSUME NEW d \in Consumers, NEW i \in 1 .. Len(commitQueue'[d]),
                    NEW q, q = commitQueue'[d][i]
             PROVE  Granted(q)'
  BY DEF RequestsGranted
<1>1. CASE \E j \in 1 .. Len(commitQueue[d]) : commitQueue'[d][i] = commitQueue[d][j]
  <2>1. PICK j \in 1 .. Len(commitQueue[d]) : commitQueue'[d][i] = commitQueue[d][j]
    BY <1>1
  <2>2. PICK r : r = commitQueue[d][j]
    OBVIOUS
  <2>3. r \in Request
    BY <2>2, ElementOfSeq DEF Types, GroupTypeOK
  <2>4. Granted(r)
    BY <2>2 DEF RequestsGranted
  <2>5. Granted(r)'
    BY <2>3, <2>4, GrantedStays
  <2> QED
    BY <2>1, <2>2, <2>5
<1>2. CASE \E r : r = commitQueue'[d][i] /\ Granted(r)'
  BY <1>2
<1> QED
  BY <1>1, <1>2

LEMMA ReachedStays ==
    ASSUME Types, Types', Monotone, NEW c, NEW p \in Partitions, NEW o \in Int, Reached(c, p, o),
           \A x : InBatch(c, x) => InBatch(c, x)' \/ x \in handled'
    PROVE  Reached(c, p, o)'
<1>1. CASE Done(p, o)
  BY <1>1, DoneStays DEF Reached
<1>2. CASE InBatch(c, [part |-> p, off |-> o])
  BY <1>2 DEF Reached, Done
<1> QED
  BY <1>1, <1>2 DEF Reached

LEMMA OrderedStays ==
    ASSUME Types, Types', Monotone, NEW c, NEW x \in Offset, Ordered(c, x),
           \A y : InBatch(c, y) => InBatch(c, y)'
    PROVE  Ordered(c, x)'
<1>1. x.part \in Partitions /\ x.off \in Nat
  BY DEF Offset
<1>2. logEnd[x.part] \in Nat /\ logEnd'[x.part] \in Nat /\ logEnd[x.part] <= logEnd'[x.part]
  BY <1>1 DEF Types, GroupTypeOK, Monotone
<1>3. PICK p : p = x.part
  OBVIOUS
<1>4. \A o \in 0 .. x.off - 1 : Reached(c, p, o)'
  BY <1>1, <1>3, ReachedStays DEF Ordered
<1> QED
  BY <1>1, <1>2, <1>3, <1>4 DEF Ordered

(* Batches stay as they are, or are dropped.                               *)
LEMMA BatchesStay ==
    ASSUME Types, Types', Monotone, BatchesOrdered,
           \A d \in Consumers : buffer'[d] \in {buffer[d], <<>>}
    PROVE  BatchesOrdered'
<1> SUFFICES ASSUME NEW d \in Consumers, NEW i \in 1 .. Len(buffer'[d]),
                    NEW x, x = buffer'[d][i]
             PROVE  Ordered(d, x)'
  BY DEF BatchesOrdered
<1>1. buffer'[d] = buffer[d] /\ i \in 1 .. Len(buffer[d])
  OBVIOUS
<1>2. x = buffer[d][i]
  BY <1>1
<1>3. x \in Offset
  BY <1>1, <1>2, ElementOfSeq DEF Types
<1>4. Ordered(d, x)
  BY <1>1, <1>2 DEF BatchesOrdered
<1>5. \A y : InBatch(d, y) => InBatch(d, y)'
  BY <1>1 DEF InBatch
<1> QED
  BY <1>3, <1>4, <1>5, OrderedStays

LEMMA PositionsStay ==
    ASSUME Types, Types', Monotone, PositionsReached,
           \A p \in Partitions : owner'[p] \in {owner[p], NoOwner} /\ position'[p] = position[p],
           \A d \in Consumers : (\E p \in Partitions : owner'[p] = d) =>
              /\ ending[d] => ending'[d]
              /\ \A x : InBatch(d, x) => InBatch(d, x)' \/ x \in handled'
    PROVE  PositionsReached'
<1> SUFFICES ASSUME NEW p \in Partitions, owner'[p] # NoOwner,
                    NEW d, d = owner'[p], ~ending'[d],
                    NEW o \in 0 .. position'[p] - 1
             PROVE  Reached(d, p, o)'
  BY DEF PositionsReached
<1>1. owner'[p] = owner[p] /\ position'[p] = position[p]
  OBVIOUS
<1>2. d = owner[p] /\ d \in Consumers
  BY <1>1 DEF Types, GroupTypeOK
<1>3. /\ ~ending[d]
      /\ \A x : InBatch(d, x) => InBatch(d, x)' \/ x \in handled'
  BY <1>1, <1>2
<1>4. Reached(d, p, o) /\ o \in Int
  BY <1>1, <1>2, <1>3 DEF PositionsReached, Types, GroupTypeOK
<1> QED
  BY <1>3, <1>4, ReachedStays

(* A step after which nobody has more to show for.                         *)
LEMMA QuietStep ==
    ASSUME BatchInv, Types', \A c \in Consumers : Progress(c)', handled \subseteq handled',
           UNCHANGED <<groupVars, buffer>>,
           \A d \in Consumers : ending[d] => ending'[d]
    PROVE  BatchInv'
<1> USE DEF groupVars
<1>1. Types /\ Monotone
  BY MonotoneUnchanged DEF BatchInv
<1>2. CommittedDone'
  BY <1>1, CommittedStays DEF BatchInv
<1>3. RequestsGranted'
  BY <1>1, RequestsStay DEF BatchInv
<1>4. BatchesOrdered'
  BY <1>1, BatchesStay DEF BatchInv
<1>5. \A d \in Consumers : \A x : InBatch(d, x) => InBatch(d, x)'
  BY DEF InBatch
<1>6. PositionsReached'
  BY <1>1, <1>5, PositionsStay DEF BatchInv
<1> QED
  BY <1>2, <1>3, <1>4, <1>6 DEF BatchInv

-----------------------------------------------------------------------------
(* The group's own steps.                                                  *)

LEMMA ProgressStays ==
    ASSUME NEW c, Progress(c), UNCHANGED <<pc, buffer, index, ending, handled>>
    PROVE  Progress(c)'
BY DEF Progress

LEMMA BatchProduce ==
    ASSUME BatchInv, NEW p \in Partitions, Produce(p), UNCHANGED localVars
    PROVE  BatchInv'
<1> USE DEF Produce, localVars, processVars, ghostVars
<1>1. Types
  BY DEF BatchInv
<1>2. Types'
  BY <1>1 DEF Types, GroupTypeOK
<1>3. Monotone
  BY <1>1 DEF Types, GroupTypeOK, Monotone
<1>4. \A c \in Consumers : Progress(c)'
  BY ProgressStays DEF BatchInv
<1>5. CommittedDone' /\ RequestsGranted' /\ BatchesOrdered'
  BY <1>1, <1>2, <1>3, CommittedStays, RequestsStay, BatchesStay DEF BatchInv
<1>6. \A d \in Consumers : \A x : InBatch(d, x) => InBatch(d, x)'
  BY DEF InBatch
<1>7. PositionsReached'
  BY <1>1, <1>2, <1>3, <1>6, PositionsStay DEF BatchInv
<1> QED
  BY <1>2, <1>4, <1>5, <1>7 DEF BatchInv

LEMMA BatchRevoke ==
    ASSUME BatchInv, NEW p \in Partitions, Revoke(p), UNCHANGED localVars
    PROVE  BatchInv'
<1> USE DEF Revoke, localVars, processVars, ghostVars
<1>1. Types
  BY DEF BatchInv
<1>2. Types'
  BY <1>1 DEF Types, GroupTypeOK
<1>3. Monotone
  BY <1>1, MonotoneUnchanged
<1>4. \A c \in Consumers : Progress(c)'
  BY ProgressStays DEF BatchInv
<1>5. CommittedDone' /\ RequestsGranted' /\ BatchesOrdered'
  BY <1>1, <1>2, <1>3, CommittedStays, RequestsStay, BatchesStay DEF BatchInv
<1>6. \A d \in Consumers : \A x : InBatch(d, x) => InBatch(d, x)'
  BY DEF InBatch
<1>7. \A q \in Partitions : owner'[q] \in {owner[q], NoOwner}
  BY <1>1 DEF Types, GroupTypeOK
<1>8. PositionsReached'
  BY <1>1, <1>2, <1>3, <1>6, <1>7, PositionsStay DEF BatchInv
<1> QED
  BY <1>2, <1>4, <1>5, <1>8 DEF BatchInv

(* What is committed is what was asked for, and that was done with.        *)
LEMMA BatchAnswer ==
    ASSUME BatchInv, NEW c \in Consumers, AnswerCommit(c), UNCHANGED localVars
    PROVE  BatchInv'
<1> USE DEF localVars, processVars, ghostVars
<1>1. Types
  BY DEF BatchInv
<1>2. commitQueue[c] \in Seq(Request) /\ commitQueue[c] # <<>>
  BY <1>1 DEF Types, GroupTypeOK, AnswerCommit
<1>3. PICK r : r = Head(commitQueue[c])
  OBVIOUS
<1>4. /\ r = commitQueue[c][1] /\ r \in Request /\ 1 \in 1 .. Len(commitQueue[c])
      /\ Tail(commitQueue[c]) \in Seq(Request)
  BY <1>2, <1>3, HeadTailProperties, LenProperties, ElementOfSeq
<1>5. Granted(r)
  BY <1>4 DEF BatchInv, RequestsGranted
<1>6. /\ committed' = committed \/ committed' = [committed EXCEPT ![r.part] = r.next]
      /\ commitQueue' = [commitQueue EXCEPT ![c] = Tail(commitQueue[c])]
      /\ UNCHANGED <<logEnd, owner, position, resetTo, rebalances>>
  BY <1>3 DEF AnswerCommit
<1>7. Types'
  <2>1. committed' \in [Partitions -> Nat \cup {NoOffset}]
    BY <1>1, <1>4, <1>6 DEF Types, GroupTypeOK, Request
  <2>2. commitQueue' \in [Consumers -> Seq(Request)]
    BY <1>1, <1>4, <1>6 DEF Types, GroupTypeOK
  <2> QED
    BY <1>1, <1>6, <2>1, <2>2 DEF Types, GroupTypeOK
<1>8. Monotone
  BY <1>1, <1>6, MonotoneUnchanged
<1>9. CommittedDone'
  <2>1. \A p \in Partitions : committed'[p] = committed[p] \/ (p = r.part /\ committed'[p] = r.next)
    BY <1>1, <1>4, <1>6 DEF Types, GroupTypeOK, Request
  <2>2. \A p \in Partitions : \A o \in 0 .. committed'[p] - 1 : Done(p, o)
    BY <1>5, <2>1 DEF BatchInv, CommittedDone, Granted
  <2> QED
    BY <1>6, <2>2 DEF CommittedDone, Done
<1>10. RequestsGranted'
  <2>1. \A d \in Consumers : \A i \in 1 .. Len(commitQueue'[d]) :
           \E j \in 1 .. Len(commitQueue[d]) : commitQueue'[d][i] = commitQueue[d][j]
    <3> SUFFICES ASSUME NEW d \in Consumers, NEW i \in 1 .. Len(commitQueue'[d])
                 PROVE  \E j \in 1 .. Len(commitQueue[d]) : commitQueue'[d][i] = commitQueue[d][j]
      OBVIOUS
    <3>1. CASE d = c
      <4>1. commitQueue'[d] = Tail(commitQueue[c])
        BY <1>1, <1>6, <3>1 DEF Types, GroupTypeOK
      <4>2. i + 1 \in 1 .. Len(commitQueue[c]) /\ Tail(commitQueue[c])[i] = commitQueue[c][i + 1]
        BY <1>2, <4>1, HeadTailProperties, LenProperties
      <4> QED
        BY <3>1, <4>1, <4>2
    <3>2. CASE d # c
      BY <1>1, <1>6, <3>2 DEF Types, GroupTypeOK
    <3> QED
      BY <3>1, <3>2
  <2> QED
    BY <1>1, <1>7, <1>8, <2>1, RequestsStay DEF BatchInv
<1>11. \A d \in Consumers : Progress(d)'
  BY ProgressStays DEF BatchInv
<1>12. BatchesOrdered'
  BY <1>1, <1>7, <1>8, BatchesStay DEF BatchInv
<1>13. \A d \in Consumers : \A x : InBatch(d, x) => InBatch(d, x)'
  BY DEF InBatch
<1>14. PositionsReached'
  BY <1>1, <1>6, <1>7, <1>8, <1>13, PositionsStay DEF BatchInv
<1> QED
  BY <1>7, <1>9, <1>10, <1>11, <1>12, <1>14 DEF BatchInv

(* A partition is read from the committed offset, or from where the reset  *)
(* put it.                                                                 *)
LEMMA BatchAssign ==
    ASSUME BatchInv, NEW c \in Consumers, NEW p \in Partitions, Assign(c, p), UNCHANGED localVars
    PROVE  BatchInv'
<1> USE DEF localVars, processVars, ghostVars
<1>1. Types
  BY DEF BatchInv
<1>2. /\ StartOffset(p) \in Nat
      /\ committed[p] = NoOffset => /\ StartOffset(p) <= logEnd[p]
                                    /\ resetTo[p] <= StartOffset(p)
                                    /\ ResetToLatest \/ StartOffset(p) = 0
  BY <1>1 DEF Types, GroupTypeOK, StartOffset, NoOffset
<1>3. Types'
  BY <1>1, <1>2 DEF Types, GroupTypeOK, Assign
<1>4. Monotone
  BY <1>1, <1>2 DEF Types, GroupTypeOK, Monotone, Assign
<1>5. \A d \in Consumers : Progress(d)'
  BY ProgressStays DEF BatchInv
<1>6. UNCHANGED <<logEnd, committed, commitQueue, buffer>>
  BY DEF Assign
<1>7. CommittedDone' /\ RequestsGranted' /\ BatchesOrdered'
  BY <1>1, <1>3, <1>4, <1>6, CommittedStays, RequestsStay, BatchesStay DEF BatchInv
<1>8. PositionsReached'
  <2> SUFFICES ASSUME NEW q \in Partitions, owner'[q] # NoOwner,
                      NEW d, d = owner'[q], ~ending'[d],
                      NEW o \in 0 .. position'[q] - 1
               PROVE  Reached(d, q, o)'
    BY DEF PositionsReached
  <2>1. o \in Int
    BY <1>3 DEF Types, GroupTypeOK
  <2>2. CASE q # p
    <3>1. owner'[q] = owner[q] /\ position'[q] = position[q]
      BY <1>1, <2>2 DEF Assign, Types, GroupTypeOK
    <3>2. Reached(d, q, o)
      BY <3>1 DEF BatchInv, PositionsReached
    <3>3. \A x : InBatch(d, x) => InBatch(d, x)'
      BY DEF InBatch
    <3> QED
      BY <1>1, <1>3, <1>4, <2>1, <3>2, <3>3, ReachedStays
  <2>3. CASE q = p /\ committed[p] # NoOffset
    <3>1. position'[p] = committed[p]
      BY <1>1, <2>3 DEF Assign, StartOffset, Types, GroupTypeOK
    <3>2. Done(p, o)
      BY <2>3, <3>1 DEF BatchInv, CommittedDone
    <3>3. Done(p, o)'
      BY <1>1, <1>3, <1>4, <2>1, <3>2, DoneStays
    <3> QED
      BY <2>3, <3>3 DEF Reached
  <2>4. CASE q = p /\ committed[p] = NoOffset
    <3>1. position'[p] = resetTo'[p]
      BY <1>1, <2>4 DEF Assign, Types, GroupTypeOK
    <3>2. position'[p] \in Nat
      BY <1>3 DEF Types, GroupTypeOK
    <3>3. Done(p, o)'
      BY <2>4, <3>1, <3>2 DEF Done
    <3> QED
      BY <2>4, <3>3 DEF Reached
  <2> QED
    BY <2>2, <2>3, <2>4
<1> QED
  BY <1>3, <1>5, <1>7, <1>8 DEF BatchInv

-----------------------------------------------------------------------------
(* The processes' steps.                                                   *)
LEMMA ProgressKept ==
    ASSUME NEW d, Progress(d), handled \subseteq handled',
           pc'[d] = pc[d], buffer'[d] = buffer[d], index'[d] = index[d], ending'[d] = ending[d]
    PROVE  Progress(d)'
BY DEF Progress

(* Start, Flush, LoadNext, StopRunning and Deliver leave the group, the    *)
(* batch and what is handled alone.                                        *)
LEMMA BatchQuiet ==
    ASSUME BatchInv, NEW c \in Consumers,
           Start(c) \/ Flush(c) \/ LoadNext(c) \/ StopRunning(c) \/ Deliver(c)
    PROVE  BatchInv'
<1>1. /\ pc \in [Consumers -> Steps] /\ ending \in [Consumers -> BOOLEAN]
      /\ buffer[c] \in Seq(Offset) /\ Types /\ Progress(c)
  BY DEF BatchInv, Types
<1>2. /\ UNCHANGED <<groupVars, buffer, index, handled>>
      /\ \/ UNCHANGED <<pc, ending>>
         \/ pc[c] = "down" /\ pc' = [pc EXCEPT ![c] = "poll"] /\ UNCHANGED ending
         \/ /\ pc[c] = "poll" /\ buffer[c] # <<>>
            /\ pc' = [pc EXCEPT ![c] = "load"] /\ UNCHANGED ending
         \/ /\ pc[c] = "load" /\ UNCHANGED ending
            /\ \E step \in {"load", "score"} : pc' = [pc EXCEPT ![c] = step]
         \/ /\ pc[c] = "poll" /\ ending' = [ending EXCEPT ![c] = TRUE]
            /\ pc' = [pc EXCEPT ![c] = IF buffer[c] = <<>> THEN "cleanup" ELSE "load"]
  <2>1. CASE Start(c)
    BY <2>1 DEF Start, Goto, ghostVars
  <2>2. CASE Flush(c)
    BY <2>2 DEF Flush, FlushDue, Goto, ghostVars
  <2>3. CASE LoadNext(c)
    <3>1. \E step \in {"load", "score"} : pc' = [pc EXCEPT ![c] = step]
      BY <2>3 DEF LoadNext, Goto
    <3> QED
      BY <2>3, <3>1 DEF LoadNext
  <2>4. CASE StopRunning(c)
    BY <2>4 DEF StopRunning, EndLoop, Goto
  <2>5. CASE Deliver(c)
    BY <2>5 DEF Deliver, processVars, ghostVars
  <2> QED
    BY <2>1, <2>2, <2>3, <2>4, <2>5
<1>3. Types'
  <2>1. pc' \in [Consumers -> Steps] /\ ending' \in [Consumers -> BOOLEAN]
    BY <1>1, <1>2 DEF Steps
  <2> QED
    BY <1>1, <1>2, <2>1 DEF Types, GroupTypeOK, groupVars
<1>4. Progress(c)'
  <2>1. buffer[c] # <<>> => 0 < Len(buffer[c])
    BY <1>1, EmptySeq, LenProperties
  <2> QED
    BY <1>1, <1>2, <2>1 DEF Progress
<1>5. ASSUME NEW d \in Consumers \ {c}
      PROVE  Progress(d)'
  <2>1. pc'[d] = pc[d] /\ ending'[d] = ending[d]
    BY <1>1, <1>2
  <2> QED
    BY <1>2, <2>1, ProgressKept DEF BatchInv
<1>6. \A d \in Consumers : ending[d] => ending'[d]
  BY <1>1, <1>2
<1> QED
  BY <1>2, <1>3, <1>4, <1>5, <1>6, QuietStep

(* What is handled is one more message of the batch, and index follows.    *)
LEMMA BatchScore ==
    ASSUME BatchInv, NEW c \in Consumers, ScoreNext(c)
    PROVE  BatchInv'
<1>1. /\ Types /\ Progress(c) /\ pc[c] = "score"
      /\ pc \in [Consumers -> Steps] /\ index \in [Consumers -> Nat]
      /\ buffer[c] \in Seq(Offset)
  BY DEF BatchInv, Types, ScoreNext
<1>2. PICK x : x = buffer[c][index[c] + 1]
  OBVIOUS
<1>3. /\ handled' = handled \cup {x}
      /\ index' = [index EXCEPT ![c] = @ + 1]
      /\ pc' = [pc EXCEPT ![c] = IF index'[c] = Len(buffer[c]) THEN "commit" ELSE "score"]
      /\ UNCHANGED <<groupVars, buffer, ending>>
  BY <1>2 DEF ScoreNext, Goto
<1>4. index[c] \in Nat /\ index[c] < Len(buffer[c]) /\ Len(buffer[c]) \in Nat
  BY <1>1, LenProperties DEF Progress
<1>5. x \in Offset
  BY <1>1, <1>2, <1>4, ElementOfSeq
<1>6. Types'
  <2>1. pc' \in [Consumers -> Steps] /\ index' \in [Consumers -> Nat] /\ handled' \in SUBSET Offset
    BY <1>1, <1>3, <1>5 DEF Steps, Types
  <2> QED
    BY <1>1, <1>3, <2>1 DEF Types, GroupTypeOK, groupVars
<1>7. Progress(c)'
  <2>1. index'[c] = index[c] + 1 /\ pc'[c] \in {"commit", "score"}
        /\ (pc'[c] = "commit" <=> index[c] + 1 = Len(buffer[c]))
    BY <1>1, <1>3
  <2>2. \A i \in 1 .. index[c] + 1 : buffer[c][i] \in handled'
    BY <1>1, <1>2, <1>3, <1>4 DEF Progress
  <2>3. buffer[c] # <<>>
    BY <1>4
  <2> QED
    BY <1>3, <1>4, <2>1, <2>2, <2>3 DEF Progress
<1>8. ASSUME NEW d \in Consumers \ {c}
      PROVE  Progress(d)'
  <2>1. pc'[d] = pc[d] /\ index'[d] = index[d]
    BY <1>1, <1>3
  <2> QED
    BY <1>3, <2>1, ProgressKept DEF BatchInv
<1> QED
  BY <1>3, <1>6, <1>7, <1>8, QuietStep

(* The message that is read follows what the process has reached.          *)
LEMMA BatchPoll ==
    ASSUME BatchInv, NEW c \in Consumers, NEW p \in Partitions, PollMessage(c, p)
    PROVE  BatchInv'
<1>1. /\ Types /\ Progress(c) /\ pc[c] = "poll" /\ ~ending[c]
      /\ owner[p] = c /\ position[p] < logEnd[p]
      /\ position \in [Partitions -> Nat] /\ logEnd[p] \in Nat
      /\ pc \in [Consumers -> Steps]
      /\ buffer \in [Consumers -> Seq(Offset)]
  BY DEF BatchInv, Types, GroupTypeOK, PollMessage, CanPoll, Progress
<1>2. PICK x : x = [part |-> p, off |-> position[p]]
  OBVIOUS
<1>3. x \in Offset
  BY <1>1, <1>2 DEF Offset
<1>4. PICK e : e = Append(buffer[c], x)
  OBVIOUS
<1>5. /\ buffer' = [buffer EXCEPT ![c] = e]
      /\ position' = [position EXCEPT ![p] = @ + 1]
      /\ \E step \in {"load", "poll"} : pc' = [pc EXCEPT ![c] = step]
      /\ UNCHANGED <<logEnd, owner, committed, commitQueue, resetTo, rebalances,
                     index, ending, handled>>
  BY <1>2, <1>4 DEF PollMessage, Advance, Goto, ghostVars
<1>6. /\ e \in Seq(Offset) /\ Len(e) = Len(buffer[c]) + 1 /\ Len(buffer[c]) \in Nat
      /\ \A i \in 1 .. Len(buffer[c]) : e[i] = buffer[c][i]
      /\ e[Len(buffer[c]) + 1] = x
  BY <1>1, <1>3, <1>4, AppendProperties, LenProperties
<1>7. Types'
  <2>1. /\ pc' \in [Consumers -> Steps]
        /\ buffer' \in [Consumers -> Seq(Offset)]
        /\ position' \in [Partitions -> Nat]
    BY <1>1, <1>5, <1>6 DEF Steps
  <2> QED
    BY <1>1, <1>5, <2>1 DEF Types, GroupTypeOK
<1>8. Monotone
  BY <1>1, <1>5, MonotoneUnchanged
<1>9. Progress(c)'
  <2>1. pc'[c] \in {"load", "poll"} /\ buffer'[c] = e /\ e # <<>>
    BY <1>1, <1>5, <1>6
  <2>2. index'[c] = 0 /\ ~ending'[c]
    BY <1>1, <1>5 DEF Progress
  <2> QED
    BY <2>1, <2>2 DEF Progress
<1>10. ASSUME NEW d \in Consumers \ {c}
       PROVE  Progress(d)'
  <2>1. pc'[d] = pc[d] /\ buffer'[d] = buffer[d]
    BY <1>1, <1>5
  <2> QED
    BY <1>5, <2>1, ProgressKept DEF BatchInv
<1>11. CommittedDone' /\ RequestsGranted'
  BY <1>1, <1>5, <1>7, <1>8, CommittedStays, RequestsStay DEF BatchInv
<1>12. \A d \in Consumers : \A y : InBatch(d, y) => InBatch(d, y)'
  <2> SUFFICES ASSUME NEW d \in Consumers, NEW i \in 1 .. Len(buffer[d])
               PROVE  i \in 1 .. Len(buffer'[d]) /\ buffer'[d][i] = buffer[d][i]
    BY DEF InBatch
  <2>1. CASE d = c
    BY <1>1, <1>5, <1>6, <2>1
  <2>2. CASE d # c
    BY <1>1, <1>5, <2>2
  <2> QED
    BY <2>1, <2>2
<1>13. ASSUME NEW o \in 0 .. position[p] - 1
       PROVE  Reached(c, p, o)'
  <2>1. Reached(c, p, o)
    BY <1>1 DEF BatchInv, PositionsReached
  <2>2. o \in Int
    BY <1>1
  <2> QED
    BY <1>1, <1>7, <1>8, <1>12, <2>1, <2>2, ReachedStays
<1>14. BatchesOrdered'
  <2> SUFFICES ASSUME NEW d \in Consumers, NEW i \in 1 .. Len(buffer'[d]),
                      NEW y, y = buffer'[d][i]
               PROVE  Ordered(d, y)'
    BY DEF BatchesOrdered
  <2>1. CASE i \in 1 .. Len(buffer[d])
    <3>1. y = buffer[d][i]
      <4>1. CASE d = c
        BY <1>1, <1>5, <1>6, <2>1, <4>1
      <4>2. CASE d # c
        BY <1>1, <1>5, <4>2
      <4> QED
        BY <4>1, <4>2
    <3>2. y \in Offset /\ Ordered(d, y)
      BY <1>1, <2>1, <3>1, ElementOfSeq DEF BatchInv, BatchesOrdered
    <3> QED
      BY <1>1, <1>7, <1>8, <1>12, <3>2, OrderedStays
  <2>2. CASE i \notin 1 .. Len(buffer[d])
    <3>1. d = c
      BY <1>1, <1>5, <2>2
    <3>2. i = Len(buffer[c]) + 1 /\ y = x
      BY <1>1, <1>5, <1>6, <2>2, <3>1
    <3>3. y.part = p /\ y.off = position[p]
      BY <1>2, <3>2
    <3> QED
      BY <1>1, <1>5, <1>13, <3>1, <3>3 DEF Ordered
  <2> QED
    BY <2>1, <2>2
<1>15. PositionsReached'
  <2> SUFFICES ASSUME NEW q \in Partitions, owner'[q] # NoOwner,
                      NEW d, d = owner'[q], ~ending'[d],
                      NEW o \in 0 .. position'[q] - 1
               PROVE  Reached(d, q, o)'
    BY DEF PositionsReached
  <2>1. d = owner[q] /\ ~ending[d] /\ o \in Int /\ d \in Consumers
    BY <1>1, <1>5, <1>7 DEF Types, GroupTypeOK
  <2>2. CASE q # p
    <3>1. position'[q] = position[q]
      BY <1>1, <1>5, <2>2
    <3>2. Reached(d, q, o)
      BY <1>5, <2>1, <3>1 DEF BatchInv, PositionsReached
    <3> QED
      BY <1>1, <1>7, <1>8, <1>12, <2>1, <3>2, ReachedStays
  <2>3. CASE q = p
    <3>1. d = c /\ position'[p] = position[p] + 1
      BY <1>1, <1>5, <2>1, <2>3
    <3>2. CASE o \in 0 .. position[p] - 1
      BY <1>13, <2>3, <3>1, <3>2
    <3>3. CASE o = position[p]
      <4>1. buffer'[c] = e /\ Len(buffer[c]) + 1 \in 1 .. Len(e)
        BY <1>1, <1>5, <1>6
      <4>2. InBatch(c, x)'
        BY <1>6, <4>1 DEF InBatch
      <4> QED
        BY <1>2, <2>3, <3>1, <3>3, <4>2 DEF Reached
    <3> QED
      BY <1>1, <2>3, <3>1, <3>2, <3>3
  <2> QED
    BY <2>2, <2>3
<1> QED
  BY <1>7, <1>9, <1>10, <1>11, <1>14, <1>15 DEF BatchInv

(* What cannot be read ends the loop: the process no longer answers for    *)
(* its positions.                                                          *)
LEMMA BatchUnreadable ==
    ASSUME BatchInv, NEW c \in Consumers, NEW p \in Partitions, PollUnreadable(c, p)
    PROVE  BatchInv'
<1>1. /\ Types /\ Progress(c) /\ pc[c] = "poll" /\ owner[p] = c
      /\ position \in [Partitions -> Nat]
      /\ pc \in [Consumers -> Steps]
      /\ ending \in [Consumers -> BOOLEAN]
  BY DEF BatchInv, Types, GroupTypeOK, PollUnreadable, CanPoll
<1>2. /\ position' = [position EXCEPT ![p] = @ + 1]
      /\ ending' = [ending EXCEPT ![c] = TRUE]
      /\ pc' = [pc EXCEPT ![c] = IF buffer[c] = <<>> THEN "cleanup" ELSE "load"]
      /\ UNCHANGED <<logEnd, owner, committed, commitQueue, resetTo, rebalances,
                     buffer, index, handled>>
  BY DEF PollUnreadable, Advance, EndLoop, Goto, ghostVars
<1>3. Types'
  <2>1. /\ pc' \in [Consumers -> Steps]
        /\ ending' \in [Consumers -> BOOLEAN]
        /\ position' \in [Partitions -> Nat]
    BY <1>1, <1>2 DEF Steps
  <2> QED
    BY <1>1, <1>2, <2>1 DEF Types, GroupTypeOK
<1>4. Monotone
  BY <1>1, <1>2, MonotoneUnchanged
<1>5. Progress(c)'
  BY <1>1, <1>2 DEF Progress
<1>6. ASSUME NEW d \in Consumers \ {c}
      PROVE  Progress(d)'
  <2>1. pc'[d] = pc[d] /\ ending'[d] = ending[d]
    BY <1>1, <1>2
  <2> QED
    BY <1>2, <2>1, ProgressKept DEF BatchInv
<1>7. CommittedDone' /\ RequestsGranted' /\ BatchesOrdered'
  BY <1>1, <1>2, <1>3, <1>4, CommittedStays, RequestsStay, BatchesStay DEF BatchInv
<1>8. PositionsReached'
  <2> SUFFICES ASSUME NEW q \in Partitions, owner'[q] # NoOwner,
                      NEW d, d = owner'[q], ~ending'[d],
                      NEW o \in 0 .. position'[q] - 1
               PROVE  Reached(d, q, o)'
    BY DEF PositionsReached
  <2>1. d = owner[q] /\ d \in Consumers /\ o \in Int
    BY <1>2, <1>3 DEF Types, GroupTypeOK
  <2>2. d # c /\ ~ending[d]
    BY <1>1, <1>2, <2>1
  <2>3. q # p /\ position'[q] = position[q]
    BY <1>1, <1>2, <2>1, <2>2
  <2>4. Reached(d, q, o)
    BY <1>2, <2>1, <2>2, <2>3 DEF BatchInv, PositionsReached
  <2>5. \A x : InBatch(d, x) => InBatch(d, x)'
    BY <1>2 DEF InBatch
  <2> QED
    BY <1>1, <1>3, <1>4, <2>1, <2>4, <2>5, ReachedStays
<1> QED
  BY <1>3, <1>5, <1>6, <1>7, <1>8 DEF BatchInv

(* All of the batch is handled: what is asked for may be committed.        *)
LEMMA BatchCommit ==
    ASSUME BatchInv, NEW c \in Consumers, Commit(c)
    PROVE  BatchInv'
<1>1. /\ Types /\ Progress(c) /\ pc[c] = "commit"
      /\ commitQueue \in [Consumers -> Seq(Request)]
      /\ pc \in [Consumers -> Steps] /\ index \in [Consumers -> Nat]
      /\ ending \in [Consumers -> BOOLEAN]
      /\ buffer \in [Consumers -> Seq(Offset)]
  BY DEF BatchInv, Types, GroupTypeOK, Commit
<1>2. PICK last : last = buffer[c][Len(buffer[c])]
  OBVIOUS
<1>3. PICK r : r = [part |-> last.part, next |-> last.off + 1]
  OBVIOUS
<1>4. /\ \/ commitQueue' = [commitQueue EXCEPT ![c] = Append(@, r)]
         \/ UNCHANGED commitQueue
      /\ buffer' = [buffer EXCEPT ![c] = <<>>]
      /\ index' = [index EXCEPT ![c] = 0]
      /\ pc' = [pc EXCEPT ![c] = IF ending[c] THEN "cleanup" ELSE "poll"]
      /\ UNCHANGED <<logEnd, owner, position, committed, resetTo, rebalances, ending, handled>>
  BY <1>2, <1>3 DEF Commit, RequestCommit, ForgetBatch, Goto
<1>5. Len(buffer[c]) \in 1 .. Len(buffer[c]) /\ index[c] = Len(buffer[c])
  BY <1>1, EmptySeq, LenProperties DEF Progress
<1>6. last \in Offset /\ last.part \in Partitions /\ last.off \in Nat
      /\ last = [part |-> last.part, off |-> last.off]
  <2>1. last \in Offset
    BY <1>1, <1>2, <1>5, ElementOfSeq
  <2> QED
    BY <2>1 DEF Offset
<1>7. \A x : InBatch(c, x) => x \in handled
  BY <1>1, <1>5 DEF Progress, InBatch
<1>8. r \in Request
  BY <1>3, <1>6 DEF Request
<1>9. Granted(r)
  <2>1. Ordered(c, last) /\ last \in handled
    BY <1>2, <1>5, <1>7 DEF BatchInv, BatchesOrdered, InBatch
  <2>2. logEnd[last.part] \in Nat /\ last.off + 1 <= logEnd[last.part]
    BY <1>1, <1>6, <2>1 DEF Types, GroupTypeOK, Ordered
  <2>3. ASSUME NEW o \in 0 .. last.off
        PROVE  Done(last.part, o)
    <3>1. CASE o = last.off
      BY <1>6, <2>1, <3>1 DEF Done
    <3>2. CASE o # last.off
      <4>1. Reached(c, last.part, o)
        BY <1>6, <2>1, <3>2 DEF Ordered
      <4> QED
        BY <1>7, <4>1 DEF Reached, Done
    <3> QED
      BY <3>1, <3>2
  <2> QED
    BY <1>3, <1>6, <2>2, <2>3 DEF Granted
<1>10. Types'
  <2>1. commitQueue' \in [Consumers -> Seq(Request)]
    <3>1. commitQueue[c] \in Seq(Request)
      BY <1>1
    <3>2. PICK q : q = Append(commitQueue[c], r)
      OBVIOUS
    <3>3. q \in Seq(Request)
      BY <1>8, <3>1, <3>2, AppendProperties
    <3>4. commitQueue' = [commitQueue EXCEPT ![c] = q] \/ UNCHANGED commitQueue
      BY <1>4, <3>2
    <3> QED
      BY <1>1, <3>3, <3>4
  <2>2. /\ pc' \in [Consumers -> Steps] /\ index' \in [Consumers -> Nat]
        /\ buffer' \in [Consumers -> Seq(Offset)]
    BY <1>1, <1>4 DEF Steps
  <2> QED
    BY <1>1, <1>4, <2>1, <2>2 DEF Types, GroupTypeOK
<1>11. Monotone
  BY <1>1, <1>4, MonotoneUnchanged
<1>12. Progress(c)'
  <2>1. /\ buffer'[c] = <<>> /\ index'[c] = 0 /\ ending'[c] = ending[c]
        /\ pc'[c] = IF ending[c] THEN "cleanup" ELSE "poll"
    BY <1>1, <1>4
  <2> QED
    BY <2>1 DEF Progress
<1>13. ASSUME NEW d \in Consumers \ {c}
       PROVE  Progress(d)'
  <2>1. pc'[d] = pc[d] /\ buffer'[d] = buffer[d] /\ index'[d] = index[d]
    BY <1>1, <1>4
  <2> QED
    BY <1>4, <2>1, ProgressKept DEF BatchInv
<1>14. CommittedDone'
  BY <1>1, <1>4, <1>10, <1>11, CommittedStays DEF BatchInv
<1>15. RequestsGranted'
  <2>1. Granted(r)'
    BY <1>1, <1>8, <1>9, <1>10, <1>11, GrantedStays
  <2>2. ASSUME NEW d \in Consumers, NEW i \in 1 .. Len(commitQueue'[d])
        PROVE  \/ \E j \in 1 .. Len(commitQueue[d]) : commitQueue'[d][i] = commitQueue[d][j]
               \/ commitQueue'[d][i] = r
    <3>1. CASE commitQueue'[d] = commitQueue[d]
      BY <3>1
    <3>2. CASE commitQueue'[d] = Append(commitQueue[c], r) /\ d = c
      <4>1. commitQueue[c] \in Seq(Request)
        BY <1>1
      <4>2. /\ Len(Append(commitQueue[c], r)) = Len(commitQueue[c]) + 1
            /\ Len(commitQueue[c]) \in Nat
            /\ \A j \in 1 .. Len(commitQueue[c]) :
                  Append(commitQueue[c], r)[j] = commitQueue[c][j]
            /\ Append(commitQueue[c], r)[Len(commitQueue[c]) + 1] = r
        BY <1>8, <4>1, AppendProperties, LenProperties
      <4> QED
        BY <3>2, <4>2
    <3> QED
      BY <1>1, <1>4, <3>1, <3>2
  <2>3. \A d \in Consumers : \A i \in 1 .. Len(commitQueue'[d]) :
           \/ \E j \in 1 .. Len(commitQueue[d]) : commitQueue'[d][i] = commitQueue[d][j]
           \/ \E q : q = commitQueue'[d][i] /\ Granted(q)'
    BY <2>1, <2>2
  <2> QED
    BY <1>1, <1>10, <1>11, <2>3, RequestsStay DEF BatchInv
<1>16. BatchesOrdered'
  <2>1. \A d \in Consumers : buffer'[d] \in {buffer[d], <<>>}
    BY <1>1, <1>4
  <2> QED
    BY <1>1, <1>10, <1>11, <2>1, BatchesStay DEF BatchInv
<1>17. PositionsReached'
  <2>1. ASSUME NEW d \in Consumers, NEW x, InBatch(d, x)
        PROVE  InBatch(d, x)' \/ x \in handled'
    <3>1. CASE d = c
      BY <1>4, <1>7, <2>1, <3>1
    <3>2. CASE d # c
      <4>1. buffer'[d] = buffer[d]
        BY <1>1, <1>4, <3>2
      <4> QED
        BY <2>1, <4>1 DEF InBatch
    <3> QED
      BY <3>1, <3>2
  <2> QED
    BY <1>1, <1>4, <1>10, <1>11, <2>1, PositionsStay DEF BatchInv
<1> QED
  BY <1>10, <1>12, <1>13, <1>14, <1>15, <1>16, <1>17 DEF BatchInv

(* A process that ends leaves its partitions, its batch and its requests.  *)
LEMMA BatchDie ==
    ASSUME BatchInv, NEW c \in Consumers, Die(c), UNCHANGED handled
    PROVE  BatchInv'
<1>1. /\ Types
      /\ owner \in [Partitions -> Consumers \cup {NoOwner}]
      /\ commitQueue \in [Consumers -> Seq(Request)]
      /\ pc \in [Consumers -> Steps] /\ index \in [Consumers -> Nat]
      /\ ending \in [Consumers -> BOOLEAN]
      /\ buffer \in [Consumers -> Seq(Offset)]
  BY DEF BatchInv, Types, GroupTypeOK
<1>2. /\ owner' = [p \in Partitions |-> IF owner[p] = c THEN NoOwner ELSE owner[p]]
      /\ commitQueue' = [commitQueue EXCEPT ![c] = <<>>]
      /\ buffer' = [buffer EXCEPT ![c] = <<>>]
      /\ index' = [index EXCEPT ![c] = 0]
      /\ ending' = [ending EXCEPT ![c] = FALSE]
      /\ pc' = [pc EXCEPT ![c] = "down"]
      /\ UNCHANGED <<logEnd, position, committed, resetTo, rebalances, handled>>
  BY DEF Die, Leave, ForgetBatch, Goto
<1>3. Types'
  <2>1. owner' \in [Partitions -> Consumers \cup {NoOwner}]
        /\ commitQueue' \in [Consumers -> Seq(Request)]
    BY <1>1, <1>2
  <2>2. /\ pc' \in [Consumers -> Steps] /\ index' \in [Consumers -> Nat]
        /\ buffer' \in [Consumers -> Seq(Offset)] /\ ending' \in [Consumers -> BOOLEAN]
    BY <1>1, <1>2 DEF Steps
  <2> QED
    BY <1>1, <1>2, <2>1, <2>2 DEF Types, GroupTypeOK
<1>4. Monotone
  BY <1>1, <1>2, MonotoneUnchanged
<1>5. Progress(c)'
  <2>1. /\ buffer'[c] = <<>> /\ index'[c] = 0 /\ ending'[c] = FALSE
        /\ pc'[c] = "down"
    BY <1>1, <1>2
  <2> QED
    BY <2>1 DEF Progress
<1>6. ASSUME NEW d \in Consumers \ {c}
      PROVE  /\ pc'[d] = pc[d] /\ buffer'[d] = buffer[d]
             /\ index'[d] = index[d] /\ ending'[d] = ending[d]
  BY <1>1, <1>2
<1>7. \A d \in Consumers \ {c} : Progress(d)'
  BY <1>2, <1>6, ProgressKept DEF BatchInv
<1>8. CommittedDone'
  BY <1>1, <1>2, <1>3, <1>4, CommittedStays DEF BatchInv
<1>9. RequestsGranted'
  <2>1. \A d \in Consumers : commitQueue'[d] \in {commitQueue[d], <<>>}
    BY <1>1, <1>2
  <2>2. \A d \in Consumers : \A i \in 1 .. Len(commitQueue'[d]) :
           \E j \in 1 .. Len(commitQueue[d]) : commitQueue'[d][i] = commitQueue[d][j]
    <3> SUFFICES ASSUME NEW d \in Consumers, NEW i \in 1 .. Len(commitQueue'[d])
                 PROVE  commitQueue'[d] = commitQueue[d]
      OBVIOUS
    <3>1. Len(<<>>) = 0
      OBVIOUS
    <3> QED
      BY <2>1, <3>1
  <2> QED
    BY <1>1, <1>3, <1>4, <2>2, RequestsStay DEF BatchInv
<1>10. BatchesOrdered'
  <2>1. \A d \in Consumers : buffer'[d] \in {buffer[d], <<>>}
    BY <1>1, <1>2
  <2> QED
    BY <1>1, <1>3, <1>4, <2>1, BatchesStay DEF BatchInv
<1>11. PositionsReached'
  <2>1. \A p \in Partitions : owner'[p] \in {owner[p], NoOwner} /\ owner'[p] # c
    BY <1>1, <1>2
  <2>2. ASSUME NEW d \in Consumers \ {c}
        PROVE  /\ ending[d] => ending'[d]
               /\ \A x : InBatch(d, x) => InBatch(d, x)'
    BY <1>6 DEF InBatch
  <2> QED
    BY <1>1, <1>2, <1>3, <1>4, <2>1, <2>2, PositionsStay DEF BatchInv
<1> QED
  BY <1>3, <1>5, <1>7, <1>8, <1>9, <1>10, <1>11 DEF BatchInv

LEMMA BatchStep == BatchInv /\ [Next]_vars => BatchInv'
<1> SUFFICES ASSUME BatchInv, [Next]_vars
             PROVE  BatchInv'
  OBVIOUS
<1>1. CASE UNCHANGED vars
  <2>1. UNCHANGED <<groupVars, pc, buffer, index, ending, handled>>
    BY <1>1 DEF vars, processVars, ghostVars
  <2>2. Types'
    BY <2>1 DEF BatchInv, Types, GroupTypeOK, groupVars
  <2>3. \A c \in Consumers : Progress(c)'
    BY <2>1, ProgressStays DEF BatchInv
  <2> QED
    BY <2>1, <2>2, <2>3, QuietStep
<1>2. CASE Group
  BY <1>2, BatchProduce, BatchRevoke, BatchAnswer, BatchAssign DEF Group
<1>3. ASSUME NEW c \in Consumers, Poll(c)
      PROVE  BatchInv'
  BY <1>3, BatchPoll, BatchUnreadable DEF Poll
<1>4. ASSUME NEW c \in Consumers, FailOnNoObject(c) \/ Cleanup(c) \/ Crash(c)
      PROVE  BatchInv'
  BY <1>4, BatchDie DEF FailOnNoObject, Cleanup, Crash
<1> QED
  BY <1>1, <1>2, <1>3, <1>4, BatchQuiet, BatchScore, BatchCommit DEF Next, ProcessBatch

-----------------------------------------------------------------------------
(* The refinement: AtLeastOnce sees the logs, what is done with and the    *)
(* committed offsets.                                                      *)
DoneMessages == {x \in LogMessages : Done(x.part, x.off)}

LEMMA LogMessage ==
    ASSUME NEW p \in Partitions, NEW o \in 0 .. LogSize[p] - 1
    PROVE  [part |-> p, off |-> o] \in LogMessages
BY DEF LogMessages

LEMMA LogMessageType ==
    ASSUME NEW x \in LogMessages
    PROVE  /\ x.part \in Partitions /\ x.off \in 0 .. LogSize[x.part] - 1
           /\ x = [part |-> x.part, off |-> x.off]
BY DEF LogMessages

LEMMA RefStutter ==
    ASSUME UNCHANGED <<logEnd, handled, resetTo, committed>>
    PROVE  UNCHANGED ALO!vars
BY DEF ALO!vars, LogMessages, Done

(* The message that is scored is in the log: it finishes there.            *)
LEMMA RefScore ==
    ASSUME BatchInv, NEW c \in Consumers, ScoreNext(c)
    PROVE  ALO!Next
<1>1. PICK x : x = buffer[c][index[c] + 1]
  OBVIOUS
<1>2. handled' = handled \cup {x} /\ UNCHANGED <<logEnd, resetTo, committed>>
  BY <1>1 DEF ScoreNext, groupVars
<1>3. /\ buffer[c] \in Seq(Offset) /\ index[c] \in Nat
      /\ index[c] < Len(buffer[c]) /\ Len(buffer[c]) \in Nat
  BY LenProperties DEF BatchInv, Types, Progress, ScoreNext
<1>4. x \in Offset /\ Ordered(c, x)
  <2>1. index[c] + 1 \in 1 .. Len(buffer[c])
    BY <1>3
  <2>2. x \in Offset
    BY <1>1, <1>3, <2>1, ElementOfSeq
  <2>3. Ordered(c, x)
    BY <1>1, <2>1 DEF BatchInv, BatchesOrdered
  <2> QED
    BY <2>2, <2>3
<1>5. PICK p \in Partitions, o \in Nat : x = [part |-> p, off |-> o]
  BY <1>4 DEF Offset
<1>6. o < logEnd[p] /\ logEnd[p] \in Nat /\ logEnd[p] <= LogSize[p] /\ LogSize[p] \in Nat
  BY <1>4, <1>5 DEF Ordered, BatchInv, Types, GroupTypeOK
<1>7. o \in 0 .. LogSize[p] - 1
  BY <1>6
<1>8. \A y \in LogMessages : Done(y.part, y.off)' <=> Done(y.part, y.off) \/ y = x
  BY <1>2, <1>5, LogMessageType DEF Done
<1>9. DoneMessages' = DoneMessages \cup {x}
  BY <1>5, <1>7, <1>8, LogMessage DEF DoneMessages, LogMessages
<1>10. ALO!Finish(p, o)
  BY <1>2, <1>5, <1>6, <1>9 DEF ALO!Finish, ALO!Message, DoneMessages
<1> QED
  BY <1>7, <1>10 DEF ALO!Next

LEMMA RefAnswer ==
    ASSUME BatchInv, NEW c \in Consumers, AnswerCommit(c), UNCHANGED localVars
    PROVE  [ALO!Next]_ALO!vars
<1>1. commitQueue[c] \in Seq(Request) /\ commitQueue[c] # <<>>
  BY DEF BatchInv, Types, GroupTypeOK, AnswerCommit
<1>2. PICK r : r = Head(commitQueue[c])
  OBVIOUS
<1>3. r = commitQueue[c][1] /\ r \in Request /\ 1 \in 1 .. Len(commitQueue[c])
  BY <1>1, <1>2, HeadTailProperties, LenProperties, ElementOfSeq
<1>4. Granted(r)
  BY <1>3 DEF BatchInv, RequestsGranted
<1>5. PICK p \in Partitions, n \in Nat : p = r.part /\ n = r.next
  BY <1>3 DEF Request
<1>6. n \in 0 .. LogSize[p]
  BY <1>4, <1>5 DEF Granted, BatchInv, Types, GroupTypeOK
<1>7. \A o \in 0 .. n - 1 : [part |-> p, off |-> o] \in DoneMessages
  BY <1>4, <1>5, <1>6, LogMessage DEF Granted, DoneMessages
<1>8. UNCHANGED <<logEnd, handled, resetTo>>
  BY DEF AnswerCommit, localVars, ghostVars
<1>9. UNCHANGED DoneMessages
  BY <1>8 DEF DoneMessages, LogMessages, Done
<1>10. CASE committed' = [committed EXCEPT ![p] = n]
  <2>1. ALO!Commit(p, n)
    BY <1>7, <1>8, <1>9, <1>10 DEF ALO!Commit, ALO!Message, DoneMessages
  <2> QED
    BY <1>6, <2>1 DEF ALO!Next
<1>11. CASE UNCHANGED committed
  BY <1>8, <1>11, RefStutter
<1> QED
  BY <1>2, <1>5, <1>10, <1>11 DEF AnswerCommit

LEMMA RefAssign ==
    ASSUME BatchInv, NEW c \in Consumers, NEW p \in Partitions, Assign(c, p),
           UNCHANGED localVars
    PROVE  [ALO!Next]_ALO!vars
<1>1. UNCHANGED <<logEnd, handled, committed>>
  BY DEF Assign, localVars, ghostVars
<1>2. /\ resetTo \in [Partitions -> Nat] /\ logEnd[p] \in Nat
      /\ resetTo[p] <= logEnd[p] /\ logEnd[p] <= LogSize[p] /\ LogSize[p] \in Nat
      /\ ResetToLatest \/ resetTo[p] = 0
  BY DEF BatchInv, Types, GroupTypeOK
<1>3. CASE committed[p] # NoOffset \/ ~ResetToLatest
  <2>1. UNCHANGED resetTo
    BY <1>2, <1>3 DEF Assign, StartOffset
  <2> QED
    BY <1>1, <2>1, RefStutter
<1>4. CASE committed[p] = NoOffset /\ ResetToLatest
  <2>1. PICK passed : passed = {[part |-> p, off |-> o] : o \in 0 .. logEnd[p] - 1}
    OBVIOUS
  <2>2. resetTo' = [resetTo EXCEPT ![p] = logEnd[p]]
    BY <1>4 DEF Assign, StartOffset
  <2>3. ASSUME NEW x \in LogMessages
        PROVE  Done(x.part, x.off)' <=> Done(x.part, x.off) \/ x \in passed
    <3>1. x.part \in Partitions /\ x.off \in Nat /\ x = [part |-> x.part, off |-> x.off]
      BY LogMessageType
    <3>2. CASE x.part = p
      <4>1. resetTo'[p] = logEnd[p]
        BY <1>2, <2>2
      <4>2. x \in passed <=> x.off < logEnd[p]
        BY <1>2, <2>1, <3>1, <3>2
      <4> QED
        BY <1>1, <1>2, <3>1, <3>2, <4>1, <4>2 DEF Done
    <3>3. CASE x.part # p
      <4>1. resetTo'[x.part] = resetTo[x.part] /\ x \notin passed
        BY <1>2, <2>1, <2>2, <3>1, <3>3
      <4> QED
        BY <1>1, <4>1 DEF Done
    <3> QED
      BY <3>2, <3>3
  <2>4. passed \subseteq LogMessages
    <3>1. 0 .. logEnd[p] - 1 \subseteq 0 .. LogSize[p] - 1
      BY <1>2
    <3> QED
      BY <2>1, <3>1, LogMessage
  <2>5. DoneMessages' = DoneMessages \cup passed
    BY <2>3, <2>4 DEF DoneMessages, LogMessages
  <2>6. ALO!PassOver(p)
    BY <1>1, <1>4, <2>1, <2>5 DEF ALO!PassOver, ALO!Message, DoneMessages, NoOffset
  <2> QED
    BY <2>6 DEF ALO!Next
<1> QED
  BY <1>3, <1>4

LEMMA RefStep ==
    ASSUME BatchInv, [Next]_vars
    PROVE  [ALO!Next]_ALO!vars
<1> USE DEF groupVars, localVars, processVars, ghostVars
<1>1. CASE UNCHANGED vars
  BY <1>1, RefStutter DEF vars
<1>2. CASE Group
  <2>1. ASSUME NEW p \in Partitions, Produce(p), UNCHANGED localVars
        PROVE  ALO!Next
    <3>1. UNCHANGED DoneMessages
      BY <2>1 DEF Produce, DoneMessages, LogMessages, Done
    <3>2. ALO!Produce(p)
      BY <2>1, <3>1 DEF Produce, ALO!Produce, DoneMessages
    <3> QED
      BY <3>2 DEF ALO!Next
  <2>2. ASSUME NEW p \in Partitions, Revoke(p), UNCHANGED localVars
        PROVE  UNCHANGED ALO!vars
    BY <2>2, RefStutter DEF Revoke
  <2> QED
    BY <1>2, <2>1, <2>2, RefAnswer, RefAssign DEF Group
<1>3. ASSUME NEW c \in Consumers, Poll(c)
      PROVE  UNCHANGED ALO!vars
  BY <1>3, RefStutter DEF Poll, PollMessage, PollUnreadable
<1>4. ASSUME NEW c \in Consumers, FailOnNoObject(c) \/ Cleanup(c) \/ Crash(c)
      PROVE  UNCHANGED ALO!vars
  BY <1>4, RefStutter DEF FailOnNoObject, Cleanup, Crash, Die, Leave
<1>5. ASSUME NEW c \in Consumers, LoadNext(c) \/ Commit(c)
      PROVE  UNCHANGED ALO!vars
  BY <1>5, RefStutter DEF LoadNext, Commit
<1>6. ASSUME NEW c \in Consumers, Start(c) \/ Flush(c) \/ StopRunning(c) \/ Deliver(c)
      PROVE  UNCHANGED ALO!vars
  BY <1>6, RefStutter DEF Start, Flush, StopRunning, Deliver
<1> QED
  BY <1>1, <1>2, <1>3, <1>4, <1>5, <1>6, RefScore DEF Next, ProcessBatch

LEMMA RefInit == Init => ALO!Init
<1> SUFFICES ASSUME Init PROVE ALO!Init
  OBVIOUS
<1>1. \A x \in LogMessages : ~Done(x.part, x.off)
  BY LogMessageType DEF Init, GroupInit, Done
<1> QED
  BY <1>1 DEF Init, GroupInit, ALO!Init, NoOffset

(* Whatever is buffered, revoked, killed or answered late, batch mode      *)
(* commits an offset only when everything below it is done with: every     *)
(* behaviour of the batch detectors is one that AtLeastOnce allows.        *)
THEOREM BatchesImplementAtLeastOnce == Spec => ImplementsAtLeastOnce
<1>1. Init => BatchInv
  BY BatchInit
<1>2. BatchInv /\ [Next]_vars => BatchInv'
  BY BatchStep
<1>3. BatchInv /\ [Next]_vars => [ALO!Next]_ALO!vars
  BY RefStep
<1> QED
  BY <1>1, <1>2, <1>3, RefInit, PTL DEF Spec, ImplementsAtLeastOnce, ALO!Spec

-----------------------------------------------------------------------------
(* The profiles.  A process reads all the profiles of its batch before it  *)
(* saves the first.                                                        *)
LoadedInv(c) ==
    /\ Len(loaded[c]) <= Len(buffer[c])
    /\ pc[c] \notin {"load", "score", "commit"} => loaded[c] = <<>>
    /\ pc[c] \notin {"score", "commit"} => savedNow[c] = {}
    /\ pc[c] = "load" => Len(loaded[c]) < Len(buffer[c])
    /\ pc[c] = "score" => Len(loaded[c]) = Len(buffer[c])

(* c may still write what it has read of u for the i-th message.           *)
Has(c, u, i) ==
    pc[c] \in {"load", "score"} /\ i \in 1 .. Len(loaded[c]) /\ i > index[c] /\ UserAt(c, i) = u

(* What a process may still write of u is what the profile is, or was      *)
(* before this batch's own save of it; and no other process may write it.  *)
Exclusive(u) ==
    /\ profile[u] = batches[u]
    /\ \A c \in Consumers, i \in Nat : Has(c, u, i) =>
          /\ profile[u] = loaded[c][i] + (IF u \in savedNow[c] THEN 1 ELSE 0)
          /\ \A d \in Consumers, j \in Nat : Has(d, u, j) => d = c

ProfilesInv ==
    /\ loaded \in [Consumers -> Seq(Nat)] /\ DOMAIN savedNow = Consumers
    /\ profile \in [Users -> Nat] /\ batches \in [Users -> Nat]
    /\ \A c \in Consumers : LoadedInv(c)
    /\ \A u \in Users \ overlap : Exclusive(u)

LEMMA ProfilesInit == Init => ProfilesInv
<1> SUFFICES ASSUME Init PROVE ProfilesInv
  OBVIOUS
<1>1. /\ loaded = [c \in Consumers |-> <<>>] /\ buffer = [c \in Consumers |-> <<>>]
      /\ savedNow = [c \in Consumers |-> {}] /\ pc = [c \in Consumers |-> "poll"]
      /\ profile = [u \in Users |-> 0] /\ batches = [u \in Users |-> 0]
  BY DEF Init
<1>2. loaded \in [Consumers -> Seq(Nat)]
  BY <1>1
<1> QED
  BY <1>1, <1>2 DEF ProfilesInv, LoadedInv, Exclusive, Has

LEMMA ExclusiveStays ==
    ASSUME NEW u, Exclusive(u), profile'[u] = profile[u], batches'[u] = batches[u],
           \A c \in Consumers, i \in Nat : Has(c, u, i)' =>
              /\ Has(c, u, i) /\ loaded'[c][i] = loaded[c][i]
              /\ u \in savedNow'[c] <=> u \in savedNow[c]
    PROVE  Exclusive(u)'
BY DEF Exclusive

(* A step of c that writes no profile, and reads none to write it later.   *)
LEMMA ProfilesStay ==
    ASSUME ProfilesInv, NEW c \in Consumers, overlap \subseteq overlap', UNCHANGED <<profile, batches>>,
           \A d \in Consumers \ {c} : /\ pc'[d] = pc[d] /\ buffer'[d] = buffer[d] /\ loaded'[d] = loaded[d]
                                     /\ index'[d] = index[d] /\ savedNow'[d] = savedNow[d],
           loaded' \in [Consumers -> Seq(Nat)], DOMAIN savedNow' = Consumers, LoadedInv(c)',
           \A u \in Users, i \in Nat : Has(c, u, i)' =>
              /\ Has(c, u, i) /\ loaded'[c][i] = loaded[c][i]
              /\ u \in savedNow'[c] <=> u \in savedNow[c]
    PROVE  ProfilesInv'
<1>1. \A d \in Consumers : LoadedInv(d)'
  <2> TAKE d \in Consumers
  <2>1. CASE d = c
    BY <2>1
  <2>2. CASE d # c
    BY <2>2 DEF ProfilesInv, LoadedInv
  <2> QED
    BY <2>1, <2>2
<1>2. ASSUME NEW u \in Users \ overlap' PROVE Exclusive(u)'
  <2>1. Exclusive(u)
    BY DEF ProfilesInv
  <2>2. ASSUME NEW d \in Consumers, NEW i \in Nat, Has(d, u, i)'
        PROVE  /\ Has(d, u, i) /\ loaded'[d][i] = loaded[d][i]
               /\ u \in savedNow'[d] <=> u \in savedNow[d]
    <3>1. CASE d = c
      BY <2>2, <3>1
    <3>2. CASE d # c
      BY <2>2, <3>2 DEF Has, UserAt
    <3> QED
      BY <3>1, <3>2
  <2> QED
    BY <2>1, <2>2, ExclusiveStays
<1> QED
  BY <1>1, <1>2 DEF ProfilesInv

LEMMA ProfilesUnchanged ==
    ASSUME ProfilesInv, UNCHANGED <<pc, buffer, loaded, index, savedNow, profile, batches, overlap>>
    PROVE  ProfilesInv'
<1>1. \A d \in Consumers : LoadedInv(d)'
  BY DEF ProfilesInv, LoadedInv
<1>2. ASSUME NEW u \in Users \ overlap' PROVE Exclusive(u)'
  <2>1. Exclusive(u)
    BY DEF ProfilesInv
  <2>2. \A c \in Consumers, i \in Nat : Has(c, u, i)' => Has(c, u, i)
    BY DEF Has, UserAt
  <2> QED
    BY <2>1, <2>2, ExclusiveStays
<1> QED
  BY <1>1, <1>2 DEF ProfilesInv

(* Steps of a process without a batch, or that gives it up.                *)
LEMMA ProfilesQuiet ==
    ASSUME ProfilesInv, Types, NEW c \in Consumers,
           Start(c) \/ Poll(c) \/ Flush(c) \/ StopRunning(c)
    PROVE  ProfilesInv'
<1>1. /\ pc[c] \in {"down", "poll"} /\ UNCHANGED <<loaded, index, savedNow, profile, batches, overlap>>
      /\ pc'[c] = "load" => buffer'[c] # <<>>
      /\ pc'[c] \in {"poll", "load", "cleanup"}
      /\ buffer'[c] \in Seq(Offset)
      /\ \A d \in Consumers \ {c} : pc'[d] = pc[d] /\ buffer'[d] = buffer[d]
  <2>1. pc \in [Consumers -> Steps] /\ buffer \in [Consumers -> Seq(Offset)] /\ buffer[c] \in Seq(Offset)
    BY DEF Types
  <2>2. CASE Start(c) \/ Flush(c) \/ StopRunning(c)
    BY <2>1, <2>2 DEF Start, Flush, FlushDue, StopRunning, EndLoop, Goto, ghostVars
  <2>3. ASSUME NEW p \in Partitions, PollUnreadable(c, p) PROVE <1>1!:
    BY <2>1, <2>3 DEF PollUnreadable, EndLoop, Goto, ghostVars
  <2>4. ASSUME NEW p \in Partitions, PollMessage(c, p) PROVE <1>1!:
    <3>1. PICK x : x = [part |-> p, off |-> position[p]]
      OBVIOUS
    <3>2. x \in Offset
      BY <3>1 DEF Types, GroupTypeOK, Offset
    <3>3. /\ buffer' = [buffer EXCEPT ![c] = Append(buffer[c], x)]
          /\ pc[c] = "poll" /\ UNCHANGED <<loaded, index, savedNow, profile, batches, overlap>>
          /\ \E step \in {"load", "poll"} : pc' = [pc EXCEPT ![c] = step]
      BY <2>4, <3>1 DEF PollMessage, Goto, ghostVars
    <3>4. Append(buffer[c], x) \in Seq(Offset) /\ Append(buffer[c], x) # <<>>
      BY <2>1, <3>2, AppendProperties
    <3> QED
      BY <2>1, <3>3, <3>4
  <2> QED
    BY <2>2, <2>3, <2>4 DEF Poll
<1>2. loaded[c] = <<>> /\ savedNow[c] = {}
  BY <1>1 DEF ProfilesInv, LoadedInv
<1>3. LoadedInv(c)'
  <2>1. Len(loaded'[c]) = 0 /\ Len(buffer'[c]) \in Nat /\ (buffer'[c] # <<>> => Len(buffer'[c]) > 0)
    BY <1>1, <1>2
  <2> QED
    BY <1>1, <1>2, <2>1 DEF LoadedInv
<1>4. \A u \in Users, i \in Nat : ~Has(c, u, i)'
  BY <1>1, <1>2 DEF Has
<1> QED
  BY <1>1, <1>3, <1>4, ProfilesStay DEF ProfilesInv

LEMMA ProfilesForgotten ==
    ASSUME ProfilesInv, Types, NEW c \in Consumers, ForgetBatch(c), UNCHANGED <<profile, batches, overlap>>,
           \E step \in {"down", "cleanup", "poll"} : pc' = [pc EXCEPT ![c] = step]
    PROVE  ProfilesInv'
<1>1. /\ pc'[c] \in {"down", "cleanup", "poll"} /\ loaded'[c] = <<>> /\ buffer'[c] = <<>> /\ savedNow'[c] = {}
      /\ loaded' \in [Consumers -> Seq(Nat)] /\ DOMAIN savedNow' = Consumers
      /\ \A d \in Consumers \ {c} : /\ pc'[d] = pc[d] /\ buffer'[d] = buffer[d] /\ loaded'[d] = loaded[d]
                                   /\ index'[d] = index[d] /\ savedNow'[d] = savedNow[d]
  BY DEF ForgetBatch, ProfilesInv, Types
<1>2. LoadedInv(c)' /\ \A u \in Users, i \in Nat : ~Has(c, u, i)'
  BY <1>1 DEF LoadedInv, Has
<1> QED
  BY <1>1, <1>2, ProfilesStay

LEMMA UserOf ==
    ASSUME BatchInv, NEW c \in Consumers, NEW i \in 1 .. Len(buffer[c])
    PROVE  UserAt(c, i) \in Users
<1>1. PICK x : x = buffer[c][i]
  OBVIOUS
<1>2. x \in Offset /\ x.part \in Partitions /\ x.off \in Nat
  <2>1. x \in Offset
    BY <1>1, ElementOfSeq DEF BatchInv, Types
  <2> QED
    BY <2>1 DEF Offset
<1>3. x.off < logEnd[x.part] /\ logEnd[x.part] <= LogSize[x.part] /\ logEnd[x.part] \in Nat
  BY <1>1, <1>2 DEF BatchInv, BatchesOrdered, Ordered, Types, GroupTypeOK
<1>4. Log[x.part] \in Seq(BatchMessage) /\ LogSize[x.part] = Len(Log[x.part])
  BY <1>2
<1>5. x.off + 1 \in 1 .. Len(Log[x.part])
  BY <1>2, <1>3, <1>4
<1>6. Log[x.part][x.off + 1] \in BatchMessage
  BY <1>4, <1>5, ElementOfSeq
<1> QED
  BY <1>1, <1>6 DEF UserAt, Message, BatchMessage

LEMMA ProfilesLoad ==
    ASSUME ProfilesInv, BatchInv, NEW c \in Consumers, LoadNext(c)
    PROVE  ProfilesInv'
<1> PICK n : n = Len(loaded[c]) + 1
  OBVIOUS
<1> PICK w : w = UserAt(c, n)
  OBVIOUS
<1>1. /\ pc[c] = "load" /\ UNCHANGED <<buffer, index, savedNow, profile, batches>>
      /\ \/ /\ loaded' = [loaded EXCEPT ![c] = Append(loaded[c], profile[w])]
            /\ overlap' = IF \E d \in Consumers \ {c} : Holds(d, w) THEN overlap \cup {w} ELSE overlap
         \/ loaded' = [loaded EXCEPT ![c] = Append(loaded[c], 0)] /\ overlap' = overlap \cup {w}
      /\ pc' = [pc EXCEPT ![c] = IF Len(loaded'[c]) = Len(buffer[c]) THEN "score" ELSE "load"]
  BY DEF LoadNext, Goto
<1>2. /\ loaded[c] \in Seq(Nat) /\ Len(loaded[c]) \in Nat /\ Len(buffer[c]) \in Nat
      /\ Len(loaded[c]) < Len(buffer[c]) /\ savedNow[c] = {} /\ index[c] = 0
      /\ pc \in [Consumers -> Steps] /\ loaded \in [Consumers -> Seq(Nat)]
  BY <1>1 DEF ProfilesInv, LoadedInv, BatchInv, Types, Progress
<1>3. n \in 1 .. Len(buffer[c]) /\ w \in Users /\ profile[w] \in Nat
  <2>1. n \in 1 .. Len(buffer[c])
    BY <1>2
  <2> QED
    BY <2>1, UserOf DEF ProfilesInv
<1>4. PICK v \in Nat : loaded' = [loaded EXCEPT ![c] = Append(loaded[c], v)] /\ (w \notin overlap' => v = profile[w])
  BY <1>1, <1>3
<1>5. /\ loaded'[c] = Append(loaded[c], v) /\ loaded' \in [Consumers -> Seq(Nat)]
      /\ Len(loaded'[c]) = n /\ loaded'[c][n] = v
      /\ \A i \in 1 .. Len(loaded[c]) : loaded'[c][i] = loaded[c][i]
  BY <1>2, <1>4
<1>6. /\ \A d \in Consumers \ {c} : pc'[d] = pc[d] /\ loaded'[d] = loaded[d]
      /\ pc'[c] = IF n = Len(buffer[c]) THEN "score" ELSE "load"
  BY <1>1, <1>2, <1>4, <1>5
<1>7. LoadedInv(c)'
  BY <1>1, <1>2, <1>3, <1>5, <1>6 DEF LoadedInv
<1>8. \A d \in Consumers : LoadedInv(d)'
  <2> TAKE d \in Consumers
  <2>1. CASE d # c
    BY <1>1, <1>6, <2>1 DEF ProfilesInv, LoadedInv
  <2> QED
    BY <1>7, <2>1
<1>9. \A u : \A d \in Consumers, i \in Nat : Has(d, u, i)' => Has(d, u, i) \/ (d = c /\ i = n /\ u = w)
  <2> SUFFICES ASSUME NEW u, NEW d \in Consumers, NEW i \in Nat, Has(d, u, i)'
               PROVE  Has(d, u, i) \/ (d = c /\ i = n /\ u = w)
    OBVIOUS
  <2>1. CASE d # c
    BY <1>1, <1>6, <2>1 DEF Has, UserAt
  <2>2. CASE d = c
    <3>1. i \in 1 .. n /\ i > index[c] /\ UserAt(c, i) = u
      BY <1>1, <1>5, <2>2 DEF Has, UserAt
    <3>2. i = n \/ i \in 1 .. Len(loaded[c])
      BY <1>2, <3>1
    <3> QED
      BY <1>1, <2>2, <3>1, <3>2 DEF Has
  <2> QED
    BY <2>1, <2>2
<1>10. ASSUME NEW u \in Users \ overlap' PROVE Exclusive(u)'
  <2>1. Exclusive(u) /\ UNCHANGED <<profile, batches, savedNow>>
    BY <1>1 DEF ProfilesInv
  <2>2. CASE u # w
    <3>1. \A d \in Consumers, i \in Nat : Has(d, u, i)' => Has(d, u, i) /\ loaded'[d][i] = loaded[d][i]
      <4> SUFFICES ASSUME NEW d \in Consumers, NEW i \in Nat, Has(d, u, i)'
                   PROVE  Has(d, u, i) /\ loaded'[d][i] = loaded[d][i]
        OBVIOUS
      <4>1. Has(d, u, i) /\ i \in 1 .. Len(loaded[d])
        BY <1>9, <2>2 DEF Has
      <4> QED
        BY <1>5, <1>6, <4>1
    <3> QED
      BY <2>1, <3>1, ExclusiveStays
  <2>3. CASE u = w
    <3>1. v = profile[w] /\ \A d \in Consumers \ {c} : ~Holds(d, w)
      BY <1>1, <1>4, <2>3
    <3>2. \A d \in Consumers \ {c}, i \in Nat : ~Has(d, w, i)
      BY <3>1 DEF Holds, Has
    <3>3. \A d \in Consumers, i \in Nat : Has(d, w, i)' => d = c /\ loaded'[c][i] = profile[w]
      <4> SUFFICES ASSUME NEW d \in Consumers, NEW i \in Nat, Has(d, w, i)'
                   PROVE  d = c /\ loaded'[c][i] = profile[w]
        OBVIOUS
      <4>1. CASE d = c /\ i = n
        BY <1>5, <3>1, <4>1
      <4>2. CASE Has(d, w, i)
        <5>1. d = c /\ i \in 1 .. Len(loaded[c])
          BY <3>2, <4>2 DEF Has
        <5>2. profile[w] = loaded[c][i] + 0
          BY <1>2, <2>1, <2>3, <4>2, <5>1 DEF Exclusive
        <5>3. loaded[c][i] \in Nat
          BY <1>2, <5>1, ElementOfSeq
        <5> QED
          BY <1>5, <5>1, <5>2, <5>3
      <4> QED
        BY <1>9, <4>1, <4>2
    <3>4. profile[w] = batches[w] /\ w \notin savedNow[c] /\ profile[w] + 0 = profile[w]
      BY <1>2, <1>3, <2>1, <2>3 DEF Exclusive
    <3> QED
      BY <2>1, <2>3, <3>3, <3>4 DEF Exclusive
  <2> QED
    BY <2>2, <2>3
<1> QED
  BY <1>1, <1>5, <1>8, <1>10 DEF ProfilesInv

LEMMA ProfilesScore ==
    ASSUME ProfilesInv, BatchInv, NEW c \in Consumers, ScoreNext(c)
    PROVE  ProfilesInv'
<1> PICK n : n = index[c] + 1
  OBVIOUS
<1> PICK w : w = UserAt(c, n)
  OBVIOUS
<1>1. /\ pc[c] = "score" /\ UNCHANGED <<buffer, loaded, overlap>>
      /\ index' = [index EXCEPT ![c] = @ + 1]
      /\ pc' = [pc EXCEPT ![c] = IF index'[c] = Len(buffer[c]) THEN "commit" ELSE "score"]
      /\ \/ /\ profile' = [profile EXCEPT ![w] = loaded[c][n] + 1]
            /\ savedNow' = [savedNow EXCEPT ![c] = @ \cup {w}]
            /\ batches' = IF w \in savedNow[c] THEN batches ELSE [batches EXCEPT ![w] = @ + 1]
         \/ UNCHANGED <<profile, savedNow, batches>>
  BY DEF ScoreNext, SaveAndPublish, CountTransaction, UserAt, Goto
<1>2. /\ loaded[c] \in Seq(Nat) /\ index[c] \in Nat /\ Len(buffer[c]) \in Nat
      /\ Len(loaded[c]) = Len(buffer[c]) /\ index[c] < Len(buffer[c])
      /\ pc \in [Consumers -> Steps] /\ index \in [Consumers -> Nat]
  BY <1>1 DEF ProfilesInv, LoadedInv, BatchInv, Types, Progress
<1>3. n \in 1 .. Len(buffer[c]) /\ n \in Nat /\ w \in Users /\ loaded[c][n] \in Nat
  <2>1. n \in 1 .. Len(buffer[c]) /\ n \in Nat
    BY <1>2
  <2>2. loaded[c][n] \in Nat
    BY <1>2, <2>1, ElementOfSeq
  <2> QED
    BY <2>1, <2>2, UserOf
<1>4. /\ index'[c] = n /\ pc'[c] \in {"score", "commit"}
      /\ \A d \in Consumers \ {c} : pc'[d] = pc[d] /\ index'[d] = index[d] /\ savedNow'[d] = savedNow[d]
      /\ DOMAIN savedNow' = Consumers
  BY <1>1, <1>2 DEF ProfilesInv
<1>5. \A d \in Consumers : LoadedInv(d)'
  <2> TAKE d \in Consumers
  <2>1. CASE d = c
    BY <1>1, <1>2, <1>4, <2>1 DEF LoadedInv
  <2>2. CASE d # c
    BY <1>1, <1>4, <2>2 DEF ProfilesInv, LoadedInv
  <2> QED
    BY <2>1, <2>2
<1>6. \A u : \A d \in Consumers, i \in Nat : Has(d, u, i)' => Has(d, u, i)
  <2> SUFFICES ASSUME NEW u, NEW d \in Consumers, NEW i \in Nat, Has(d, u, i)'
               PROVE  Has(d, u, i)
    OBVIOUS
  <2>1. CASE d # c
    BY <1>1, <1>4, <2>1 DEF Has, UserAt
  <2>2. CASE d = c
    <3>1. i > n /\ i > index[c]
      BY <1>2, <1>4, <2>2 DEF Has
    <3> QED
      BY <1>1, <2>2, <3>1 DEF Has, UserAt
  <2> QED
    BY <2>1, <2>2
<1>7. Has(c, w, n)
  BY <1>1, <1>2, <1>3 DEF Has
<1>8. CASE UNCHANGED <<profile, savedNow, batches>>
  <2>1. \A u \in Users \ overlap' : Exclusive(u)'
    BY <1>1, <1>6, <1>8, ExclusiveStays DEF ProfilesInv
  <2> QED
    BY <1>1, <1>5, <1>8, <2>1 DEF ProfilesInv
<1>9. CASE /\ profile' = [profile EXCEPT ![w] = loaded[c][n] + 1]
           /\ savedNow' = [savedNow EXCEPT ![c] = @ \cup {w}]
           /\ batches' = IF w \in savedNow[c] THEN batches ELSE [batches EXCEPT ![w] = @ + 1]
  <2>1. /\ profile' \in [Users -> Nat] /\ batches' \in [Users -> Nat] /\ profile'[w] = loaded[c][n] + 1
        /\ \A u \in Users \ {w} : profile'[u] = profile[u] /\ batches'[u] = batches[u]
        /\ batches'[w] = batches[w] + (IF w \in savedNow[c] THEN 0 ELSE 1)
        /\ profile[w] \in Nat /\ batches[w] \in Nat
    <3>1. profile \in [Users -> Nat] /\ batches \in [Users -> Nat]
      BY DEF ProfilesInv
    <3>2. /\ profile' \in [Users -> Nat] /\ profile'[w] = loaded[c][n] + 1
          /\ \A u \in Users \ {w} : profile'[u] = profile[u]
      <4> loaded[c][n] + 1 \in Nat
        BY <1>3
      <4> QED
        BY <1>3, <1>9, <3>1
    <3>3. /\ batches' \in [Users -> Nat]
          /\ \A u \in Users \ {w} : batches'[u] = batches[u]
          /\ batches'[w] = batches[w] + (IF w \in savedNow[c] THEN 0 ELSE 1)
      <4>1. CASE w \in savedNow[c]
        BY <1>3, <1>9, <3>1, <4>1
      <4>2. CASE w \notin savedNow[c]
        BY <1>3, <1>9, <3>1, <4>2
      <4> QED
        BY <4>1, <4>2
    <3> QED
      BY <1>3, <3>1, <3>2, <3>3
  <2>2. savedNow'[c] = savedNow[c] \cup {w}
    BY <1>9 DEF ProfilesInv
  <2>3. ASSUME NEW u \in Users \ overlap' PROVE Exclusive(u)'
    <3>1. Exclusive(u)
      BY <1>1 DEF ProfilesInv
    <3>2. CASE u # w \/ w \in savedNow[c]
      <4>1. \A d \in Consumers : u \in savedNow'[d] <=> u \in savedNow[d]
        BY <1>4, <2>2, <3>2
      <4>2. profile'[u] = profile[u] /\ batches'[u] = batches[u]
        <5>1. CASE u # w
          BY <2>1, <5>1
        <5>2. CASE u = w
          <6>1. profile[w] = loaded[c][n] + 1
            BY <1>3, <1>7, <3>1, <3>2, <5>2 DEF Exclusive
          <6> QED
            BY <2>1, <3>2, <5>2, <6>1
        <5> QED
          BY <5>1, <5>2
      <4> QED
        BY <1>1, <1>6, <3>1, <4>1, <4>2, ExclusiveStays
    <3>3. CASE u = w /\ w \notin savedNow[c]
      <4>1. profile[w] = loaded[c][n] + 0 /\ profile[w] = batches[w]
        BY <1>3, <1>7, <3>1, <3>3 DEF Exclusive
      <4>2. profile'[w] = profile[w] + 1 /\ profile'[w] = batches'[w]
        BY <1>3, <2>1, <3>3, <4>1
      <4>3. ASSUME NEW d \in Consumers, NEW i \in Nat, Has(d, w, i)'
            PROVE  d = c /\ profile'[w] = loaded'[c][i] + 1 /\ w \in savedNow'[c]
        <5>1. Has(d, w, i)
          BY <1>6, <4>3
        <5>2. d = c
          BY <1>3, <1>7, <3>1, <3>3, <5>1 DEF Exclusive
        <5>3. profile[w] = loaded[c][i] + 0
          BY <3>1, <3>3, <5>1, <5>2 DEF Exclusive
        <5>4. loaded[c][i] \in Nat
          BY <1>2, <5>1, <5>2, ElementOfSeq DEF Has
        <5> QED
          BY <1>1, <2>2, <4>2, <5>2, <5>3, <5>4
      <4> QED
        BY <3>3, <4>2, <4>3 DEF Exclusive
    <3> QED
      BY <3>2, <3>3
  <2> QED
    BY <1>1, <1>4, <1>5, <2>1, <2>3 DEF ProfilesInv
<1> QED
  BY <1>1, <1>8, <1>9

LEMMA ProfilesNext == ProfilesInv /\ BatchInv /\ [Next]_vars => ProfilesInv'
<1> SUFFICES ASSUME ProfilesInv, BatchInv, [Next]_vars PROVE ProfilesInv'
  OBVIOUS
<1>1. Types
  BY DEF BatchInv
<1>2. CASE UNCHANGED vars \/ Group \/ \E c \in Consumers : Deliver(c)
  <2>1. UNCHANGED <<pc, buffer, loaded, index, savedNow, profile, batches, overlap>>
    BY <1>2 DEF vars, Group, Deliver, localVars, processVars, ghostVars
  <2> QED
    BY <2>1, ProfilesUnchanged
<1>3. ASSUME NEW c \in Consumers, FailOnNoObject(c) \/ Commit(c) \/ Cleanup(c) \/ Crash(c)
      PROVE  ProfilesInv'
  <2>1. /\ ForgetBatch(c) /\ UNCHANGED <<profile, batches, overlap>>
        /\ \E step \in {"down", "cleanup", "poll"} : pc' = [pc EXCEPT ![c] = step]
    BY <1>3 DEF FailOnNoObject, Commit, Cleanup, Crash, Die, Goto
  <2> QED
    BY <1>1, <2>1, ProfilesForgotten
<1> QED
  BY <1>1, <1>2, <1>3, ProfilesQuiet, ProfilesLoad, ProfilesScore DEF Next, ProcessBatch

(* A batch counts one transaction of a user however many it holds          *)
(* (_process_batch reads every profile before it saves the first), and     *)
(* nothing else does: a profile counts the batches that saved it, unless   *)
(* two processes had it at a time, or it could not be read.                *)
THEOREM ProfilesCountBatches == Spec => []ProfileCountsBatches
<1>1. ProfilesInv => ProfileCountsBatches
  BY DEF ProfilesInv, ProfileCountsBatches, Exclusive
<1> QED
  BY BatchInit, BatchStep, ProfilesInit, ProfilesNext, <1>1, PTL DEF Spec
=============================================================================
