------------------------ MODULE FraudDetector_proofs ------------------------
(***************************************************************************)
(* Safety of FraudDetector for every number of processes, partitions,      *)
(* users and messages, and for every bound on rebalances, restarts and     *)
(* failing calls.                                                          *)
(***************************************************************************)
EXTENDS FraudDetector, TLAPS, SequenceTheorems

USE GroupAssumption, DetectorAssumption

(* Offsets stay inside the log, and a reset never goes back.               *)
Bounds ==
    /\ \A p \in Partitions : /\ logEnd[p] <= LogSize[p]
                             /\ resetTo[p] <= logEnd[p]
                             /\ ResetToLatest \/ resetTo[p] = 0
    /\ \A c \in Consumers : pc[c] \in Working => cur[c].off < LogSize[cur[c].part]

(* Everything below an unanswered commit request is done with.             *)
RequestsDone ==
    \A c \in Consumers : \A i \in 1 .. Len(commitQueue[c]) :
        \A o \in 0 .. commitQueue[c][i].next - 1 : Done(commitQueue[c][i].part, o)

(* Everything before the message a process works on is done with.          *)
CurrentDone ==
    \A c \in Consumers : pc[c] \in Working =>
        \A o \in 0 .. cur[c].off - 1 : Done(cur[c].part, o)

(* Everything the owner of a partition has read is done with, except the   *)
(* message it works on.                                                    *)
PositionDone ==
    \A p \in Partitions : owner[p] # NoOwner =>
        \A o \in 0 .. position[p] - 1 :
            \/ Done(p, o)
            \/ pc[owner[p]] \in Working /\ cur[owner[p]] = [part |-> p, off |-> o]

TypeInv == TypeOK /\ Bounds
HandledInv == CommittedWasHandled /\ RequestsDone /\ CurrentDone /\ PositionDone

-----------------------------------------------------------------------------
(* A message inside the log is a transaction of a known user.              *)
LEMMA MessageType ==
    ASSUME NEW x \in Offset, x.off < LogSize[x.part]
    PROVE  /\ Message(x) \in Transaction
           /\ Message(x).user \in Users
<1>1. Log[x.part] \in Seq(Transaction) /\ x.off + 1 \in 1 .. Len(Log[x.part])
  BY DEF Offset
<1>2. Log[x.part][x.off + 1] \in Transaction
  BY <1>1, ElementOfSeq
<1> QED
  BY <1>2 DEF Message, Transaction

LEMMA SomeOffsetType == SomeOffset \in Offset
BY DEF SomeOffset, Offset

LEMMA TypeInit == Init => TypeInv
<1> SUFFICES ASSUME Init PROVE TypeInv
  OBVIOUS
<1> USE DEF Init, GroupInit
<1>1. GroupTypeOK
  BY DEF GroupTypeOK, Request, NoOffset
<1>2. TypeOK
  BY <1>1, SomeOffsetType DEF TypeOK, Steps, NothingLoaded, Output
<1>3. Bounds
  BY DEF Bounds, Working
<1> QED
  BY <1>2, <1>3 DEF TypeInv

-----------------------------------------------------------------------------
(* Types and bounds, one lemma per part of the system.                     *)

LEMMA StartOffsetType ==
    ASSUME TypeInv, NEW p \in Partitions
    PROVE  /\ StartOffset(p) \in Nat
           /\ committed[p] = NoOffset =>
                 /\ StartOffset(p) <= logEnd[p]
                 /\ resetTo[p] <= StartOffset(p)
                 /\ ResetToLatest \/ StartOffset(p) = 0
BY DEF TypeInv, TypeOK, GroupTypeOK, Bounds, StartOffset, NoOffset

LEMMA TypeGroup ==
    ASSUME TypeInv, Group
    PROVE  TypeInv'
<1> USE DEF TypeInv, localVars, detectorVars, redisVars, outputVars, ghostVars
<1>1. ASSUME NEW p \in Partitions, Produce(p), UNCHANGED localVars
      PROVE  TypeInv'
  BY <1>1 DEF TypeOK, GroupTypeOK, Bounds, Produce
<1>2. ASSUME NEW p \in Partitions, Revoke(p), UNCHANGED localVars
      PROVE  TypeInv'
  BY <1>2 DEF TypeOK, GroupTypeOK, Bounds, Revoke
<1>3. ASSUME NEW c \in Consumers, AnswerCommit(c), UNCHANGED localVars
      PROVE  TypeInv'
  <2>1. commitQueue[c] \in Seq(Request) /\ commitQueue[c] # <<>>
    BY <1>3 DEF TypeOK, GroupTypeOK, AnswerCommit
  <2>2. Head(commitQueue[c]) \in Request /\ Tail(commitQueue[c]) \in Seq(Request)
    BY <2>1, HeadTailProperties
  <2>3. committed' \in [Partitions -> Nat \cup {NoOffset}]
    BY <1>3, <2>2 DEF TypeOK, GroupTypeOK, AnswerCommit, Request
  <2>4. commitQueue' \in [Consumers -> Seq(Request)]
    BY <1>3, <2>2 DEF TypeOK, GroupTypeOK, AnswerCommit
  <2> QED
    BY <1>3, <2>3, <2>4 DEF TypeOK, GroupTypeOK, Bounds, AnswerCommit
<1>4. ASSUME NEW c \in Consumers, NEW p \in Partitions, Assign(c, p), UNCHANGED localVars
      PROVE  TypeInv'
  BY <1>4, StartOffsetType DEF TypeOK, GroupTypeOK, Bounds, Assign
<1> QED
  BY <1>1, <1>2, <1>3, <1>4 DEF Group

LEMMA OutputType ==
    ASSUME NEW x \in Offset, NEW t \in {Alerts, Results, BlockedTxns, DLQ}
    PROVE  OutputOf(x, t) \in Output
BY DEF OutputOf, Offset, Output

LEMMA EnqueueType ==
    ASSUME TypeInv, NEW c \in Consumers, NEW wanted \in SUBSET Output, Enqueue(c, wanted)
    PROVE  outbox' \in [Consumers -> SUBSET Output] /\ faults' \in Nat
<1>1. outbox \in [Consumers -> SUBSET Output] /\ faults \in Nat
  BY DEF TypeInv, TypeOK
<1>2. faults' \in Nat
  BY <1>1 DEF Enqueue, CallWorks, CallFails
<1>3. PICK kept \in SUBSET wanted : outbox' = [outbox EXCEPT ![c] = @ \cup kept]
  BY DEF Enqueue
<1>4. outbox[c] \cup kept \in SUBSET Output
  BY <1>1
<1> QED
  BY <1>1, <1>2, <1>3, <1>4

(* The message at the position of a partition, before poll() returns it.   *)
LEMMA PolledType ==
    ASSUME TypeInv, NEW c \in Consumers, NEW p \in Partitions, CanPoll(c, p)
    PROVE  [part |-> p, off |-> position[p]] \in Offset /\ position[p] < LogSize[p]
BY DEF TypeInv, TypeOK, GroupTypeOK, Bounds, CanPoll, Offset

LEMMA RequestType ==
    ASSUME TypeInv, NEW c \in Consumers, NEW p \in Partitions, NEW o \in Nat,
           RequestCommit(c, p, o)
    PROVE  commitQueue' \in [Consumers -> Seq(Request)]
<1>1. [part |-> p, next |-> o + 1] \in Request
  BY DEF Request
<1>2. commitQueue[c] \in Seq(Request)
  BY DEF TypeInv, TypeOK, GroupTypeOK
<1>3. Append(commitQueue[c], [part |-> p, next |-> o + 1]) \in Seq(Request)
  BY <1>1, <1>2, AppendProperties
<1> QED
  BY <1>3 DEF TypeInv, TypeOK, GroupTypeOK, RequestCommit

LEMMA TypePoll ==
    ASSUME TypeInv, NEW c \in Consumers, Poll(c)
    PROVE  TypeInv'
<1> PICK p \in Partitions : \/ PollTransaction(c, p)
                            \/ PollBadJson(c, p)
                            \/ PollBadBytes(c, p)
  BY DEF Poll
<1> DEFINE x == [part |-> p, off |-> position[p]]
<1>1. CanPoll(c, p) /\ Advance(p)
  BY DEF PollTransaction, PollBadJson, PollBadBytes
<1>2. x \in Offset /\ x.off < LogSize[p] /\ x.off \in Nat
  BY <1>1, PolledType DEF Offset
<1>3. {OutputOf(x, DLQ)} \in SUBSET Output
  BY <1>2, OutputType
<1>4. position' \in [Partitions -> Nat]
  BY <1>1 DEF Advance, TypeInv, TypeOK, GroupTypeOK
<1> USE DEF TypeInv, detectorVars, redisVars, outputVars, ghostVars
<1>5. CASE PollTransaction(c, p)
  <2>1. pc' \in [Consumers -> Steps] /\ cur' \in [Consumers -> Offset]
    BY <1>2, <1>5 DEF PollTransaction, Goto, TypeOK, Steps
  <2>2. \A d \in Consumers : pc'[d] \in Working => cur'[d].off < LogSize[cur'[d].part]
    BY <1>2, <1>5 DEF PollTransaction, Goto, TypeOK, Bounds
  <2> QED
    BY <1>4, <1>5, <2>1, <2>2 DEF PollTransaction, TypeOK, GroupTypeOK, Bounds
<1>6. CASE PollBadJson(c, p)
  <2>1. commitQueue' \in [Consumers -> Seq(Request)]
    BY <1>2, <1>6, RequestType DEF PollBadJson, TypeOK, GroupTypeOK
  <2>2. outbox' \in [Consumers -> SUBSET Output] /\ faults' \in Nat
    <3>1. CASE Enqueue(c, {OutputOf(x, DLQ)})
      BY <1>3, <3>1, EnqueueType
    <3>2. CASE CallFails /\ outbox' = [outbox EXCEPT ![c] = @ \cup {OutputOf(x, DLQ)}]
      <4>1. outbox[c] \cup {OutputOf(x, DLQ)} \in SUBSET Output
        BY <1>3 DEF TypeOK
      <4> QED
        BY <3>2, <4>1 DEF TypeOK, CallFails
    <3> QED
      BY <1>6, <3>1, <3>2 DEF PollBadJson
  <2>3. handled' \in SUBSET Offset
    BY <1>2, <1>6 DEF PollBadJson, Finish, TypeOK
  <2>4. /\ pc' \in [Consumers -> Steps]
        /\ \A d \in Consumers : pc'[d] \in Working => pc[d] \in Working
    BY <1>6 DEF PollBadJson, Goto, TypeOK, Steps, Working
  <2> QED
    BY <1>4, <1>6, <2>1, <2>2, <2>3, <2>4 DEF PollBadJson, TypeOK, GroupTypeOK, Bounds
<1>7. CASE PollBadBytes(c, p)
  <2>1. outbox' \in [Consumers -> SUBSET Output] /\ faults' \in Nat
    BY <1>3, <1>7, EnqueueType DEF PollBadBytes
  <2>2. handled' \in SUBSET Offset
    BY <1>2, <1>7 DEF PollBadBytes, Finish, TypeOK
  <2> QED
    BY <1>4, <1>7, <2>1, <2>2 DEF PollBadBytes, TypeOK, GroupTypeOK, Bounds
<1> QED
  BY <1>5, <1>6, <1>7

(* The message in hand, while a process works on it.                       *)
LEMMA CurrentType ==
    ASSUME TypeInv, NEW c \in Consumers, pc[c] \in Working
    PROVE  /\ cur[c] \in Offset /\ cur[c].part \in Partitions /\ cur[c].off \in Nat
           /\ UserOf(c) \in Users
<1>1. cur[c] \in Offset /\ cur[c].off < LogSize[cur[c].part]
  BY DEF TypeInv, TypeOK, Bounds
<1> QED
  BY <1>1, MessageType DEF UserOf, Offset

LEMMA NothingLoadedType == NothingLoaded \in [total: Nat, fraud: BOOLEAN]
BY DEF NothingLoaded

LEMMA TypeProcess ==
    ASSUME TypeInv, NEW c \in Consumers, Process(c)
    PROVE  TypeInv'
<1> USE DEF TypeInv, detectorVars, redisVars, outputVars, ghostVars, groupVars
<1>1. CASE CheckBlocked(c)
  <2>1. pc[c] \in Working /\ pc' \in [Consumers -> Steps]
    BY <1>1 DEF CheckBlocked, Goto, Working, TypeOK, Steps
  <2>2. {OutputOf(cur[c], BlockedTxns)} \in SUBSET Output
    BY <2>1, CurrentType, OutputType
  <2>3. outbox' \in [Consumers -> SUBSET Output] /\ faults' \in Nat
    BY <1>1, <2>2, EnqueueType DEF CheckBlocked, CallWorks, CallFails, TypeOK
  <2>4. \A d \in Consumers : pc'[d] \in Working => pc[d] \in Working
    BY <1>1, <2>1 DEF CheckBlocked, Goto, TypeOK
  <2> QED
    BY <1>1, <2>1, <2>3, <2>4 DEF CheckBlocked, TypeOK, GroupTypeOK, Bounds
<1>2. CASE LoadAndScore(c)
  <2>1. pc[c] \in Working /\ pc' \in [Consumers -> Steps]
    BY <1>2 DEF LoadAndScore, Goto, Working, TypeOK, Steps
  <2>2. UserOf(c) \in Users
    BY <2>1, CurrentType
  <2>3. PICK v :
           \/ /\ loaded' = [loaded EXCEPT ![c] = Scored(profile[UserOf(c)], v)]
              /\ CallWorks
              /\ overlap' \in {overlap, overlap \cup {UserOf(c)}}
           \/ /\ loaded' = [loaded EXCEPT ![c] = Scored(0, v)]
              /\ CallFails
              /\ overlap' = overlap \cup {UserOf(c)}
    BY <1>2 DEF LoadAndScore
  <2>4. loaded' \in [Consumers -> [total: Nat, fraud: BOOLEAN]]
    <3>1. profile[UserOf(c)] \in Nat
      BY <2>2 DEF TypeOK
    <3>2. /\ Scored(profile[UserOf(c)], v) \in [total: Nat, fraud: BOOLEAN]
          /\ Scored(0, v) \in [total: Nat, fraud: BOOLEAN]
      BY <3>1 DEF Scored
    <3>3. loaded \in [Consumers -> [total: Nat, fraud: BOOLEAN]]
      BY DEF TypeOK
    <3> QED
      BY <2>3, <3>2, <3>3
  <2>5. faults' \in Nat /\ overlap' \in SUBSET Users
    BY <2>2, <2>3 DEF TypeOK, CallWorks, CallFails
  <2>6. \A d \in Consumers : pc'[d] \in Working => pc[d] \in Working
    BY <1>2, <2>1 DEF LoadAndScore, Goto, TypeOK
  <2> QED
    BY <1>2, <2>1, <2>4, <2>5, <2>6 DEF LoadAndScore, TypeOK, GroupTypeOK, Bounds
<1>3. CASE SaveProfile(c)
  <2>1. pc[c] \in Working /\ pc' \in [Consumers -> Steps]
    BY <1>3 DEF SaveProfile, Goto, Working, TypeOK, Steps
  <2>2. loaded[c].total + 1 \in Nat /\ UserOf(c) \in Users
    BY <2>1, CurrentType DEF TypeOK
  <2>3. profile' \in [Users -> Nat] /\ saves' \in [Users -> Nat] /\ faults' \in Nat
    BY <1>3, <2>2 DEF SaveProfile, CountTransaction, TypeOK, CallWorks, CallFails
  <2>4. \A d \in Consumers : pc'[d] \in Working => pc[d] \in Working
    BY <1>3, <2>1 DEF SaveProfile, Goto, TypeOK
  <2> QED
    BY <1>3, <2>1, <2>3, <2>4 DEF SaveProfile, TypeOK, GroupTypeOK, Bounds
<1>4. CASE Publish(c)
  <2>1. pc[c] \in Working /\ pc' \in [Consumers -> Steps]
    BY <1>4 DEF Publish, Goto, Working, TypeOK, Steps
  <2>2. Announcements(c) \in SUBSET Output
    BY <2>1, CurrentType, OutputType DEF Announcements
  <2>3. outbox' \in [Consumers -> SUBSET Output] /\ faults' \in Nat
    BY <1>4, <2>2, EnqueueType DEF Publish
  <2>4. \A d \in Consumers : pc'[d] \in Working => pc[d] \in Working
    BY <1>4, <2>1 DEF Publish, Goto, TypeOK
  <2> QED
    BY <1>4, <2>1, <2>3, <2>4 DEF Publish, TypeOK, GroupTypeOK, Bounds
<1>5. CASE Commit(c)
  <2>1. pc[c] \in Working
    BY <1>5 DEF Commit, Working
  <2>2. cur[c] \in Offset /\ cur[c].part \in Partitions /\ cur[c].off \in Nat
    BY <2>1, CurrentType
  <2>3. commitQueue' \in [Consumers -> Seq(Request)]
    BY <1>5, <2>2, RequestType DEF Commit, TypeOK, GroupTypeOK
  <2>4. OutputOf(cur[c], DLQ) \in Output
    BY <2>2, OutputType
  <2>5. outbox' \in [Consumers -> SUBSET Output] /\ faults' \in Nat
    <3>1. outbox[c] \cup {OutputOf(cur[c], DLQ)} \in SUBSET Output
      BY <2>4 DEF TypeOK
    <3> QED
      <4>1. CASE UNCHANGED outbox /\ CallWorks
        BY <4>1 DEF TypeOK, CallWorks
      <4>2. CASE outbox' = [outbox EXCEPT ![c] = @ \cup {OutputOf(cur[c], DLQ)}] /\ CallFails
        BY <4>2, <3>1 DEF TypeOK, CallFails
      <4> QED
        BY <1>5, <4>1, <4>2 DEF Commit
  <2>6. /\ pc' \in [Consumers -> Steps] /\ cur' \in [Consumers -> Offset]
        /\ loaded' \in [Consumers -> [total: Nat, fraud: BOOLEAN]]
        /\ handled' \in SUBSET Offset
    BY <1>5, <2>2, SomeOffsetType, NothingLoadedType DEF Commit, Goto, Finish, TypeOK, Steps
  <2>7. \A d \in Consumers : pc'[d] \in Working => pc[d] \in Working /\ cur'[d] = cur[d]
    BY <1>5, <2>1 DEF Commit, Goto, TypeOK, Working
  <2> QED
    BY <1>5, <2>3, <2>5, <2>6, <2>7 DEF Commit, TypeOK, GroupTypeOK, Bounds
<1> QED
  BY <1>1, <1>2, <1>3, <1>4, <1>5 DEF Process

LEMMA LeaveType ==
    ASSUME TypeInv, NEW c \in Consumers, Leave(c)
    PROVE  /\ GroupTypeOK'
           /\ UNCHANGED <<logEnd, resetTo>>
<1>1. <<>> \in Seq(Request)
  OBVIOUS
<1>2. commitQueue' \in [Consumers -> Seq(Request)]
  BY <1>1 DEF TypeInv, TypeOK, GroupTypeOK, Leave
<1> QED
  BY <1>2 DEF TypeInv, TypeOK, GroupTypeOK, Leave

LEMMA TypeLifecycle ==
    ASSUME TypeInv, NEW c \in Consumers,
           Start(c) \/ StopRunning(c) \/ Cleanup(c) \/ Crash(c) \/ Deliver(c)
    PROVE  TypeInv'
<1> USE DEF TypeInv, detectorVars, redisVars, outputVars, ghostVars, groupVars
<1>1. CASE Start(c)
  BY <1>1 DEF Start, Goto, TypeOK, GroupTypeOK, Bounds, Steps, Working
<1>2. CASE StopRunning(c)
  BY <1>2 DEF StopRunning, Goto, TypeOK, GroupTypeOK, Bounds, Steps, Working
<1>3. CASE Cleanup(c)
  <2>1. GroupTypeOK' /\ UNCHANGED <<logEnd, resetTo>>
    BY <1>3, LeaveType DEF Cleanup
  <2>2. /\ pc' \in [Consumers -> Steps]
        /\ \A d \in Consumers : pc'[d] \in Working => pc[d] \in Working
    BY <1>3 DEF Cleanup, Goto, TypeOK, Steps, Working
  <2>3. outbox' \in [Consumers -> SUBSET Output] /\ topics' \in SUBSET Output /\ faults' \in Nat
    BY <1>3 DEF Cleanup, TypeOK, CallWorks, CallFails
  <2> QED
    BY <1>3, <2>1, <2>2, <2>3 DEF Cleanup, TypeOK, Bounds
<1>4. CASE Crash(c)
  <2>1. GroupTypeOK' /\ UNCHANGED <<logEnd, resetTo>>
    BY <1>4, LeaveType DEF Crash
  <2>2. /\ pc' \in [Consumers -> Steps]
        /\ cur' \in [Consumers -> Offset]
        /\ loaded' \in [Consumers -> [total: Nat, fraud: BOOLEAN]]
        /\ \A d \in Consumers : pc'[d] \in Working => pc[d] \in Working /\ cur'[d] = cur[d]
    BY <1>4, SomeOffsetType, NothingLoadedType DEF Crash, Goto, TypeOK, Steps, Working
  <2> QED
    BY <1>4, <2>1, <2>2 DEF Crash, TypeOK, Bounds
<1>5. CASE Deliver(c)
  <2>1. outbox' \in [Consumers -> SUBSET Output] /\ topics' \in SUBSET Output
    BY <1>5 DEF Deliver, TypeOK
  <2> QED
    BY <1>5, <2>1 DEF Deliver, TypeOK, GroupTypeOK, Bounds
<1> QED
  BY <1>1, <1>2, <1>3, <1>4, <1>5

LEMMA TypeStep ==
    ASSUME TypeInv, [Next]_vars
    PROVE  TypeInv'
<1>1. CASE UNCHANGED vars
  BY <1>1 DEF TypeInv, TypeOK, GroupTypeOK, Bounds, vars,
              groupVars, detectorVars, redisVars, outputVars, ghostVars
<1>2. CASE Next
  BY <1>2, TypeGroup, TypePoll, TypeProcess, TypeLifecycle DEF Next
<1> QED
  BY <1>1, <1>2

(* Every variable keeps its type, and every offset stays inside its log.   *)
THEOREM TypeCorrect == Spec => []TypeOK
<1>1. TypeInv => TypeOK
  BY DEF TypeInv
<1> QED
  BY <1>1, TypeInit, TypeStep, PTL DEF Spec

-----------------------------------------------------------------------------
(* Nothing is committed before it is done with.                            *)

(* What is done with stays so.                                             *)
Monotone ==
    /\ handled \subseteq handled'
    /\ \A p \in Partitions : resetTo[p] <= resetTo'[p]

LEMMA DoneStays ==
    ASSUME TypeInv, TypeInv', Monotone, NEW p \in Partitions, NEW o \in Int, Done(p, o)
    PROVE  Done(p, o)'
<1>1. resetTo[p] \in Nat /\ resetTo'[p] \in Nat
  BY DEF TypeInv, TypeOK, GroupTypeOK
<1>2. resetTo[p] <= resetTo'[p] /\ handled \subseteq handled'
  BY DEF Monotone
<1>3. CASE [part |-> p, off |-> o] \in handled
  BY <1>2, <1>3 DEF Done
<1>4. CASE o < resetTo[p]
  BY <1>1, <1>2, <1>4 DEF Done
<1> QED
  BY <1>3, <1>4 DEF Done

(* A step that leaves the group, the messages in hand and what is handled. *)
LEMMA QuietStep ==
    ASSUME TypeInv, HandledInv, UNCHANGED <<groupVars, cur, handled>>,
           \A d \in Consumers : pc'[d] \in Working <=> pc[d] \in Working
    PROVE  HandledInv'
<1>1. \A p \in Partitions, o \in Int : Done(p, o)' <=> Done(p, o)
  BY DEF Done, groupVars
<1>2. CommittedWasHandled'
  BY DEF HandledInv, CommittedWasHandled, Done, groupVars
<1>3. RequestsDone'
  BY DEF HandledInv, RequestsDone, Done, groupVars
<1>4. CurrentDone'
  BY DEF HandledInv, CurrentDone, Done, groupVars
<1>5. PositionDone'
  <2> SUFFICES ASSUME NEW p \in Partitions, owner[p] # NoOwner,
                      NEW o \in 0 .. position[p] - 1
               PROVE  \/ Done(p, o)'
                      \/ pc'[owner[p]] \in Working /\ cur[owner[p]] = [part |-> p, off |-> o]
    BY DEF PositionDone, groupVars
  <2>1. owner[p] \in Consumers
    BY DEF TypeInv, TypeOK, GroupTypeOK
  <2>2. \/ Done(p, o)
        \/ pc[owner[p]] \in Working /\ cur[owner[p]] = [part |-> p, off |-> o]
    BY DEF HandledInv, PositionDone
  <2>3. o \in Int
    BY DEF TypeInv, TypeOK, GroupTypeOK
  <2> QED
    BY <1>1, <2>1, <2>2, <2>3
<1> QED
  BY <1>2, <1>3, <1>4, <1>5 DEF HandledInv

(* The answer to a commit request.                                         *)
LEMMA HandledAnswer ==
    ASSUME TypeInv, HandledInv, NEW c \in Consumers, AnswerCommit(c), UNCHANGED localVars
    PROVE  HandledInv'
<1> DEFINE r == Head(commitQueue[c])
<1>1. commitQueue[c] \in Seq(Request) /\ commitQueue[c] # <<>>
  BY DEF TypeInv, TypeOK, GroupTypeOK, AnswerCommit
<1>2. r = commitQueue[c][1] /\ r \in Request /\ 1 \in 1 .. Len(commitQueue[c])
  BY <1>1, HeadTailProperties, LenProperties, ElementOfSeq
<1>3. UNCHANGED <<handled, resetTo, pc, cur, owner, position>>
  BY DEF AnswerCommit, localVars, detectorVars, ghostVars
<1>4. CommittedWasHandled'
  <2>1. \A o \in 0 .. r.next - 1 : Done(r.part, o)
    BY <1>2 DEF HandledInv, RequestsDone
  <2>2. committed' = committed \/ committed' = [committed EXCEPT ![r.part] = r.next]
    BY DEF AnswerCommit
  <2>3. \A p \in Partitions : committed'[p] = committed[p] \/ (p = r.part /\ committed'[p] = r.next)
    BY <1>2, <2>2 DEF TypeInv, TypeOK, GroupTypeOK, Request
  <2>4. \A p \in Partitions : \A o \in 0 .. committed'[p] - 1 : Done(p, o)
    BY <2>1, <2>3 DEF HandledInv, CommittedWasHandled
  <2> QED
    BY <1>3, <2>4 DEF CommittedWasHandled, Done
<1>5. RequestsDone'
  <2> SUFFICES ASSUME NEW d \in Consumers, NEW i \in 1 .. Len(commitQueue'[d])
               PROVE  \A o \in 0 .. commitQueue'[d][i].next - 1 :
                         Done(commitQueue'[d][i].part, o)
    BY <1>3 DEF RequestsDone, Done
  <2>1. \E j \in 1 .. Len(commitQueue[d]) : commitQueue'[d][i] = commitQueue[d][j]
    <3>1. CASE d = c
      <4>1. commitQueue'[d] = Tail(commitQueue[c])
        BY <3>1 DEF AnswerCommit, TypeInv, TypeOK, GroupTypeOK
      <4>2. i + 1 \in 1 .. Len(commitQueue[c]) /\ Tail(commitQueue[c])[i] = commitQueue[c][i + 1]
        BY <1>1, <4>1, HeadTailProperties, LenProperties
      <4> QED
        BY <3>1, <4>1, <4>2
    <3>2. CASE d # c
      BY <3>2 DEF AnswerCommit, TypeInv, TypeOK, GroupTypeOK
    <3> QED
      BY <3>1, <3>2
  <2> QED
    BY <2>1 DEF HandledInv, RequestsDone
<1>6. CurrentDone'
  BY <1>3 DEF HandledInv, CurrentDone, Done
<1>7. PositionDone'
  BY <1>3 DEF HandledInv, PositionDone, Done
<1> QED
  BY <1>4, <1>5, <1>6, <1>7 DEF HandledInv

(* A partition is assigned: it is read from the committed offset, or from  *)
(* where the reset put it.                                                 *)
LEMMA HandledAssign ==
    ASSUME TypeInv, TypeInv', HandledInv, NEW c \in Consumers, NEW p \in Partitions,
           Assign(c, p), UNCHANGED localVars
    PROVE  HandledInv'
<1>1. UNCHANGED <<handled, pc, cur, committed, commitQueue>>
  BY DEF Assign, localVars, detectorVars, ghostVars
<1>2. Monotone
  <2>1. resetTo \in [Partitions -> Nat]
    BY DEF TypeInv, TypeOK, GroupTypeOK
  <2>2. committed[p] = NoOffset => resetTo[p] <= StartOffset(p)
    BY StartOffsetType
  <2> QED
    BY <1>1, <2>1, <2>2 DEF Monotone, Assign
<1>3. \A q \in Partitions, o \in Int : Done(q, o) => Done(q, o)'
  BY <1>2, DoneStays
<1>4. CommittedWasHandled'
  BY <1>1, <1>3 DEF HandledInv, CommittedWasHandled, TypeInv, TypeOK, GroupTypeOK, NoOffset
<1>5. RequestsDone'
  <2> SUFFICES ASSUME NEW d \in Consumers, NEW i \in 1 .. Len(commitQueue[d]),
                      NEW o \in 0 .. commitQueue[d][i].next - 1,
                      NEW q, q = commitQueue[d][i].part
               PROVE  Done(q, o)'
    BY <1>1 DEF RequestsDone, Done
  <2>1. commitQueue[d][i] \in Request
    BY ElementOfSeq DEF TypeInv, TypeOK, GroupTypeOK
  <2>2. Done(q, o)
    BY DEF HandledInv, RequestsDone
  <2>3. q \in Partitions /\ o \in Int
    BY <2>1 DEF Request
  <2> QED
    BY <1>3, <2>2, <2>3
<1>6. CurrentDone'
  BY <1>1, <1>3 DEF HandledInv, CurrentDone, TypeInv, TypeOK, Offset
<1>7. PositionDone'
  <2> SUFFICES ASSUME NEW q \in Partitions, owner'[q] # NoOwner,
                      NEW o \in 0 .. position'[q] - 1
               PROVE  \/ Done(q, o)'
                      \/ /\ pc'[owner'[q]] \in Working
                         /\ cur'[owner'[q]] = [part |-> q, off |-> o]
    BY DEF PositionDone
  <2>1. CASE q # p
    <3>1. owner'[q] = owner[q] /\ position'[q] = position[q]
      BY <2>1 DEF Assign, TypeInv, TypeOK, GroupTypeOK
    <3> QED
      BY <1>1, <1>3, <3>1 DEF HandledInv, PositionDone
  <2>2. CASE q = p /\ committed[p] # NoOffset
    <3>1. position'[p] = committed[p]
      BY <2>2 DEF Assign, StartOffset, TypeInv, TypeOK, GroupTypeOK
    <3> QED
      BY <1>3, <2>2, <3>1 DEF HandledInv, CommittedWasHandled
  <2>3. CASE q = p /\ committed[p] = NoOffset
    <3>1. position'[p] = resetTo'[p]
      BY <2>3 DEF Assign, TypeInv, TypeOK, GroupTypeOK
    <3>2. position'[p] \in Nat
      BY DEF TypeInv, TypeOK, GroupTypeOK
    <3> QED
      BY <2>3, <3>1, <3>2 DEF Done
  <2> QED
    BY <2>1, <2>2, <2>3
<1> QED
  BY <1>4, <1>5, <1>6, <1>7 DEF HandledInv

LEMMA HandledGroup ==
    ASSUME TypeInv, TypeInv', HandledInv, Group
    PROVE  HandledInv'
<1>1. ASSUME NEW p \in Partitions, Produce(p), UNCHANGED localVars
      PROVE  HandledInv'
  BY <1>1 DEF HandledInv, CommittedWasHandled, RequestsDone, CurrentDone, PositionDone,
              Done, Produce, localVars, detectorVars, ghostVars
<1>2. ASSUME NEW p \in Partitions, Revoke(p), UNCHANGED localVars
      PROVE  HandledInv'
  <2>1. UNCHANGED <<handled, resetTo, pc, cur, position, committed, commitQueue>>
    BY <1>2 DEF Revoke, localVars, detectorVars, ghostVars
  <2>2. PositionDone'
    BY <1>2, <2>1 DEF HandledInv, PositionDone, Done, Revoke, TypeInv, TypeOK, GroupTypeOK
  <2> QED
    BY <2>1, <2>2 DEF HandledInv, CommittedWasHandled, RequestsDone, CurrentDone, Done
<1>3. ASSUME NEW c \in Consumers, AnswerCommit(c), UNCHANGED localVars
      PROVE  HandledInv'
  BY <1>3, HandledAnswer
<1>4. ASSUME NEW c \in Consumers, NEW p \in Partitions, Assign(c, p), UNCHANGED localVars
      PROVE  HandledInv'
  BY <1>4, HandledAssign
<1> QED
  BY <1>1, <1>2, <1>3, <1>4 DEF Group

(* Requests, when nobody adds one.                                         *)
LEMMA RequestsStay ==
    ASSUME TypeInv, TypeInv', Monotone, RequestsDone,
           \A d \in Consumers : commitQueue'[d] \in {commitQueue[d], <<>>}
    PROVE  RequestsDone'
<1> SUFFICES ASSUME NEW d \in Consumers, NEW i \in 1 .. Len(commitQueue'[d]),
                    NEW o \in 0 .. commitQueue'[d][i].next - 1,
                    NEW q, q = commitQueue'[d][i].part
             PROVE  Done(q, o)'
  BY DEF RequestsDone, Done
<1>1. commitQueue'[d] = commitQueue[d] /\ i \in 1 .. Len(commitQueue[d])
  OBVIOUS
<1>2. commitQueue[d][i] \in Request
  BY <1>1, ElementOfSeq DEF TypeInv, TypeOK, GroupTypeOK
<1>3. q \in Partitions /\ o \in Int
  BY <1>1, <1>2 DEF Request
<1>4. Done(q, o)
  BY <1>1 DEF RequestsDone
<1> QED
  BY <1>3, <1>4, DoneStays

(* A new request is for a message that is done with, as is all before it.  *)
LEMMA RequestAdded ==
    ASSUME TypeInv, TypeInv', Monotone, RequestsDone,
           NEW c \in Consumers, NEW p \in Partitions, NEW n \in Nat,
           RequestCommit(c, p, n),
           \A o \in 0 .. n : Done(p, o)'
    PROVE  RequestsDone'
<1> DEFINE new == [part |-> p, next |-> n + 1]
<1>1. commitQueue[c] \in Seq(Request)
  BY DEF TypeInv, TypeOK, GroupTypeOK
<1>2. new \in Request
  BY DEF Request
<1> SUFFICES ASSUME NEW d \in Consumers, NEW i \in 1 .. Len(commitQueue'[d]),
                    NEW o \in 0 .. commitQueue'[d][i].next - 1,
                    NEW q, q = commitQueue'[d][i].part
             PROVE  Done(q, o)'
  BY DEF RequestsDone, Done
<1>3. CASE commitQueue'[d][i] = new
  <2>1. q = p /\ o \in 0 .. n
    BY <1>3
  <2> QED
    BY <2>1
<1>4. CASE i \in 1 .. Len(commitQueue[d]) /\ commitQueue'[d][i] = commitQueue[d][i]
  <2>1. commitQueue[d][i] \in Request
    BY <1>4, ElementOfSeq DEF TypeInv, TypeOK, GroupTypeOK
  <2>2. q \in Partitions /\ o \in Int
    BY <1>4, <2>1 DEF Request
  <2>3. Done(q, o)
    BY <1>4 DEF RequestsDone
  <2> QED
    BY <2>2, <2>3, DoneStays
<1>5. CASE d # c
  <2>1. commitQueue'[d] = commitQueue[d]
    BY <1>5 DEF RequestCommit, TypeInv, TypeOK, GroupTypeOK
  <2> QED
    BY <1>4, <2>1
<1>6. CASE d = c
  <2>1. commitQueue'[d] = Append(commitQueue[c], new)
    BY <1>6 DEF RequestCommit, TypeInv, TypeOK, GroupTypeOK
  <2>2. \/ i \in 1 .. Len(commitQueue[c]) /\ commitQueue'[d][i] = commitQueue[c][i]
        \/ commitQueue'[d][i] = new
    BY <1>1, <1>2, <2>1, AppendProperties, LenProperties
  <2> QED
    BY <1>3, <1>4, <1>6, <2>2
<1> QED
  BY <1>5, <1>6

(* What the owner has read, when poll() returns nothing.                   *)
LEMMA PositionStays ==
    ASSUME TypeInv, TypeInv', Monotone, PositionDone,
           \A p \in Partitions : /\ owner'[p] \in {owner[p], NoOwner}
                                 /\ position'[p] = position[p],
           \A p \in Partitions : owner'[p] # NoOwner =>
              LET d == owner[p]
              IN  pc[d] \in Working => \/ pc'[d] \in Working /\ cur'[d] = cur[d]
                                       \/ cur[d] \in handled'
    PROVE  PositionDone'
<1> SUFFICES ASSUME NEW p \in Partitions, owner'[p] # NoOwner,
                    NEW o \in 0 .. position'[p] - 1
             PROVE  \/ Done(p, o)'
                    \/ pc'[owner'[p]] \in Working /\ cur'[owner'[p]] = [part |-> p, off |-> o]
  BY DEF PositionDone
<1>1. owner'[p] = owner[p] /\ position'[p] = position[p]
  OBVIOUS
<1>2. o \in Int
  BY DEF TypeInv, TypeOK, GroupTypeOK
<1>3. CASE Done(p, o)
  BY <1>2, <1>3, DoneStays
<1>4. CASE pc[owner[p]] \in Working /\ cur[owner[p]] = [part |-> p, off |-> o]
  BY <1>1, <1>4 DEF Done
<1> QED
  BY <1>1, <1>3, <1>4 DEF PositionDone

LEMMA CommittedStays ==
    ASSUME TypeInv, TypeInv', Monotone, CommittedWasHandled, UNCHANGED committed
    PROVE  CommittedWasHandled'
<1> SUFFICES ASSUME NEW p \in Partitions, NEW o \in 0 .. committed[p] - 1
             PROVE  Done(p, o)'
  BY DEF CommittedWasHandled
<1>1. Done(p, o) /\ o \in Int
  BY DEF CommittedWasHandled, TypeInv, TypeOK, GroupTypeOK, NoOffset
<1> QED
  BY <1>1, DoneStays

LEMMA CurrentStays ==
    ASSUME TypeInv, TypeInv', Monotone, CurrentDone,
           \A d \in Consumers : pc'[d] \in Working => pc[d] \in Working /\ cur'[d] = cur[d]
    PROVE  CurrentDone'
<1> SUFFICES ASSUME NEW d \in Consumers, pc'[d] \in Working, NEW o \in 0 .. cur[d].off - 1,
                    NEW q, q = cur[d].part
             PROVE  Done(q, o)'
  BY DEF CurrentDone, Done
<1>1. q \in Partitions /\ o \in Int
  BY DEF TypeInv, TypeOK, Offset
<1>2. Done(q, o)
  BY DEF CurrentDone
<1> QED
  BY <1>1, <1>2, DoneStays

LEMMA HandledPoll ==
    ASSUME TypeInv, TypeInv', HandledInv, NEW c \in Consumers, Poll(c)
    PROVE  HandledInv'
<1> PICK p \in Partitions : \/ PollTransaction(c, p)
                            \/ PollBadJson(c, p)
                            \/ PollBadBytes(c, p)
  BY DEF Poll
<1> DEFINE x == [part |-> p, off |-> position[p]]
<1>1. /\ pc[c] = "poll" /\ owner[p] = c /\ Advance(p)
      /\ UNCHANGED <<owner, committed, resetTo>>
  BY DEF PollTransaction, PollBadJson, PollBadBytes, CanPoll
<1>2. position[p] \in Nat /\ position' = [position EXCEPT ![p] = @ + 1]
  BY <1>1 DEF Advance, TypeInv, TypeOK, GroupTypeOK
<1>3. \A o \in 0 .. position[p] - 1 : Done(p, o)
  BY <1>1 DEF HandledInv, PositionDone, Working
<1>4. Monotone
  <2>1. handled \subseteq handled'
    BY DEF PollTransaction, PollBadJson, PollBadBytes, Finish, ghostVars
  <2>2. \A q \in Partitions : resetTo[q] \in Nat /\ resetTo' = resetTo
    BY <1>1 DEF TypeInv, TypeOK, GroupTypeOK
  <2> QED
    BY <2>1, <2>2 DEF Monotone
<1>5. CommittedWasHandled'
  BY <1>1, <1>4, CommittedStays DEF HandledInv
<1>6. \A o \in 0 .. position[p] - 1 : Done(p, o)'
  BY <1>2, <1>3, <1>4, DoneStays
<1>7. \A q \in Partitions \ {p}, o \in Int :
         /\ owner[q] # NoOwner
         /\ o \in 0 .. position[q] - 1
         => \/ Done(q, o)'
            \/ /\ pc[owner[q]] \in Working /\ owner[q] # c
               /\ cur[owner[q]] = [part |-> q, off |-> o]
  BY <1>1, <1>4, DoneStays DEF HandledInv, PositionDone, Working
<1>8. CASE PollTransaction(c, p)
  <2>1. /\ cur' = [cur EXCEPT ![c] = x] /\ pc' = [pc EXCEPT ![c] = "check"]
        /\ UNCHANGED commitQueue
    BY <1>8 DEF PollTransaction, Goto
  <2>2. RequestsDone'
    BY <1>4, <2>1, RequestsStay DEF HandledInv
  <2>3. \A d \in Consumers \ {c} : pc'[d] = pc[d] /\ cur'[d] = cur[d]
    BY <2>1 DEF TypeInv, TypeOK
  <2>4. pc'[c] = "check" /\ cur'[c] = x
    BY <2>1 DEF TypeInv, TypeOK
  <2>5. CurrentDone'
    <3> SUFFICES ASSUME NEW d \in Consumers, pc'[d] \in Working,
                        NEW o \in 0 .. cur'[d].off - 1, NEW q, q = cur'[d].part
                 PROVE  Done(q, o)'
      BY DEF CurrentDone, Done
    <3>1. CASE d = c
      BY <1>6, <2>4, <3>1
    <3>2. CASE d # c
      <4>1. q \in Partitions /\ o \in Int
        BY <2>3, <3>2 DEF TypeInv, TypeOK, Offset
      <4>2. Done(q, o)
        BY <2>3, <3>2 DEF HandledInv, CurrentDone
      <4> QED
        BY <1>4, <4>1, <4>2, DoneStays
    <3> QED
      BY <3>1, <3>2
  <2>6. PositionDone'
    <3> SUFFICES ASSUME NEW q \in Partitions, owner[q] # NoOwner,
                        NEW o \in 0 .. position'[q] - 1
                 PROVE  \/ Done(q, o)'
                        \/ /\ pc'[owner[q]] \in Working
                           /\ cur'[owner[q]] = [part |-> q, off |-> o]
      BY <1>1 DEF PositionDone
    <3>1. position'[q] \in Nat /\ position \in [Partitions -> Nat]
          /\ owner[q] \in Consumers
      BY DEF TypeInv, TypeOK, GroupTypeOK
    <3>2. CASE q = p
      <4>1. o \in 0 .. position[p] - 1 \/ o = position[p]
        BY <1>2, <3>1, <3>2
      <4> QED
        BY <1>1, <1>6, <2>4, <3>2, <4>1 DEF Working
    <3>3. CASE q # p
      <4>1. position'[q] = position[q] /\ o \in Int
        BY <1>2, <3>1, <3>3
      <4> QED
        BY <1>7, <2>3, <3>1, <3>3, <4>1
    <3> QED
      BY <3>2, <3>3
  <2> QED
    BY <1>5, <2>2, <2>5, <2>6 DEF HandledInv
<1>9. CASE PollBadJson(c, p) \/ PollBadBytes(c, p)
  <2>1. UNCHANGED cur /\ x \in handled' /\ pc' \in {pc, [pc EXCEPT ![c] = "stopping"]}
    BY <1>9 DEF PollBadJson, PollBadBytes, Finish, Goto, detectorVars
  <2>0. \A d \in Consumers : pc'[d] \in Working <=> pc[d] \in Working
    BY <1>1, <2>1 DEF TypeInv, TypeOK, Working
  <2>2. \A o \in 0 .. position[p] : Done(p, o)'
    BY <1>2, <1>6, <2>1 DEF Done
  <2>3. RequestsDone'
    <3>1. CASE RequestCommit(c, p, position[p])
      BY <1>2, <1>4, <2>2, <3>1, RequestAdded DEF HandledInv
    <3>2. CASE UNCHANGED commitQueue
      BY <1>4, <3>2, RequestsStay DEF HandledInv
    <3> QED
      BY <1>9, <3>1, <3>2 DEF PollBadJson, PollBadBytes
  <2>4. CurrentDone'
    BY <1>4, <2>0, <2>1, CurrentStays DEF HandledInv
  <2>5. PositionDone'
    <3> SUFFICES ASSUME NEW q \in Partitions, owner[q] # NoOwner,
                        NEW o \in 0 .. position'[q] - 1
                 PROVE  \/ Done(q, o)'
                        \/ /\ pc'[owner[q]] \in Working
                           /\ cur'[owner[q]] = [part |-> q, off |-> o]
      BY <1>1 DEF PositionDone
    <3>1. position'[q] \in Nat /\ position \in [Partitions -> Nat]
          /\ owner[q] \in Consumers
      BY DEF TypeInv, TypeOK, GroupTypeOK
    <3>2. CASE q = p
      BY <1>2, <2>2, <3>1, <3>2
    <3>3. CASE q # p
      <4>1. position'[q] = position[q] /\ o \in Int
        BY <1>2, <3>1, <3>3
      <4> QED
        BY <1>7, <2>0, <2>1, <3>1, <3>3, <4>1
    <3> QED
      BY <3>2, <3>3
  <2> QED
    BY <1>5, <2>3, <2>4, <2>5 DEF HandledInv
<1> QED
  BY <1>8, <1>9

LEMMA HandledCommit ==
    ASSUME TypeInv, TypeInv', HandledInv, NEW c \in Consumers, Commit(c)
    PROVE  HandledInv'
<1>1. /\ pc[c] = "commit" /\ pc' = [pc EXCEPT ![c] = "poll"]
      /\ cur' = [cur EXCEPT ![c] = SomeOffset]
      /\ handled' = handled \cup {cur[c]}
      /\ UNCHANGED <<owner, position, committed, resetTo>>
  BY DEF Commit, Goto, Finish
<1>2. cur[c].part \in Partitions /\ cur[c].off \in Nat
      /\ cur[c] = [part |-> cur[c].part, off |-> cur[c].off]
  BY DEF TypeInv, TypeOK, Offset
<1>3. Monotone
  <2>1. \A q \in Partitions : resetTo[q] \in Nat /\ resetTo' = resetTo
    BY <1>1 DEF TypeInv, TypeOK, GroupTypeOK
  <2> QED
    BY <1>1, <2>1 DEF Monotone
<1>4. \A d \in Consumers : pc'[d] \in Working => pc[d] \in Working /\ cur'[d] = cur[d]
  BY <1>1 DEF TypeInv, TypeOK, Working
<1>5. CommittedWasHandled' /\ CurrentDone'
  BY <1>1, <1>3, <1>4, CommittedStays, CurrentStays DEF HandledInv
<1>6. RequestsDone'
  <2>1. CASE UNCHANGED commitQueue
    BY <1>3, <2>1, RequestsStay DEF HandledInv
  <2>2. CASE RequestCommit(c, cur[c].part, cur[c].off)
    <3>1. PICK p, n : p = cur[c].part /\ n = cur[c].off
      OBVIOUS
    <3>2. \A o \in 0 .. n - 1 : Done(p, o)
      BY <1>1, <3>1 DEF HandledInv, CurrentDone, Working
    <3>3. \A o \in 0 .. n - 1 : Done(p, o)'
      BY <1>2, <1>3, <3>1, <3>2, DoneStays
    <3>4. Done(p, n)'
      BY <1>1, <1>2, <3>1 DEF Done
    <3>5. \A o \in 0 .. n : Done(p, o)'
      <4> SUFFICES ASSUME NEW o \in 0 .. n
                   PROVE  Done(p, o)'
        OBVIOUS
      <4>1. o \in 0 .. n - 1 \/ o = n
        BY <1>2, <3>1
      <4> QED
        BY <3>3, <3>4, <4>1
    <3> QED
      BY <1>2, <1>3, <2>2, <3>1, <3>5, RequestAdded DEF HandledInv
  <2> QED
    BY <2>1, <2>2 DEF Commit
<1>7. PositionDone'
  <2>1. \A d \in Consumers :
           pc[d] \in Working => \/ pc'[d] \in Working /\ cur'[d] = cur[d]
                               \/ cur[d] \in handled'
    BY <1>1 DEF TypeInv, TypeOK
  <2>2. \A p \in Partitions : owner[p] # NoOwner => owner[p] \in Consumers
    BY DEF TypeInv, TypeOK, GroupTypeOK
  <2> QED
    BY <1>1, <1>3, <2>1, <2>2, PositionStays DEF HandledInv
<1> QED
  BY <1>5, <1>6, <1>7 DEF HandledInv

LEMMA HandledLeave ==
    ASSUME TypeInv, TypeInv', HandledInv, NEW c \in Consumers,
           Cleanup(c) \/ Crash(c)
    PROVE  HandledInv'
<1>1. /\ Leave(c) /\ pc' = [pc EXCEPT ![c] = "down"]
      /\ cur' \in {cur, [cur EXCEPT ![c] = SomeOffset]}
      /\ UNCHANGED handled
  BY DEF Cleanup, Crash, Goto
<1>2. UNCHANGED <<position, committed, resetTo>>
  BY <1>1 DEF Leave
<1>3. Monotone
  <2>1. \A q \in Partitions : resetTo[q] \in Nat
    BY DEF TypeInv, TypeOK, GroupTypeOK
  <2> QED
    BY <1>1, <1>2, <2>1 DEF Monotone
<1>4. \A d \in Consumers : pc'[d] \in Working => pc[d] \in Working /\ cur'[d] = cur[d]
  BY <1>1 DEF TypeInv, TypeOK, Working
<1>5. CommittedWasHandled' /\ CurrentDone'
  BY <1>2, <1>3, <1>4, CommittedStays, CurrentStays DEF HandledInv
<1>6. RequestsDone'
  <2>1. \A d \in Consumers : commitQueue'[d] \in {commitQueue[d], <<>>}
    BY <1>1 DEF Leave, TypeInv, TypeOK, GroupTypeOK
  <2> QED
    BY <1>3, <2>1, RequestsStay DEF HandledInv
<1>7. PositionDone'
  <2>1. \A p \in Partitions :
           /\ owner'[p] \in {owner[p], NoOwner} /\ position'[p] = position[p]
           /\ owner'[p] # NoOwner => owner[p] # c /\ owner[p] \in Consumers
    BY <1>1, <1>2 DEF Leave, TypeInv, TypeOK, GroupTypeOK
  <2>2. \A d \in Consumers \ {c} : pc'[d] = pc[d] /\ cur'[d] = cur[d]
    BY <1>1 DEF TypeInv, TypeOK
  <2> QED
    BY <1>3, <2>1, <2>2, PositionStays DEF HandledInv
<1> QED
  BY <1>5, <1>6, <1>7 DEF HandledInv

LEMMA HandledStep ==
    ASSUME TypeInv, TypeInv', HandledInv, [Next]_vars
    PROVE  HandledInv'
<1> USE DEF detectorVars, ghostVars
<1>1. CASE UNCHANGED vars
  BY <1>1, QuietStep DEF vars
<1>2. CASE Group
  BY <1>2, HandledGroup
<1>3. ASSUME NEW c \in Consumers,
             CheckBlocked(c) \/ LoadAndScore(c) \/ SaveProfile(c) \/ Publish(c)
      PROVE  HandledInv'
  <2>1. UNCHANGED <<groupVars, cur, handled>>
    BY <1>3 DEF CheckBlocked, LoadAndScore, SaveProfile, Publish
  <2>2. \A d \in Consumers : pc'[d] \in Working <=> pc[d] \in Working
    BY <1>3 DEF CheckBlocked, LoadAndScore, SaveProfile, Publish, Goto,
                TypeInv, TypeOK, Working
  <2> QED
    BY <2>1, <2>2, QuietStep
<1>4. ASSUME NEW c \in Consumers, Start(c) \/ StopRunning(c) \/ Deliver(c)
      PROVE  HandledInv'
  <2>1. UNCHANGED <<groupVars, cur, handled>>
    BY <1>4 DEF Start, StopRunning, Deliver
  <2>2. \A d \in Consumers : pc'[d] \in Working <=> pc[d] \in Working
    BY <1>4 DEF Start, StopRunning, Deliver, Goto, TypeInv, TypeOK, Working
  <2> QED
    BY <2>1, <2>2, QuietStep
<1> QED
  BY <1>1, <1>2, <1>3, <1>4, HandledPoll, HandledCommit, HandledLeave DEF Next, Process

LEMMA HandledInit == Init => HandledInv
BY DEF Init, GroupInit, HandledInv, CommittedWasHandled, RequestsDone, CurrentDone,
       PositionDone, Working, NoOffset

(* The group never commits past a message that nobody has finished with.   *)
THEOREM NothingCommittedUnhandled == Spec => []CommittedWasHandled
<1>1. Init => TypeInv /\ HandledInv
  BY TypeInit, HandledInit
<1>2. TypeInv /\ HandledInv /\ [Next]_vars => (TypeInv /\ HandledInv)'
  BY TypeStep, HandledStep
<1>3. TypeInv /\ HandledInv => CommittedWasHandled
  BY DEF HandledInv
<1> QED
  BY <1>1, <1>2, <1>3, PTL DEF Spec

-----------------------------------------------------------------------------
(* A profile counts every save of it.                                      *)

Saving(c, u) == pc[c] = "save" /\ UserOf(c) = u

(* Of a user no two processes worked on at once, the profile counts every  *)
(* save, at most one process is about to save it, and that one has read    *)
(* what is stored now.                                                     *)
ProfileInv ==
    \A u \in Users \ overlap :
        /\ profile[u] = saves[u]
        /\ \A c \in Consumers : Saving(c, u) => loaded[c].total = profile[u]
        /\ \A c, d \in Consumers : Saving(c, u) /\ Saving(d, u) => c = d

LEMMA ProfileStays ==
    ASSUME ProfileInv, UNCHANGED <<profile, saves>>, overlap \subseteq overlap',
           \A d \in Consumers : pc'[d] = "save" =>
              pc[d] = "save" /\ cur'[d] = cur[d] /\ loaded'[d] = loaded[d]
    PROVE  ProfileInv'
<1>1. \A d \in Consumers, u \in Users :
         Saving(d, u)' => Saving(d, u) /\ loaded'[d] = loaded[d]
  BY DEF Saving, UserOf, Message
<1> QED
  BY <1>1 DEF ProfileInv

LEMMA ProfileLoad ==
    ASSUME TypeInv, ProfileInv, NEW c \in Consumers, LoadAndScore(c)
    PROVE  ProfileInv'
<1> DEFINE u == UserOf(c)
<1>1. PICK verdict :
         \/ /\ loaded' = [loaded EXCEPT ![c] = Scored(profile[u], verdict)]
            /\ overlap' = IF \E d \in Consumers \ {c} : Saving(d, u)
                            THEN overlap \cup {u} ELSE overlap
         \/ /\ loaded' = [loaded EXCEPT ![c] = Scored(0, verdict)]
            /\ overlap' = overlap \cup {u}
  BY DEF LoadAndScore, Saving
<1>2. UNCHANGED <<profile, saves, cur>> /\ overlap \subseteq overlap'
  BY <1>1 DEF LoadAndScore, redisVars
<1>3. \A d \in Consumers \ {c} : pc'[d] = pc[d] /\ loaded'[d] = loaded[d]
  BY <1>1 DEF LoadAndScore, Goto, TypeInv, TypeOK
<1>4. \A d \in Consumers \ {c}, v \in Users : Saving(d, v)' <=> Saving(d, v)
  BY <1>2, <1>3 DEF Saving, UserOf, Message
<1>5. \A v \in Users : Saving(c, v)' => v = u
  BY <1>2 DEF Saving, UserOf, Message
<1>6. u \notin overlap' => /\ loaded'[c].total = profile[u]
                          /\ \A d \in Consumers \ {c} : ~Saving(d, u)
  BY <1>1 DEF TypeInv, TypeOK, Scored
<1> SUFFICES ASSUME NEW v \in Users \ overlap'
             PROVE  /\ profile[v] = saves[v]
                    /\ \A d \in Consumers : Saving(d, v)' => loaded'[d].total = profile[v]
                    /\ \A d, e \in Consumers : Saving(d, v)' /\ Saving(e, v)' => d = e
  BY <1>2 DEF ProfileInv
<1>7. v \in Users \ overlap
  BY <1>2
<1>8. CASE v = u
  BY <1>3, <1>4, <1>6, <1>7, <1>8 DEF ProfileInv
<1>9. CASE v # u
  BY <1>3, <1>4, <1>5, <1>7, <1>9 DEF ProfileInv
<1> QED
  BY <1>8, <1>9

LEMMA ProfileSave ==
    ASSUME TypeInv, ProfileInv, NEW c \in Consumers, SaveProfile(c)
    PROVE  ProfileInv'
<1> DEFINE u == UserOf(c)
<1>1. UNCHANGED <<cur, loaded, overlap>>
  BY DEF SaveProfile
<1>2. /\ pc'[c] = "publish" /\ Saving(c, u)
      /\ \A d \in Consumers \ {c} : pc'[d] = pc[d]
  BY DEF SaveProfile, Goto, Saving, TypeInv, TypeOK
<1>3. \A d \in Consumers, v \in Users : Saving(d, v)' => Saving(d, v) /\ d # c
  BY <1>1, <1>2 DEF Saving, UserOf, Message
<1>4. u \in Users
  BY <1>2, CurrentType DEF Saving, Working
<1>5. CASE UNCHANGED <<profile, saves>>
  BY <1>1, <1>3, <1>5 DEF ProfileInv
<1>6. CASE /\ profile' = [profile EXCEPT ![u] = loaded[c].total + 1]
           /\ saves' = [saves EXCEPT ![u] = @ + 1]
  <2>1. \A v \in Users \ {u} : profile'[v] = profile[v] /\ saves'[v] = saves[v]
    BY <1>6 DEF TypeInv, TypeOK
  <2>2. profile'[u] = loaded[c].total + 1 /\ saves'[u] = saves[u] + 1
    BY <1>4, <1>6 DEF TypeInv, TypeOK
  <2> SUFFICES ASSUME NEW v \in Users \ overlap
               PROVE  /\ profile'[v] = saves'[v]
                      /\ \A d \in Consumers : Saving(d, v)' => loaded[d].total = profile'[v]
                      /\ \A d, e \in Consumers : Saving(d, v)' /\ Saving(e, v)' => d = e
    BY <1>1 DEF ProfileInv
  <2>3. CASE v = u
    <3>1. profile[u] = saves[u] /\ loaded[c].total = profile[u]
      BY <1>2, <2>3 DEF ProfileInv
    <3>2. \A d \in Consumers : ~Saving(d, v)'
      BY <1>2, <1>3, <1>4, <2>3 DEF ProfileInv
    <3> QED
      BY <2>2, <2>3, <3>1, <3>2
  <2>4. CASE v # u
    BY <1>3, <2>1, <2>4 DEF ProfileInv
  <2> QED
    BY <2>3, <2>4
<1> QED
  BY <1>5, <1>6 DEF SaveProfile, CountTransaction

LEMMA ProfileStep ==
    ASSUME TypeInv, ProfileInv, [Next]_vars
    PROVE  ProfileInv'
<1> USE DEF detectorVars, redisVars, ghostVars, localVars, Goto, TypeInv, TypeOK
<1>1. CASE UNCHANGED vars \/ Group
  BY <1>1, ProfileStays DEF vars, Group
<1>2. ASSUME NEW c \in Consumers, Poll(c)
      PROVE  ProfileInv'
  <2>1. PICK p \in Partitions : \/ PollTransaction(c, p)
                                \/ PollBadJson(c, p)
                                \/ PollBadBytes(c, p)
    BY <1>2 DEF Poll
  <2>2. CASE PollTransaction(c, p)
    <3>1. /\ pc[c] = "poll" /\ pc' = [pc EXCEPT ![c] = "check"]
          /\ \E x : cur' = [cur EXCEPT ![c] = x]
          /\ UNCHANGED <<profile, saves, overlap, loaded>>
      BY <2>2 DEF PollTransaction
    <3>2. \A d \in Consumers : pc'[d] = "save" => pc[d] = "save" /\ cur'[d] = cur[d]
      BY <3>1
    <3> QED
      BY <3>1, <3>2, ProfileStays
  <2>3. CASE PollBadJson(c, p) \/ PollBadBytes(c, p)
    <3>1. /\ pc' \in {pc, [pc EXCEPT ![c] = "stopping"]}
          /\ UNCHANGED <<profile, saves, overlap, cur, loaded>>
      BY <2>3 DEF PollBadJson, PollBadBytes
    <3> QED
      BY <3>1, ProfileStays
  <2> QED
    BY <2>1, <2>2, <2>3
<1>3. ASSUME NEW c \in Consumers, CheckBlocked(c) \/ Publish(c) \/ Commit(c)
      PROVE  ProfileInv'
  BY <1>3, ProfileStays DEF CheckBlocked, Publish, Commit
<1>4. ASSUME NEW c \in Consumers,
             Start(c) \/ Deliver(c) \/ StopRunning(c) \/ Cleanup(c) \/ Crash(c)
      PROVE  ProfileInv'
  BY <1>4, ProfileStays DEF Start, Deliver, StopRunning, Cleanup, Crash
<1> QED
  BY <1>1, <1>2, <1>3, <1>4, ProfileLoad, ProfileSave DEF Next, Process

LEMMA ProfileInit == Init => ProfileInv
BY DEF Init, ProfileInv, Saving

(* An update of a profile is lost only when two processes interleave on    *)
(* its user, or when it was read as empty.                                 *)
THEOREM NoUpdateLostUnseen == Spec => []ProfileCountsEverySave
<1>1. Init => TypeInv /\ ProfileInv
  BY TypeInit, ProfileInit
<1>2. TypeInv /\ ProfileInv /\ [Next]_vars => (TypeInv /\ ProfileInv)'
  BY TypeStep, ProfileStep
<1>3. ProfileInv => ProfileCountsEverySave
  BY DEF ProfileInv, ProfileCountsEverySave
<1> QED
  BY <1>1, <1>2, <1>3, PTL DEF Spec

-----------------------------------------------------------------------------
(* The detectors implement AtLeastOnce.                                    *)

(* Messages in hand and requested offsets are in the log.                  *)
InLog ==
    /\ \A c \in Consumers : pc[c] \in Working => cur[c].off < logEnd[cur[c].part]
    /\ \A c \in Consumers : \A i \in 1 .. Len(commitQueue[c]) :
          commitQueue[c][i].next <= logEnd[commitQueue[c][i].part]

OldOrInLog(d, i) ==
    \/ \E j \in 1 .. Len(commitQueue[d]) : commitQueue'[d][i] = commitQueue[d][j]
    \/ commitQueue'[d][i] \in Request
          /\ commitQueue'[d][i].next <= logEnd[commitQueue'[d][i].part]

LEMMA InLogStays ==
    ASSUME TypeInv, TypeInv', InLog,
           \A p \in Partitions : logEnd[p] <= logEnd'[p],
           \A d \in Consumers : pc'[d] \in Working =>
              \/ pc[d] \in Working /\ cur'[d] = cur[d]
              \/ cur'[d].off < logEnd[cur'[d].part],
           \A d \in Consumers : \A i \in 1 .. Len(commitQueue'[d]) : OldOrInLog(d, i)
    PROVE  InLog'
<1>1. \A p \in Partitions : logEnd[p] \in Nat /\ logEnd'[p] \in Nat
  BY DEF TypeInv, TypeOK, GroupTypeOK
<1>2. ASSUME NEW d \in Consumers, pc'[d] \in Working
      PROVE  cur'[d].off < logEnd'[cur'[d].part]
  <2>1. cur'[d].part \in Partitions /\ cur'[d].off \in Nat
    BY DEF TypeInv, TypeOK, Offset
  <2>2. cur'[d].off < logEnd[cur'[d].part]
    BY <1>2 DEF InLog
  <2> QED
    BY <1>1, <2>1, <2>2
<1>3. ASSUME NEW d \in Consumers, NEW i \in 1 .. Len(commitQueue'[d])
      PROVE  commitQueue'[d][i].next <= logEnd'[commitQueue'[d][i].part]
  <2>1. /\ commitQueue'[d][i].next <= logEnd[commitQueue'[d][i].part]
        /\ commitQueue'[d][i] \in Request
    <3>1. CASE \E j \in 1 .. Len(commitQueue[d]) : commitQueue'[d][i] = commitQueue[d][j]
      BY <3>1, ElementOfSeq DEF InLog, TypeInv, TypeOK, GroupTypeOK
    <3> QED
      BY <3>1 DEF OldOrInLog
  <2> QED
    BY <1>1, <2>1 DEF Request
<1> QED
  BY <1>2, <1>3 DEF InLog

LEMMA InLogRequest ==
    ASSUME TypeInv, NEW c \in Consumers, NEW p \in Partitions, NEW o \in Nat,
           o < logEnd[p], RequestCommit(c, p, o)
    PROVE  \A d \in Consumers : \A i \in 1 .. Len(commitQueue'[d]) : OldOrInLog(d, i)
<1> DEFINE new == [part |-> p, next |-> o + 1]
<1>1. commitQueue[c] \in Seq(Request)
  BY DEF TypeInv, TypeOK, GroupTypeOK
<1>2. new \in Request /\ new.next <= logEnd[p]
  BY DEF Request, TypeInv, TypeOK, GroupTypeOK
<1> SUFFICES ASSUME NEW d \in Consumers, NEW i \in 1 .. Len(commitQueue'[d])
             PROVE  OldOrInLog(d, i)
  OBVIOUS
<1>3. CASE d # c
  BY <1>3 DEF RequestCommit, OldOrInLog, TypeInv, TypeOK, GroupTypeOK
<1>4. CASE d = c
  <2>1. commitQueue'[d] = Append(commitQueue[c], new)
    BY <1>4 DEF RequestCommit, TypeInv, TypeOK, GroupTypeOK
  <2>2. \/ i \in 1 .. Len(commitQueue[c]) /\ commitQueue'[d][i] = commitQueue[c][i]
        \/ commitQueue'[d][i] = new
    BY <1>1, <1>2, <2>1, AppendProperties, LenProperties
  <2> QED
    BY <1>2, <1>4, <2>2 DEF OldOrInLog
<1> QED
  BY <1>3, <1>4

LEMMA InLogAnswer ==
    ASSUME TypeInv, NEW c \in Consumers, AnswerCommit(c)
    PROVE  \A d \in Consumers : \A i \in 1 .. Len(commitQueue'[d]) : OldOrInLog(d, i)
<1>1. commitQueue[c] \in Seq(Request) /\ commitQueue[c] # <<>>
  BY DEF TypeInv, TypeOK, GroupTypeOK, AnswerCommit
<1> SUFFICES ASSUME NEW d \in Consumers, NEW i \in 1 .. Len(commitQueue'[d])
             PROVE  \E j \in 1 .. Len(commitQueue[d]) : commitQueue'[d][i] = commitQueue[d][j]
  BY DEF OldOrInLog
<1>2. CASE d = c
  <2>1. commitQueue'[d] = Tail(commitQueue[c])
    BY <1>2 DEF AnswerCommit, TypeInv, TypeOK, GroupTypeOK
  <2>2. i + 1 \in 1 .. Len(commitQueue[c]) /\ Tail(commitQueue[c])[i] = commitQueue[c][i + 1]
    BY <1>1, <2>1, HeadTailProperties, LenProperties
  <2> QED
    BY <1>2, <2>1, <2>2
<1>3. CASE d # c
  BY <1>3 DEF AnswerCommit, TypeInv, TypeOK, GroupTypeOK
<1> QED
  BY <1>2, <1>3

LEMMA InLogStep ==
    ASSUME TypeInv, TypeInv', InLog, [Next]_vars
    PROVE  InLog'
<1> USE DEF detectorVars, localVars
<1>1. \A p \in Partitions : logEnd[p] \in Nat
  BY DEF TypeInv, TypeOK, GroupTypeOK
<1>2. ASSUME UNCHANGED commitQueue
      PROVE  \A d \in Consumers : \A i \in 1 .. Len(commitQueue'[d]) : OldOrInLog(d, i)
  BY <1>2 DEF OldOrInLog
<1>3. ASSUME UNCHANGED <<logEnd, commitQueue>>,
             \A d \in Consumers : pc'[d] \in Working => pc[d] \in Working /\ cur'[d] = cur[d]
      PROVE  InLog'
  BY <1>1, <1>2, <1>3, InLogStays
<1>4. CASE UNCHANGED vars
  BY <1>3, <1>4 DEF vars, groupVars
<1>5. CASE Group
  <2>1. UNCHANGED <<pc, cur>>
    BY <1>5 DEF Group
  <2>2. \A p \in Partitions : logEnd[p] <= logEnd'[p]
    <3>1. UNCHANGED logEnd \/ \E p \in Partitions : Produce(p)
      BY <1>5 DEF Group, Revoke, AnswerCommit, Assign
    <3>2. ASSUME NEW p \in Partitions, Produce(p), NEW q \in Partitions
          PROVE  logEnd[q] <= logEnd'[q]
      BY <1>1, <3>2 DEF Produce, TypeInv, TypeOK, GroupTypeOK
    <3> QED
      BY <1>1, <3>1, <3>2
  <2>3. \A d \in Consumers : \A i \in 1 .. Len(commitQueue'[d]) : OldOrInLog(d, i)
    BY <1>2, <1>5, InLogAnswer DEF Group, Produce, Revoke, Assign
  <2> QED
    BY <2>1, <2>2, <2>3, InLogStays
<1>6. ASSUME NEW c \in Consumers, Poll(c)
      PROVE  InLog'
  <2>1. PICK p \in Partitions : \/ PollTransaction(c, p)
                                \/ PollBadJson(c, p)
                                \/ PollBadBytes(c, p)
    BY <1>6 DEF Poll
  <2>2. position[p] < logEnd[p] /\ position[p] \in Nat /\ UNCHANGED logEnd
    BY <2>1 DEF PollTransaction, PollBadJson, PollBadBytes, CanPoll, TypeInv, TypeOK, GroupTypeOK
  <2>3. \A d \in Consumers : \A i \in 1 .. Len(commitQueue'[d]) : OldOrInLog(d, i)
    <3>1. UNCHANGED commitQueue \/ RequestCommit(c, p, position[p])
      BY <2>1 DEF PollTransaction, PollBadJson, PollBadBytes
    <3> QED
      BY <1>2, <2>2, <3>1, InLogRequest
  <2>4. \A d \in Consumers : pc'[d] \in Working =>
           \/ pc[d] \in Working /\ cur'[d] = cur[d]
           \/ cur'[d].off < logEnd[cur'[d].part]
    <3>1. CASE PollTransaction(c, p)
      BY <2>2, <3>1 DEF PollTransaction, Goto, TypeInv, TypeOK
    <3>2. CASE PollBadJson(c, p) \/ PollBadBytes(c, p)
      <4>1. UNCHANGED cur /\ pc' \in {pc, [pc EXCEPT ![c] = "stopping"]}
        BY <3>2 DEF PollBadJson, PollBadBytes, Goto
      <4>2. \A d \in Consumers : pc'[d] \in Working => pc[d] \in Working
        BY <4>1 DEF TypeInv, TypeOK, Working
      <4> QED
        BY <4>1, <4>2
    <3> QED
      BY <2>1, <3>1, <3>2
  <2>5. \A q \in Partitions : logEnd[q] <= logEnd'[q]
    BY <1>1, <2>2
  <2> QED
    BY <2>3, <2>4, <2>5, InLogStays
<1>7. ASSUME NEW c \in Consumers,
             CheckBlocked(c) \/ LoadAndScore(c) \/ SaveProfile(c) \/ Publish(c)
      PROVE  InLog'
  <2>1. \A d \in Consumers : pc'[d] \in Working => pc[d] \in Working /\ cur'[d] = cur[d]
    BY <1>7 DEF CheckBlocked, LoadAndScore, SaveProfile, Publish, Goto, TypeInv, TypeOK, Working
  <2>2. UNCHANGED <<logEnd, commitQueue>>
    BY <1>7 DEF CheckBlocked, LoadAndScore, SaveProfile, Publish, groupVars
  <2> QED
    BY <1>3, <2>1, <2>2
<1>8. ASSUME NEW c \in Consumers, Commit(c)
      PROVE  InLog'
  <2>1. \A d \in Consumers : pc'[d] \in Working => pc[d] \in Working /\ cur'[d] = cur[d]
    BY <1>8 DEF Commit, Goto, TypeInv, TypeOK, Working
  <2>2. UNCHANGED logEnd
    BY <1>8 DEF Commit
  <2>3. cur[c].part \in Partitions /\ cur[c].off \in Nat /\ cur[c].off < logEnd[cur[c].part]
    BY <1>8, CurrentType DEF Commit, InLog, Working
  <2>4. \A d \in Consumers : \A i \in 1 .. Len(commitQueue'[d]) : OldOrInLog(d, i)
    <3>1. UNCHANGED commitQueue \/ RequestCommit(c, cur[c].part, cur[c].off)
      BY <1>8 DEF Commit
    <3> QED
      BY <1>2, <2>3, <3>1, InLogRequest
  <2> QED
    BY <1>1, <2>1, <2>2, <2>4, InLogStays
<1>9. ASSUME NEW c \in Consumers, Start(c) \/ StopRunning(c) \/ Deliver(c)
      PROVE  InLog'
  <2>1. \A d \in Consumers : pc'[d] \in Working => pc[d] \in Working /\ cur'[d] = cur[d]
    BY <1>9 DEF Start, StopRunning, Deliver, Goto, TypeInv, TypeOK, Working
  <2>2. UNCHANGED <<logEnd, commitQueue>>
    BY <1>9 DEF Start, StopRunning, Deliver, groupVars
  <2> QED
    BY <1>3, <2>1, <2>2
<1>10. ASSUME NEW c \in Consumers, Cleanup(c) \/ Crash(c)
       PROVE  InLog'
  <2>1. \A d \in Consumers : pc'[d] \in Working => pc[d] \in Working /\ cur'[d] = cur[d]
    BY <1>10 DEF Cleanup, Crash, Goto, TypeInv, TypeOK, Working
  <2>2. UNCHANGED logEnd /\ commitQueue' = [commitQueue EXCEPT ![c] = <<>>]
    BY <1>10 DEF Cleanup, Crash, Leave
  <2>3. \A d \in Consumers : \A i \in 1 .. Len(commitQueue'[d]) : OldOrInLog(d, i)
    BY <2>2 DEF OldOrInLog, TypeInv, TypeOK, GroupTypeOK
  <2> QED
    BY <1>1, <2>1, <2>2, <2>3, InLogStays
<1> QED
  BY <1>4, <1>5, <1>6, <1>7, <1>8, <1>9, <1>10 DEF Next, Process

LEMMA InLogInit == Init => InLog
BY DEF Init, GroupInit, InLog, Working

DoneMessages == {x \in LogMessages : Done(x.part, x.off)}

LEMMA LogMessage ==
    ASSUME NEW p \in Partitions, NEW o \in 0 .. LogSize[p] - 1
    PROVE  [part |-> p, off |-> o] \in LogMessages
BY DEF LogMessages

LEMMA LogMessageType ==
    ASSUME NEW x \in LogMessages
    PROVE  /\ x.part \in Partitions /\ x.off \in 0 .. LogSize[x.part] - 1
           /\ x = [part |-> x.part, off |-> x.off]
BY DEF LogMessages

(* A step that handles a message in the log and does nothing else that     *)
(* AtLeastOnce sees.                                                       *)
LEMMA RefFinish ==
    ASSUME TypeInv, NEW p \in Partitions, NEW o \in Nat, o < logEnd[p],
           handled' = handled \cup {[part |-> p, off |-> o]},
           UNCHANGED <<logEnd, resetTo, committed>>
    PROVE  ALO!Next
<1>1. o \in 0 .. LogSize[p] - 1
  BY DEF TypeInv, TypeOK, GroupTypeOK, Bounds
<1>2. \A x \in LogMessages :
         Done(x.part, x.off)' <=> Done(x.part, x.off) \/ x = [part |-> p, off |-> o]
  BY LogMessageType DEF Done
<1>3. DoneMessages' = DoneMessages \cup {[part |-> p, off |-> o]}
  BY <1>1, <1>2, LogMessage DEF DoneMessages, LogMessages
<1>4. ALO!Finish(p, o)
  BY <1>3 DEF ALO!Finish, ALO!Message, DoneMessages
<1> QED
  BY <1>1, <1>4 DEF ALO!Next

LEMMA RefStutter ==
    ASSUME UNCHANGED <<logEnd, handled, resetTo, committed>>
    PROVE  UNCHANGED ALO!vars
BY DEF ALO!vars, LogMessages, Done

LEMMA RefAnswer ==
    ASSUME TypeInv, HandledInv, InLog, NEW c \in Consumers, AnswerCommit(c),
           UNCHANGED localVars
    PROVE  [ALO!Next]_ALO!vars
<1> DEFINE r == Head(commitQueue[c])
<1>1. commitQueue[c] \in Seq(Request) /\ commitQueue[c] # <<>>
  BY DEF TypeInv, TypeOK, GroupTypeOK, AnswerCommit
<1>2. r = commitQueue[c][1] /\ r \in Request /\ 1 \in 1 .. Len(commitQueue[c])
  BY <1>1, HeadTailProperties, LenProperties, ElementOfSeq
<1>3. PICK p \in Partitions, n \in Nat : p = r.part /\ n = r.next
  BY <1>2 DEF Request
<1>4. n \in 0 .. LogSize[p]
  BY <1>2, <1>3 DEF InLog, TypeInv, TypeOK, GroupTypeOK, Bounds
<1>5. \A o \in 0 .. n - 1 : Done(p, o)
  BY <1>2, <1>3 DEF HandledInv, RequestsDone
<1>6. \A o \in 0 .. n - 1 : [part |-> p, off |-> o] \in DoneMessages
  BY <1>4, <1>5, LogMessage DEF DoneMessages
<1>7. UNCHANGED <<logEnd, handled, resetTo>>
  BY DEF AnswerCommit, localVars, ghostVars
<1>8. UNCHANGED DoneMessages
  BY <1>7 DEF DoneMessages, LogMessages, Done
<1>9. CASE committed' = [committed EXCEPT ![p] = n]
  <2>1. ALO!Commit(p, n)
    BY <1>6, <1>7, <1>8, <1>9 DEF ALO!Commit, ALO!Message, DoneMessages
  <2> QED
    BY <1>4, <2>1 DEF ALO!Next
<1>10. CASE UNCHANGED committed
  BY <1>7, <1>10, RefStutter
<1> QED
  BY <1>3, <1>9, <1>10 DEF AnswerCommit

LEMMA RefAssign ==
    ASSUME TypeInv, NEW c \in Consumers, NEW p \in Partitions, Assign(c, p),
           UNCHANGED localVars
    PROVE  [ALO!Next]_ALO!vars
<1>1. UNCHANGED <<logEnd, handled, committed>>
  BY DEF Assign, localVars, ghostVars
<1>2. CASE committed[p] # NoOffset \/ ~ResetToLatest
  <2>1. UNCHANGED resetTo
    BY <1>2 DEF Assign, StartOffset, TypeInv, TypeOK, GroupTypeOK, Bounds
  <2> QED
    BY <1>1, <2>1, RefStutter
<1>3. CASE committed[p] = NoOffset /\ ResetToLatest
  <2> DEFINE passed == {[part |-> p, off |-> o] : o \in 0 .. logEnd[p] - 1}
  <2>1. resetTo' = [resetTo EXCEPT ![p] = logEnd[p]]
    BY <1>3 DEF Assign, StartOffset
  <2>2. logEnd[p] \in Nat /\ resetTo[p] \in Nat /\ resetTo[p] <= logEnd[p]
        /\ logEnd[p] <= LogSize[p] /\ LogSize[p] \in Nat
    BY DEF TypeInv, TypeOK, GroupTypeOK, Bounds
  <2>3. \A x \in LogMessages :
           Done(x.part, x.off)' <=> Done(x.part, x.off) \/ x \in passed
    <3> SUFFICES ASSUME NEW x \in LogMessages
                 PROVE  Done(x.part, x.off)' <=> Done(x.part, x.off) \/ x \in passed
      OBVIOUS
    <3>1. x.part \in Partitions /\ x.off \in Nat /\ x = [part |-> x.part, off |-> x.off]
      BY LogMessageType
    <3>2. CASE x.part = p
      <4>1. resetTo'[p] = logEnd[p]
        BY <2>1 DEF TypeInv, TypeOK, GroupTypeOK
      <4>2. x \in passed <=> x.off < logEnd[p]
        BY <2>2, <3>1, <3>2
      <4> QED
        BY <1>1, <2>2, <3>1, <3>2, <4>1, <4>2 DEF Done
    <3>3. CASE x.part # p
      <4>1. resetTo'[x.part] = resetTo[x.part] /\ x \notin passed
        BY <2>1, <3>1, <3>3 DEF TypeInv, TypeOK, GroupTypeOK
      <4> QED
        BY <1>1, <4>1 DEF Done
    <3> QED
      BY <3>2, <3>3
  <2>4. passed \subseteq LogMessages
    BY <2>2, LogMessage
  <2>5. DoneMessages' = DoneMessages \cup passed
    BY <2>3, <2>4 DEF DoneMessages, LogMessages
  <2>6. ALO!PassOver(p)
    BY <1>1, <1>3, <2>5 DEF ALO!PassOver, ALO!Message, DoneMessages, NoOffset
  <2> QED
    BY <2>6 DEF ALO!Next
<1> QED
  BY <1>2, <1>3

LEMMA RefStep ==
    ASSUME TypeInv, HandledInv, InLog, [Next]_vars
    PROVE  [ALO!Next]_ALO!vars
<1> USE DEF groupVars, localVars, ghostVars
<1>1. CASE UNCHANGED vars
  BY <1>1, RefStutter DEF vars
<1>2. CASE Group
  <2>1. ASSUME NEW p \in Partitions, Produce(p), UNCHANGED localVars
        PROVE  ALO!Next
    <3>1. UNCHANGED DoneMessages
      BY <2>1 DEF Produce, DoneMessages, LogMessages, Done
    <3>2. ALO!Produce(p)
      BY <2>1, <3>1 DEF Produce, ALO!Produce, DoneMessages
    <3> QED
      BY <3>2 DEF ALO!Next
  <2>2. ASSUME NEW p \in Partitions, Revoke(p), UNCHANGED localVars
        PROVE  UNCHANGED ALO!vars
    BY <2>2, RefStutter DEF Revoke
  <2> QED
    BY <1>2, <2>1, <2>2, RefAnswer, RefAssign DEF Group
<1>3. ASSUME NEW c \in Consumers, NEW p \in Partitions, PollTransaction(c, p)
      PROVE  UNCHANGED ALO!vars
  BY <1>3, RefStutter DEF PollTransaction
<1>4. ASSUME NEW c \in Consumers, NEW p \in Partitions, PollBadJson(c, p) \/ PollBadBytes(c, p)
      PROVE  ALO!Next
  <2>1. position[p] \in Nat /\ position[p] < logEnd[p]
    BY <1>4 DEF PollBadJson, PollBadBytes, CanPoll, TypeInv, TypeOK, GroupTypeOK
  <2>2. /\ handled' = handled \cup {[part |-> p, off |-> position[p]]}
        /\ UNCHANGED <<logEnd, resetTo, committed>>
    BY <1>4 DEF PollBadJson, PollBadBytes, Finish
  <2> QED
    BY <2>1, <2>2, RefFinish
<1>5. ASSUME NEW c \in Consumers,
             CheckBlocked(c) \/ LoadAndScore(c) \/ SaveProfile(c) \/ Publish(c)
      PROVE  UNCHANGED ALO!vars
  BY <1>5, RefStutter DEF CheckBlocked, LoadAndScore, SaveProfile, Publish
<1>6. ASSUME NEW c \in Consumers, Commit(c)
      PROVE  ALO!Next
  <2>1. cur[c] \in Offset /\ cur[c].off < logEnd[cur[c].part]
    BY <1>6 DEF Commit, Working, InLog, TypeInv, TypeOK
  <2>2. PICK p \in Partitions, o \in Nat : cur[c] = [part |-> p, off |-> o]
    BY <2>1 DEF Offset
  <2>3. /\ handled' = handled \cup {[part |-> p, off |-> o]}
        /\ UNCHANGED <<logEnd, resetTo, committed>>
    BY <1>6, <2>2 DEF Commit, Finish
  <2> QED
    BY <2>1, <2>2, <2>3, RefFinish
<1>7. ASSUME NEW c \in Consumers,
             Start(c) \/ Deliver(c) \/ StopRunning(c) \/ Cleanup(c) \/ Crash(c)
      PROVE  UNCHANGED ALO!vars
  BY <1>7, RefStutter DEF Start, Deliver, StopRunning, Cleanup, Crash, Leave
<1> QED
  BY <1>1, <1>2, <1>3, <1>4, <1>5, <1>6, <1>7 DEF Next, Poll, Process

LEMMA RefInit == Init => ALO!Init
<1> SUFFICES ASSUME Init PROVE ALO!Init
  OBVIOUS
<1>1. \A x \in LogMessages : ~Done(x.part, x.off)
  BY LogMessageType DEF Init, GroupInit, Done
<1> QED
  BY <1>1 DEF Init, GroupInit, ALO!Init, NoOffset

(* Every behaviour of the detectors is one that AtLeastOnce allows.        *)
THEOREM DetectorsImplementAtLeastOnce == Spec => ImplementsAtLeastOnce
<1>1. Init => TypeInv /\ HandledInv /\ InLog
  BY TypeInit, HandledInit, InLogInit
<1>2. TypeInv /\ HandledInv /\ InLog /\ [Next]_vars => (TypeInv /\ HandledInv /\ InLog)'
  BY TypeStep, HandledStep, InLogStep
<1>3. TypeInv /\ HandledInv /\ InLog /\ [Next]_vars => [ALO!Next]_ALO!vars
  BY RefStep
<1> QED
  BY <1>1, <1>2, <1>3, RefInit, PTL DEF Spec, ImplementsAtLeastOnce, ALO!Spec
=============================================================================
