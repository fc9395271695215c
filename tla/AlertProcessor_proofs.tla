----------------------- MODULE AlertProcessor_proofs -----------------------
(***************************************************************************)
(* What a response says and what a commit means, for every number of       *)
(* processes, partitions, users and alerts, and for every bound on         *)
(* rebalances, restarts and failing calls.                                 *)
(***************************************************************************)
EXTENDS AlertProcessor, TLAPS, SequenceTheorems

USE GroupAssumption, ProcessorAssumption

\* A process has an alert in hand.
Working == {"enrich", "act", "act_more", "read_risk", "write_risk", "audit", "publish", "commit"}

(* Offsets stay inside the log.                                            *)
Bounds ==
    /\ \A p \in Partitions : logEnd[p] <= LogSize[p]
    /\ \A c \in Consumers : pc[c] \in Working => cur[c].off < LogSize[cur[c].part]

(* Only an action that needs a second command gets there.                  *)
MoreToDo(c) == pc[c] = "act_more" => context[c].action \in {"block", "investigate", "review"}

TypeInv == TypeOK /\ Bounds

(* What an action leaves in Redis when both its commands have succeeded.   *)
Effect(x, action) ==
    CASE action = "block" -> /\ Message(x).user \in blocked[ProcessorDb]
                             /\ blockRecord[Message(x).user] # "none"
      [] action \in {"investigate", "review"} -> <<x, action>> \in queued
      [] OTHER -> TRUE

Honest(r) == r.completed => Effect(r.alert, r.action)

\* The action is over, the response not yet published.
AfterAction == {"read_risk", "write_risk", "audit", "publish"}

(* Between its two commands a block has put the user into the set; after   *)
(* them what has not failed has its effect.                                *)
Sound(c) ==
    /\ MoreToDo(c)
    /\ pc[c] = "act_more" /\ context[c].action = "block" => UserOf(c) \in blocked[ProcessorDb]
    /\ pc[c] \in AfterAction /\ ~context[c].failed => Effect(cur[c], context[c].action)

TruthInv ==
    /\ TypeInv
    /\ \A c \in Consumers : Sound(c)
    /\ \A c \in Consumers : \A r \in outbox[c] : Honest(r)
    /\ \A r \in responses : Honest(r)

Context == [action: Actions, failed: BOOLEAN, risk: Risk]

-----------------------------------------------------------------------------
(* A message inside the log is about a known user.                         *)
LEMMA MessageType ==
    ASSUME NEW x \in Offset, x.off < LogSize[x.part]
    PROVE  Message(x).user \in Users
<1>1. Log[x.part] \in Seq(Alert) /\ x.off + 1 \in 1 .. Len(Log[x.part])
  BY DEF Offset
<1>2. Log[x.part][x.off + 1] \in Alert
  BY <1>1, ElementOfSeq
<1> QED
  BY <1>2 DEF Message, Alert

LEMMA SomeOffsetType == SomeOffset \in Offset
BY DEF SomeOffset, Offset

LEMMA NoContextType == NoContext \in Context
BY DEF NoContext, Context, Actions, DefaultRisk, Risk

LEMMA ActionType ==
    ASSUME NEW a, NEW high, NEW h
    PROVE  RecommendedAction(a, high, h) \in Actions
BY DEF RecommendedAction, Actions

(* What is known of an alert, when one thing of it is learned.             *)
LEMMA LearnedContext ==
    ASSUME NEW e \in Context
    PROVE  /\ \A a \in Actions : [e EXCEPT !.action = a] \in Context
           /\ [e EXCEPT !.failed = TRUE] \in Context
           /\ \A r \in Risk : [e EXCEPT !.risk = r] \in Context
BY DEF Context

LEMMA DefaultRiskType == DefaultRisk \in Risk
BY DEF DefaultRisk, Risk

LEMMA UpdatedRiskType ==
    ASSUME NEW r \in Risk, NEW s
    PROVE  UpdatedRisk(r, s) \in Risk
BY DEF UpdatedRisk, Risk

LEMMA TypeInit == Init => TypeInv
<1> SUFFICES ASSUME Init PROVE TypeInv
  OBVIOUS
<1> USE DEF Init, GroupInit
<1>1. GroupTypeOK
  BY DEF GroupTypeOK, Request, NoOffset
<1>2. TypeOK
  BY <1>1, SomeOffsetType, NoContextType, DefaultRiskType DEF TypeOK, Steps, Context
<1>3. Bounds
  BY DEF Bounds, Working
<1> QED
  BY <1>2, <1>3 DEF TypeInv

-----------------------------------------------------------------------------
(* Types and bounds, one lemma per part of the system.                     *)

LEMMA TypeGroup ==
    ASSUME TypeInv, Group
    PROVE  TypeInv'
<1> USE DEF TypeInv, localVars, processVars, redisVars, outputVars, ghostVars
<1>1. UNCHANGED localVars
  BY DEF Group
<1>2. ASSUME NEW p \in Partitions, Revoke(p)
      PROVE  TypeInv'
  BY <1>1, <1>2 DEF TypeOK, GroupTypeOK, Bounds, Revoke
<1>3. ASSUME NEW c \in Consumers, AnswerCommit(c)
      PROVE  TypeInv'
  <2>1. commitQueue[c] \in Seq(Request) /\ commitQueue[c] # <<>>
    BY <1>3 DEF TypeOK, GroupTypeOK, AnswerCommit
  <2>2. Head(commitQueue[c]) \in Request /\ Tail(commitQueue[c]) \in Seq(Request)
    BY <2>1, HeadTailProperties
  <2>3. committed' \in [Partitions -> Nat \cup {NoOffset}]
    BY <1>3, <2>2 DEF TypeOK, GroupTypeOK, AnswerCommit, Request
  <2>4. commitQueue' \in [Consumers -> Seq(Request)]
    BY <1>3, <2>2 DEF TypeOK, GroupTypeOK, AnswerCommit
  <2> QED
    BY <1>1, <1>3, <2>3, <2>4 DEF TypeOK, GroupTypeOK, Bounds, AnswerCommit
<1>4. ASSUME NEW c \in Consumers, NEW p \in Partitions, Assign(c, p)
      PROVE  TypeInv'
  <2>1. StartOffset(p) \in Nat
    BY DEF TypeOK, GroupTypeOK, StartOffset, NoOffset
  <2> QED
    BY <1>1, <1>4, <2>1 DEF TypeOK, GroupTypeOK, Bounds, Assign
<1> QED
  BY <1>2, <1>3, <1>4 DEF Group

LEMMA TypeOutside ==
    ASSUME TypeInv,
           \/ \E p \in Partitions : RaiseAlert(p)
           \/ \E u \in Users : BlockRecordExpires(u)
    PROVE  TypeInv'
<1> USE DEF TypeInv, localVars, processVars, redisVars, outputVars, ghostVars, groupVars
<1>1. ASSUME NEW p \in Partitions, RaiseAlert(p)
      PROVE  TypeInv'
  BY <1>1 DEF RaiseAlert, Produce, TypeOK, GroupTypeOK, Bounds
<1>2. ASSUME NEW u \in Users, BlockRecordExpires(u)
      PROVE  TypeInv'
  BY <1>2 DEF BlockRecordExpires, TypeOK, GroupTypeOK, Bounds
<1> QED
  BY <1>1, <1>2

LEMMA RequestType ==
    ASSUME TypeInv, NEW c \in Consumers, NEW p \in Partitions, NEW o \in Nat,
           RequestCommit(c, p, o)
    PROVE  commitQueue' \in [Consumers -> Seq(Request)]
<1>1. [part |-> p, next |-> o + 1] \in Request
  BY DEF Request
<1>2. commitQueue[c] \in Seq(Request)
  BY DEF TypeInv, TypeOK, GroupTypeOK
<1>3. Append(commitQueue[c], [part |-> p, next |-> o + 1]) \in Seq(Request)
  BY <1>1, <1>2, AppendProperties
<1> QED
  BY <1>3 DEF TypeInv, TypeOK, GroupTypeOK, RequestCommit

LEMMA TypePoll ==
    ASSUME TypeInv, NEW c \in Consumers, Poll(c)
    PROVE  TypeInv'
<1> PICK p \in Partitions : \/ PollAlert(c, p)
                            \/ PollBadJson(c, p)
                            \/ PollBadBytes(c, p)
  BY DEF Poll
<1> DEFINE x == [part |-> p, off |-> position[p]]
<1>1. CanPoll(c, p) /\ Advance(p)
  BY DEF PollAlert, PollBadJson, PollBadBytes
<1>2. x \in Offset /\ x.off < LogSize[p] /\ x.off \in Nat
  BY <1>1 DEF TypeInv, TypeOK, GroupTypeOK, Bounds, CanPoll, Offset
<1>3. position' \in [Partitions -> Nat]
  BY <1>1 DEF Advance, TypeInv, TypeOK, GroupTypeOK
<1> USE DEF TypeInv, processVars, redisVars, outputVars, ghostVars
<1>4. CASE PollAlert(c, p)
  <2>1. pc' \in [Consumers -> Steps] /\ cur' \in [Consumers -> Offset]
    BY <1>2, <1>4 DEF PollAlert, Goto, TypeOK, Steps
  <2>2. \A d \in Consumers : pc'[d] \in Working => cur'[d].off < LogSize[cur'[d].part]
    BY <1>2, <1>4 DEF PollAlert, Goto, TypeOK, Bounds
  <2> QED
    BY <1>3, <1>4, <2>1, <2>2 DEF PollAlert, TypeOK, GroupTypeOK, Bounds
<1>5. CASE PollBadJson(c, p)
  <2>1. commitQueue' \in [Consumers -> Seq(Request)]
    BY <1>2, <1>5, RequestType DEF PollBadJson, TypeOK, GroupTypeOK
  <2>2. handled' \in SUBSET Offset /\ faults' \in Nat
    BY <1>2, <1>5 DEF PollBadJson, Finish, TypeOK, CallWorks, CallFails
  <2>3. /\ pc' \in [Consumers -> Steps]
        /\ \A d \in Consumers : pc'[d] \in Working => pc[d] \in Working
    BY <1>5 DEF PollBadJson, Goto, TypeOK, Steps, Working
  <2> QED
    BY <1>3, <1>5, <2>1, <2>2, <2>3 DEF PollBadJson, TypeOK, GroupTypeOK, Bounds
<1>6. CASE PollBadBytes(c, p)
  <2>1. handled' \in SUBSET Offset
    BY <1>2, <1>6 DEF PollBadBytes, Finish, TypeOK
  <2> QED
    BY <1>3, <1>6, <2>1 DEF PollBadBytes, TypeOK, GroupTypeOK, Bounds
<1> QED
  BY <1>4, <1>5, <1>6

(* The alert in hand, while a process works on it.                         *)
LEMMA CurrentType ==
    ASSUME TypeInv, NEW c \in Consumers, pc[c] \in Working
    PROVE  /\ cur[c] \in Offset /\ cur[c].part \in Partitions /\ cur[c].off \in Nat
           /\ UserOf(c) \in Users
<1>1. cur[c] \in Offset /\ cur[c].off < LogSize[cur[c].part]
  BY DEF TypeInv, TypeOK, Bounds
<1> QED
  BY <1>1, MessageType DEF UserOf, Offset

(* The step a process is at, when it stays with its alert or drops it.     *)
LEMMA GotoType ==
    ASSUME TypeInv, NEW c \in Consumers, NEW step \in Steps, Goto(c, step),
           step \in Working => pc[c] \in Working
    PROVE  /\ pc' \in [Consumers -> Steps]
           /\ \A d \in Consumers : pc'[d] \in Working => pc[d] \in Working
BY DEF TypeInv, TypeOK, Goto

LEMMA FaultsType ==
    ASSUME TypeInv, CallWorks \/ CallFails
    PROVE  faults' \in Nat
BY DEF TypeInv, TypeOK, CallWorks, CallFails

LEMMA TypeDecide ==
    ASSUME TypeInv, NEW c \in Consumers, MoreToDo(c), Enrich(c) \/ Act(c) \/ ActMore(c)
    PROVE  TypeInv'
<1> USE DEF TypeInv, processVars, redisVars, outputVars, ghostVars, groupVars
<1>1. pc[c] \in Working
  BY DEF Enrich, Act, ActMore, Working
<1>2. UserOf(c) \in Users /\ cur[c] \in Offset
  BY <1>1, CurrentType
<1>3. context \in [Consumers -> Context] /\ context[c] \in Context
  BY DEF TypeOK, Context
<1>4. CASE Enrich(c)
  <2>1. /\ pc' \in [Consumers -> Steps]
        /\ \A d \in Consumers : pc'[d] \in Working => pc[d] \in Working
    BY <1>1, <1>4, GotoType DEF Enrich, Steps
  <2>2. PICK a \in Actions : context' = [context EXCEPT ![c].action = a]
    BY <1>4, ActionType DEF Enrich
  <2>3. context' \in [Consumers -> Context]
    <3>1. PICK e : e = [context[c] EXCEPT !.action = a]
      OBVIOUS
    <3>2. e \in Context
      BY <1>3, <3>1, LearnedContext
    <3>3. context' = [context EXCEPT ![c] = e]
      BY <2>2, <3>1, Zenon
    <3> QED
      BY <1>3, <3>2, <3>3
  <2>4. faults' \in Nat
    BY <1>4, FaultsType DEF Enrich
  <2> QED
    BY <1>4, <2>1, <2>3, <2>4 DEF Enrich, TypeOK, GroupTypeOK, Bounds, Context
<1>5. CASE Act(c)
  <2>1. /\ pc' \in [Consumers -> Steps]
        /\ \A d \in Consumers : pc'[d] \in Working => pc[d] \in Working
    BY <1>1, <1>5, GotoType DEF Act, Steps, AfterFirstCall
  <2>2. context' \in [Consumers -> Context]
    <3>1. context' = context \/ context' = [context EXCEPT ![c].failed = TRUE]
      BY <1>5 DEF Act
    <3>2. PICK e : e = [context[c] EXCEPT !.failed = TRUE]
      OBVIOUS
    <3>3. e \in Context
      BY <1>3, <3>2, LearnedContext
    <3>4. context' = context \/ context' = [context EXCEPT ![c] = e]
      BY <3>1, <3>2, Zenon
    <3> QED
      BY <1>3, <3>3, <3>4
  <2>3. blocked' \in [{DetectorDb, ProcessorDb} -> SUBSET Users]
    <3>1. \/ blocked' = blocked
          \/ blocked' = [blocked EXCEPT ![ProcessorDb] = blocked[ProcessorDb] \cup {UserOf(c)}]
      BY <1>5 DEF Act
    <3>2. blocked \in [{DetectorDb, ProcessorDb} -> SUBSET Users]
      BY DEF TypeOK
    <3> QED
      BY <1>2, <3>1, <3>2
  <2>4. faults' \in Nat
    BY <1>5, FaultsType DEF Act
  <2> QED
    BY <1>5, <2>1, <2>2, <2>3, <2>4 DEF Act, TypeOK, GroupTypeOK, Bounds, Context
<1>6. CASE ActMore(c)
  <2>1. /\ pc' \in [Consumers -> Steps]
        /\ \A d \in Consumers : pc'[d] \in Working => pc[d] \in Working
    BY <1>1, <1>6, GotoType DEF ActMore, Steps
  <2>2. context' \in [Consumers -> Context]
    <3>1. context' = context \/ context' = [context EXCEPT ![c].failed = TRUE]
      BY <1>6 DEF ActMore
    <3>2. PICK e : e = [context[c] EXCEPT !.failed = TRUE]
      OBVIOUS
    <3>3. e \in Context
      BY <1>3, <3>2, LearnedContext
    <3>4. context' = context \/ context' = [context EXCEPT ![c] = e]
      BY <3>1, <3>2, Zenon
    <3> QED
      BY <1>3, <3>3, <3>4
  <2>3. blockRecord' \in [Users -> {"none", "live", "expired"}]
    <3>1. blockRecord' = blockRecord \/ blockRecord' = [blockRecord EXCEPT ![UserOf(c)] = "live"]
      BY <1>6 DEF ActMore
    <3>2. blockRecord \in [Users -> {"none", "live", "expired"}]
      BY DEF TypeOK
    <3> QED
      BY <1>2, <3>1, <3>2
  <2>4. queued' \in SUBSET (Offset \X {"investigate", "review"})
    BY <1>2, <1>6 DEF ActMore, MoreToDo, TypeOK
  <2>5. faults' \in Nat
    BY <1>6, FaultsType DEF ActMore
  <2> QED
    BY <1>6, <2>1, <2>2, <2>3, <2>4, <2>5 DEF ActMore, TypeOK, GroupTypeOK, Bounds, Context
<1> QED
  BY <1>4, <1>5, <1>6

LEMMA TypeRecord ==
    ASSUME TypeInv, NEW c \in Consumers,
           ReadRisk(c) \/ WriteRisk(c) \/ Audit(c) \/ Publish(c) \/ Commit(c)
    PROVE  TypeInv'
<1> USE DEF TypeInv, processVars, redisVars, outputVars, ghostVars, groupVars
<1>1. pc[c] \in Working
  BY DEF ReadRisk, WriteRisk, Audit, Publish, Commit, Working
<1>2. /\ UserOf(c) \in Users /\ cur[c] \in Offset
      /\ cur[c].part \in Partitions /\ cur[c].off \in Nat
  BY <1>1, CurrentType
<1>3. context \in [Consumers -> Context] /\ context[c] \in Context
  BY DEF TypeOK, Context
<1>4. context[c].action \in Actions /\ context[c].failed \in BOOLEAN /\ context[c].risk \in Risk
  BY <1>3 DEF Context
<1>5. CASE ReadRisk(c)
  <2>1. /\ pc' \in [Consumers -> Steps]
        /\ \A d \in Consumers : pc'[d] \in Working => pc[d] \in Working
    BY <1>1, <1>5, GotoType DEF ReadRisk, Steps
  <2>2. PICK r \in Risk : context' = [context EXCEPT ![c].risk = r]
    BY <1>2, <1>5, DefaultRiskType DEF ReadRisk, TypeOK
  <2>3. context' \in [Consumers -> Context] /\ faults' \in Nat
    <3>1. PICK e : e = [context[c] EXCEPT !.risk = r]
      OBVIOUS
    <3>2. e \in Context
      BY <1>3, <3>1, LearnedContext
    <3>3. context' = [context EXCEPT ![c] = e]
      BY <2>2, <3>1, Zenon
    <3>4. faults' \in Nat
      BY <1>5, FaultsType DEF ReadRisk
    <3> QED
      BY <1>3, <3>2, <3>3, <3>4
  <2> QED
    BY <1>5, <2>1, <2>3 DEF ReadRisk, TypeOK, GroupTypeOK, Bounds, Context
<1>6. CASE WriteRisk(c)
  <2>1. /\ pc' \in [Consumers -> Steps]
        /\ \A d \in Consumers : pc'[d] \in Working => pc[d] \in Working
    BY <1>1, <1>6, GotoType DEF WriteRisk, Steps
  <2>2. UpdatedRisk(context[c].risk, Severity(Message(cur[c]))) \in Risk
    BY <1>4, UpdatedRiskType
  <2>3. risk' \in [Users -> Risk] /\ riskWrites' \in [Users -> Nat] /\ faults' \in Nat
    <3>1. /\ CallWorks \/ CallFails
          /\ risk' = risk \/ risk' = [risk EXCEPT ![UserOf(c)] =
                                         UpdatedRisk(context[c].risk, Severity(Message(cur[c])))]
          /\ \/ riskWrites' = riskWrites
             \/ riskWrites' = [riskWrites EXCEPT ![UserOf(c)] = riskWrites[UserOf(c)] + 1]
      BY <1>6 DEF WriteRisk
    <3>2. risk \in [Users -> Risk] /\ riskWrites \in [Users -> Nat]
      BY DEF TypeOK
    <3>3. risk' \in [Users -> Risk]
      BY <2>2, <3>1, <3>2
    <3>4. riskWrites' \in [Users -> Nat]
      BY <1>2, <3>1, <3>2
    <3> QED
      BY <3>1, <3>3, <3>4, FaultsType
  <2> QED
    BY <1>6, <2>1, <2>3 DEF WriteRisk, TypeOK, GroupTypeOK, Bounds
<1>7. CASE Audit(c)
  <2>1. /\ pc' \in [Consumers -> Steps]
        /\ \A d \in Consumers : pc'[d] \in Working => pc[d] \in Working
    BY <1>1, <1>7, GotoType DEF Audit, Steps
  <2>2. timeline' \in [Users \cup {TransactionKey} -> SUBSET Offset] /\ faults' \in Nat
    BY <1>2, <1>7 DEF Audit, CallWorks, CallFails, TypeOK
  <2> QED
    BY <1>7, <2>1, <2>2 DEF Audit, TypeOK, GroupTypeOK, Bounds
<1>8. CASE Publish(c)
  <2>1. /\ pc' \in [Consumers -> Steps]
        /\ \A d \in Consumers : pc'[d] \in Working => pc[d] \in Working
    BY <1>1, <1>8, GotoType DEF Publish, Steps
  <2>2. ResponseOf(c) \in Response
    BY <1>2, <1>4 DEF ResponseOf, Response
  <2>3. outbox' \in [Consumers -> SUBSET Response] /\ faults' \in Nat
    <3>1. /\ CallWorks \/ CallFails
          /\ outbox' = outbox \/ outbox' = [outbox EXCEPT ![c] = outbox[c] \cup {ResponseOf(c)}]
      BY <1>8 DEF Publish
    <3>2. outbox \in [Consumers -> SUBSET Response]
      BY DEF TypeOK
    <3>3. outbox' \in [Consumers -> SUBSET Response]
      BY <2>2, <3>1, <3>2
    <3> QED
      BY <3>1, <3>3, FaultsType
  <2> QED
    BY <1>8, <2>1, <2>3 DEF Publish, TypeOK, GroupTypeOK, Bounds
<1>9. CASE Commit(c)
  <2>1. commitQueue' \in [Consumers -> Seq(Request)] /\ faults' \in Nat
    <3>1. faults' \in Nat
      BY <1>9, FaultsType DEF Commit
    <3>2. RequestCommit(c, cur[c].part, cur[c].off) \/ UNCHANGED commitQueue
      BY <1>9 DEF Commit
    <3>3. commitQueue \in [Consumers -> Seq(Request)]
      BY DEF TypeOK, GroupTypeOK
    <3> QED
      BY <1>2, <3>1, <3>2, <3>3, RequestType
  <2>2. context' \in [Consumers -> Context]
    <3>1. context' = [context EXCEPT ![c] = NoContext]
      BY <1>9 DEF Commit
    <3> QED
      BY <1>3, <3>1, NoContextType
  <2>3. /\ pc' \in [Consumers -> Steps] /\ cur' \in [Consumers -> Offset]
        /\ handled' \in SUBSET Offset
    BY <1>2, <1>9, SomeOffsetType DEF Commit, Goto, Finish, TypeOK, Steps
  <2>4. \A d \in Consumers : pc'[d] \in Working => pc[d] \in Working /\ cur'[d] = cur[d]
    BY <1>9 DEF Commit, Goto, TypeOK, Working
  <2> QED
    BY <1>9, <2>1, <2>2, <2>3, <2>4 DEF Commit, TypeOK, GroupTypeOK, Bounds, Context
<1> QED
  BY <1>5, <1>6, <1>7, <1>8, <1>9

LEMMA LeaveType ==
    ASSUME TypeInv, NEW c \in Consumers, Leave(c)
    PROVE  GroupTypeOK' /\ UNCHANGED logEnd
<1>1. <<>> \in Seq(Request)
  OBVIOUS
<1>2. commitQueue' \in [Consumers -> Seq(Request)]
  BY <1>1 DEF TypeInv, TypeOK, GroupTypeOK, Leave
<1> QED
  BY <1>2 DEF TypeInv, TypeOK, GroupTypeOK, Leave

LEMMA TypeLifecycle ==
    ASSUME TypeInv, NEW c \in Consumers,
           Start(c) \/ StopRunning(c) \/ Cleanup(c) \/ Crash(c) \/ Deliver(c)
    PROVE  TypeInv'
<1> USE DEF TypeInv, processVars, redisVars, outputVars, ghostVars, groupVars
<1>1. CASE Start(c)
  BY <1>1 DEF Start, Goto, TypeOK, GroupTypeOK, Bounds, Steps, Working
<1>2. CASE StopRunning(c)
  BY <1>2 DEF StopRunning, Goto, TypeOK, GroupTypeOK, Bounds, Steps, Working
<1>3. CASE Cleanup(c)
  <2>1. GroupTypeOK' /\ UNCHANGED logEnd
    BY <1>3, LeaveType DEF Cleanup
  <2>2. /\ pc' \in [Consumers -> Steps]
        /\ \A d \in Consumers : pc'[d] \in Working => pc[d] \in Working
    BY <1>3 DEF Cleanup, Goto, TypeOK, Steps, Working
  <2>3. /\ outbox' \in [Consumers -> SUBSET Response]
        /\ responses' \in SUBSET Response /\ faults' \in Nat
    BY <1>3 DEF Cleanup, TypeOK, CallWorks, CallFails
  <2> QED
    BY <1>3, <2>1, <2>2, <2>3 DEF Cleanup, TypeOK, Bounds
<1>4. CASE Crash(c)
  <2>1. GroupTypeOK' /\ UNCHANGED logEnd
    BY <1>4, LeaveType DEF Crash
  <2>2. /\ pc' \in [Consumers -> Steps]
        /\ cur' \in [Consumers -> Offset]
        /\ \A d \in Consumers : pc'[d] \in Working => pc[d] \in Working /\ cur'[d] = cur[d]
    BY <1>4, SomeOffsetType DEF Crash, Goto, TypeOK, Steps, Working
  <2>3. context' \in [Consumers -> Context]
    BY <1>4, NoContextType DEF Crash, TypeOK, Context
  <2> QED
    BY <1>4, <2>1, <2>2, <2>3 DEF Crash, TypeOK, Bounds, Context
<1>5. CASE Deliver(c)
  <2>1. outbox' \in [Consumers -> SUBSET Response] /\ responses' \in SUBSET Response
    BY <1>5 DEF Deliver, TypeOK
  <2> QED
    BY <1>5, <2>1 DEF Deliver, TypeOK, GroupTypeOK, Bounds
<1> QED
  BY <1>1, <1>2, <1>3, <1>4, <1>5

LEMMA TypeStep ==
    ASSUME TruthInv, [Next]_vars
    PROVE  TypeInv'
<1>1. TypeInv /\ \A c \in Consumers : MoreToDo(c)
  BY DEF TruthInv, Sound
<1>2. CASE UNCHANGED vars
  BY <1>1, <1>2 DEF TypeInv, TypeOK, GroupTypeOK, Bounds, vars,
                    groupVars, processVars, redisVars, outputVars, ghostVars
<1>3. CASE Next
  BY <1>1, <1>3, TypeGroup, TypeOutside, TypePoll, TypeDecide, TypeRecord, TypeLifecycle
     DEF Next, Process
<1> QED
  BY <1>2, <1>3

-----------------------------------------------------------------------------
(* What has been done stays done: nothing takes a user out of the set, and *)
(* a record that has expired has been there.                               *)
Grows ==
    /\ blocked[ProcessorDb] \subseteq blocked'[ProcessorDb]
    /\ \A u \in Users : blockRecord[u] # "none" => blockRecord'[u] # "none"
    /\ queued \subseteq queued'

LEMMA EffectStays ==
    ASSUME TypeInv, Grows, NEW x, NEW action, Effect(x, action)
    PROVE  Effect(x, action)'
<1>1. blocked[ProcessorDb] \subseteq Users
  BY DEF TypeInv, TypeOK
<1>2. Message(x)' = Message(x)
  BY DEF Message
<1>3. CASE action = "block"
  <2>1. Message(x).user \in blocked[ProcessorDb] /\ blockRecord[Message(x).user] # "none"
    BY <1>3 DEF Effect
  <2> QED
    BY <1>1, <1>2, <1>3, <2>1 DEF Effect, Grows
<1>4. CASE action \in {"investigate", "review"}
  <2>1. <<x, action>> \in queued
    BY <1>4 DEF Effect
  <2> QED
    BY <1>4, <2>1 DEF Effect, Grows
<1>5. CASE action \notin {"block", "investigate", "review"}
  BY <1>5 DEF Effect
<1> QED
  BY <1>3, <1>4, <1>5

LEMMA HonestStays ==
    ASSUME TypeInv, Grows, NEW r, Honest(r)
    PROVE  Honest(r)'
BY EffectStays DEF Honest

(* The process goes on, or has no action behind it.                        *)
GoesOn(d) ==
    \/ /\ pc'[d] \in AfterAction => pc[d] \in AfterAction
       /\ pc'[d] = "act_more" => pc[d] = "act_more"
       /\ cur'[d] = cur[d]
       /\ context'[d].action = context[d].action
       /\ context'[d].failed = context[d].failed
    \/ pc'[d] \notin AfterAction \cup {"act_more"}

LEMMA SoundStays ==
    ASSUME TruthInv, Grows, NEW d \in Consumers, GoesOn(d)
    PROVE  Sound(d)'
<1>1. TypeInv /\ Sound(d)
  BY DEF TruthInv
<1>2. CASE pc'[d] \notin AfterAction \cup {"act_more"}
  BY <1>2 DEF Sound, MoreToDo
<1>3. CASE /\ pc'[d] \in AfterAction => pc[d] \in AfterAction
           /\ pc'[d] = "act_more" => pc[d] = "act_more"
           /\ cur'[d] = cur[d]
           /\ context'[d].action = context[d].action
           /\ context'[d].failed = context[d].failed
  <2>1. MoreToDo(d)'
    BY <1>1, <1>3 DEF Sound, MoreToDo
  <2>2. ASSUME pc'[d] = "act_more", context'[d].action = "block"
        PROVE  UserOf(d)' \in blocked'[ProcessorDb]
    <3>1. UserOf(d) \in blocked[ProcessorDb]
      BY <1>1, <1>3, <2>2 DEF Sound
    <3>2. UserOf(d)' = UserOf(d)
      BY <1>3 DEF UserOf, Message
    <3> QED
      BY <3>1, <3>2 DEF Grows
  <2>3. ASSUME pc'[d] \in AfterAction, ~context'[d].failed
        PROVE  Effect(cur[d], context[d].action)'
    <3>1. PICK x, a : x = cur[d] /\ a = context[d].action
      OBVIOUS
    <3>2. Effect(x, a)
      BY <1>1, <1>3, <2>3, <3>1 DEF Sound
    <3>3. Effect(x, a)'
      BY <1>1, <3>2, EffectStays
    <3>4. cur'[d] = x /\ context'[d].action = a
      BY <1>3, <3>1
    <3> QED
      BY <3>3, <3>4
  <2> QED
    BY <2>1, <2>2, <2>3 DEF Sound
<1> QED
  BY <1>2, <1>3 DEF GoesOn

(* A step keeps the invariant when the processes it concerns stay sound    *)
(* and the responses it adds are honest.                                   *)
LEMMA TruthStep ==
    ASSUME TruthInv, TypeInv', Grows,
           \A d \in Consumers : GoesOn(d) \/ Sound(d)',
           \A d \in Consumers : \A r \in outbox'[d] : r \in outbox[d] \/ Honest(r)',
           \A r \in responses' : r \in responses \/ \E d \in Consumers : r \in outbox[d]
    PROVE  TruthInv'
<1>1. \A d \in Consumers : Sound(d)'
  BY SoundStays
<1>2. \A r : Honest(r) => Honest(r)'
  BY HonestStays DEF TruthInv
<1>3. \A d \in Consumers : \A r \in outbox'[d] : Honest(r)'
  BY <1>2 DEF TruthInv
<1>4. \A r \in responses' : Honest(r)'
  BY <1>2 DEF TruthInv
<1> QED
  BY <1>1, <1>3, <1>4 DEF TruthInv

LEMMA TruthInit == Init => TruthInv
<1> SUFFICES ASSUME Init PROVE TruthInv
  OBVIOUS
<1>1. \A c \in Consumers : pc[c] = "poll" /\ outbox[c] = {}
  BY DEF Init
<1>2. responses = {}
  BY DEF Init
<1> QED
  BY <1>1, <1>2, TypeInit DEF TruthInv, Sound, MoreToDo, AfterAction

(* Steps that leave alone what an action leaves in Redis.                  *)
LEMMA GrowsUnchanged ==
    ASSUME UNCHANGED <<blocked, blockRecord, queued>>
    PROVE  Grows
BY DEF Grows

LEMMA TruthOutside ==
    ASSUME TruthInv, TypeInv',
           \/ Group \/ UNCHANGED vars
           \/ \E p \in Partitions : RaiseAlert(p)
           \/ \E u \in Users : BlockRecordExpires(u)
    PROVE  TruthInv'
<1>1. UNCHANGED <<pc, cur, context, outbox, responses, blocked, queued>>
  BY DEF Group, RaiseAlert, BlockRecordExpires, vars, localVars, processVars, redisVars,
         outputVars
<1>2. Grows
  <2>1. CASE UNCHANGED blockRecord
    BY <1>1, <2>1, GrowsUnchanged
  <2>2. CASE \E u \in Users : BlockRecordExpires(u)
    <3>1. \A u \in Users : blockRecord[u] # "none" => blockRecord'[u] # "none"
      BY <2>2 DEF BlockRecordExpires, TruthInv, TypeInv, TypeOK
    <3> QED
      BY <1>1, <3>1 DEF Grows
  <2> QED
    BY <2>1, <2>2 DEF Group, RaiseAlert, vars, localVars, redisVars
<1>3. \A d \in Consumers : GoesOn(d)
  BY <1>1 DEF GoesOn
<1> QED
  BY <1>1, <1>2, <1>3, TruthStep

(* No process has changed but c.                                           *)
Others(c) == \A d \in Consumers \ {c} : pc'[d] = pc[d] /\ cur'[d] = cur[d] /\ context'[d] = context[d]

LEMMA OthersGoOn ==
    ASSUME NEW c \in Consumers, Others(c), GoesOn(c)
    PROVE  \A d \in Consumers : GoesOn(d)
BY DEF Others, GoesOn

(* Steps after which c has no action behind it.                            *)
LEMMA TruthIdle ==
    ASSUME TruthInv, TypeInv', NEW c \in Consumers,
           \/ Start(c) \/ Poll(c) \/ Enrich(c) \/ Commit(c)
           \/ StopRunning(c) \/ Cleanup(c) \/ Crash(c)
    PROVE  TruthInv'
<1> USE DEF processVars, redisVars, outputVars, PollAlert, PollBadJson, PollBadBytes
<1>1. Grows
  BY GrowsUnchanged DEF Start, Poll, Enrich, Commit, StopRunning, Cleanup, Crash
<1>2. Poll(c) => pc[c] \notin AfterAction \cup {"act_more"}
  BY DEF Poll, AfterAction
<1>3. pc \in [Consumers -> Steps]
  BY DEF TruthInv, TypeInv, TypeOK
<1>4. \/ pc' = pc /\ Poll(c)
      \/ \E s \in {"poll", "enrich", "act", "stopping", "down"} : pc' = [pc EXCEPT ![c] = s]
  BY DEF Start, Poll, Enrich, Commit, StopRunning, Cleanup, Crash, Goto
<1>5. pc'[c] \notin AfterAction \cup {"act_more"}
  BY <1>2, <1>3, <1>4 DEF AfterAction
<1>6. \A d \in Consumers \ {c} : pc'[d] = pc[d]
  BY <1>3, <1>4
<1>7. \A d \in Consumers \ {c} : cur'[d] = cur[d]
  <2>1. cur' = cur \/ \E x : cur' = [cur EXCEPT ![c] = x]
    BY DEF Start, Poll, Enrich, Commit, StopRunning, Cleanup, Crash
  <2>2. cur \in [Consumers -> Offset]
    BY DEF TruthInv, TypeInv, TypeOK
  <2> QED
    BY <2>1, <2>2
<1>8. \A d \in Consumers \ {c} : context'[d] = context[d]
  <2>1. context' = context \/ \E e : context' = [context EXCEPT ![c] = e]
    BY DEF Start, Poll, Enrich, Commit, StopRunning, Cleanup, Crash
  <2>2. context = [d \in Consumers |-> context[d]]
    BY DEF TruthInv, TypeInv, TypeOK
  <2> QED
    BY <2>1, <2>2
<1>9. \A d \in Consumers : GoesOn(d)
  BY <1>5, <1>6, <1>7, <1>8, OthersGoOn DEF Others, GoesOn
<1>10. /\ \A d \in Consumers : outbox'[d] \subseteq outbox[d]
       /\ responses' \subseteq responses \cup outbox[c]
  <2>1. \/ UNCHANGED outputVars
        \/ /\ outbox' = [outbox EXCEPT ![c] = {}]
           /\ responses' = responses \/ responses' = responses \cup outbox[c]
    BY DEF Start, Poll, Enrich, Commit, StopRunning, Cleanup, Crash
  <2>2. outbox \in [Consumers -> SUBSET Response]
    BY DEF TruthInv, TypeInv, TypeOK
  <2> QED
    BY <2>1, <2>2
<1> QED
  BY <1>1, <1>9, <1>10, TruthStep

(* Steps after the action.                                                 *)
LEMMA TruthRecord ==
    ASSUME TruthInv, TypeInv', NEW c \in Consumers,
           ReadRisk(c) \/ WriteRisk(c) \/ Audit(c) \/ Publish(c)
    PROVE  TruthInv'
<1> USE DEF processVars, redisVars, outputVars
<1>1. Grows
  BY GrowsUnchanged DEF ReadRisk, WriteRisk, Audit, Publish
<1>2. pc \in [Consumers -> Steps] /\ context \in [Consumers -> Context]
  BY DEF TruthInv, TypeInv, TypeOK, Context
<1>3. /\ pc[c] \in AfterAction
      /\ \E s \in AfterAction \cup {"commit"} : pc' = [pc EXCEPT ![c] = s]
  BY DEF ReadRisk, WriteRisk, Audit, Publish, Goto, AfterAction
<1>4. cur' = cur
  BY DEF ReadRisk, WriteRisk, Audit, Publish
<1>5. \A d \in Consumers : /\ context'[d].action = context[d].action
                           /\ context'[d].failed = context[d].failed
  <2>1. context' = context \/ \E r : context' = [context EXCEPT ![c].risk = r]
    BY DEF ReadRisk, WriteRisk, Audit, Publish
  <2>2. ASSUME NEW r, context' = [context EXCEPT ![c].risk = r]
        PROVE  \A d \in Consumers : /\ context'[d].action = context[d].action
                                    /\ context'[d].failed = context[d].failed
    <3>1. PICK e : e = [context[c] EXCEPT !.risk = r]
      OBVIOUS
    <3>2. e.action = context[c].action /\ e.failed = context[c].failed
      BY <1>2, <3>1 DEF Context
    <3>3. context' = [context EXCEPT ![c] = e]
      BY <2>2, <3>1, Zenon
    <3> QED
      BY <1>2, <3>2, <3>3
  <2> QED
    BY <2>1, <2>2
<1>6. \A d \in Consumers : GoesOn(d)
  BY <1>2, <1>3, <1>4, <1>5 DEF GoesOn, AfterAction
<1>7. responses' = responses
  BY DEF ReadRisk, WriteRisk, Audit, Publish
<1>8. \A d \in Consumers : \A r \in outbox'[d] : r \in outbox[d] \/ Honest(r)'
  <2>1. outbox' = outbox \/ outbox' = [outbox EXCEPT ![c] = outbox[c] \cup {ResponseOf(c)}]
    BY DEF ReadRisk, WriteRisk, Audit, Publish
  <2>2. PICK q : q = ResponseOf(c)
    OBVIOUS
  <2>3. Honest(q)
    BY <1>3, <2>2 DEF TruthInv, Sound, Honest, ResponseOf
  <2>4. Honest(q)'
    BY <1>1, <2>3, HonestStays DEF TruthInv
  <2>5. outbox \in [Consumers -> SUBSET Response]
    BY DEF TruthInv, TypeInv, TypeOK
  <2>6. \A d \in Consumers : \A r \in outbox'[d] : r \in outbox[d] \/ r = q
    BY <2>1, <2>2, <2>5
  <2> QED
    BY <2>4, <2>6
<1> QED
  BY <1>1, <1>6, <1>7, <1>8, TruthStep

LEMMA TruthDeliver ==
    ASSUME TruthInv, TypeInv', NEW c \in Consumers, Deliver(c)
    PROVE  TruthInv'
<1> USE DEF Deliver, processVars, redisVars, outputVars
<1>1. Grows
  BY GrowsUnchanged
<1>2. \A d \in Consumers : GoesOn(d)
  BY DEF GoesOn
<1>3. outbox \in [Consumers -> SUBSET Response]
  BY DEF TruthInv, TypeInv, TypeOK
<1>4. PICK r \in outbox[c] : responses' = responses \cup {r} /\ outbox' = [outbox EXCEPT ![c] = @ \ {r}]
  OBVIOUS
<1>5. \A d \in Consumers : outbox'[d] \subseteq outbox[d]
  BY <1>3, <1>4
<1>6. \A q \in responses' : q \in responses \/ \E d \in Consumers : q \in outbox[d]
  BY <1>4
<1> QED
  BY <1>1, <1>2, <1>5, <1>6, TruthStep

(* The first command of an action.  One that needs no second is over.      *)
LEMMA TruthAct ==
    ASSUME TruthInv, TypeInv', NEW c \in Consumers, Act(c)
    PROVE  TruthInv'
<1>1. TypeInv /\ pc[c] \in Working
  BY DEF TruthInv, Act, Working
<1>2. UNCHANGED <<cur, outbox, responses, blockRecord, queued>>
  BY DEF Act, outputVars
<1>3. /\ pc \in [Consumers -> Steps] /\ context \in [Consumers -> Context]
      /\ blocked \in [{DetectorDb, ProcessorDb} -> SUBSET Users]
  BY <1>1 DEF TypeInv, TypeOK, Context
<1>4. PICK a : a = context[c].action
  OBVIOUS
<1>5. \/ blocked' = blocked
      \/ a = "block" /\ blocked' = [blocked EXCEPT ![ProcessorDb] = blocked[ProcessorDb] \cup {UserOf(c)}]
  BY <1>4 DEF Act
<1>6. Grows
  BY <1>2, <1>3, <1>5 DEF Grows
<1>7. UNCHANGED responses /\ \A d \in Consumers \ {c} : GoesOn(d)
  <2>1. \A d \in Consumers \ {c} : pc'[d] = pc[d]
    <3>1. PICK s : pc' = [pc EXCEPT ![c] = s]
      BY DEF Act, Goto
    <3> QED
      BY <1>3, <3>1
  <2>2. \A d \in Consumers \ {c} : context'[d] = context[d]
    <3>1. context' = context \/ context' = [context EXCEPT ![c].failed = TRUE]
      BY DEF Act
    <3>2. PICK e : e = [context[c] EXCEPT !.failed = TRUE]
      OBVIOUS
    <3>3. context' = context \/ context' = [context EXCEPT ![c] = e]
      BY <3>1, <3>2, Zenon
    <3> QED
      BY <1>3, <3>3
  <2> QED
    BY <1>2, <2>1, <2>2 DEF GoesOn
<1>8. ASSUME pc' = [pc EXCEPT ![c] = AfterFirstCall(a)], context' = context,
             a = "block" => blocked' = [blocked EXCEPT ![ProcessorDb] = blocked[ProcessorDb] \cup {UserOf(c)}]
      PROVE  Sound(c)'
  <2>1. pc'[c] = AfterFirstCall(a) /\ context'[c].action = a
    BY <1>3, <1>4, <1>8
  <2>2. MoreToDo(c)'
    BY <2>1 DEF MoreToDo, AfterFirstCall
  <2>3. a = "block" => UserOf(c)' \in blocked'[ProcessorDb]
    <3>1. UserOf(c)' = UserOf(c)
      BY <1>2 DEF UserOf, Message
    <3> QED
      BY <1>3, <1>8, <3>1
  <2>4. ASSUME pc'[c] \in AfterAction
        PROVE  Effect(cur[c], context[c].action)'
    BY <2>1, <2>4 DEF AfterFirstCall, AfterAction, Effect
  <2>5. context'[c].action = "block" => UserOf(c)' \in blocked'[ProcessorDb]
    BY <2>1, <2>3
  <2> QED
    BY <2>2, <2>4, <2>5 DEF Sound
<1>9. ASSUME pc' = [pc EXCEPT ![c] = "read_risk"],
             context' = [context EXCEPT ![c].failed = TRUE]
      PROVE  Sound(c)'
  <2>1. pc'[c] = "read_risk"
    BY <1>3, <1>9
  <2>2. context'[c].failed
    <3>1. PICK e : e = [context[c] EXCEPT !.failed = TRUE]
      OBVIOUS
    <3>2. context' = [context EXCEPT ![c] = e]
      BY <1>9, <3>1, Zenon
    <3>3. e.failed
      BY <1>3, <3>1 DEF Context
    <3> QED
      BY <1>3, <3>2, <3>3
  <2>3. pc'[c] # "act_more"
    BY <2>1
  <2> QED
    BY <2>2, <2>3, Zenon DEF Sound, MoreToDo
<1>10. Sound(c)'
  <2>1. \/ /\ pc' = [pc EXCEPT ![c] = AfterFirstCall(a)] /\ context' = context
           /\ a = "block" => blocked' = [blocked EXCEPT ![ProcessorDb] = blocked[ProcessorDb] \cup {UserOf(c)}]
        \/ /\ pc' = [pc EXCEPT ![c] = "read_risk"]
           /\ context' = [context EXCEPT ![c].failed = TRUE]
    BY <1>4 DEF Act, Goto
  <2> QED
    BY <1>8, <1>9, <2>1, Zenon
<1> QED
  BY <1>2, <1>6, <1>7, <1>10, TruthStep

(* The second command: what it does not fail to do is done.                *)
LEMMA TruthActMore ==
    ASSUME TruthInv, TypeInv', NEW c \in Consumers, ActMore(c)
    PROVE  TruthInv'
<1>1. TypeInv /\ Sound(c) /\ pc[c] = "act_more" /\ pc[c] \in Working
  BY DEF TruthInv, ActMore, Working
<1>2. UNCHANGED <<cur, outbox, responses, blocked>>
  BY DEF ActMore, outputVars
<1>3. /\ pc \in [Consumers -> Steps] /\ context \in [Consumers -> Context]
      /\ blockRecord \in [Users -> {"none", "live", "expired"}]
  BY <1>1 DEF TypeInv, TypeOK, Context
<1>4. PICK x, a : x = cur[c] /\ a = context[c].action
  OBVIOUS
<1>5. PICK e : e = [context[c] EXCEPT !.failed = TRUE]
  OBVIOUS
<1>6. UserOf(c) \in Users /\ UserOf(c) = Message(x).user
  BY <1>1, <1>4, CurrentType DEF UserOf
<1>7. \/ /\ context' = context
         /\ \/ /\ a = "block" /\ blockRecord' = [blockRecord EXCEPT ![UserOf(c)] = "live"]
               /\ UNCHANGED queued
            \/ /\ a # "block" /\ queued' = queued \cup {<<x, a>>}
               /\ UNCHANGED blockRecord
      \/ /\ context' = [context EXCEPT ![c] = e]
         /\ UNCHANGED <<blockRecord, queued>>
  BY <1>4, <1>5, Zenon DEF ActMore
<1>8. Grows
  BY <1>2, <1>3, <1>7 DEF Grows
<1>9. pc' = [pc EXCEPT ![c] = "read_risk"]
  BY DEF ActMore, Goto
<1>10. \A d \in Consumers \ {c} : GoesOn(d)
  BY <1>2, <1>3, <1>7, <1>9 DEF GoesOn
<1>11. pc'[c] = "read_risk"
  BY <1>3, <1>9
<1>12. ASSUME ~context'[c].failed
       PROVE  Effect(cur[c], context[c].action)'
  <2>1. e.failed
    BY <1>3, <1>5 DEF Context
  <2>2. context' = context
    BY <1>3, <1>7, <1>12, <2>1
  <2>3. cur'[c] = x /\ context'[c].action = a
    BY <1>2, <1>4, <2>2
  <2>4. Effect(x, a)'
    <3>1. CASE a = "block"
      <4>1. UserOf(c) \in blocked'[ProcessorDb]
        BY <1>1, <1>2, <1>4, <3>1 DEF Sound
      <4>2. blockRecord'[UserOf(c)] = "live"
        BY <1>3, <1>6, <1>7, <1>12, <2>1, <3>1
      <4> QED
        BY <1>6, <3>1, <4>1, <4>2 DEF Effect, Message
    <3>2. CASE a \in {"investigate", "review"}
      <4>1. <<x, a>> \in queued'
        BY <1>3, <1>7, <1>12, <2>1, <3>2
      <4> QED
        BY <3>2, <4>1 DEF Effect
    <3> QED
      BY <1>1, <1>4, <3>1, <3>2 DEF Sound, MoreToDo
  <2> QED
    BY <2>3, <2>4
<1>13. Sound(c)'
  BY <1>11, <1>12 DEF Sound, MoreToDo
<1> QED
  BY <1>2, <1>8, <1>10, <1>13, TruthStep

LEMMA TruthNext ==
    ASSUME TruthInv, [Next]_vars
    PROVE  TruthInv'
<1>1. TypeInv'
  BY TypeStep
<1> QED
  BY <1>1, TruthOutside, TruthIdle, TruthAct, TruthActMore, TruthRecord, TruthDeliver
     DEF Next, Process

(* Every variable keeps its type.                                          *)
THEOREM AlertTypesCorrect == Spec => []TypeOK
<1>1. TruthInv => TypeOK
  BY DEF TruthInv, TypeInv
<1> QED
  BY TruthInit, TruthNext, <1>1, PTL DEF Spec

(* A published response that says "completed" is about something that was  *)
(* done, however processes are stopped, killed and rebalanced between the  *)
(* commands of an action, and whichever of them fail                       *)
(* (execute_response_action, publish_response).                            *)
THEOREM CompletedMeansDone == Spec => []ResponsesTellTruth
<1>1. TruthInv => ResponsesTellTruth
  BY DEF TruthInv, Honest, Effect, ResponsesTellTruth
<1> QED
  BY TruthInit, TruthNext, <1>1, PTL DEF Spec

-----------------------------------------------------------------------------
(* The processors implement AtLeastOnce: an offset is committed only when  *)
(* everything below it is done with.                                       *)

(* A message is done with, or in the hands of c.                           *)
InHand(c, p, o) == pc[c] \in Working /\ cur[c] = [part |-> p, off |-> o]
Reached(c, p, o) == Done(p, o) \/ InHand(c, p, o)

(* What may be committed.                                                  *)
Granted(r) == r.next <= logEnd[r.part] /\ \A o \in 0 .. r.next - 1 : Done(r.part, o)

Resets ==
    \A p \in Partitions : resetTo[p] <= logEnd[p] /\ (ResetToLatest \/ resetTo[p] = 0)
CommittedDone == \A p \in Partitions : \A o \in 0 .. committed[p] - 1 : Done(p, o)
RequestsGranted ==
    \A c \in Consumers : \A i \in 1 .. Len(commitQueue[c]) : Granted(commitQueue[c][i])

(* An alert in hand is in the log, and what is before it is done with.     *)
Follows(c) ==
    pc[c] \in Working =>
        /\ cur[c].off < logEnd[cur[c].part]
        /\ \A o \in 0 .. cur[c].off - 1 : Done(cur[c].part, o)

PositionsReached ==
    \A p \in Partitions : owner[p] # NoOwner =>
        \A o \in 0 .. position[p] - 1 : Reached(owner[p], p, o)

AckInv ==
    /\ Resets
    /\ CommittedDone
    /\ RequestsGranted
    /\ \A c \in Consumers : Follows(c)
    /\ PositionsReached

(* What is done with stays so, and logs grow.                              *)
Monotone ==
    /\ handled \subseteq handled'
    /\ \A p \in Partitions : resetTo[p] <= resetTo'[p] /\ logEnd[p] <= logEnd'[p]

LEMMA AckInit == Init => AckInv
<1> SUFFICES ASSUME Init PROVE AckInv
  OBVIOUS
<1> USE DEF Init, GroupInit
<1>1. Resets /\ CommittedDone
  BY DEF Resets, CommittedDone, NoOffset
<1>2. RequestsGranted
  BY DEF RequestsGranted
<1>3. \A c \in Consumers : Follows(c)
  BY DEF Follows, Working
<1>4. PositionsReached
  BY DEF PositionsReached
<1> QED
  BY <1>1, <1>2, <1>3, <1>4 DEF AckInv

LEMMA MonotoneUnchanged ==
    ASSUME TypeInv, handled \subseteq handled', UNCHANGED <<resetTo, logEnd>>
    PROVE  Monotone
BY DEF TypeInv, TypeOK, GroupTypeOK, Monotone

LEMMA DoneStays ==
    ASSUME TypeInv, TypeInv', Monotone, NEW p \in Partitions, NEW o \in Int, Done(p, o)
    PROVE  Done(p, o)'
<1>1. resetTo[p] \in Nat /\ resetTo'[p] \in Nat
  BY DEF TypeInv, TypeOK, GroupTypeOK
<1>2. resetTo[p] <= resetTo'[p] /\ handled \subseteq handled'
  BY DEF Monotone
<1>3. CASE [part |-> p, off |-> o] \in handled
  BY <1>2, <1>3 DEF Done
<1>4. CASE o < resetTo[p]
  BY <1>1, <1>2, <1>4 DEF Done
<1> QED
  BY <1>3, <1>4 DEF Done

LEMMA CommittedStays ==
    ASSUME TypeInv, TypeInv', Monotone, CommittedDone, UNCHANGED committed
    PROVE  CommittedDone'
<1> SUFFICES ASSUME NEW p \in Partitions, NEW o \in 0 .. committed[p] - 1
             PROVE  Done(p, o)'
  BY DEF CommittedDone
<1>1. committed[p] \in Nat \cup {-1}
  BY DEF TypeInv, TypeOK, GroupTypeOK, NoOffset
<1>2. Done(p, o) /\ o \in Int
  BY <1>1 DEF CommittedDone
<1> QED
  BY <1>2, DoneStays

LEMMA GrantedStays ==
    ASSUME TypeInv, TypeInv', Monotone, NEW r \in Request, Granted(r)
    PROVE  Granted(r)'
<1>1. r.part \in Partitions /\ r.next \in Nat
  BY DEF Request
<1>2. logEnd \in [Partitions -> Nat] /\ logEnd' \in [Partitions -> Nat]
  BY DEF TypeInv, TypeOK, GroupTypeOK
<1>3. logEnd[r.part] <= logEnd'[r.part]
  BY <1>1 DEF Monotone
<1>4. PICK p : p = r.part
  OBVIOUS
<1>5. \A o \in 0 .. r.next - 1 : Done(p, o)'
  BY <1>1, <1>4, DoneStays DEF Granted
<1> QED
  BY <1>1, <1>2, <1>3, <1>4, <1>5 DEF Granted

(* Requests are dropped, or one that is granted is added.                  *)
LEMMA RequestsStay ==
    ASSUME TypeInv, TypeInv', Monotone, RequestsGranted,
           \A d \in Consumers : \A i \in 1 .. Len(commitQueue'[d]) :
              \/ \E j \in 1 .. Len(commitQueue[d]) : commitQueue'[d][i] = commitQueue[d][j]
              \/ \E r : r = commitQueue'[d][i] /\ Granted(r)'
    PROVE  RequestsGranted'
<1> SUFFICES ASSUME NEW d \in Consumers, NEW i \in 1 .. Len(commitQueue'[d]),
                    NEW q, q = commitQueue'[d][i]
             PROVE  Granted(q)'
  BY DEF RequestsGranted
<1>1. CASE \E j \in 1 .. Len(commitQueue[d]) : commitQueue'[d][i] = commitQueue[d][j]
  <2>1. PICK j \in 1 .. Len(commitQueue[d]) : commitQueue'[d][i] = commitQueue[d][j]
    BY <1>1
  <2>2. PICK r : r = commitQueue[d][j]
    OBVIOUS
  <2>3. commitQueue[d] \in Seq(Request)
    BY DEF TypeInv, TypeOK, GroupTypeOK
  <2>4. r \in Request
    BY <2>2, <2>3, ElementOfSeq
  <2>5. Granted(r)
    BY <2>2 DEF RequestsGranted
  <2>6. Granted(r)'
    BY <2>4, <2>5, GrantedStays
  <2> QED
    BY <2>1, <2>2, <2>6
<1>2. CASE \E r : r = commitQueue'[d][i] /\ Granted(r)'
  BY <1>2
<1> QED
  BY <1>1, <1>2

LEMMA FollowsStays ==
    ASSUME TypeInv, TypeInv', Monotone, NEW c \in Consumers, Follows(c),
           pc'[c] \in Working => pc[c] \in Working /\ cur'[c] = cur[c]
    PROVE  Follows(c)'
<1> SUFFICES ASSUME pc'[c] \in Working PROVE Follows(c)'
  BY DEF Follows
<1>1. pc[c] \in Working /\ cur'[c] = cur[c]
  OBVIOUS
<1>2. PICK p \in Partitions, n \in Nat : p = cur[c].part /\ n = cur[c].off
  BY <1>1, CurrentType
<1>3. n < logEnd[p] /\ \A o \in 0 .. n - 1 : Done(p, o)
  BY <1>1, <1>2 DEF Follows
<1>4. \A o \in 0 .. n - 1 : Done(p, o)'
  BY <1>3, DoneStays
<1>5. logEnd \in [Partitions -> Nat] /\ logEnd' \in [Partitions -> Nat]
  BY DEF TypeInv, TypeOK, GroupTypeOK
<1>6. n < logEnd'[p]
  BY <1>3, <1>5 DEF Monotone
<1> QED
  BY <1>1, <1>2, <1>4, <1>6 DEF Follows

LEMMA PositionsStay ==
    ASSUME TypeInv, TypeInv', Monotone, PositionsReached,
           \A p \in Partitions :
              /\ owner'[p] \in {owner[p], NoOwner}
              /\ \/ position'[p] = position[p]
                 \/ \A o \in 0 .. position'[p] - 1 : Reached(owner[p], p, o)',
           \A d \in Consumers : (\E p \in Partitions : owner'[p] = d) /\ pc[d] \in Working =>
              (pc'[d] \in Working /\ cur'[d] = cur[d]) \/ cur[d] \in handled'
    PROVE  PositionsReached'
<1> SUFFICES ASSUME NEW p \in Partitions, owner'[p] # NoOwner,
                    NEW d, d = owner'[p], NEW o \in 0 .. position'[p] - 1
             PROVE  Reached(d, p, o)'
  BY DEF PositionsReached
<1>1. owner \in [Partitions -> Consumers \cup {NoOwner}] /\ position'[p] \in Nat
  BY DEF TypeInv, TypeOK, GroupTypeOK
<1>2. d = owner[p] /\ d \in Consumers /\ o \in Int
  BY <1>1
<1>3. CASE position'[p] = position[p]
  <2>1. Reached(d, p, o)
    BY <1>2, <1>3 DEF PositionsReached
  <2>2. CASE Done(p, o)
    BY <1>2, <2>2, DoneStays DEF Reached
  <2>3. CASE InHand(d, p, o)
    BY <1>2, <2>3 DEF Reached, InHand, Done
  <2> QED
    BY <2>1, <2>2, <2>3 DEF Reached
<1>4. CASE \A n \in 0 .. position'[p] - 1 : Reached(owner[p], p, n)'
  BY <1>2, <1>4
<1> QED
  BY <1>3, <1>4

-----------------------------------------------------------------------------
(* Steps that leave the group and what is handled alone, and in which no   *)
(* process takes up or gives up an alert.                                  *)
LEMMA AckQuiet ==
    ASSUME TypeInv, TypeInv', AckInv, UNCHANGED <<groupVars, handled, cur>>,
           \A d \in Consumers : pc'[d] \in Working <=> pc[d] \in Working
    PROVE  AckInv'
<1> USE DEF groupVars
<1>1. Monotone
  BY MonotoneUnchanged
<1>2. Resets'
  BY DEF AckInv, Resets
<1>3. CommittedDone' /\ RequestsGranted'
  BY <1>1, CommittedStays, RequestsStay DEF AckInv
<1>4. \A d \in Consumers : Follows(d)'
  BY <1>1, FollowsStays DEF AckInv
<1>5. PositionsReached'
  BY <1>1, PositionsStay DEF AckInv
<1> QED
  BY <1>2, <1>3, <1>4, <1>5 DEF AckInv

LEMMA StepOnly ==
    ASSUME TypeInv, NEW c \in Consumers, NEW step, Goto(c, step),
           pc[c] \in Working <=> step \in Working
    PROVE  \A d \in Consumers : pc'[d] \in Working <=> pc[d] \in Working
BY DEF TypeInv, TypeOK, Goto

LEMMA QuietLocal ==
    ASSUME TypeInv, TypeInv', AckInv, NEW c \in Consumers,
           \/ Start(c) \/ StopRunning(c) \/ Deliver(c)
           \/ Enrich(c) \/ Act(c) \/ ActMore(c) \/ ReadRisk(c) \/ WriteRisk(c)
           \/ Audit(c) \/ Publish(c)
    PROVE  AckInv'
<1> USE DEF processVars, ghostVars
<1>1. UNCHANGED <<groupVars, handled, cur>>
  BY DEF Start, StopRunning, Deliver, Enrich, Act, ActMore, ReadRisk, WriteRisk, Audit, Publish
<1>2. CASE Deliver(c)
  <2>1. UNCHANGED pc
    BY <1>2 DEF Deliver
  <2> QED
    BY <1>1, <2>1, AckQuiet
<1>3. CASE Start(c) \/ StopRunning(c)
  <2>1. \E step \in {"poll", "stopping"} : Goto(c, step) /\ pc[c] \in {"down", "poll"}
    BY <1>3 DEF Start, StopRunning
  <2>2. \A d \in Consumers : pc'[d] \in Working <=> pc[d] \in Working
    BY <2>1, StepOnly DEF Working
  <2> QED
    BY <1>1, <2>2, AckQuiet
<1>4. CASE \/ Enrich(c) \/ Act(c) \/ ActMore(c) \/ ReadRisk(c) \/ WriteRisk(c)
           \/ Audit(c) \/ Publish(c)
  <2>1. pc[c] \in Working
    BY <1>4 DEF Enrich, Act, ActMore, ReadRisk, WriteRisk, Audit, Publish, Working
  <2>2. \A action : AfterFirstCall(action) \in Working
    BY DEF AfterFirstCall, Working
  <2>3. \E step \in Working : Goto(c, step)
    <3>1. CASE Act(c)
      <4>1. (\E action : Goto(c, AfterFirstCall(action))) \/ Goto(c, "read_risk")
        BY <3>1 DEF Act
      <4> QED
        BY <2>2, <4>1 DEF Working
    <3>2. CASE Enrich(c) \/ ActMore(c) \/ ReadRisk(c) \/ WriteRisk(c) \/ Audit(c) \/ Publish(c)
      <4>1. \/ Goto(c, "act") \/ Goto(c, "read_risk") \/ Goto(c, "write_risk")
            \/ Goto(c, "audit") \/ Goto(c, "publish") \/ Goto(c, "commit")
        BY <3>2 DEF Enrich, ActMore, ReadRisk, WriteRisk, Audit, Publish
      <4> QED
        BY <4>1 DEF Working
    <3> QED
      BY <1>4, <3>1, <3>2
  <2>4. \A d \in Consumers : pc'[d] \in Working <=> pc[d] \in Working
    BY <2>1, <2>3, StepOnly
  <2> QED
    BY <1>1, <2>4, AckQuiet
<1> QED
  BY <1>2, <1>3, <1>4

-----------------------------------------------------------------------------
LEMMA AckRaise ==
    ASSUME TypeInv, TypeInv', AckInv, NEW p \in Partitions, Produce(p), UNCHANGED localVars
    PROVE  AckInv'
<1> USE DEF Produce, localVars, processVars, ghostVars
<1>1. /\ logEnd \in [Partitions -> Nat] /\ resetTo \in [Partitions -> Nat]
      /\ logEnd' \in [Partitions -> Nat]
  BY DEF TypeInv, TypeOK, GroupTypeOK
<1>2. \A q \in Partitions : logEnd[q] <= logEnd'[q]
  BY <1>1
<1>3. Monotone
  BY <1>1, <1>2 DEF Monotone
<1>4. Resets'
  BY <1>1, <1>2 DEF AckInv, Resets
<1>5. CommittedDone' /\ RequestsGranted'
  BY <1>3, CommittedStays, RequestsStay DEF AckInv
<1>6. \A d \in Consumers : Follows(d)'
  BY <1>3, FollowsStays DEF AckInv
<1>7. PositionsReached'
  BY <1>3, PositionsStay DEF AckInv
<1> QED
  BY <1>4, <1>5, <1>6, <1>7 DEF AckInv

LEMMA AckRevoke ==
    ASSUME TypeInv, TypeInv', AckInv, NEW p \in Partitions, Revoke(p), UNCHANGED localVars
    PROVE  AckInv'
<1> USE DEF Revoke, localVars, processVars, ghostVars
<1>1. Monotone
  BY MonotoneUnchanged
<1>2. Resets'
  BY DEF AckInv, Resets
<1>3. CommittedDone' /\ RequestsGranted'
  BY <1>1, CommittedStays, RequestsStay DEF AckInv
<1>4. \A d \in Consumers : Follows(d)'
  BY <1>1, FollowsStays DEF AckInv
<1>5. \A q \in Partitions : owner'[q] \in {owner[q], NoOwner}
  BY DEF TypeInv, TypeOK, GroupTypeOK
<1>6. PositionsReached'
  BY <1>1, <1>5, PositionsStay DEF AckInv
<1> QED
  BY <1>2, <1>3, <1>4, <1>6 DEF AckInv

(* What is committed is what was asked for, and that was done with.        *)
LEMMA AckAnswer ==
    ASSUME TypeInv, TypeInv', AckInv, NEW c \in Consumers, AnswerCommit(c), UNCHANGED localVars
    PROVE  AckInv'
<1> USE DEF localVars, processVars, ghostVars
<1>1. /\ commitQueue \in [Consumers -> Seq(Request)]
      /\ committed \in [Partitions -> Nat \cup {NoOffset}]
  BY DEF TypeInv, TypeOK, GroupTypeOK
<1>2. commitQueue[c] \in Seq(Request) /\ commitQueue[c] # <<>>
  BY <1>1 DEF AnswerCommit
<1>3. PICK r : r = Head(commitQueue[c])
  OBVIOUS
<1>4. r = commitQueue[c][1] /\ r \in Request /\ 1 \in 1 .. Len(commitQueue[c])
  BY <1>2, <1>3, HeadTailProperties, LenProperties, ElementOfSeq
<1>5. Granted(r) /\ r.part \in Partitions /\ r.next \in Nat
  BY <1>4 DEF AckInv, RequestsGranted, Request
<1>6. /\ committed' = committed \/ committed' = [committed EXCEPT ![r.part] = r.next]
      /\ commitQueue' = [commitQueue EXCEPT ![c] = Tail(commitQueue[c])]
      /\ UNCHANGED <<logEnd, owner, position, resetTo, rebalances>>
  BY <1>3 DEF AnswerCommit
<1>7. Monotone
  BY <1>6, MonotoneUnchanged
<1>8. CommittedDone'
  <2>1. \A p \in Partitions : committed'[p] = committed[p] \/ (p = r.part /\ committed'[p] = r.next)
    BY <1>1, <1>5, <1>6
  <2>2. \A p \in Partitions : \A o \in 0 .. committed'[p] - 1 : Done(p, o)
    BY <1>5, <2>1 DEF AckInv, CommittedDone, Granted
  <2> QED
    BY <1>6, <2>2 DEF CommittedDone, Done
<1>9. RequestsGranted'
  <2>1. \A d \in Consumers : \A i \in 1 .. Len(commitQueue'[d]) :
           \E j \in 1 .. Len(commitQueue[d]) : commitQueue'[d][i] = commitQueue[d][j]
    <3> SUFFICES ASSUME NEW d \in Consumers, NEW i \in 1 .. Len(commitQueue'[d])
                 PROVE  \E j \in 1 .. Len(commitQueue[d]) : commitQueue'[d][i] = commitQueue[d][j]
      OBVIOUS
    <3>1. CASE d = c
      <4>1. commitQueue'[d] = Tail(commitQueue[c])
        BY <1>1, <1>6, <3>1
      <4>2. i + 1 \in 1 .. Len(commitQueue[c]) /\ Tail(commitQueue[c])[i] = commitQueue[c][i + 1]
        BY <1>2, <4>1, HeadTailProperties, LenProperties
      <4> QED
        BY <3>1, <4>1, <4>2
    <3>2. CASE d # c
      BY <1>1, <1>6, <3>2
    <3> QED
      BY <3>1, <3>2
  <2> QED
    BY <1>7, <2>1, RequestsStay DEF AckInv
<1>10. Resets'
  BY <1>6 DEF AckInv, Resets
<1>11. \A d \in Consumers : Follows(d)'
  BY <1>7, FollowsStays DEF AckInv
<1>12. PositionsReached'
  BY <1>6, <1>7, PositionsStay DEF AckInv
<1> QED
  BY <1>8, <1>9, <1>10, <1>11, <1>12 DEF AckInv

(* A partition is read from the committed offset, or from where the reset  *)
(* put it.                                                                 *)
LEMMA AckAssign ==
    ASSUME TypeInv, TypeInv', AckInv, NEW c \in Consumers, NEW p \in Partitions, Assign(c, p),
           UNCHANGED localVars
    PROVE  AckInv'
<1> USE DEF localVars, processVars, ghostVars
<1>1. /\ logEnd \in [Partitions -> Nat] /\ resetTo \in [Partitions -> Nat]
      /\ position \in [Partitions -> Nat]
      /\ owner \in [Partitions -> Consumers \cup {NoOwner}]
      /\ committed \in [Partitions -> Nat \cup {NoOffset}]
  BY DEF TypeInv, TypeOK, GroupTypeOK
<1>2. /\ owner' = [owner EXCEPT ![p] = c]
      /\ position' = [position EXCEPT ![p] = StartOffset(p)]
      /\ UNCHANGED <<logEnd, committed, commitQueue>>
      /\ resetTo' = IF committed[p] = NoOffset
                      THEN [resetTo EXCEPT ![p] = StartOffset(p)] ELSE resetTo
  BY DEF Assign
<1>3. committed[p] = NoOffset =>
         /\ StartOffset(p) \in Nat /\ StartOffset(p) <= logEnd[p]
         /\ resetTo[p] <= StartOffset(p)
         /\ ResetToLatest \/ StartOffset(p) = 0
  BY <1>1 DEF AckInv, Resets, StartOffset
<1>4. Monotone /\ Resets'
  BY <1>1, <1>2, <1>3 DEF Monotone, AckInv, Resets
<1>5. CommittedDone' /\ RequestsGranted'
  BY <1>2, <1>4, CommittedStays, RequestsStay DEF AckInv
<1>6. \A d \in Consumers : Follows(d)'
  BY <1>4, FollowsStays DEF AckInv
<1>7. PositionsReached'
  <2> SUFFICES ASSUME NEW q \in Partitions, owner'[q] # NoOwner,
                      NEW d, d = owner'[q], NEW o \in 0 .. position'[q] - 1
               PROVE  Reached(d, q, o)'
    BY DEF PositionsReached
  <2>1. position'[q] \in Nat /\ o \in Int
    BY DEF TypeInv, TypeOK, GroupTypeOK
  <2>2. CASE q # p
    <3>1. owner'[q] = owner[q] /\ position'[q] = position[q]
      BY <1>1, <1>2, <2>2
    <3>2. Reached(d, q, o)
      BY <3>1 DEF AckInv, PositionsReached
    <3>3. CASE Done(q, o)
      BY <1>4, <2>1, <3>3, DoneStays DEF Reached
    <3>4. CASE InHand(d, q, o)
      BY <3>4 DEF Reached, InHand
    <3> QED
      BY <3>2, <3>3, <3>4 DEF Reached
  <2>3. CASE q = p /\ committed[p] # NoOffset
    <3>1. position'[p] = committed[p]
      BY <1>1, <1>2, <2>3 DEF StartOffset
    <3>2. Done(p, o)
      BY <2>3, <3>1 DEF AckInv, CommittedDone
    <3>3. Done(p, o)'
      BY <1>4, <2>1, <3>2, DoneStays
    <3> QED
      BY <2>3, <3>3 DEF Reached
  <2>4. CASE q = p /\ committed[p] = NoOffset
    <3>1. position'[p] = StartOffset(p) /\ resetTo'[p] = StartOffset(p)
      BY <1>1, <1>2, <2>4
    <3>2. Done(p, o)'
      BY <2>1, <2>4, <3>1 DEF Done
    <3> QED
      BY <2>4, <3>2 DEF Reached
  <2> QED
    BY <2>2, <2>3, <2>4
<1> QED
  BY <1>4, <1>5, <1>6, <1>7 DEF AckInv

-----------------------------------------------------------------------------
(* A process that polls has nothing in hand: all that its partition holds  *)
(* before the next message is done with.                                   *)
LEMMA ReadNext ==
    ASSUME TypeInv, AckInv, NEW c \in Consumers, NEW p \in Partitions, pc[c] = "poll", CanPoll(c, p)
    PROVE  /\ position[p] \in Nat /\ position[p] < logEnd[p]
           /\ \A o \in 0 .. position[p] - 1 : Done(p, o)
<1>1. owner[p] = c /\ position[p] < logEnd[p] /\ position[p] \in Nat /\ c # NoOwner
  BY DEF CanPoll, TypeInv, TypeOK, GroupTypeOK
<1>2. \A o \in 0 .. position[p] - 1 : Reached(c, p, o)
  BY <1>1 DEF AckInv, PositionsReached
<1>3. pc[c] \notin Working
  BY DEF Working
<1> QED
  BY <1>1, <1>2, <1>3 DEF Reached, InHand

(* The request for a message that has just been finished with is granted.  *)
LEMMA RequestFinished ==
    ASSUME TypeInv, TypeInv', AckInv, Monotone, UNCHANGED logEnd,
           NEW c \in Consumers, NEW p \in Partitions, NEW n \in Nat, n < logEnd[p],
           \A o \in 0 .. n - 1 : Done(p, o),
           handled' = handled \cup {[part |-> p, off |-> n]},
           RequestCommit(c, p, n) \/ UNCHANGED commitQueue
    PROVE  RequestsGranted'
<1>1. commitQueue \in [Consumers -> Seq(Request)] /\ logEnd[p] \in Nat
  BY DEF TypeInv, TypeOK, GroupTypeOK
<1>2. PICK r : r = [part |-> p, next |-> n + 1]
  OBVIOUS
<1>3. r \in Request /\ r.part = p /\ r.next = n + 1
  BY <1>2 DEF Request
<1>4. Granted(r)'
  <2>1. ASSUME NEW o \in 0 .. n
        PROVE  Done(p, o)'
    <3>1. CASE o = n
      BY <3>1 DEF Done
    <3>2. CASE o # n
      <4>1. Done(p, o) /\ o \in Int
        BY <3>2
      <4> QED
        BY <4>1, DoneStays
    <3> QED
      BY <3>1, <3>2
  <2> QED
    BY <1>1, <1>3, <2>1 DEF Granted
<1>5. ASSUME NEW d \in Consumers, NEW i \in 1 .. Len(commitQueue'[d])
      PROVE  \/ \E j \in 1 .. Len(commitQueue[d]) : commitQueue'[d][i] = commitQueue[d][j]
             \/ commitQueue'[d][i] = r
  <2>1. commitQueue' = [commitQueue EXCEPT ![c] = Append(@, r)] \/ UNCHANGED commitQueue
    BY <1>2 DEF RequestCommit
  <2>2. CASE commitQueue'[d] = commitQueue[d]
    BY <2>2
  <2>3. CASE commitQueue'[d] = Append(commitQueue[d], r)
    <3>1. commitQueue[d] \in Seq(Request)
      BY <1>1
    <3>2. /\ Len(Append(commitQueue[d], r)) = Len(commitQueue[d]) + 1
          /\ Len(commitQueue[d]) \in Nat
          /\ \A j \in 1 .. Len(commitQueue[d]) :
                Append(commitQueue[d], r)[j] = commitQueue[d][j]
          /\ Append(commitQueue[d], r)[Len(commitQueue[d]) + 1] = r
      BY <1>3, <3>1, AppendProperties, LenProperties
    <3> QED
      BY <2>3, <3>2
  <2> QED
    BY <1>1, <2>1, <2>2, <2>3
<1>6. \A d \in Consumers : \A i \in 1 .. Len(commitQueue'[d]) :
         \/ \E j \in 1 .. Len(commitQueue[d]) : commitQueue'[d][i] = commitQueue[d][j]
         \/ \E q : q = commitQueue'[d][i] /\ Granted(q)'
  BY <1>4, <1>5
<1> QED
  BY <1>6, RequestsStay DEF AckInv

LEMMA AckPollAlert ==
    ASSUME TypeInv, TypeInv', AckInv, NEW c \in Consumers, NEW p \in Partitions, PollAlert(c, p)
    PROVE  AckInv'
<1> USE DEF ghostVars
<1>1. PICK x : x = [part |-> p, off |-> position[p]]
  OBVIOUS
<1>2. /\ cur' = [cur EXCEPT ![c] = x] /\ pc' = [pc EXCEPT ![c] = "enrich"]
      /\ position' = [position EXCEPT ![p] = @ + 1]
      /\ UNCHANGED <<logEnd, owner, committed, commitQueue, resetTo, handled>>
      /\ pc[c] = "poll" /\ CanPoll(c, p)
  BY <1>1 DEF PollAlert, Goto, Advance
<1>3. /\ pc \in [Consumers -> Steps] /\ cur \in [Consumers -> Offset]
      /\ position \in [Partitions -> Nat]
  BY DEF TypeInv, TypeOK, GroupTypeOK
<1>4. /\ position[p] < logEnd[p]
      /\ \A o \in 0 .. position[p] - 1 : Done(p, o)
  BY <1>2, ReadNext
<1>5. Monotone
  BY <1>2, MonotoneUnchanged
<1>6. Resets' /\ CommittedDone' /\ RequestsGranted'
  BY <1>2, <1>5, CommittedStays, RequestsStay DEF AckInv, Resets
<1>7. pc'[c] \in Working /\ cur'[c] = x /\ x.part = p /\ x.off = position[p]
      /\ position'[p] = position[p] + 1 /\ pc[c] \notin Working
  BY <1>1, <1>2, <1>3 DEF Working
<1>8. \A o \in 0 .. position[p] - 1 : Done(p, o)'
  <2>1. \A o \in 0 .. position[p] - 1 : o \in Int
    BY <1>3
  <2> QED
    BY <1>4, <1>5, <2>1, DoneStays
<1>9. \A d \in Consumers : Follows(d)'
  <2>1. Follows(c)'
    BY <1>2, <1>4, <1>7, <1>8 DEF Follows
  <2>2. ASSUME NEW d \in Consumers \ {c}
        PROVE  Follows(d)'
    <3>1. pc'[d] = pc[d] /\ cur'[d] = cur[d]
      BY <1>2, <1>3
    <3> QED
      BY <1>5, <3>1, FollowsStays DEF AckInv
  <2> QED
    BY <2>1, <2>2
<1>10. \A o \in 0 .. position'[p] - 1 : Reached(c, p, o)'
  <2> SUFFICES ASSUME NEW o \in 0 .. position'[p] - 1
               PROVE  Reached(c, p, o)'
    OBVIOUS
  <2>1. CASE o = position[p]
    BY <1>1, <1>7, <2>1 DEF Reached, InHand
  <2>2. CASE o # position[p]
    <3>1. o \in 0 .. position[p] - 1
      BY <1>3, <1>7, <2>2
    <3> QED
      BY <1>8, <3>1 DEF Reached
  <2> QED
    BY <2>1, <2>2
<1>11. PositionsReached'
  <2>1. \A q \in Partitions :
           /\ owner'[q] \in {owner[q], NoOwner}
           /\ \/ position'[q] = position[q]
              \/ \A o \in 0 .. position'[q] - 1 : Reached(owner[q], q, o)'
    <3>1. owner[p] = c
      BY <1>2 DEF CanPoll
    <3>2. \A q \in Partitions \ {p} : position'[q] = position[q]
      BY <1>2, <1>3
    <3> QED
      BY <1>2, <1>10, <3>1, <3>2
  <2>2. \A d \in Consumers : pc[d] \in Working => pc'[d] \in Working /\ cur'[d] = cur[d]
    BY <1>2, <1>3, <1>7
  <2> QED
    BY <1>5, <2>1, <2>2, PositionsStay DEF AckInv
<1> QED
  BY <1>6, <1>9, <1>11 DEF AckInv

(* What cannot be decoded is finished with at once.                        *)
LEMMA AckPollBad ==
    ASSUME TypeInv, TypeInv', AckInv, NEW c \in Consumers, NEW p \in Partitions,
           PollBadJson(c, p) \/ PollBadBytes(c, p)
    PROVE  AckInv'
<1> USE DEF processVars
<1>1. PICK n : n = position[p]
  OBVIOUS
<1>2. /\ handled' = handled \cup {[part |-> p, off |-> n]}
      /\ position' = [position EXCEPT ![p] = @ + 1]
      /\ RequestCommit(c, p, n) \/ UNCHANGED commitQueue
      /\ pc' = pc \/ pc' = [pc EXCEPT ![c] = "stopping"]
      /\ UNCHANGED <<logEnd, owner, committed, resetTo, cur>>
      /\ pc[c] = "poll" /\ CanPoll(c, p)
  BY <1>1 DEF PollBadJson, PollBadBytes, Goto, Advance, Finish
<1>3. /\ pc \in [Consumers -> Steps] /\ position \in [Partitions -> Nat]
  BY DEF TypeInv, TypeOK, GroupTypeOK
<1>4. /\ n \in Nat /\ n < logEnd[p]
      /\ \A o \in 0 .. n - 1 : Done(p, o)
  BY <1>1, <1>2, ReadNext
<1>5. Monotone
  BY <1>2, MonotoneUnchanged
<1>6. Resets' /\ CommittedDone'
  BY <1>2, <1>5, CommittedStays DEF AckInv, Resets
<1>7. RequestsGranted'
  BY <1>2, <1>4, <1>5, RequestFinished
<1>8. \A d \in Consumers : pc'[d] \in Working <=> pc[d] \in Working
  BY <1>2, <1>3 DEF Working
<1>9. \A d \in Consumers : Follows(d)'
  BY <1>2, <1>5, <1>8, FollowsStays DEF AckInv
<1>10. \A o \in 0 .. position'[p] - 1 : Reached(c, p, o)'
  <2> SUFFICES ASSUME NEW o \in 0 .. position'[p] - 1
               PROVE  Reached(c, p, o)'
    OBVIOUS
  <2>1. o = n \/ o \in 0 .. n - 1
    BY <1>1, <1>2, <1>3, <1>4
  <2>2. CASE o = n
    BY <1>2, <2>2 DEF Reached, Done
  <2>3. CASE o \in 0 .. n - 1
    <3>1. Done(p, o) /\ o \in Int
      BY <1>4, <2>3
    <3> QED
      BY <1>5, <3>1, DoneStays DEF Reached
  <2> QED
    BY <2>1, <2>2, <2>3
<1>11. PositionsReached'
  <2>1. \A q \in Partitions :
           /\ owner'[q] \in {owner[q], NoOwner}
           /\ \/ position'[q] = position[q]
              \/ \A o \in 0 .. position'[q] - 1 : Reached(owner[q], q, o)'
    <3>1. owner[p] = c
      BY <1>2 DEF CanPoll
    <3>2. \A q \in Partitions \ {p} : position'[q] = position[q]
      BY <1>2, <1>3
    <3> QED
      BY <1>2, <1>10, <3>1, <3>2
  <2> QED
    BY <1>2, <1>5, <1>8, <2>1, PositionsStay DEF AckInv
<1> QED
  BY <1>6, <1>7, <1>9, <1>11 DEF AckInv

LEMMA AckCommit ==
    ASSUME TypeInv, TypeInv', AckInv, NEW c \in Consumers, Commit(c)
    PROVE  AckInv'
<1>1. PICK p \in Partitions, n \in Nat : cur[c] = [part |-> p, off |-> n]
  BY DEF TypeInv, TypeOK, Offset
<1>2. /\ handled' = handled \cup {[part |-> p, off |-> n]}
      /\ RequestCommit(c, p, n) \/ UNCHANGED commitQueue
      /\ pc' = [pc EXCEPT ![c] = "poll"]
      /\ cur' = [cur EXCEPT ![c] = SomeOffset]
      /\ UNCHANGED <<logEnd, owner, position, committed, resetTo>>
      /\ pc[c] = "commit"
  BY <1>1 DEF Commit, Goto, Finish
<1>3. /\ pc \in [Consumers -> Steps] /\ cur \in [Consumers -> Offset]
  BY DEF TypeInv, TypeOK
<1>4. n < logEnd[p] /\ \A o \in 0 .. n - 1 : Done(p, o)
  BY <1>1, <1>2 DEF AckInv, Follows, Working
<1>5. Monotone
  BY <1>2, MonotoneUnchanged
<1>6. Resets' /\ CommittedDone'
  BY <1>2, <1>5, CommittedStays DEF AckInv, Resets
<1>7. RequestsGranted'
  BY <1>2, <1>4, <1>5, RequestFinished
<1>8. pc'[c] \notin Working /\ cur[c] \in handled'
  BY <1>1, <1>2, <1>3 DEF Working
<1>9. \A d \in Consumers \ {c} : pc'[d] = pc[d] /\ cur'[d] = cur[d]
  BY <1>2, <1>3
<1>10. \A d \in Consumers : Follows(d)'
  BY <1>5, <1>8, <1>9, FollowsStays DEF AckInv
<1>11. PositionsReached'
  BY <1>2, <1>5, <1>8, <1>9, PositionsStay DEF AckInv
<1> QED
  BY <1>6, <1>7, <1>10, <1>11 DEF AckInv

(* A process that ends leaves its partitions and its requests.             *)
LEMMA AckLeave ==
    ASSUME TypeInv, TypeInv', AckInv, NEW c \in Consumers, Cleanup(c) \/ Crash(c)
    PROVE  AckInv'
<1>1. /\ owner' = [p \in Partitions |-> IF owner[p] = c THEN NoOwner ELSE owner[p]]
      /\ commitQueue' = [commitQueue EXCEPT ![c] = <<>>]
      /\ UNCHANGED <<logEnd, position, committed, resetTo, handled>>
      /\ pc' = [pc EXCEPT ![c] = "down"]
      /\ cur' = cur \/ cur' = [cur EXCEPT ![c] = SomeOffset]
  BY DEF Cleanup, Crash, Leave, Goto
<1>2. /\ pc \in [Consumers -> Steps] /\ cur \in [Consumers -> Offset]
      /\ commitQueue \in [Consumers -> Seq(Request)]
  BY DEF TypeInv, TypeOK, GroupTypeOK
<1>3. Monotone
  BY <1>1, MonotoneUnchanged
<1>4. Resets' /\ CommittedDone'
  BY <1>1, <1>3, CommittedStays DEF AckInv, Resets
<1>5. RequestsGranted'
  <2>1. \A d \in Consumers : commitQueue'[d] \in {commitQueue[d], <<>>} /\ Len(<<>>) = 0
    BY <1>1, <1>2
  <2>2. ASSUME NEW d \in Consumers, NEW i \in 1 .. Len(commitQueue'[d])
        PROVE  \E j \in 1 .. Len(commitQueue[d]) : commitQueue'[d][i] = commitQueue[d][j]
    BY <2>1
  <2> QED
    BY <1>3, <2>2, RequestsStay DEF AckInv
<1>6. pc'[c] \notin Working
  BY <1>1, <1>2 DEF Working
<1>7. \A d \in Consumers \ {c} : pc'[d] = pc[d] /\ cur'[d] = cur[d]
  BY <1>1, <1>2
<1>8. \A d \in Consumers : Follows(d)'
  BY <1>3, <1>6, <1>7, FollowsStays DEF AckInv
<1>9. PositionsReached'
  <2>1. \A p \in Partitions : owner'[p] \in {owner[p], NoOwner} /\ owner'[p] # c
    BY <1>1
  <2> QED
    BY <1>1, <1>3, <1>7, <2>1, PositionsStay DEF AckInv
<1> QED
  BY <1>4, <1>5, <1>8, <1>9 DEF AckInv

LEMMA AckStep ==
    ASSUME TypeInv, TypeInv', AckInv, [Next]_vars
    PROVE  AckInv'
<1> USE DEF vars, processVars, ghostVars
<1>1. CASE UNCHANGED vars
  BY <1>1, AckQuiet
<1>2. CASE Group
  BY <1>2, AckRevoke, AckAnswer, AckAssign DEF Group
<1>3. CASE \E p \in Partitions : RaiseAlert(p)
  BY <1>3, AckRaise DEF RaiseAlert
<1>4. CASE \E u \in Users : BlockRecordExpires(u)
  <2>1. UNCHANGED <<groupVars, pc, cur, handled>>
    BY <1>4 DEF BlockRecordExpires
  <2> QED
    BY <2>1, AckQuiet
<1>5. ASSUME NEW c \in Consumers, Poll(c)
      PROVE  AckInv'
  BY <1>5, AckPollAlert, AckPollBad DEF Poll
<1> QED
  BY <1>1, <1>2, <1>3, <1>4, <1>5, QuietLocal, AckCommit, AckLeave DEF Next, Process

-----------------------------------------------------------------------------
(* The refinement: AtLeastOnce sees the logs, what is done with and the    *)
(* committed offsets.                                                      *)
DoneMessages == {x \in LogMessages : Done(x.part, x.off)}

LEMMA LogMessage ==
    ASSUME NEW p \in Partitions, NEW o \in 0 .. LogSize[p] - 1
    PROVE  [part |-> p, off |-> o] \in LogMessages
BY DEF LogMessages

LEMMA LogMessageType ==
    ASSUME NEW x \in LogMessages
    PROVE  /\ x.part \in Partitions /\ x.off \in 0 .. LogSize[x.part] - 1
           /\ x = [part |-> x.part, off |-> x.off]
BY DEF LogMessages

LEMMA RefStutter ==
    ASSUME UNCHANGED <<logEnd, handled, resetTo, committed>>
    PROVE  UNCHANGED ALO!vars
BY DEF ALO!vars, LogMessages, Done

(* Finishing with a message that is in the log.                            *)
LEMMA RefFinish ==
    ASSUME TypeInv, NEW p \in Partitions, NEW o \in Nat, o < logEnd[p],
           handled' = handled \cup {[part |-> p, off |-> o]},
           UNCHANGED <<logEnd, resetTo, committed>>
    PROVE  ALO!Next
<1>1. logEnd[p] \in Nat /\ logEnd[p] <= LogSize[p] /\ LogSize[p] \in Nat
  BY GroupAssumption DEF TypeInv, TypeOK, GroupTypeOK, Bounds
<1>2. o \in 0 .. LogSize[p] - 1
  BY <1>1
<1>3. PICK x : x = [part |-> p, off |-> o]
  OBVIOUS
<1>4. \A y \in LogMessages : Done(y.part, y.off)' <=> Done(y.part, y.off) \/ y = x
  BY <1>3, LogMessageType DEF Done
<1>5. DoneMessages' = DoneMessages \cup {x}
  BY <1>2, <1>3, <1>4, LogMessage DEF DoneMessages, LogMessages
<1>6. ALO!Finish(p, o)
  BY <1>3, <1>5 DEF ALO!Finish, ALO!Message, DoneMessages
<1> QED
  BY <1>2, <1>6 DEF ALO!Next

LEMMA RefCommit ==
    ASSUME TypeInv, AckInv, NEW c \in Consumers, Commit(c)
    PROVE  ALO!Next
<1>1. PICK p \in Partitions, n \in Nat : cur[c] = [part |-> p, off |-> n]
  BY DEF TypeInv, TypeOK, Offset
<1>2. n < logEnd[p]
  BY <1>1 DEF Commit, AckInv, Follows, Working
<1>3. /\ handled' = handled \cup {[part |-> p, off |-> n]}
      /\ UNCHANGED <<logEnd, resetTo, committed>>
  BY <1>1 DEF Commit, Finish
<1> QED
  BY <1>2, <1>3, RefFinish

LEMMA RefPollBad ==
    ASSUME TypeInv, AckInv, NEW c \in Consumers, NEW p \in Partitions,
           PollBadJson(c, p) \/ PollBadBytes(c, p)
    PROVE  ALO!Next
<1>1. pc[c] = "poll" /\ CanPoll(c, p)
  BY DEF PollBadJson, PollBadBytes
<1>2. position[p] \in Nat /\ position[p] < logEnd[p]
  BY <1>1, ReadNext
<1>3. /\ handled' = handled \cup {[part |-> p, off |-> position[p]]}
      /\ UNCHANGED <<logEnd, resetTo, committed>>
  BY DEF PollBadJson, PollBadBytes, Finish
<1> QED
  BY <1>2, <1>3, RefFinish

LEMMA RefAnswer ==
    ASSUME TypeInv, AckInv, NEW c \in Consumers, AnswerCommit(c), UNCHANGED localVars
    PROVE  [ALO!Next]_ALO!vars
<1>1. commitQueue[c] \in Seq(Request) /\ commitQueue[c] # <<>>
  BY DEF TypeInv, TypeOK, GroupTypeOK, AnswerCommit
<1>2. PICK r : r = Head(commitQueue[c])
  OBVIOUS
<1>3. r = commitQueue[c][1] /\ r \in Request /\ 1 \in 1 .. Len(commitQueue[c])
  BY <1>1, <1>2, HeadTailProperties, LenProperties, ElementOfSeq
<1>4. Granted(r)
  BY <1>3 DEF AckInv, RequestsGranted
<1>5. PICK p \in Partitions, n \in Nat : p = r.part /\ n = r.next
  BY <1>3 DEF Request
<1>6. n \in 0 .. LogSize[p]
  BY <1>4, <1>5, GroupAssumption DEF Granted, TypeInv, TypeOK, GroupTypeOK, Bounds
<1>7. \A o \in 0 .. n - 1 : [part |-> p, off |-> o] \in DoneMessages
  <2>1. 0 .. n - 1 \subseteq 0 .. LogSize[p] - 1
    BY <1>6, GroupAssumption
  <2> QED
    BY <1>4, <1>5, <2>1, LogMessage DEF Granted, DoneMessages
<1>8. UNCHANGED <<logEnd, handled, resetTo>>
  BY DEF AnswerCommit, localVars, ghostVars
<1>9. UNCHANGED DoneMessages
  BY <1>8 DEF DoneMessages, LogMessages, Done
<1>10. CASE committed' = [committed EXCEPT ![p] = n]
  <2>1. ALO!Commit(p, n)
    BY <1>7, <1>8, <1>9, <1>10 DEF ALO!Commit, ALO!Message, DoneMessages
  <2> QED
    BY <1>6, <2>1 DEF ALO!Next
<1>11. CASE UNCHANGED committed
  BY <1>8, <1>11, RefStutter
<1> QED
  BY <1>2, <1>5, <1>10, <1>11 DEF AnswerCommit

LEMMA RefAssign ==
    ASSUME TypeInv, AckInv, NEW c \in Consumers, NEW p \in Partitions, Assign(c, p),
           UNCHANGED localVars
    PROVE  [ALO!Next]_ALO!vars
<1>1. UNCHANGED <<logEnd, handled, committed>>
  BY DEF Assign, localVars, ghostVars
<1>2. /\ resetTo \in [Partitions -> Nat] /\ logEnd[p] \in Nat
      /\ resetTo[p] <= logEnd[p] /\ logEnd[p] <= LogSize[p] /\ LogSize[p] \in Nat
      /\ ResetToLatest \/ resetTo[p] = 0
  BY GroupAssumption DEF TypeInv, TypeOK, GroupTypeOK, Bounds, AckInv, Resets
<1>3. CASE committed[p] # NoOffset \/ ~ResetToLatest
  <2>1. UNCHANGED resetTo
    BY <1>2, <1>3 DEF Assign, StartOffset
  <2> QED
    BY <1>1, <2>1, RefStutter
<1>4. CASE committed[p] = NoOffset /\ ResetToLatest
  <2>1. PICK passed : passed = {[part |-> p, off |-> o] : o \in 0 .. logEnd[p] - 1}
    OBVIOUS
  <2>2. resetTo' = [resetTo EXCEPT ![p] = logEnd[p]]
    BY <1>4 DEF Assign, StartOffset
  <2>3. ASSUME NEW x \in LogMessages
        PROVE  Done(x.part, x.off)' <=> Done(x.part, x.off) \/ x \in passed
    <3>1. x.part \in Partitions /\ x.off \in Nat /\ x = [part |-> x.part, off |-> x.off]
      BY LogMessageType
    <3>2. CASE x.part = p
      <4>1. resetTo'[p] = logEnd[p]
        BY <1>2, <2>2
      <4>2. x \in passed <=> x.off < logEnd[p]
        BY <1>2, <2>1, <3>1, <3>2
      <4> QED
        BY <1>1, <1>2, <3>1, <3>2, <4>1, <4>2 DEF Done
    <3>3. CASE x.part # p
      <4>1. resetTo'[x.part] = resetTo[x.part] /\ x \notin passed
        BY <1>2, <2>1, <2>2, <3>1, <3>3
      <4> QED
        BY <1>1, <4>1 DEF Done
    <3> QED
      BY <3>2, <3>3
  <2>4. passed \subseteq LogMessages
    <3>1. 0 .. logEnd[p] - 1 \subseteq 0 .. LogSize[p] - 1
      BY <1>2
    <3> QED
      BY <2>1, <3>1, LogMessage
  <2>5. DoneMessages' = DoneMessages \cup passed
    BY <2>3, <2>4 DEF DoneMessages, LogMessages
  <2>6. ALO!PassOver(p)
    BY <1>1, <1>4, <2>1, <2>5 DEF ALO!PassOver, ALO!Message, DoneMessages, NoOffset
  <2> QED
    BY <2>6 DEF ALO!Next
<1> QED
  BY <1>3, <1>4

LEMMA RefStep ==
    ASSUME TypeInv, AckInv, [Next]_vars
    PROVE  [ALO!Next]_ALO!vars
<1> USE DEF groupVars, localVars, processVars, ghostVars
<1>1. CASE UNCHANGED vars
  BY <1>1, RefStutter DEF vars
<1>2. CASE Group
  <2>1. ASSUME NEW p \in Partitions, Revoke(p), UNCHANGED localVars
        PROVE  UNCHANGED ALO!vars
    BY <2>1, RefStutter DEF Revoke
  <2> QED
    BY <1>2, <2>1, RefAnswer, RefAssign DEF Group
<1>3. ASSUME NEW p \in Partitions, RaiseAlert(p)
      PROVE  ALO!Next
  <2>1. UNCHANGED DoneMessages
    BY <1>3 DEF RaiseAlert, Produce, DoneMessages, LogMessages, Done
  <2>2. ALO!Produce(p)
    BY <1>3, <2>1 DEF RaiseAlert, Produce, ALO!Produce, DoneMessages
  <2> QED
    BY <2>2 DEF ALO!Next
<1>4. ASSUME NEW u \in Users, BlockRecordExpires(u)
      PROVE  UNCHANGED ALO!vars
  BY <1>4, RefStutter DEF BlockRecordExpires
<1>5. ASSUME NEW c \in Consumers, Poll(c)
      PROVE  [ALO!Next]_ALO!vars
  <2>1. ASSUME NEW p \in Partitions, PollAlert(c, p)
        PROVE  UNCHANGED ALO!vars
    BY <2>1, RefStutter DEF PollAlert
  <2> QED
    BY <1>5, <2>1, RefPollBad DEF Poll
<1>6. ASSUME NEW c \in Consumers,
             Enrich(c) \/ Act(c) \/ ActMore(c) \/ ReadRisk(c) \/ WriteRisk(c) \/ Audit(c) \/ Publish(c)
      PROVE  UNCHANGED ALO!vars
  BY <1>6, RefStutter DEF Enrich, Act, ActMore, ReadRisk, WriteRisk, Audit, Publish
<1>7. ASSUME NEW c \in Consumers, Start(c) \/ Deliver(c) \/ StopRunning(c)
      PROVE  UNCHANGED ALO!vars
  BY <1>7, RefStutter DEF Start, Deliver, StopRunning
<1>8. ASSUME NEW c \in Consumers, Cleanup(c) \/ Crash(c)
      PROVE  UNCHANGED ALO!vars
  BY <1>8, RefStutter DEF Cleanup, Crash, Leave
<1> QED
  BY <1>1, <1>2, <1>3, <1>4, <1>5, <1>6, <1>7, <1>8, RefCommit DEF Next, Process

LEMMA RefInit == Init => ALO!Init
<1> SUFFICES ASSUME Init PROVE ALO!Init
  OBVIOUS
<1>1. \A x \in LogMessages : ~Done(x.part, x.off)
  BY LogMessageType DEF Init, GroupInit, Done
<1> QED
  BY <1>1 DEF Init, GroupInit, ALO!Init, NoOffset

(* Whatever fails, is revoked, killed or answered late, the alert          *)
(* processor commits an offset only when everything below it is done with: *)
(* every behaviour of its group is one that AtLeastOnce allows.            *)
THEOREM AlertProcessorsImplementAtLeastOnce == Spec => ImplementsAtLeastOnce
<1>1. Init => TruthInv /\ AckInv
  BY TruthInit, AckInit
<1>2. TruthInv /\ AckInv /\ [Next]_vars => (TruthInv /\ AckInv)'
  BY TruthNext, AckStep DEF TruthInv
<1>3. TruthInv /\ AckInv /\ [Next]_vars => [ALO!Next]_ALO!vars
  BY RefStep DEF TruthInv
<1> QED
  BY <1>1, <1>2, <1>3, RefInit, PTL DEF Spec, ImplementsAtLeastOnce, ALO!Spec

-----------------------------------------------------------------------------
(* The risk profile.  While nobody has lost a partition, whoever has an    *)
(* alert in hand owns its partition; alerts being keyed by user, the       *)
(* profile a process has read is then still the one in Redis when it       *)
(* writes.                                                                 *)
OwnsItsAlert(c) == pc[c] \in Working => owner[cur[c].part] = c
HasRead(c) == pc[c] = "write_risk" => context[c].risk.total = risk[UserOf(c)].total

RiskInv ==
    /\ \A c \in Consumers : pc[c] \in Working => Message(cur[c]).kind = "alert"
    /\ Undisturbed => \A c \in Consumers : OwnsItsAlert(c) /\ HasRead(c)
    /\ RiskKeepsCount

LEMMA RiskInit == Init => RiskInv
<1> SUFFICES ASSUME Init PROVE RiskInv
  OBVIOUS
<1>1. /\ pc = [c \in Consumers |-> "poll"]
      /\ risk = [u \in Users |-> DefaultRisk] /\ riskWrites = [u \in Users |-> 0]
  BY DEF Init
<1> QED
  BY <1>1 DEF RiskInv, OwnsItsAlert, HasRead, RiskKeepsCount, Working, DefaultRisk

(* Once disturbed, always disturbed.                                       *)
LEMMA DisturbedStays ==
    ASSUME TypeInv, [Next]_vars, Undisturbed'
    PROVE  Undisturbed
<1>1. rebalances \in Nat /\ faults \in Nat
  BY DEF TypeInv, TypeOK, GroupTypeOK
<1>2. rebalances' = rebalances \/ rebalances' = rebalances + 1
  <2> USE DEF groupVars
  <2>1. CASE Group
    BY <2>1 DEF Group, Revoke, AnswerCommit, Assign
  <2>2. CASE \E p \in Partitions : RaiseAlert(p)
    BY <2>2 DEF RaiseAlert, Produce
  <2>3. CASE \E u \in Users : BlockRecordExpires(u)
    BY <2>3 DEF BlockRecordExpires
  <2>4. ASSUME NEW c \in Consumers,
               \/ Start(c) \/ Process(c) \/ Deliver(c)
               \/ StopRunning(c) \/ Cleanup(c) \/ Crash(c)
        PROVE  UNCHANGED rebalances
    BY <2>4 DEF Start, Process, Deliver, StopRunning, Cleanup, Crash, Leave, Enrich, Act, ActMore,
                ReadRisk, WriteRisk, Audit, Publish, Commit
  <2>5. ASSUME NEW c \in Consumers, Poll(c) PROVE UNCHANGED rebalances
    BY <2>5 DEF Poll, PollAlert, PollBadJson, PollBadBytes
  <2>6. CASE UNCHANGED vars
    BY <2>6 DEF vars
  <2> QED
    BY <2>1, <2>2, <2>3, <2>4, <2>5, <2>6 DEF Next
<1>3. faults' = faults \/ faults' = faults + 1
  <2> USE DEF localVars, ghostVars, CallFails, CallWorks
  <2>1. CASE Group
    BY <2>1 DEF Group
  <2>2. CASE \E p \in Partitions : RaiseAlert(p)
    BY <2>2 DEF RaiseAlert
  <2>3. CASE \E u \in Users : BlockRecordExpires(u)
    BY <2>3 DEF BlockRecordExpires
  <2>4. ASSUME NEW c \in Consumers, Start(c) \/ Deliver(c) \/ StopRunning(c) \/ Cleanup(c) \/ Crash(c)
        PROVE  faults' = faults \/ faults' = faults + 1
    BY <2>4 DEF Start, Deliver, StopRunning, Cleanup, Crash
  <2>5. ASSUME NEW c \in Consumers, Process(c)
        PROVE  faults' = faults \/ faults' = faults + 1
    BY <2>5 DEF Process, Enrich, Act, ActMore, ReadRisk, WriteRisk, Audit, Publish, Commit
  <2>6. ASSUME NEW c \in Consumers, Poll(c)
        PROVE  faults' = faults \/ faults' = faults + 1
    BY <2>6 DEF Poll, PollAlert, PollBadJson, PollBadBytes
  <2>7. CASE UNCHANGED vars
    BY <2>7 DEF vars
  <2> QED
    BY <2>1, <2>2, <2>3, <2>4, <2>5, <2>6, <2>7 DEF Next
<1> QED
  BY <1>1, <1>2, <1>3 DEF Undisturbed

(* A step after which everybody still works on what he worked on, or has   *)
(* dropped it.                                                             *)
LEMMA RiskStays ==
    ASSUME RiskInv, Undisturbed' => Undisturbed, UNCHANGED <<risk, riskWrites>>,
           \A d \in Consumers :
              /\ pc'[d] \in Working => pc[d] \in Working /\ cur'[d] = cur[d]
              /\ pc'[d] = "write_risk" => pc[d] = "write_risk" /\ context'[d] = context[d],
           Undisturbed' => \A d \in Consumers : \A p \in Partitions :
              pc'[d] \in Working /\ owner[p] = d => owner'[p] = d,
           \A d \in Consumers : pc[d] \in Working => cur[d].part \in Partitions
    PROVE  RiskInv'
<1>1. \A d \in Consumers : pc'[d] \in Working => Message(cur'[d]).kind = "alert"
  BY DEF RiskInv
<1>2. ASSUME Undisturbed', NEW d \in Consumers PROVE OwnsItsAlert(d)' /\ HasRead(d)'
  <2>1. OwnsItsAlert(d) /\ HasRead(d)
    BY <1>2 DEF RiskInv
  <2>2. OwnsItsAlert(d)'
    BY <1>2, <2>1 DEF OwnsItsAlert
  <2>3. HasRead(d)'
    BY <2>1 DEF HasRead, UserOf, Working
  <2> QED
    BY <2>2, <2>3
<1>3. RiskKeepsCount'
  BY DEF RiskInv, RiskKeepsCount
<1>4. (\A d \in Consumers : pc[d] \in Working => Message(cur[d]).kind = "alert")'
  BY <1>1 DEF Message
<1> QED
  BY <1>2, <1>3, <1>4 DEF RiskInv

LEMMA RiskGroup ==
    ASSUME TypeInv, RiskInv, Undisturbed' => Undisturbed, Group
    PROVE  RiskInv'
<1>1. UNCHANGED <<pc, cur, context, risk, riskWrites>>
  BY DEF Group, localVars, processVars, redisVars, ghostVars
<1>2. \A d \in Consumers : pc[d] \in Working => cur[d].part \in Partitions
  BY CurrentType
<1>3. ASSUME Undisturbed', NEW d \in Consumers, NEW p \in Partitions, owner[p] = d PROVE owner'[p] = d
  <2>1. owner \in [Partitions -> Consumers \cup {NoOwner}] /\ rebalances \in Nat
    BY DEF TypeInv, TypeOK, GroupTypeOK
  <2>2. ~ \E q \in Partitions : Revoke(q)
    BY <1>3, <2>1 DEF Revoke, Undisturbed
  <2>3. \/ UNCHANGED owner
        \/ \E c \in Consumers, q \in Partitions : owner[q] = NoOwner /\ owner' = [owner EXCEPT ![q] = c]
    BY <2>2 DEF Group, AnswerCommit, Assign
  <2> QED
    BY <1>3, <2>1, <2>3
<1> QED
  BY <1>1, <1>2, <1>3, RiskStays

LEMMA RiskOutside ==
    ASSUME TypeInv, RiskInv, Undisturbed' => Undisturbed,
           \/ \E p \in Partitions : RaiseAlert(p)
           \/ \E u \in Users : BlockRecordExpires(u)
           \/ UNCHANGED vars
    PROVE  RiskInv'
<1>1. UNCHANGED <<pc, cur, context, owner, risk, riskWrites>>
  BY DEF RaiseAlert, BlockRecordExpires, Produce, localVars, processVars, redisVars, ghostVars,
         groupVars, vars
<1>2. \A d \in Consumers : pc[d] \in Working => cur[d].part \in Partitions
  BY CurrentType
<1> QED
  BY <1>1, <1>2, RiskStays

(* Of the steps of one process: those that leave the profile alone.        *)
LEMMA RiskIdle ==
    ASSUME TypeInv, RiskInv, Undisturbed' => Undisturbed, NEW c \in Consumers,
           UNCHANGED <<owner, risk, riskWrites>>,
           \A d \in Consumers \ {c} : pc'[d] = pc[d] /\ cur'[d] = cur[d] /\ context'[d] = context[d],
           pc'[c] # "write_risk",
           pc'[c] \in Working => pc[c] \in Working /\ cur'[c] = cur[c]
    PROVE  RiskInv'
<1>1. \A d \in Consumers : pc[d] \in Working => cur[d].part \in Partitions
  BY CurrentType
<1>2. \A d \in Consumers :
        /\ pc'[d] \in Working => pc[d] \in Working /\ cur'[d] = cur[d]
        /\ pc'[d] = "write_risk" => pc[d] = "write_risk" /\ context'[d] = context[d]
  OBVIOUS
<1> QED
  BY <1>1, <1>2, RiskStays

LEMMA RiskLocal ==
    ASSUME TypeInv, RiskInv, Undisturbed' => Undisturbed, NEW c \in Consumers,
           \/ Start(c) \/ Enrich(c) \/ Act(c) \/ ActMore(c) \/ Audit(c) \/ Publish(c) \/ Commit(c)
           \/ Deliver(c) \/ StopRunning(c)
    PROVE  RiskInv'
<1> USE DEF groupVars, processVars, redisVars, outputVars, ghostVars
<1>0. pc \in [Consumers -> Steps] /\ cur \in [Consumers -> Offset] /\ DOMAIN context = Consumers
  BY DEF TypeInv, TypeOK
<1>1. UNCHANGED <<owner, risk, riskWrites>>
  BY DEF Start, Enrich, Act, ActMore, Audit, Publish, Commit, Deliver, StopRunning
<1>2. CASE Deliver(c)
  <2>1. UNCHANGED <<pc, cur, context>>
    BY <1>2 DEF Deliver
  <2>2. \A d \in Consumers : pc[d] \in Working => cur[d].part \in Partitions
    BY CurrentType
  <2> QED
    BY <1>1, <2>1, <2>2, RiskStays
<1>3. CASE \/ Start(c) \/ Audit(c) \/ Publish(c) \/ StopRunning(c)
  <2>1. UNCHANGED <<cur, context>>
    BY <1>3 DEF Start, Audit, Publish, StopRunning
  <2>2. /\ \A d \in Consumers \ {c} : pc'[d] = pc[d]
        /\ pc'[c] # "write_risk" /\ (pc'[c] \in Working => pc[c] \in Working)
    BY <1>0, <1>3 DEF Start, Audit, Publish, StopRunning, Goto, Working
  <2> QED
    BY <1>1, <2>1, <2>2, RiskIdle
<1>4. CASE Enrich(c)
  <2>1. \E a : context' = [context EXCEPT ![c].action = a]
    BY <1>4 DEF Enrich
  <2>2. UNCHANGED cur /\ pc[c] = "enrich" /\ pc' = [pc EXCEPT ![c] = "act"]
    BY <1>4 DEF Enrich, Goto
  <2>3. \A d \in Consumers \ {c} : pc'[d] = pc[d] /\ context'[d] = context[d]
    BY <1>0, <2>1, <2>2
  <2>4. pc'[c] # "write_risk" /\ pc[c] \in Working
    BY <1>0, <2>2 DEF Working
  <2> QED
    BY <1>1, <2>2, <2>3, <2>4, RiskIdle
<1>5. CASE Act(c) \/ ActMore(c)
  <2>1. context' = context \/ context' = [context EXCEPT ![c].failed = TRUE]
    BY <1>5 DEF Act, ActMore
  <2>2. /\ UNCHANGED cur /\ pc[c] \in {"act", "act_more"}
        /\ \E step \in {"act_more", "read_risk"} : pc' = [pc EXCEPT ![c] = step]
    BY <1>5 DEF Act, ActMore, Goto, AfterFirstCall
  <2>3. \A d \in Consumers \ {c} : pc'[d] = pc[d] /\ context'[d] = context[d]
    BY <1>0, <2>1, <2>2
  <2>4. pc'[c] # "write_risk" /\ pc[c] \in Working
    BY <1>0, <2>2 DEF Working
  <2> QED
    BY <1>1, <2>2, <2>3, <2>4, RiskIdle
<1>6. CASE Commit(c)
  <2>1. /\ \A d \in Consumers \ {c} : pc'[d] = pc[d] /\ cur'[d] = cur[d] /\ context'[d] = context[d]
        /\ pc'[c] = "poll"
    BY <1>0, <1>6 DEF Commit, Goto
  <2> QED
    BY <1>1, <2>1, RiskIdle DEF Working
<1> QED
  BY <1>2, <1>3, <1>4, <1>5, <1>6

(* Who leaves takes nothing from the others.                               *)
LEMMA RiskLeave ==
    ASSUME TypeInv, RiskInv, Undisturbed' => Undisturbed, NEW c \in Consumers, Cleanup(c) \/ Crash(c)
    PROVE  RiskInv'
<1> USE DEF redisVars, ghostVars
<1>0. pc \in [Consumers -> Steps] /\ cur \in [Consumers -> Offset] /\ DOMAIN context = Consumers
  BY DEF TypeInv, TypeOK
<1>1. UNCHANGED <<risk, riskWrites>>
  BY DEF Cleanup, Crash
<1>2. /\ \A d \in Consumers \ {c} : pc'[d] = pc[d] /\ cur'[d] = cur[d] /\ context'[d] = context[d]
      /\ pc'[c] \notin Working
  BY <1>0 DEF Cleanup, Crash, Goto, Working
<1>3. owner' = [p \in Partitions |-> IF owner[p] = c THEN NoOwner ELSE owner[p]]
  BY DEF Cleanup, Crash, Leave
<1>4. \A d \in Consumers : \A p \in Partitions : pc'[d] \in Working /\ owner[p] = d => owner'[p] = d
  BY <1>2, <1>3
<1>5. \A d \in Consumers :
        /\ pc'[d] \in Working => pc[d] \in Working /\ cur'[d] = cur[d]
        /\ pc'[d] = "write_risk" => pc[d] = "write_risk" /\ context'[d] = context[d]
  BY <1>2 DEF Working
<1>6. \A d \in Consumers : pc[d] \in Working => cur[d].part \in Partitions
  BY CurrentType
<1> QED
  BY <1>1, <1>4, <1>5, <1>6, RiskStays

LEMMA RiskPoll ==
    ASSUME TypeInv, RiskInv, Undisturbed' => Undisturbed, NEW c \in Consumers, Poll(c)
    PROVE  RiskInv'
<1> USE DEF redisVars, ghostVars, processVars
<1>0. /\ pc \in [Consumers -> Steps] /\ cur \in [Consumers -> Offset] /\ DOMAIN context = Consumers
      /\ owner \in [Partitions -> Consumers \cup {NoOwner}]
  BY DEF TypeInv, TypeOK, GroupTypeOK
<1> PICK p \in Partitions : \/ PollAlert(c, p)
                            \/ PollBadJson(c, p)
                            \/ PollBadBytes(c, p)
  BY DEF Poll
<1>1. UNCHANGED <<owner, context, risk, riskWrites>> /\ pc[c] = "poll"
  BY DEF PollAlert, PollBadJson, PollBadBytes
<1>2. CASE PollBadJson(c, p) \/ PollBadBytes(c, p)
  <2>1. UNCHANGED cur /\ (pc' = pc \/ pc' = [pc EXCEPT ![c] = "stopping"])
    BY <1>2 DEF PollBadJson, PollBadBytes, Goto
  <2>2. /\ \A d \in Consumers \ {c} : pc'[d] = pc[d] /\ cur'[d] = cur[d] /\ context'[d] = context[d]
        /\ pc'[c] \in {"poll", "stopping"}
    BY <1>0, <1>1, <2>1
  <2> QED
    BY <1>1, <2>2, RiskIdle DEF Working
<1>3. CASE PollAlert(c, p)
  <2> PICK x : x = [part |-> p, off |-> position[p]]
    OBVIOUS
  <2>1. /\ Message(x).kind = "alert" /\ cur' = [cur EXCEPT ![c] = x]
        /\ pc' = [pc EXCEPT ![c] = "enrich"] /\ owner[p] = c /\ x.part = p
    BY <1>3 DEF PollAlert, CanPoll, Goto
  <2>2. /\ \A d \in Consumers \ {c} : pc'[d] = pc[d] /\ cur'[d] = cur[d]
        /\ pc'[c] = "enrich" /\ cur'[c] = x
    BY <1>0, <2>1
  <2>3. (\A d \in Consumers : pc[d] \in Working => Message(cur[d]).kind = "alert")'
    BY <2>1, <2>2 DEF RiskInv, Message
  <2>4. ASSUME Undisturbed', NEW d \in Consumers PROVE OwnsItsAlert(d)' /\ HasRead(d)'
    <3>1. OwnsItsAlert(d) /\ HasRead(d)
      BY <2>4 DEF RiskInv
    <3>2. CASE d = c
      BY <1>1, <2>1, <2>2, <3>2 DEF OwnsItsAlert, HasRead
    <3>3. CASE d # c
      BY <1>1, <2>2, <3>1, <3>3 DEF OwnsItsAlert, HasRead, UserOf, Message
    <3> QED
      BY <3>2, <3>3
  <2>5. RiskKeepsCount'
    BY <1>1 DEF RiskInv, RiskKeepsCount
  <2> QED
    BY <2>3, <2>4, <2>5 DEF RiskInv
<1> QED
  BY <1>2, <1>3

(* Two alerts in hand, of one user: it is one process that has them.       *)
LEMMA OneProcessPerUser ==
    ASSUME TypeInv, RiskInv, Undisturbed, NEW c \in Consumers, NEW d \in Consumers,
           pc[c] \in Working, pc[d] \in Working, UserOf(c) = UserOf(d)
    PROVE  c = d
<1>1. /\ cur[c].part \in Partitions /\ cur[c].off \in Nat /\ cur[c].off < LogSize[cur[c].part]
      /\ cur[d].part \in Partitions /\ cur[d].off \in Nat /\ cur[d].off < LogSize[cur[d].part]
  BY CurrentType DEF TypeInv, Bounds
<1>2. /\ cur[c].off + 1 \in DOMAIN Log[cur[c].part]
      /\ cur[d].off + 1 \in DOMAIN Log[cur[d].part]
  <2>1. /\ Log[cur[c].part] \in Seq(Alert) /\ LogSize[cur[c].part] = Len(Log[cur[c].part])
        /\ Log[cur[d].part] \in Seq(Alert) /\ LogSize[cur[d].part] = Len(Log[cur[d].part])
    BY <1>1
  <2> QED
    BY <1>1, <2>1
<1>3. Message(cur[c]).kind = "alert" /\ Message(cur[d]).kind = "alert"
  BY DEF RiskInv
<1>4. cur[c].part = cur[d].part
  BY <1>1, <1>2, <1>3, KeyedByUser DEF UserOf, Message
<1> QED
  BY <1>4 DEF RiskInv, OwnsItsAlert

LEMMA RiskRead ==
    ASSUME TypeInv, RiskInv, Undisturbed' => Undisturbed, NEW c \in Consumers, ReadRisk(c)
    PROVE  RiskInv'
<1> USE DEF redisVars, groupVars
<1>0. /\ pc \in [Consumers -> Steps] /\ context \in [Consumers -> Context]
      /\ faults \in Nat
  BY DEF TypeInv, TypeOK, Context
<1>1. /\ UNCHANGED <<owner, cur, risk, riskWrites>> /\ pc[c] = "read_risk"
      /\ pc' = [pc EXCEPT ![c] = "write_risk"]
      /\ \/ context' = [context EXCEPT ![c].risk = risk[UserOf(c)]]
         \/ faults' = faults + 1 /\ context' = [context EXCEPT ![c].risk = DefaultRisk]
  BY DEF ReadRisk, Goto, CallWorks, CallFails
<1>2. /\ \A d \in Consumers \ {c} : pc'[d] = pc[d] /\ context'[d] = context[d]
      /\ pc'[c] = "write_risk" /\ pc[c] \in Working
      /\ Undisturbed' => context'[c].risk = risk[UserOf(c)]
  BY <1>0, <1>1 DEF Undisturbed, Context, Working
<1>3. (\A d \in Consumers : pc[d] \in Working => Message(cur[d]).kind = "alert")'
  BY <1>1, <1>2 DEF RiskInv, Message
<1>4. ASSUME Undisturbed', NEW d \in Consumers PROVE OwnsItsAlert(d)' /\ HasRead(d)'
  <2>1. OwnsItsAlert(d) /\ HasRead(d)
    BY <1>4 DEF RiskInv
  <2>2. CASE d = c
    BY <1>1, <1>2, <1>4, <2>1, <2>2 DEF OwnsItsAlert, HasRead, UserOf, Message
  <2>3. CASE d # c
    BY <1>1, <1>2, <2>1, <2>3 DEF OwnsItsAlert, HasRead, UserOf, Message
  <2> QED
    BY <2>2, <2>3
<1>5. RiskKeepsCount'
  BY <1>1 DEF RiskInv, RiskKeepsCount
<1> QED
  BY <1>3, <1>4, <1>5 DEF RiskInv

LEMMA RiskWrite ==
    ASSUME TypeInv, RiskInv, Undisturbed' => Undisturbed, NEW c \in Consumers, WriteRisk(c)
    PROVE  RiskInv'
<1> USE DEF redisVars, groupVars
<1> PICK u : u = UserOf(c)
  OBVIOUS
<1> PICK r : r = UpdatedRisk(context[c].risk, Severity(Message(cur[c])))
  OBVIOUS
<1>0. /\ pc \in [Consumers -> Steps] /\ context \in [Consumers -> Context] /\ faults \in Nat
      /\ risk \in [Users -> Risk] /\ riskWrites \in [Users -> Nat]
  BY DEF TypeInv, TypeOK, Context
<1>1. /\ UNCHANGED <<owner, cur, context>> /\ pc[c] = "write_risk"
      /\ pc' = [pc EXCEPT ![c] = "audit"]
      /\ \/ risk' = [risk EXCEPT ![u] = r] /\ riskWrites' = [riskWrites EXCEPT ![u] = @ + 1]
         \/ UNCHANGED <<risk, riskWrites>>
  BY DEF WriteRisk, Goto
<1>2. /\ \A d \in Consumers \ {c} : pc'[d] = pc[d]
      /\ pc'[c] = "audit" /\ pc[c] \in Working
  BY <1>0, <1>1 DEF Working
<1>3. u \in Users
  BY <1>2, CurrentType
<1>4. r.total = context[c].risk.total + 1
  BY DEF UpdatedRisk
<1>5. (\A d \in Consumers : pc[d] \in Working => Message(cur[d]).kind = "alert")'
  BY <1>1, <1>2 DEF RiskInv, Message
<1>6. ASSUME Undisturbed', NEW d \in Consumers PROVE OwnsItsAlert(d)' /\ HasRead(d)'
  <2>1. Undisturbed /\ OwnsItsAlert(d) /\ HasRead(d)
    BY <1>6 DEF RiskInv
  <2>2. OwnsItsAlert(d)'
    BY <1>1, <1>2, <2>1 DEF OwnsItsAlert
  <2>3. ASSUME pc'[d] = "write_risk" PROVE context'[d].risk.total = risk'[UserOf(d)'].total
    <3>1. d # c /\ pc[d] = "write_risk" /\ pc[d] \in Working
      BY <1>2, <2>3 DEF Working
    <3>2. UserOf(d) # u /\ UserOf(d)' = UserOf(d)
      BY <1>1, <1>2, <2>1, <3>1, OneProcessPerUser DEF UserOf, Message
    <3>3. UserOf(d) \in Users
      BY <3>1, CurrentType
    <3>4. risk'[UserOf(d)] = risk[UserOf(d)]
      BY <1>0, <1>1, <3>2, <3>3
    <3> QED
      BY <1>1, <2>1, <3>1, <3>2, <3>4 DEF HasRead
  <2> QED
    BY <2>2, <2>3 DEF HasRead
<1>7. RiskKeepsCount'
  <2> SUFFICES ASSUME Undisturbed', NEW v \in Users
               PROVE  risk'[v].total = riskWrites'[v]
    BY DEF RiskKeepsCount
  <2>1. risk[v].total = riskWrites[v] /\ riskWrites[v] \in Nat
    BY <1>0 DEF RiskInv, RiskKeepsCount
  <2>2. context[c].risk.total = risk[u].total
    BY <1>1 DEF RiskInv, HasRead
  <2>3. CASE v # u \/ UNCHANGED <<risk, riskWrites>>
    BY <1>0, <1>1, <2>1, <2>3
  <2>4. CASE v = u /\ risk' = [risk EXCEPT ![u] = r] /\ riskWrites' = [riskWrites EXCEPT ![u] = @ + 1]
    <3>1. risk'[v] = r /\ riskWrites'[v] = riskWrites[v] + 1
      BY <1>0, <2>4
    <3> QED
      BY <1>4, <2>1, <2>2, <2>4, <3>1
  <2> QED
    BY <1>1, <2>3, <2>4
<1> QED
  BY <1>5, <1>6, <1>7 DEF RiskInv

LEMMA RiskNext ==
    ASSUME TypeInv, RiskInv, [Next]_vars
    PROVE  RiskInv'
<1>1. Undisturbed' => Undisturbed
  BY DisturbedStays
<1>2. CASE Group
  BY <1>1, <1>2, RiskGroup
<1>3. CASE \/ \E p \in Partitions : RaiseAlert(p)
           \/ \E u \in Users : BlockRecordExpires(u)
           \/ UNCHANGED vars
  BY <1>1, <1>3, RiskOutside
<1>4. ASSUME NEW c \in Consumers, Start(c) \/ Process(c) \/ Deliver(c) \/ StopRunning(c)
      PROVE  RiskInv'
  BY <1>1, <1>4, RiskLocal, RiskRead, RiskWrite DEF Process
<1>5. ASSUME NEW c \in Consumers, Poll(c) \/ Cleanup(c) \/ Crash(c)
      PROVE  RiskInv'
  BY <1>1, <1>5, RiskPoll, RiskLeave
<1> QED
  BY <1>2, <1>3, <1>4, <1>5 DEF Next

(* As long as no call to Redis fails and no partition changes hands while  *)
(* its owner lives, update_user_risk_profile's separate read and write     *)
(* lose no alert: every user's count is the number of writes, past stops,  *)
(* crashes and redeliveries, however many processes share the topic.       *)
THEOREM RiskProfilesCount == Spec => []RiskKeepsCount
<1>1. Init => TruthInv /\ RiskInv
  BY TruthInit, RiskInit
<1>2. TruthInv /\ RiskInv /\ [Next]_vars => (TruthInv /\ RiskInv)'
  BY TruthNext, RiskNext DEF TruthInv
<1>3. RiskInv => RiskKeepsCount
  BY DEF RiskInv
<1> QED
  BY <1>1, <1>2, <1>3, PTL DEF Spec
=============================================================================
