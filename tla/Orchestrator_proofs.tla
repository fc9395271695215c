------------------------ MODULE Orchestrator_proofs ------------------------
(***************************************************************************)
(* The model in use, the model in Redis and the batches they were trained  *)
(* on, for every number of workers, every feedback, batch and queue size,  *)
(* and every bound.                                                        *)
(***************************************************************************)
EXTENDS Orchestrator, TLAPS

(* Besides the two models, those that updates have backed up have passed   *)
(* the validation: a rollback puts one of them back, perhaps when another  *)
(* update has replaced the model in the meantime.                          *)
BackupsValidated ==
    /\ 0 \in validated
    /\ backup \in [Updaters -> validated]
    /\ OnlyValidatedModels

LEMMA BackupsInit == Init => BackupsValidated
BY DEF Init, LearnerInit, BackupsValidated, OnlyValidatedModels

(* What the model is not replaced by leaves the invariant alone.           *)
LEMMA ModelsStay ==
    ASSUME BackupsValidated, UNCHANGED <<current, stored, backup, validated>>
    PROVE  BackupsValidated'
BY DEF BackupsValidated, OnlyValidatedModels

LEMMA AddBatchStays ==
    ASSUME BackupsValidated, NEW b, NEW scheduled, AddBatch(b, scheduled)
    PROVE  BackupsValidated'
BY ModelsStay DEF AddBatch

LEMMA CallUpdateStays ==
    ASSUME BackupsValidated, NEW t, NEW force, CallUpdate(t, force)
    PROVE  BackupsValidated'
BY ModelsStay DEF CallUpdate

(* The steps of an update.                                                 *)
LEMMA UpdateValidates ==
    ASSUME BackupsValidated, NEW t \in Updaters, NEW works \in BOOLEAN, UpdateStep(t, works)
    PROVE  BackupsValidated'
<1>1. CASE BeginUpdate(t)
  <2>1. backup' \in [Updaters -> validated]
    BY <1>1 DEF BeginUpdate, BackupsValidated, OnlyValidatedModels
  <2> QED
    BY <1>1, <2>1 DEF BeginUpdate, BackupsValidated, OnlyValidatedModels
<1>2. CASE Train(t, works)
  BY <1>2, ModelsStay DEF Train
<1>3. CASE Validate(t)
  <2>1. PICK passed \in BOOLEAN :
          /\ Install(t, passed)
          /\ validated' = IF passed THEN validated \cup {candidate[t]} ELSE validated
    BY <1>3 DEF Validate
  <2>2. UNCHANGED <<stored, backup>> /\ validated \subseteq validated'
    BY <1>3, <2>1 DEF Validate
  <2>3. current' \in validated'
    BY <2>1 DEF Install, BackupsValidated
  <2> QED
    BY <2>2, <2>3 DEF BackupsValidated, OnlyValidatedModels
<1>4. CASE SaveModel(t, works)
  BY <1>4 DEF SaveModel, BackupsValidated, OnlyValidatedModels
<1>5. CASE ClearQueue(t)
  BY <1>5, ModelsStay DEF ClearQueue
<1> QED
  BY <1>1, <1>2, <1>3, <1>4, <1>5 DEF UpdateStep

LEMMA EndUpdateStays ==
    ASSUME BackupsValidated, NEW t \in Updaters, EndUpdate(t)
    PROVE  BackupsValidated'
BY DEF EndUpdate, BackupsValidated, OnlyValidatedModels

-----------------------------------------------------------------------------
LEMMA BackupsNext == BackupsValidated /\ [Next]_vars => BackupsValidated'
<1> SUFFICES ASSUME BackupsValidated, [Next]_vars PROVE BackupsValidated'
  OBVIOUS
<1> USE OrchestratorAssumption
<1>1. CASE UNCHANGED vars
  BY <1>1, ModelsStay DEF vars, learnerVars
<1>2. CASE Loop
  <2>1. CASE HandleEvent
    BY <2>1, ModelsStay DEF HandleEvent, learnerVars
  <2>2. CASE HandleUpdateRequest
    BY <2>2, CallUpdateStays DEF HandleUpdateRequest
  <2>3. CASE MainUpdates
    BY <2>3, UpdateValidates, EndUpdateStays DEF MainUpdates
  <2> QED
    BY <1>2, <2>1, <2>2, <2>3 DEF Loop
<1>3. ASSUME NEW w \in Workers, Work(w) PROVE BackupsValidated'
  <2>1. CASE TakeTask(w)
    <3>1. UNCHANGED learnerVars \/ CallUpdate(w, TRUE)
      BY <2>1 DEF TakeTask
    <3> QED
      BY <3>1, ModelsStay, CallUpdateStays DEF learnerVars
  <2>2. CASE ProcessFeedback(w)
    BY <2>2, ModelsStay DEF ProcessFeedback, learnerVars
  <2>3. CASE LearnFromFeedback(w)
    <3>1. UNCHANGED learnerVars \/ \E b, scheduled : AddBatch(b, scheduled)
      BY <2>3 DEF LearnFromFeedback
    <3> QED
      BY <3>1, ModelsStay, AddBatchStays DEF learnerVars
  <2>4. CASE RespondToDrift(w)
    BY <2>4, UpdateValidates, EndUpdateStays DEF RespondToDrift
  <2>5. CASE EndWorkflow(w)
    BY <2>5, ModelsStay DEF EndWorkflow, learnerVars
  <2> QED
    BY <1>3, <2>1, <2>2, <2>3, <2>4, <2>5 DEF Work
<1>4. CASE CleanUp
  BY <1>4, ModelsStay DEF CleanUp, learnerVars
<1>5. CASE Crash
  BY <1>5 DEF Crash, ReloadLearner, BackupsValidated, OnlyValidatedModels
<1>6. CASE Tick
  BY <1>6, ModelsStay DEF Tick, learnerVars
<1> QED
  BY <1>1, <1>2, <1>3, <1>4, <1>5, <1>6 DEF Next

(* However the updates of the workers and of the loop overlap, fail and    *)
(* are rolled back, the model in use and the model in Redis have passed    *)
(* the validation (perform_incremental_update, _validate_updated_model).   *)
THEOREM ModelsAreValidated == Spec => []OnlyValidatedModels
<1>1. BackupsValidated => OnlyValidatedModels
  BY DEF BackupsValidated
<1> QED
  BY BackupsInit, BackupsNext, <1>1, PTL DEF Spec

-----------------------------------------------------------------------------
(* The training queue.                                                     *)

(* A batch more in the queue.                                              *)
LEMMA PushedBatch ==
    ASSUME NEW S, NEW q \in Seq(S), NEW b
    PROVE  /\ Pushed(q, b) \in Seq(S \cup {b})
           /\ ToSet(Pushed(q, b)) \subseteq ToSet(q) \cup {b}
<1> DEFINE r == IF Len(q) = QueueMax THEN Tail(q) ELSE q
<1>1. r \in Seq(S) /\ \A i \in 1 .. Len(r) : r[i] \in ToSet(q)
  <2>1. CASE Len(q) = QueueMax
    <3>1. q # <<>> /\ r = Tail(q)
      BY <2>1, LearnerAssumption
    <3>2. r \in Seq(S) /\ Len(r) = Len(q) - 1 /\ \A i \in 1 .. Len(r) : r[i] = q[i + 1]
      BY <3>1
    <3> HIDE DEF r
    <3> QED
      BY <3>2 DEF ToSet
  <2>2. CASE Len(q) # QueueMax
    BY <2>2 DEF ToSet
  <2> QED
    BY <2>1, <2>2
<1> HIDE DEF r
<1>2. r \in Seq(S \cup {b})
  BY <1>1
<1>3. /\ Append(r, b) \in Seq(S \cup {b}) /\ Len(Append(r, b)) = Len(r) + 1
      /\ \A i \in 1 .. Len(r) + 1 : Append(r, b)[i] = IF i = Len(r) + 1 THEN b ELSE r[i]
  BY <1>2
<1>4. ToSet(Append(r, b)) \subseteq ToSet(q) \cup {b}
  BY <1>1, <1>3 DEF ToSet
<1> QED
  BY <1>3, <1>4 DEF Pushed, r

LEMMA NothingQueued == <<>> \in Seq({}) /\ ToSet(<<>>) = {}
BY DEF ToSet

(* An update that trains holds every batch of the queue, and once it has   *)
(* trained a model was trained on each, but for those that came meanwhile. *)
QueueInv ==
    /\ \E S : queue \in Seq(S)
    /\ taken \in [Updaters -> {taken[t] : t \in Updaters}]
    /\ upc \in [Updaters -> {upc[t] : t \in Updaters}]
    /\ \A t \in Updaters :
          /\ upc[t] = "train" => ToSet(queue) \subseteq taken[t] \cup late
          /\ upc[t] \in {"validate", "save", "clear"} => ToSet(queue) \subseteq trainedOn \cup late
    /\ ClearedWasTrained

LEMMA QueueInit == Init => QueueInv
BY NothingQueued DEF Init, LearnerInit, QueueInv, ClearedWasTrained

LEMMA QueueStays ==
    ASSUME QueueInv, UNCHANGED <<queue, upc, taken, trainedOn, late, cleared>>
    PROVE  QueueInv'
BY DEF QueueInv, ClearedWasTrained

LEMMA QueueAdd ==
    ASSUME QueueInv, NEW b, NEW scheduled, AddBatch(b, scheduled)
    PROVE  QueueInv'
<1>1. /\ queue' = Pushed(queue, b) /\ UNCHANGED <<upc, taken, trainedOn, cleared>>
      /\ late \subseteq late' /\ (Updating => b \in late')
  BY DEF AddBatch
<1>2. PICK S : queue \in Seq(S)
  BY DEF QueueInv
<1>3. queue' \in Seq(S \cup {b}) /\ ToSet(queue') \subseteq ToSet(queue) \cup {b}
  BY <1>1, <1>2, PushedBatch
<1>4. ASSUME NEW t \in Updaters, upc[t] \in {"train", "validate", "save", "clear"} PROVE b \in late'
  BY <1>1, <1>4 DEF Updating
<1>5. \A t \in Updaters :
         /\ upc'[t] = "train" => ToSet(queue') \subseteq taken'[t] \cup late'
         /\ upc'[t] \in {"validate", "save", "clear"} => ToSet(queue') \subseteq trainedOn' \cup late'
  BY <1>1, <1>3, <1>4 DEF QueueInv
<1>6. ClearedWasTrained'
  BY <1>1 DEF QueueInv, ClearedWasTrained
<1> QED
  BY <1>1, <1>3, <1>5, <1>6 DEF QueueInv

(* An update begins or ends, without a change of the queue.                *)
LEMMA QueueGoto ==
    ASSUME QueueInv, NEW t \in Updaters, NEW step,
           UNCHANGED <<queue, late, cleared>>, trainedOn \subseteq trainedOn',
           GotoU(t, step), taken' \in [Updaters -> {taken'[u] : u \in Updaters}],
           \A u \in Updaters \ {t} : taken'[u] = taken[u],
           step = "train" => ToSet(queue) \subseteq taken'[t] \cup late,
           step \in {"validate", "save", "clear"} => ToSet(queue) \subseteq trainedOn' \cup late
    PROVE  QueueInv'
<1>1. /\ upc' = [upc EXCEPT ![t] = step] /\ upc'[t] = step
      /\ \A u \in Updaters \ {t} : upc'[u] = upc[u]
      /\ upc' \in [Updaters -> {upc'[u] : u \in Updaters}]
  BY DEF GotoU, QueueInv
<1>2. \A u \in Updaters :
         /\ upc'[u] = "train" => ToSet(queue') \subseteq taken'[u] \cup late'
         /\ upc'[u] \in {"validate", "save", "clear"} => ToSet(queue') \subseteq trainedOn' \cup late'
  <2> TAKE u \in Updaters
  <2>1. CASE u = t
    BY <2>1, <1>1
  <2>2. CASE u # t
    BY <2>2, <1>1 DEF QueueInv
  <2> QED
    BY <2>1, <2>2
<1>3. ClearedWasTrained'
  BY DEF QueueInv, ClearedWasTrained
<1> QED
  BY <1>1, <1>2, <1>3 DEF QueueInv

LEMMA QueueCall ==
    ASSUME QueueInv, NEW t \in Updaters, NEW force, CallUpdate(t, force)
    PROVE  QueueInv'
<1>1. UNCHANGED <<queue, late, cleared, trainedOn, taken>>
      /\ (GotoU(t, "begin") \/ GotoU(t, "refused"))
  BY DEF CallUpdate
<1>2. taken' \in [Updaters -> {taken'[u] : u \in Updaters}]
  BY <1>1 DEF QueueInv
<1> QED
  BY <1>1, <1>2, QueueGoto

LEMMA QueueEnd ==
    ASSUME QueueInv, NEW t \in Updaters, EndUpdate(t)
    PROVE  QueueInv'
<1>1. /\ UNCHANGED <<queue, late, cleared, trainedOn>> /\ GotoU(t, "idle")
      /\ taken' = [taken EXCEPT ![t] = {}]
  BY DEF EndUpdate
<1>2. /\ taken' \in [Updaters -> {taken'[u] : u \in Updaters}]
      /\ \A u \in Updaters \ {t} : taken'[u] = taken[u]
  BY <1>1 DEF QueueInv
<1> QED
  BY <1>1, <1>2, QueueGoto

LEMMA QueueUpdate ==
    ASSUME QueueInv, NEW t \in Updaters, NEW works \in BOOLEAN, UpdateStep(t, works)
    PROVE  QueueInv'
<1>1. CASE BeginUpdate(t)
  <2>1. CASE queue = <<>>
    <3>1. UNCHANGED <<queue, late, cleared, trainedOn, taken>> /\ GotoU(t, "refused")
      BY <1>1, <2>1 DEF BeginUpdate
    <3>2. taken' \in [Updaters -> {taken'[u] : u \in Updaters}]
      BY <3>1 DEF QueueInv
    <3> QED
      BY <3>1, <3>2, QueueGoto
  <2>2. CASE queue # <<>>
    <3>1. /\ UNCHANGED <<queue, late, cleared, trainedOn>> /\ GotoU(t, "train")
          /\ taken' = [taken EXCEPT ![t] = ToSet(queue)]
      BY <1>1, <2>2 DEF BeginUpdate, Combined
    <3>2. /\ taken' \in [Updaters -> {taken'[u] : u \in Updaters}]
          /\ taken'[t] = ToSet(queue) /\ \A u \in Updaters \ {t} : taken'[u] = taken[u]
      BY <3>1 DEF QueueInv
    <3> QED
      BY <3>1, <3>2, QueueGoto
  <2> QED
    BY <2>1, <2>2
<1>2. CASE Train(t, works)
  <2>1. /\ upc[t] = "train" /\ UNCHANGED <<queue, late, cleared, taken>>
        /\ \/ GotoU(t, "validate") /\ trainedOn' = trainedOn \cup taken[t]
           \/ GotoU(t, "refused") /\ trainedOn' = trainedOn
    BY <1>2 DEF Train, AfterFailedTraining
  <2>2. /\ ToSet(queue) \subseteq taken[t] \cup late
        /\ taken' \in [Updaters -> {taken'[u] : u \in Updaters}]
    BY <2>1 DEF QueueInv
  <2> QED
    BY <2>1, <2>2, QueueGoto
<1>3. CASE Validate(t) \/ SaveModel(t, works)
  <2>1. /\ upc[t] \in {"validate", "save"} /\ UNCHANGED <<queue, late, cleared, trainedOn, taken>>
        /\ GotoU(t, "save") \/ GotoU(t, "refused") \/ GotoU(t, "clear")
    BY <1>3 DEF Validate, SaveModel
  <2>2. /\ ToSet(queue) \subseteq trainedOn \cup late
        /\ taken' \in [Updaters -> {taken'[u] : u \in Updaters}]
    BY <2>1 DEF QueueInv
  <2> QED
    BY <2>1, <2>2, QueueGoto
<1>4. CASE ClearQueue(t)
  <2>1. /\ upc[t] = "clear" /\ UNCHANGED <<late, trainedOn, taken>>
        /\ cleared' = cleared \cup ToSet(queue) /\ queue' = <<>> /\ upc' = [upc EXCEPT ![t] = "done"]
    BY <1>4 DEF ClearQueue, GotoU
  <2>2. ClearedWasTrained'
    BY <2>1 DEF QueueInv, ClearedWasTrained
  <2>3. upc' \in [Updaters -> {upc'[u] : u \in Updaters}]
    BY <2>1 DEF QueueInv
  <2> QED
    BY <2>1, <2>2, <2>3, NothingQueued DEF QueueInv
<1> QED
  BY <1>1, <1>2, <1>3, <1>4 DEF UpdateStep

LEMMA QueueNext == QueueInv /\ [Next]_vars => QueueInv'
<1> SUFFICES ASSUME QueueInv, [Next]_vars PROVE QueueInv'
  OBVIOUS
<1> USE OrchestratorAssumption
<1>1. CASE UNCHANGED vars
  BY <1>1, QueueStays DEF vars, learnerVars
<1>2. CASE Loop
  <2>1. CASE HandleEvent
    BY <2>1, QueueStays DEF HandleEvent, learnerVars
  <2>2. CASE HandleUpdateRequest
    BY <2>2, QueueCall DEF HandleUpdateRequest
  <2>3. CASE MainUpdates
    BY <2>3, QueueUpdate, QueueEnd DEF MainUpdates
  <2> QED
    BY <1>2, <2>1, <2>2, <2>3 DEF Loop
<1>3. ASSUME NEW w \in Workers, Work(w) PROVE QueueInv'
  <2>1. CASE TakeTask(w)
    <3>1. UNCHANGED learnerVars \/ CallUpdate(w, TRUE)
      BY <2>1 DEF TakeTask
    <3> QED
      BY <3>1, QueueStays, QueueCall DEF learnerVars
  <2>2. CASE ProcessFeedback(w)
    BY <2>2, QueueStays DEF ProcessFeedback, learnerVars
  <2>3. CASE LearnFromFeedback(w)
    <3>1. UNCHANGED learnerVars \/ \E b, scheduled : AddBatch(b, scheduled)
      BY <2>3 DEF LearnFromFeedback
    <3> QED
      BY <3>1, QueueStays, QueueAdd DEF learnerVars
  <2>4. CASE RespondToDrift(w)
    BY <2>4, QueueUpdate, QueueEnd DEF RespondToDrift
  <2>5. CASE EndWorkflow(w)
    BY <2>5, QueueStays DEF EndWorkflow, learnerVars
  <2> QED
    BY <1>3, <2>1, <2>2, <2>3, <2>4, <2>5 DEF Work
<1>4. CASE CleanUp
  BY <1>4, QueueStays DEF CleanUp, learnerVars
<1>5. CASE Crash
  <2>1. /\ queue' = <<>> /\ upc' = [u \in Updaters |-> "idle"] /\ taken' = [u \in Updaters |-> {}]
        /\ UNCHANGED <<trainedOn, late, cleared>>
    BY <1>5 DEF Crash, ReloadLearner
  <2> QED
    BY <2>1, NothingQueued DEF QueueInv, ClearedWasTrained
<1>6. CASE Tick
  BY <1>6, QueueStays DEF Tick, learnerVars
<1> QED
  BY <1>1, <1>2, <1>3, <1>4, <1>5, <1>6 DEF Next

(* Clearing the queue loses no batch that was in it when an update began:  *)
(* some model was trained on it (perform_incremental_update).              *)
THEOREM QueueIsTrainedOn == Spec => []ClearedWasTrained
<1>1. QueueInv => ClearedWasTrained
  BY DEF QueueInv
<1> QED
  BY QueueInit, QueueNext, <1>1, PTL DEF Spec

-----------------------------------------------------------------------------
(* The feedback.  No lock guards the lists of pending records, so what one *)
(* worker has looked at another may have changed: but then both were in    *)
(* the middle of the same transaction, and that is on record.              *)
FeedbackLocals ==
    /\ DOMAIN fpc = Workers /\ DOMAIN hand = Workers /\ DOMAIN keys = Workers
    /\ DOMAIN judged = Workers /\ DOMAIN results = Workers
    /\ collected \in 0 .. Len(Feedback)

(* A list has records of its transaction.                                  *)
Lists ==
    \A x \in DOMAIN pending : /\ pending[x] \in Seq(Indices)
                              /\ \A i \in ToSet(pending[x]) : Feedback[i].txn = x

Races ==
    \A w \in Workers : \A v \in Workers \ {w} : Handling(w) \cap Handling(v) \subseteq contended

(* What a worker has found still holds when it acts on it, for a           *)
(* transaction it is alone with.                                           *)
Steady(w) ==
    /\ fpc[w] \in {"add", "create", "append"} => hand[w] \in Indices
    /\ fpc[w] = "create" => TxnInHand(w) \notin DOMAIN pending \/ TxnInHand(w) \in contended
    /\ fpc[w] = "append" => TxnInHand(w) \in DOMAIN pending \cup contended
    /\ fpc[w] \in {"scan", "claim"} => keys[w] \subseteq DOMAIN pending \cup contended
    /\ fpc[w] = "claim" =>
          /\ judged[w].txn \notin keys[w]
          /\ judged[w].txn \in DOMAIN pending \cup contended
          /\ judged[w].txn \in contended \/
                \A i \in ToSet(pending[judged[w].txn]) : Feedback[i].good => i \in judged[w].recs
    /\ fpc[w] = "failed" => contended # {}

Kept(i) ==
    \/ ~Feedback[i].readable \/ ~Feedback[i].good
    \/ InHands(i) \/ i \in unwanted \cup dropped \cup lostInCrash.feedback
    \/ Feedback[i].txn \in contended

FeedbackInv ==
    /\ FeedbackLocals /\ Lists /\ Races
    /\ \A w \in Workers : Steady(w)
    /\ \A i \in 1 .. collected : Kept(i)
    /\ dropped # {} => contended # {}

LEMMA FeedbackInitInv == Init => FeedbackInv
<1> SUFFICES ASSUME Init PROVE FeedbackInv
  OBVIOUS
<1> USE DEF Init, FeedbackInit
<1>1. FeedbackLocals
  BY FeedbackAssumption DEF FeedbackLocals
<1>2. Lists
  BY DEF Lists
<1>3. \A w \in Workers : fpc[w] = "idle"
  OBVIOUS
<1>4. Races
  BY <1>3 DEF Races, Handling
<1>5. \A w \in Workers : Steady(w)
  BY <1>3 DEF Steady
<1> QED
  BY <1>1, <1>2, <1>4, <1>5 DEF FeedbackInv

LEMMA FeedbackStays ==
    ASSUME FeedbackInv, UNCHANGED <<collected, pending, fpc, hand, keys, judged, results,
                                    contended, dropped, unwanted, lostInCrash>>
    PROVE  FeedbackInv'
<1>1. FeedbackLocals' /\ Lists'
  BY DEF FeedbackInv, FeedbackLocals, Lists
<1>2. Races'
  BY DEF FeedbackInv, Races, Handling, TxnInHand
<1>3. (\A w \in Workers : Steady(w))'
  BY DEF FeedbackInv, Steady, TxnInHand
<1>4. (\A i \in 1 .. collected : Kept(i))'
  BY DEF FeedbackInv, Kept, InHands
<1> QED
  BY <1>1, <1>2, <1>3, <1>4 DEF FeedbackInv

(* A step of w, seen from the other workers.                               *)
Alone(w) ==
    \A v \in Workers \ {w} : /\ fpc'[v] = fpc[v] /\ hand'[v] = hand[v] /\ keys'[v] = keys[v]
                             /\ judged'[v] = judged[v] /\ results'[v] = results[v]

LEMMA HandlingStays ==
    ASSUME NEW w, Alone(w), NEW v \in Workers \ {w}
    PROVE  Handling(v)' = Handling(v)
BY DEF Alone, Handling, TxnInHand

LEMMA RacesStep ==
    ASSUME Races, NEW w \in Workers, Alone(w),
           contended' = contended \cup UNION {Handling(w)' \cap Handling(v) : v \in Workers \ {w}}
    PROVE  Races'
<1> SUFFICES ASSUME NEW u \in Workers, NEW v \in Workers \ {u},
                    NEW x \in Handling(u)' \cap Handling(v)'
             PROVE  x \in contended'
  BY DEF Races
<1>1. CASE u = w
  BY <1>1, HandlingStays
<1>2. CASE v = w
  <2>1. Handling(u)' = Handling(u)
    BY <1>2, HandlingStays
  <2> QED
    BY <1>2, <2>1
<1>3. CASE u # w /\ v # w
  <2>1. Handling(u)' = Handling(u) /\ Handling(v)' = Handling(v)
    BY <1>3, HandlingStays
  <2> QED
    BY <2>1 DEF Races
<1> QED
  BY <1>1, <1>2, <1>3

\* A list that nobody has touched.
SameList(x) ==
    /\ x \in DOMAIN pending' <=> x \in DOMAIN pending
    /\ x \in DOMAIN pending => pending'[x] = pending[x]

LEMMA SteadyOthers ==
    ASSUME NEW w, Alone(w), NEW v \in Workers \ {w}, Steady(v), contended \subseteq contended',
           \A x \in Handling(v) \ contended : SameList(x)
    PROVE  Steady(v)'
<1>0. fpc'[v] = fpc[v] /\ hand'[v] = hand[v] /\ keys'[v] = keys[v] /\ judged'[v] = judged[v]
  BY DEF Alone
<1>1. CASE fpc[v] \in {"create", "append"}
  <2>1. Handling(v) = {TxnInHand(v)} /\ TxnInHand(v)' = TxnInHand(v)
    BY <1>0, <1>1 DEF Handling, TxnInHand
  <2>2. TxnInHand(v) \notin contended => SameList(TxnInHand(v))
    BY <2>1
  <2>3. /\ fpc[v] = "create" => TxnInHand(v) \notin DOMAIN pending' \/ TxnInHand(v) \in contended'
        /\ fpc[v] = "append" => TxnInHand(v) \in DOMAIN pending' \cup contended'
    BY <2>2 DEF Steady, SameList
  <2> QED
    BY <1>0, <1>1, <2>1, <2>3 DEF Steady
<1>2. CASE fpc[v] = "scan"
  <2>1. Handling(v) = keys[v]
    BY <1>2 DEF Handling
  <2>2. keys[v] \subseteq DOMAIN pending' \cup contended'
    BY <1>2, <2>1 DEF Steady, SameList
  <2> QED
    BY <1>0, <1>2, <2>2 DEF Steady
<1>3. CASE fpc[v] = "claim"
  <2> PICK x : x = judged[v].txn
    OBVIOUS
  <2>1. Handling(v) = keys[v] \cup {x}
    BY <1>3 DEF Handling
  <2>2. keys[v] \subseteq DOMAIN pending' \cup contended' /\ x \in DOMAIN pending' \cup contended'
    BY <1>3, <2>1 DEF Steady, SameList
  <2>3. x \in contended' \/ \A i \in ToSet(pending'[x]) : Feedback[i].good => i \in judged[v].recs
    BY <1>3, <2>1 DEF Steady, SameList
  <2>4. x \notin keys[v]
    BY <1>3 DEF Steady
  <2> QED
    BY <1>0, <1>3, <2>2, <2>3, <2>4 DEF Steady
<1>4. CASE fpc[v] \notin {"create", "append", "scan", "claim"}
  BY <1>0, <1>4 DEF Steady
<1> QED
  BY <1>1, <1>2, <1>3, <1>4

\* What worker w has of record i, and what the lists have.
Holding(w, i) ==
    \/ fpc[w] \in {"add", "create", "append"} /\ hand[w] = i
    \/ i \in RecordsOf(results[w])
Listed(i) == \E x \in DOMAIN pending : i \in ToSet(pending[x])

LEMMA InHandsSplit ==
    ASSUME NEW i
    PROVE  InHands(i) <=> Listed(i) \/ \E w \in Workers : Holding(w, i)
BY DEF InHands, Listed, Holding

(* A record in the hands of another worker stays there.                    *)
LEMMA KeptStays ==
    ASSUME NEW w \in Workers, Alone(w), NEW i, Kept(i), contended \subseteq contended',
           UNCHANGED <<unwanted, dropped, lostInCrash>>,
           Holding(w, i) => InHands(i)',
           Listed(i) => InHands(i)' \/ ~Feedback[i].good \/ Feedback[i].txn \in contended'
    PROVE  Kept(i)'
<1>1. ASSUME NEW v \in Workers \ {w}, Holding(v, i) PROVE InHands(i)'
  BY <1>1, InHandsSplit DEF Alone, Holding, InHands
<1>2. InHands(i) => InHands(i)' \/ ~Feedback[i].good \/ Feedback[i].txn \in contended'
  BY <1>1, InHandsSplit
<1> QED
  BY <1>2 DEF Kept

LEMMA FeedbackStepInv ==
    ASSUME FeedbackInv, NEW w \in Workers, Alone(w), FeedbackLocals', Lists', Steady(w)',
           contended' = contended \cup UNION {Handling(w)' \cap Handling(v) : v \in Workers \ {w}},
           \A x : x \notin Handling(w) => SameList(x),
           UNCHANGED dropped,
           \A i \in 1 .. collected' : Kept(i)'
    PROVE  FeedbackInv'
<1>1. Races'
  BY RacesStep DEF FeedbackInv
<1>2. ASSUME NEW v \in Workers \ {w} PROVE Steady(v)'
  <2>1. \A x \in Handling(v) \ contended : SameList(x)
    BY DEF FeedbackInv, Races
  <2> QED
    BY <2>1, SteadyOthers DEF FeedbackInv
<1>3. (\A v \in Workers : Steady(v))'
  BY <1>2
<1> QED
  BY <1>1, <1>3 DEF FeedbackInv

(* Its steps.  Those that touch no list first.                             *)
LEMMA FeedbackQuiet ==
    ASSUME FeedbackInv, NEW w \in Workers, Alone(w), FeedbackLocals', Steady(w)',
           contended' = contended \cup UNION {Handling(w)' \cap Handling(v) : v \in Workers \ {w}},
           UNCHANGED <<pending, dropped, unwanted, lostInCrash>>,
           \A i \in 1 .. collected : Holding(w, i) => InHands(i)',
           \A i \in 1 .. collected' \ 1 .. collected : Kept(i)'
    PROVE  FeedbackInv'
<1>1. \A x : SameList(x)
  BY DEF SameList
<1>2. Lists'
  BY DEF FeedbackInv, Lists
<1>3. ASSUME NEW i \in 1 .. collected PROVE Kept(i)'
  <2>1. Listed(i) => InHands(i)'
    BY DEF Listed, InHands
  <2> QED
    BY <2>1, KeptStays DEF FeedbackInv
<1> QED
  BY <1>1, <1>2, <1>3, FeedbackStepInv

LEMMA FeedbackCollect ==
    ASSUME FeedbackInv, NEW w \in Workers, Alone(w), NEW works \in BOOLEAN, Collect(w, works),
           contended' = contended \cup UNION {Handling(w)' \cap Handling(v) : v \in Workers \ {w}},
           UNCHANGED <<dropped, unwanted, lostInCrash>>
    PROVE  FeedbackInv'
<1> USE FeedbackAssumption DEF scanVars
<1>0. FeedbackLocals /\ fpc[w] = "collect"
  BY DEF FeedbackInv, Collect
<1>1. /\ UNCHANGED <<pending, keys, judged, results>>
      /\ \/ UNCHANGED <<collected, hand>> /\ fpc' = [fpc EXCEPT ![w] = "done"]
         \/ /\ collected < Len(Feedback) /\ collected' = collected + 1
            /\ hand' = [hand EXCEPT ![w] = collected + 1]
            /\ fpc' = [fpc EXCEPT ![w] = IF Feedback[collected + 1].readable THEN "add" ELSE "done"]
  BY DEF Collect, GotoF
<1>2. FeedbackLocals'
  BY <1>0, <1>1 DEF FeedbackLocals
<1>3. \/ UNCHANGED <<collected, hand>> /\ fpc'[w] = "done"
      \/ /\ collected + 1 \in Indices /\ collected' = collected + 1 /\ hand'[w] = collected + 1
         /\ fpc'[w] = IF Feedback[collected + 1].readable THEN "add" ELSE "done"
  BY <1>0, <1>1 DEF FeedbackLocals, Indices
<1>4. Steady(w)'
  BY <1>3 DEF Steady
<1>5. \A i \in 1 .. collected : Holding(w, i) => InHands(i)'
  BY <1>0, <1>1 DEF Holding, InHands
<1>6. \A i \in 1 .. collected' \ 1 .. collected : Kept(i)'
  <2>1. CASE collected' = collected
    BY <2>1
  <2>2. CASE /\ collected' = collected + 1 /\ hand'[w] = collected + 1
             /\ fpc'[w] = IF Feedback[collected + 1].readable THEN "add" ELSE "done"
    <3> SUFFICES ASSUME NEW i \in 1 .. collected' \ 1 .. collected, Feedback[i].readable
                 PROVE  InHands(i)'
      BY DEF Kept
    <3>1. i = collected + 1
      BY <1>0, <2>2 DEF FeedbackLocals
    <3> QED
      BY <2>2, <3>1 DEF InHands
  <2> QED
    BY <1>3, <2>1, <2>2
<1> QED
  BY <1>1, <1>2, <1>4, <1>5, <1>6, FeedbackQuiet

LEMMA FeedbackLook ==
    ASSUME FeedbackInv, NEW w \in Workers, Alone(w), LookForList(w) \/ EndScan(w) \/ Judge(w),
           contended' = contended \cup UNION {Handling(w)' \cap Handling(v) : v \in Workers \ {w}},
           UNCHANGED <<dropped, unwanted, lostInCrash>>
    PROVE  FeedbackInv'
<1> USE DEF scanVars
<1>0. FeedbackLocals /\ Steady(w)
  BY DEF FeedbackInv
<1>1. UNCHANGED <<pending, collected, hand, results>>
  BY DEF LookForList, EndScan, Judge
<1>2. CASE LookForList(w)
  <2>1. /\ fpc[w] = "add" /\ UNCHANGED <<keys, judged>>
        /\ fpc' = [fpc EXCEPT ![w] = IF TxnInHand(w) \in DOMAIN pending THEN "append" ELSE "create"]
    BY <1>2 DEF LookForList, GotoF, HasPending
  <2>2. FeedbackLocals'
    BY <1>0, <1>1, <2>1 DEF FeedbackLocals
  <2>3. /\ fpc'[w] = IF TxnInHand(w) \in DOMAIN pending THEN "append" ELSE "create"
        /\ TxnInHand(w)' = TxnInHand(w)
    BY <1>0, <1>1, <2>1 DEF FeedbackLocals, TxnInHand
  <2>4. Steady(w)'
    BY <1>0, <1>1, <2>1, <2>3 DEF Steady
  <2>5. \A i \in 1 .. collected : Holding(w, i) => InHands(i)'
    BY <1>1, <2>1, <2>3 DEF Holding, InHands
  <2> QED
    BY <1>1, <2>2, <2>4, <2>5, FeedbackQuiet
<1>3. CASE EndScan(w)
  <2>1. fpc[w] = "scan" /\ UNCHANGED <<keys, judged>> /\ fpc' = [fpc EXCEPT ![w] = "done"]
    BY <1>3 DEF EndScan, GotoF
  <2>2. FeedbackLocals' /\ fpc'[w] = "done"
    BY <1>0, <1>1, <2>1 DEF FeedbackLocals
  <2>3. Steady(w)'
    BY <2>2 DEF Steady
  <2>4. \A i \in 1 .. collected : Holding(w, i) => InHands(i)'
    BY <1>1, <2>1 DEF Holding, InHands
  <2> QED
    BY <1>1, <2>2, <2>3, <2>4, FeedbackQuiet
<1>4. CASE Judge(w)
  <2>1. PICK x \in keys[w] :
          /\ keys' = [keys EXCEPT ![w] = @ \ {x}]
          /\ \/ x \notin DOMAIN pending /\ GotoF(w, "failed") /\ UNCHANGED judged
             \/ x \in DOMAIN pending /\ UNCHANGED <<judged, fpc>>
             \/ /\ x \in DOMAIN pending /\ GotoF(w, "claim")
                /\ judged' = [judged EXCEPT ![w] = [txn |-> x, recs |-> ValidRecords(pending[x])]]
    BY <1>4 DEF Judge
  <2>2. fpc[w] = "scan"
    BY <1>4 DEF Judge
  <2>3. FeedbackLocals' /\ keys'[w] = keys[w] \ {x}
    BY <1>0, <1>1, <2>1 DEF FeedbackLocals, GotoF
  <2>4. \A i \in 1 .. collected : Holding(w, i) => InHands(i)'
    BY <1>1, <2>2 DEF Holding, InHands
  <2>5. keys[w] \subseteq DOMAIN pending \cup contended
    BY <1>0, <2>2 DEF Steady
  <2>6. Steady(w)'
    <3>1. CASE x \notin DOMAIN pending /\ GotoF(w, "failed")
      <4>1. fpc'[w] = "failed" /\ x \in contended
        BY <1>0, <2>5, <3>1 DEF FeedbackLocals, GotoF
      <4> QED
        BY <4>1 DEF Steady
    <3>2. CASE x \in DOMAIN pending /\ UNCHANGED <<judged, fpc>>
      BY <1>1, <2>2, <2>3, <2>5, <3>2 DEF Steady
    <3>3. CASE /\ x \in DOMAIN pending /\ GotoF(w, "claim")
               /\ judged' = [judged EXCEPT ![w] = [txn |-> x, recs |-> ValidRecords(pending[x])]]
      <4>1. fpc'[w] = "claim" /\ judged'[w] = [txn |-> x, recs |-> ValidRecords(pending[x])]
        BY <1>0, <3>3 DEF FeedbackLocals, GotoF
      <4>2. judged'[w].txn = x /\ judged'[w].recs = ValidRecords(pending[x])
        BY <4>1
      <4>3. \A i \in ToSet(pending'[x]) : Feedback[i].good => i \in judged'[w].recs
        BY <1>1, <4>2 DEF ValidRecords
      <4> QED
        BY <1>1, <2>3, <2>5, <3>3, <4>1, <4>2, <4>3 DEF Steady
    <3> QED
      BY <2>1, <3>1, <3>2, <3>3
  <2> QED
    BY <1>1, <2>3, <2>4, <2>6, FeedbackQuiet
<1> QED
  BY <1>2, <1>3, <1>4

LEMMA FeedbackCreate ==
    ASSUME FeedbackInv, NEW w \in Workers, Alone(w), CreateList(w),
           contended' = contended \cup UNION {Handling(w)' \cap Handling(v) : v \in Workers \ {w}},
           UNCHANGED <<dropped, unwanted, lostInCrash>>
    PROVE  FeedbackInv'
<1> USE DEF scanVars
<1> PICK x : x = TxnInHand(w)
  OBVIOUS
<1>0. FeedbackLocals /\ Steady(w)
  BY DEF FeedbackInv
<1>1. /\ fpc[w] = "create" /\ UNCHANGED <<collected, hand, keys, judged, results>>
      /\ fpc' = [fpc EXCEPT ![w] = "append"]
      /\ DOMAIN pending' = DOMAIN pending \cup {x} /\ pending'[x] = <<>>
      /\ \A y \in DOMAIN pending \ {x} : pending'[y] = pending[y]
  BY DEF CreateList, GotoF, With
<1>2. FeedbackLocals' /\ fpc'[w] = "append" /\ TxnInHand(w)' = x
  BY <1>0, <1>1 DEF FeedbackLocals, TxnInHand
<1>3. Handling(w) = {x}
  BY <1>1 DEF Handling
<1>4. \A y : y \notin Handling(w) => SameList(y)
  BY <1>1, <1>3 DEF SameList
<1>5. Lists'
  <2>1. <<>> \in Seq(Indices) /\ ToSet(<<>>) = {}
    BY DEF ToSet
  <2> SUFFICES ASSUME NEW y \in DOMAIN pending'
               PROVE  /\ pending'[y] \in Seq(Indices)
                      /\ \A i \in ToSet(pending'[y]) : Feedback[i].txn = y
    BY DEF Lists
  <2> QED
    BY <1>1, <2>1 DEF FeedbackInv, Lists
<1>6. Steady(w)'
  BY <1>0, <1>1, <1>2 DEF Steady
<1>7. ASSUME NEW i \in 1 .. collected PROVE Kept(i)'
  <2>1. Holding(w, i) => InHands(i)'
    BY <1>1, <1>2 DEF Holding, InHands
  <2>2. ASSUME Listed(i) PROVE InHands(i)' \/ Feedback[i].txn \in contended
    <3>1. PICK y \in DOMAIN pending : i \in ToSet(pending[y])
      BY <2>2 DEF Listed
    <3>2. CASE y # x
      BY <1>1, <3>1, <3>2 DEF InHands
    <3>3. CASE y = x
      BY <1>0, <1>1, <3>1, <3>3 DEF Steady, FeedbackInv, Lists
    <3> QED
      BY <3>2, <3>3
  <2> QED
    BY <2>1, <2>2, KeptStays DEF FeedbackInv
<1> QED
  BY <1>1, <1>2, <1>4, <1>5, <1>6, <1>7, FeedbackStepInv

LEMMA FeedbackAppend ==
    ASSUME FeedbackInv, NEW w \in Workers, Alone(w), AppendRecord(w),
           contended' = contended \cup UNION {Handling(w)' \cap Handling(v) : v \in Workers \ {w}},
           UNCHANGED <<dropped, unwanted, lostInCrash>>
    PROVE  FeedbackInv'
<1> PICK x : x = TxnInHand(w)
  OBVIOUS
<1> PICK r : r = hand[w]
  OBVIOUS
<1>0. FeedbackLocals /\ Steady(w) /\ Lists
  BY DEF FeedbackInv
<1>1. /\ fpc[w] = "append" /\ UNCHANGED <<collected, judged, results>>
      /\ fpc' = [fpc EXCEPT ![w] = "scan"] /\ hand' = [hand EXCEPT ![w] = 0]
      /\ keys' = [keys EXCEPT ![w] = DOMAIN pending']
      /\ IF x \in DOMAIN pending
           THEN /\ DOMAIN pending' = DOMAIN pending /\ pending'[x] = Append(pending[x], r)
                /\ \A y \in DOMAIN pending \ {x} : pending'[y] = pending[y]
           ELSE pending' = pending
  BY DEF AppendRecord, GotoF, With
<1>2. FeedbackLocals' /\ fpc'[w] = "scan" /\ keys'[w] = DOMAIN pending'
  BY <1>0, <1>1 DEF FeedbackLocals
<1>3. Handling(w) = {x} /\ r \in Indices /\ Feedback[r].txn = x
  BY <1>0, <1>1 DEF Handling, Steady, TxnInHand
<1>4. \A y : y \notin Handling(w) => SameList(y)
  BY <1>1, <1>3 DEF SameList
<1>5. x \in DOMAIN pending => /\ pending'[x] \in Seq(Indices)
                              /\ ToSet(pending'[x]) = ToSet(pending[x]) \cup {r}
  <2> SUFFICES ASSUME x \in DOMAIN pending, NEW q, q = pending[x]
               PROVE  Append(q, r) \in Seq(Indices) /\ ToSet(Append(q, r)) = ToSet(q) \cup {r}
    BY <1>1
  <2>1. q \in Seq(Indices)
    BY <1>0 DEF Lists
  <2>2. /\ Append(q, r) \in Seq(Indices) /\ Len(Append(q, r)) = Len(q) + 1 /\ Len(q) \in Nat
        /\ \A i \in 1 .. Len(q) + 1 : Append(q, r)[i] = IF i = Len(q) + 1 THEN r ELSE q[i]
        /\ DOMAIN Append(q, r) = 1 .. Len(q) + 1 /\ DOMAIN q = 1 .. Len(q)
    BY <1>3, <2>1
  <2>3. ASSUME NEW i \in ToSet(Append(q, r)) PROVE i \in ToSet(q) \cup {r}
    BY <2>2, <2>3 DEF ToSet
  <2>4. ASSUME NEW i \in ToSet(q) \cup {r} PROVE i \in ToSet(Append(q, r))
    <3>1. CASE i = r
      <4>1. Len(q) + 1 \in 1 .. Len(q) + 1 /\ Append(q, r)[Len(q) + 1] = r
        BY <2>2
      <4> QED
        BY <2>2, <3>1, <4>1 DEF ToSet
    <3>2. CASE i \in ToSet(q)
      <4>1. PICK j \in 1 .. Len(q) : q[j] = i
        BY <2>2, <3>2 DEF ToSet
      <4>2. j \in 1 .. Len(q) + 1 /\ Append(q, r)[j] = i
        BY <2>2, <4>1
      <4> QED
        BY <2>2, <4>2 DEF ToSet
    <3> QED
      BY <2>4, <3>1, <3>2
  <2> QED
    BY <2>2, <2>3, <2>4
<1>6. Lists'
  <2> SUFFICES ASSUME NEW y \in DOMAIN pending'
               PROVE  /\ pending'[y] \in Seq(Indices)
                      /\ \A i \in ToSet(pending'[y]) : Feedback[i].txn = y
    BY DEF Lists
  <2> QED
    BY <1>0, <1>1, <1>3, <1>5 DEF Lists
<1>7. Steady(w)'
  BY <1>2 DEF Steady
<1>8. ASSUME NEW i \in 1 .. collected PROVE Kept(i)'
  <2>1. Listed(i) => InHands(i)'
    <3> SUFFICES ASSUME NEW y \in DOMAIN pending, i \in ToSet(pending[y]) PROVE InHands(i)'
      BY DEF Listed
    <3> QED
      BY <1>1, <1>5 DEF InHands
  <2>2. ASSUME Holding(w, i), x \in DOMAIN pending PROVE InHands(i)'
    <3>1. CASE i = r
      BY <1>1, <1>5, <2>2, <3>1 DEF InHands
    <3>2. CASE i # r
      BY <1>1, <2>2, <3>2 DEF Holding, InHands
    <3> QED
      BY <3>1, <3>2
  <2>3. ASSUME Holding(w, i), x \notin DOMAIN pending PROVE InHands(i)' \/ Feedback[i].txn \in contended
    <3>1. CASE i = r
      BY <1>0, <1>1, <1>3, <2>3, <3>1 DEF Steady
    <3>2. CASE i # r
      BY <1>1, <2>3, <3>2 DEF Holding, InHands
    <3> QED
      BY <3>1, <3>2
  <2>4. CASE Feedback[i].txn \in contended
    BY <2>4 DEF Kept
  <2>5. CASE Feedback[i].txn \notin contended
    <3>1. Holding(w, i) => InHands(i)'
      BY <2>2, <2>3, <2>5
    <3> QED
      BY <2>1, <3>1, KeptStays DEF FeedbackInv
  <2> QED
    BY <2>4, <2>5
<1> QED
  BY <1>1, <1>2, <1>4, <1>6, <1>7, <1>8, FeedbackStepInv

LEMMA FeedbackClaim ==
    ASSUME FeedbackInv, NEW w \in Workers, Alone(w), Claim(w),
           contended' = contended \cup UNION {Handling(w)' \cap Handling(v) : v \in Workers \ {w}},
           UNCHANGED <<dropped, unwanted, lostInCrash>>
    PROVE  FeedbackInv'
<1> PICK j : j = judged[w]
  OBVIOUS
<1> PICK x : x = j.txn
  OBVIOUS
<1>0. FeedbackLocals /\ Steady(w) /\ Lists
  BY DEF FeedbackInv
<1>1. /\ fpc[w] = "claim" /\ UNCHANGED <<collected, hand, keys>>
      /\ judged' = [judged EXCEPT ![w] = Nobody]
      /\ IF x \in DOMAIN pending
           THEN /\ DOMAIN pending' = DOMAIN pending \ {x}
                /\ \A y \in DOMAIN pending \ {x} : pending'[y] = pending[y]
                /\ results' = [results EXCEPT ![w] = @ \cup {j}]
                /\ fpc' = [fpc EXCEPT ![w] = "scan"]
           ELSE UNCHANGED <<pending, results>> /\ fpc' = [fpc EXCEPT ![w] = "failed"]
  BY DEF Claim, GotoF, Without
<1>2. FeedbackLocals' /\ fpc'[w] = IF x \in DOMAIN pending THEN "scan" ELSE "failed"
  BY <1>0, <1>1 DEF FeedbackLocals
<1>3. /\ x \in Handling(w) /\ x \notin keys[w] /\ x \in DOMAIN pending \cup contended
      /\ keys[w] \subseteq DOMAIN pending \cup contended
      /\ x \in contended \/ \A i \in ToSet(pending[x]) : Feedback[i].good => i \in j.recs
  BY <1>0, <1>1 DEF Handling, Steady
<1>4. \A y : y \notin Handling(w) => SameList(y)
  BY <1>1, <1>3 DEF SameList
<1>5. Lists'
  BY <1>0, <1>1 DEF Lists
<1>6. Steady(w)'
  BY <1>1, <1>2, <1>3 DEF Steady
<1>7. ASSUME NEW i \in 1 .. collected PROVE Kept(i)'
  <2>1. results[w] \subseteq results'[w] /\ (x \in DOMAIN pending => j \in results'[w])
    BY <1>0, <1>1 DEF FeedbackLocals
  <2>2. Holding(w, i) => InHands(i)'
    <3>1. RecordsOf(results[w]) \subseteq RecordsOf(results'[w])
      BY <2>1 DEF RecordsOf
    <3>2. RecordsOf(results[w])' = RecordsOf(results'[w])
      BY DEF RecordsOf
    <3> QED
      BY <1>1, <3>1, <3>2 DEF Holding, InHands
  <2>3. ASSUME Listed(i), Feedback[i].good, Feedback[i].txn \notin contended PROVE InHands(i)'
    <3>1. PICK y \in DOMAIN pending : i \in ToSet(pending[y])
      BY <2>3 DEF Listed
    <3>2. CASE y # x \/ x \notin DOMAIN pending
      BY <1>1, <3>1, <3>2 DEF InHands
    <3>3. CASE y = x /\ x \in DOMAIN pending
      <4>1. Feedback[i].txn = x
        BY <1>0, <3>1, <3>3 DEF Lists
      <4>2. i \in j.recs
        BY <1>3, <2>3, <3>1, <3>3, <4>1
      <4>3. i \in RecordsOf(results'[w])
        BY <2>1, <3>3, <4>2 DEF RecordsOf
      <4>4. RecordsOf(results[w])' = RecordsOf(results'[w])
        BY DEF RecordsOf
      <4> QED
        BY <4>3, <4>4 DEF InHands
    <3> QED
      BY <3>1, <3>2, <3>3
  <2> QED
    BY <2>2, <2>3, KeptStays DEF FeedbackInv
<1> QED
  BY <1>1, <1>2, <1>4, <1>5, <1>6, <1>7, FeedbackStepInv

(* A worker is done with the feedback, or starts on it.                    *)
LEMMA FeedbackGoto ==
    ASSUME FeedbackInv, NEW w \in Workers, NEW step \in {"collect", "idle"}, GotoF(w, step),
           fpc[w] \notin {"add", "create", "append"},
           UNCHANGED <<collected, pending, hand, judged, contended, lostInCrash>>,
           \/ UNCHANGED <<keys, results>>
           \/ keys' = [keys EXCEPT ![w] = {}] /\ results' = [results EXCEPT ![w] = {}],
           unwanted \subseteq unwanted', dropped \subseteq dropped',
           results' # results => RecordsOf(results[w]) \subseteq unwanted' \cup dropped',
           dropped' # dropped => contended # {}
    PROVE  FeedbackInv'
<1>0. FeedbackLocals
  BY DEF FeedbackInv
<1>1. Alone(w) /\ FeedbackLocals' /\ fpc'[w] = step
  BY <1>0 DEF Alone, FeedbackLocals, GotoF
<1>2. Races'
  <2>1. Handling(w)' = {}
    BY <1>1 DEF Handling
  <2>2. contended' = contended \cup UNION {Handling(w)' \cap Handling(v) : v \in Workers \ {w}}
    BY <2>1
  <2> QED
    BY <1>1, <2>2, RacesStep DEF FeedbackInv
<1>3. ASSUME NEW v \in Workers PROVE Steady(v)'
  <2>1. CASE v = w
    BY <1>1, <2>1 DEF Steady
  <2>2. CASE v # w
    BY <1>1, <2>2, SteadyOthers DEF FeedbackInv, SameList
  <2> QED
    BY <2>1, <2>2
<1>4. Lists'
  BY DEF FeedbackInv, Lists
<1>5. ASSUME NEW i \in 1 .. collected PROVE Kept(i)'
  <2>1. ASSUME InHands(i) PROVE InHands(i)' \/ i \in unwanted' \cup dropped'
    <3>1. CASE Listed(i)
      BY <3>1 DEF Listed, InHands
    <3>2. ASSUME NEW v \in Workers, Holding(v, i) PROVE InHands(i)' \/ i \in unwanted' \cup dropped'
      <4>1. CASE v # w
        BY <1>1, <3>2, <4>1 DEF Alone, Holding, InHands
      <4>2. CASE v = w
        <5>1. i \in RecordsOf(results[w])
          BY <3>2, <4>2 DEF Holding
        <5>2. CASE results' = results
          <6>1. RecordsOf(results[w])' = RecordsOf(results'[w])
            BY DEF RecordsOf
          <6> QED
            BY <5>1, <5>2, <6>1 DEF InHands
        <5> QED
          BY <5>1, <5>2
      <4> QED
        BY <4>1, <4>2
    <3> QED
      BY <2>1, <3>1, <3>2, InHandsSplit
  <2> QED
    BY <2>1 DEF FeedbackInv, Kept
<1>6. (\A i \in 1 .. collected : Kept(i))'
  BY <1>5
<1>7. dropped' # {} => contended' # {}
  BY DEF FeedbackInv
<1> QED
  BY <1>1, <1>2, <1>3, <1>4, <1>6, <1>7 DEF FeedbackInv

LEMMA FeedbackCrash ==
    ASSUME FeedbackInv, Crash
    PROVE  FeedbackInv'
<1>1. /\ pending' = <<>> /\ fpc' = [w \in Workers |-> "idle"] /\ hand' = [w \in Workers |-> 0]
      /\ keys' = [w \in Workers |-> {}] /\ judged' = [w \in Workers |-> Nobody]
      /\ results' = [w \in Workers |-> {}] /\ UNCHANGED <<collected, contended, dropped, unwanted>>
      /\ lostInCrash'.feedback = lostInCrash.feedback \cup {i \in Indices : InHands(i)}
  BY DEF Crash, ForgetFeedback
<1>2. FeedbackLocals' /\ Lists' /\ \A w \in Workers : fpc'[w] = "idle"
  BY <1>1 DEF FeedbackInv, FeedbackLocals, Lists
<1>3. Races'
  BY <1>2 DEF Races, Handling
<1>4. (\A w \in Workers : Steady(w))'
  BY <1>2 DEF Steady
<1>5. ASSUME NEW i \in 1 .. collected PROVE Kept(i)'
  <2>1. i \in Indices
    BY FeedbackAssumption DEF FeedbackInv, FeedbackLocals, Indices
  <2>2. Kept(i)
    BY DEF FeedbackInv
  <2> QED
    BY <1>1, <2>1, <2>2 DEF Kept
<1>6. (\A i \in 1 .. collected : Kept(i))'
  BY <1>1, <1>5
<1> QED
  BY <1>1, <1>2, <1>3, <1>4, <1>6 DEF FeedbackInv

(* A worker is in the feedback processor only for a feedback workflow.     *)
IdleInv ==
    /\ DOMAIN wpc = Workers /\ DOMAIN fpc = Workers
    /\ \A w \in Workers : wpc[w] # "feedback" => fpc[w] = "idle"

LEMMA IdleNext == IdleInv /\ [Next]_vars => IdleInv'
<1> SUFFICES ASSUME IdleInv, [Next]_vars PROVE IdleInv'
  OBVIOUS
<1> USE DEF IdleInv, feedbackVars
<1>1. CASE UNCHANGED vars
  BY <1>1 DEF vars, orchestratorVars, workflowVars
<1>2. CASE Loop
  BY <1>2 DEF Loop, HandleEvent, HandleUpdateRequest, MainUpdates
<1>3. ASSUME NEW w \in Workers, Work(w) PROVE IdleInv'
  <2>1. CASE TakeTask(w)
    <3>1. \/ UNCHANGED <<fpc, wpc>>
          \/ GotoF(w, "collect") /\ GotoW(w, "feedback")
          \/ UNCHANGED fpc /\ wpc[w] = "idle" /\ \E step \in {"update", "finish"} : GotoW(w, step)
      BY <2>1 DEF TakeTask
    <3> QED
      BY <3>1 DEF GotoF, GotoW
  <2>2. CASE ProcessFeedback(w)
    <3>1. wpc[w] = "feedback" /\ UNCHANGED wpc
      BY <2>2 DEF ProcessFeedback, workflowVars
    <3>2. UNCHANGED fpc \/ \E step : GotoF(w, step)
      BY <2>2 DEF ProcessFeedback, FeedbackStep, Collect, LookForList, CreateList, AppendRecord,
                  Judge, Claim, EndScan
    <3> QED
      BY <3>1, <3>2 DEF GotoF
  <2>3. CASE LearnFromFeedback(w)
    <3>1. GotoF(w, "idle") /\ \E step : GotoW(w, step)
      BY <2>3 DEF LearnFromFeedback, EndFeedback
    <3> QED
      BY <3>1 DEF GotoF, GotoW
  <2>4. CASE RespondToDrift(w) \/ EndWorkflow(w)
    <3>1. UNCHANGED fpc /\ wpc[w] # "feedback" /\ (UNCHANGED wpc \/ \E step : GotoW(w, step))
      BY <2>4 DEF RespondToDrift, EndWorkflow
    <3> QED
      BY <3>1 DEF GotoW
  <2> QED
    BY <1>3, <2>1, <2>2, <2>3, <2>4 DEF Work
<1>4. CASE CleanUp
  BY <1>4 DEF CleanUp
<1>5. CASE Crash
  BY <1>5 DEF Crash, ForgetFeedback
<1>6. CASE Tick
  BY <1>6 DEF Tick, orchestratorVars, workflowVars
<1> QED
  BY <1>1, <1>2, <1>3, <1>4, <1>5, <1>6 DEF Next

LEMMA FeedbackNext == IdleInv /\ FeedbackInv /\ [Next]_vars => FeedbackInv'
<1> SUFFICES ASSUME IdleInv, FeedbackInv, [Next]_vars PROVE FeedbackInv'
  OBVIOUS
<1> USE DEF feedbackVars
<1>1. CASE UNCHANGED vars
  BY <1>1, FeedbackStays DEF vars, orchestratorVars
<1>2. CASE Loop
  BY <1>2, FeedbackStays DEF Loop, HandleEvent, HandleUpdateRequest, MainUpdates
<1>3. ASSUME NEW w \in Workers, Work(w) PROVE FeedbackInv'
  <2>1. CASE TakeTask(w)
    <3>1. /\ UNCHANGED <<collected, pending, hand, judged, contended, lostInCrash, keys, results, dropped, unwanted>>
          /\ UNCHANGED fpc \/ GotoF(w, "collect")
          /\ fpc[w] = "idle"
      BY <2>1 DEF TakeTask, scanVars, IdleInv
    <3> QED
      BY <3>1, FeedbackStays, FeedbackGoto
  <2>2. CASE ProcessFeedback(w)
    <3>1. PICK works \in BOOLEAN : FeedbackStep(w, works)
      BY <2>2 DEF ProcessFeedback
    <3>2. /\ contended' = contended \cup UNION {Handling(w)' \cap Handling(v) : v \in Workers \ {w}}
          /\ UNCHANGED <<dropped, unwanted, lostInCrash>>
      BY <2>2 DEF ProcessFeedback
    <3>3. FeedbackLocals
      BY DEF FeedbackInv
    <3>4. Alone(w)
      BY <3>1, <3>3 DEF Alone, FeedbackLocals, FeedbackStep, Collect, LookForList, CreateList, AppendRecord,
                        Judge, Claim, EndScan, GotoF, scanVars
    <3> QED
      BY <3>1, <3>2, <3>4, FeedbackCollect, FeedbackLook, FeedbackCreate, FeedbackAppend, FeedbackClaim
      DEF FeedbackStep
  <2>3. CASE LearnFromFeedback(w)
    <3>1. /\ fpc[w] \in {"done", "failed"} /\ EndFeedback(w) /\ UNCHANGED <<contended, lostInCrash>>
          /\ \/ /\ fpc[w] = "failed" /\ dropped' = dropped \cup RecordsOf(results[w])
                /\ UNCHANGED unwanted
             \/ UNCHANGED dropped /\ unwanted' = unwanted \cup RecordsOf(results[w])
      BY <2>3 DEF LearnFromFeedback
    <3>2. fpc[w] = "failed" => contended # {}
      BY DEF FeedbackInv, Steady
    <3> QED
      BY <3>1, <3>2, FeedbackGoto DEF EndFeedback
  <2>4. CASE RespondToDrift(w) \/ EndWorkflow(w)
    BY <2>4, FeedbackStays DEF RespondToDrift, EndWorkflow
  <2> QED
    BY <1>3, <2>1, <2>2, <2>3, <2>4 DEF Work
<1>4. CASE CleanUp
  BY <1>4, FeedbackStays DEF CleanUp
<1>5. CASE Crash
  BY <1>5, FeedbackCrash
<1>6. CASE Tick
  BY <1>6, FeedbackStays DEF Tick, orchestratorVars, scanVars
<1> QED
  BY <1>1, <1>2, <1>3, <1>4, <1>5, <1>6 DEF Next

(* No feedback is lost without a trace: however the workers interleave,    *)
(* a record that add_feedback and process_pending_feedback have seen is    *)
(* still in hand or pending, is in a batch or was judged, is gone with a   *)
(* killed process, or two workers were in the middle of its transaction;   *)
(* and no pass fails, dropping what it had processed, without such a race. *)
THEOREM FeedbackIsAccountedFor == Spec => []FeedbackAccounted
<1>1. Init => IdleInv
  BY DEF Init, FeedbackInit, IdleInv
<1>2. FeedbackInv => FeedbackAccounted
  BY DEF FeedbackInv, Kept, FeedbackAccounted
<1> QED
  BY FeedbackInitInv, IdleNext, FeedbackNext, <1>1, <1>2, PTL DEF Spec
=============================================================================
