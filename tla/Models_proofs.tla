--------------------------- MODULE Models_proofs ----------------------------
(***************************************************************************)
(* The two ways a model comes into use: the training pipelines that make   *)
(* it and the experiments that compare it.  What the pipelines keep, for   *)
(* every number of processes, trials and scores; the variants users get and*)
(* the results counted for them, for every number of detectors, tools,     *)
(* users and experiments and every split of the traffic; and every bound on*)
(* failures and kills.                                                     *)
(***************************************************************************)
EXTENDS Training, Experiments, FiniteSetTheorems, SequenceTheorems, TLAPS

-----------------------------------------------------------------------------
(* Experiments.                                                            *)

ExperimentFields == {"id", "status", "split", "n", "hits", "winner"}
IsCopy(e) == DOMAIN e = ExperimentFields /\ e.id \in Ids

(* A copy that a process may store is of an experiment Redis has, with the *)
(* same split, unless the experiment was created twice.                    *)
Agreed(e) == e.id \notin recreated => e.id \in DOMAIN store /\ e.split = store[e.id].split

StoreInv == /\ now \in Ids /\ DOMAIN store \subseteq Ids
            /\ \A id \in DOMAIN store : IsCopy(store[id]) /\ store[id].id = id

ToolInv ==
    /\ toolPc \in [Tools -> {toolPc[t] : t \in Tools}]
    /\ toolCopy \in [Tools -> {toolCopy[t] : t \in Tools}]
    /\ \A t \in Tools :
          /\ toolPc[t] \in {"load", "store"} => IsCopy(toolCopy[t])
          /\ toolPc[t] = "store" => Agreed(toolCopy[t])

(* A user's variant is that of the first of the detector's experiments.    *)
ManagerInv(m) ==
    /\ ~up[m] => pc[m] = "idle" /\ mine[m] = <<>>
    /\ \E S : mine[m] \in Seq(S)
    /\ \A i \in 1 .. Len(mine[m]) : IsCopy(mine[m][i]) /\ Agreed(mine[m][i])
    /\ pc[m] \in {"keep", "record", "analyze"} => mine[m] # <<>>
    /\ pc[m] \in {"keep", "record"} =>
          \E u \in Users :
             /\ at[m] = <<u, mine[m][1].id>>
             /\ result[m] \in Variants
             /\ mine[m][1].id \notin recreated => result[m] = VariantFor(u, mine[m][1])
    /\ pc[m] = "again" => IsCopy(stopped[m]) /\ Agreed(stopped[m])

ManagerFunctions ==
    /\ mine \in [Managers -> {mine[m] : m \in Managers}] /\ pc \in [Managers -> {pc[m] : m \in Managers}]
    /\ at \in [Managers -> {at[m] : m \in Managers}] /\ up \in [Managers -> {up[m] : m \in Managers}]
    /\ result \in [Managers -> {result[m] : m \in Managers}]
    /\ stopped \in [Managers -> {stopped[m] : m \in Managers}]

ManagersInv == ManagerFunctions /\ \A m \in Managers : ManagerInv(m)

(* What Redis keeps of a user, and what the user has seen, is the variant  *)
(* that the split of the stored experiment gives.                          *)
UsersInv ==
    /\ assignments \in [Users \X Ids -> Variants \cup {Nil}]
    /\ seen \in [Users \X Ids -> SUBSET Variants]
    /\ \A u \in Users, id \in Ids \ recreated :
          /\ assignments[<<u, id>>] # Nil =>
                id \in DOMAIN store /\ assignments[<<u, id>>] = VariantFor(u, store[id])
          /\ \A v \in seen[<<u, id>>] : id \in DOMAIN store /\ v = VariantFor(u, store[id])

XInv == StoreInv /\ ToolInv /\ ManagersInv /\ UsersInv

LEMMA XInvInit == XInit => XInv
<1> SUFFICES ASSUME XInit PROVE XInv
  OBVIOUS
<1>1. StoreInv
  BY ExperimentsAssumption DEF XInit, StoreInv, Ids
<1>2. ToolInv
  BY DEF XInit, ToolInv
<1>3. ManagersInv
  <2>1. <<>> \in Seq({}) /\ Len(<<>>) = 0
    OBVIOUS
  <2> QED
    BY <2>1 DEF XInit, ManagersInv, ManagerFunctions, ManagerInv
<1>4. UsersInv
  BY DEF XInit, UsersInv
<1> QED
  BY <1>1, <1>2, <1>3, <1>4 DEF XInv

-----------------------------------------------------------------------------
(* Redis keeps the splits of its experiments, but for those created twice. *)
SplitsStay ==
    /\ recreated \subseteq recreated'
    /\ \A id \in DOMAIN store :
          id \notin recreated' => id \in DOMAIN store' /\ store'[id].split = store[id].split

LEMMA AgreedStays ==
    ASSUME SplitsStay, NEW e, Agreed(e)
    PROVE  Agreed(e)'
BY DEF SplitsStay, Agreed

LEMMA Unchanging ==
    ASSUME UNCHANGED <<store, recreated>>
    PROVE  SplitsStay
BY DEF SplitsStay

LEMMA Storing ==
    ASSUME StoreInv, NEW e, IsCopy(e), Agreed(e), StoreWhole(e), now' \in Ids, UNCHANGED recreated
    PROVE  StoreInv' /\ SplitsStay
<1>1. CASE store' = Stored(e)
  BY <1>1 DEF StoreInv, SplitsStay, Stored, Agreed, IsCopy
<1>2. CASE UNCHANGED store
  BY <1>2 DEF StoreInv, SplitsStay, IsCopy
<1> QED
  BY <1>1, <1>2 DEF StoreWhole

LEMMA ToolsStay ==
    ASSUME ToolInv, SplitsStay, UNCHANGED toolVars
    PROVE  ToolInv'
BY AgreedStays DEF ToolInv, toolVars, IsCopy

LEMMA VariantStays ==
    ASSUME NEW u \in Users, NEW e, NEW f, e.id = f.id, e.split = f.split
    PROVE  VariantFor(u, e) = VariantFor(u, f)
BY DEF VariantFor

(* A detector that does nothing, while others do.                          *)
LEMMA ManagerStays ==
    ASSUME NEW m \in Managers, ManagerInv(m), SplitsStay,
           mine'[m] = mine[m], pc'[m] = pc[m], at'[m] = at[m], result'[m] = result[m],
           stopped'[m] = stopped[m], up'[m] = up[m]
    PROVE  ManagerInv(m)'
<1>1. recreated \subseteq recreated'
  BY DEF SplitsStay
<1>2. \A i \in 1 .. Len(mine[m]) : IsCopy(mine[m][i])' /\ Agreed(mine[m][i])'
  BY AgreedStays DEF ManagerInv, IsCopy
<1>3. pc[m] = "again" => IsCopy(stopped[m])' /\ Agreed(stopped[m])'
  BY AgreedStays DEF ManagerInv, IsCopy
<1> QED
  BY <1>1, <1>2, <1>3 DEF ManagerInv

LEMMA ManagersStay ==
    ASSUME ManagersInv, SplitsStay, UNCHANGED <<up, mine, pc, at, result, stopped>>
    PROVE  ManagersInv'
<1>1. \A m \in Managers : ManagerInv(m)'
  BY ManagerStays DEF ManagersInv
<1> QED
  BY <1>1 DEF ManagersInv, ManagerFunctions

LEMMA UsersStay ==
    ASSUME UsersInv, StoreInv, StoreInv', SplitsStay, UNCHANGED <<assignments, seen>>
    PROVE  UsersInv'
<1>1. ASSUME NEW u \in Users, NEW id \in DOMAIN store, id \notin recreated'
      PROVE  id \in DOMAIN store' /\ VariantFor(u, store'[id]) = VariantFor(u, store[id])
  BY <1>1, VariantStays DEF SplitsStay, StoreInv
<1>2. recreated \subseteq recreated'
  BY DEF SplitsStay
<1> QED
  BY <1>1, <1>2 DEF UsersInv

(* The step of one detector.                                               *)
LEMMA OneManager ==
    ASSUME ManagersInv, SplitsStay, NEW m \in Managers, ManagerFunctions',
           \A o \in Managers \ {m} :
              /\ mine'[o] = mine[o] /\ pc'[o] = pc[o] /\ at'[o] = at[o] /\ up'[o] = up[o]
              /\ result'[o] = result[o] /\ stopped'[o] = stopped[o],
           ManagerInv(m)'
    PROVE  ManagersInv'
BY ManagerStays DEF ManagersInv

-----------------------------------------------------------------------------
(* The tools.                                                              *)
(* A tool's draft is created, loaded, started, or given up.                *)
LEMMA OneTool ==
    ASSUME ToolInv, SplitsStay, NEW t \in Tools, NEW p, NEW e,
           toolPc' = [toolPc EXCEPT ![t] = p], toolCopy' = [toolCopy EXCEPT ![t] = e],
           p = "done" \/ (p = "load" /\ IsCopy(e)) \/ (p = "store" /\ IsCopy(e) /\ Agreed(e)')
    PROVE  ToolInv'
<1>1. /\ toolPc' \in [Tools -> {toolPc'[o] : o \in Tools}]
      /\ toolCopy' \in [Tools -> {toolCopy'[o] : o \in Tools}]
      /\ toolPc'[t] = p /\ toolCopy'[t] = e
      /\ \A o \in Tools \ {t} : toolPc'[o] = toolPc[o] /\ toolCopy'[o] = toolCopy[o]
  BY DEF ToolInv
<1>2. \A o \in Tools \ {t} : /\ toolPc'[o] \in {"load", "store"} => IsCopy(toolCopy[o])
                            /\ toolPc'[o] = "store" => Agreed(toolCopy[o])'
  BY <1>1, AgreedStays DEF ToolInv
<1> QED
  BY <1>1, <1>2 DEF ToolInv, IsCopy

LEMMA CreateKeeps ==
    ASSUME XInv, NEW t \in Tools, Create(t)
    PROVE  XInv'
<1>1. PICK e : /\ IsCopy(e) /\ e.id = now
               /\ toolCopy' = [toolCopy EXCEPT ![t] = e] /\ StoreWhole(e)
  <2>1. PICK split \in Splits :
          LET e == [id |-> now, status |-> "draft", split |-> split,
                    n |-> Zero, hits |-> Zero, winner |-> Nil]
          IN  StoreWhole(e) /\ toolCopy' = [toolCopy EXCEPT ![t] = e]
    BY DEF Create
  <2> DEFINE e == [id |-> now, status |-> "draft", split |-> split,
                   n |-> Zero, hits |-> Zero, winner |-> Nil]
  <2>2. IsCopy(e) /\ e.id = now
    BY DEF XInv, StoreInv, IsCopy, ExperimentFields
  <2> HIDE DEF e
  <2> QED
    BY <2>1, <2>2 DEF e
<1>2. now \in Ids
  BY DEF XInv, StoreInv
<1>3. /\ toolPc' = [toolPc EXCEPT ![t] = "load"] /\ UNCHANGED <<now, assignments, managerVars, seen>>
      /\ recreated' = IF now \in DOMAIN store THEN recreated \cup {now} ELSE recreated
  BY DEF Create
<1>4. StoreInv' /\ SplitsStay
  <2>1. CASE store' = Stored(e)
    BY <1>1, <1>2, <1>3, <2>1 DEF XInv, StoreInv, SplitsStay, Stored, IsCopy
  <2>2. CASE UNCHANGED store
    BY <1>1, <1>3, <2>2 DEF XInv, StoreInv, SplitsStay, IsCopy
  <2> QED
    BY <1>1, <2>1, <2>2 DEF StoreWhole
<1>5. ToolInv'
  BY <1>1, <1>3, <1>4, OneTool DEF XInv
<1> QED
  BY <1>3, <1>4, <1>5, ManagersStay, UsersStay DEF XInv, managerVars

LEMMA LoadDraftKeeps ==
    ASSUME XInv, NEW t \in Tools, LoadDraft(t)
    PROVE  XInv'
<1>1. UNCHANGED <<now, store, assignments, managerVars, seen, recreated>>
  BY DEF LoadDraft, redisVars, ghostVars
<1>2. SplitsStay
  BY <1>1, Unchanging
<1>3. StoreInv'
  BY <1>1 DEF XInv, StoreInv, IsCopy
<1>4. CASE toolCopy[t].id \in DOMAIN store /\ store[toolCopy[t].id].status = "draft"
  <2> PICK e : e = store[toolCopy[t].id]
    OBVIOUS
  <2>1. toolCopy' = [toolCopy EXCEPT ![t] = e] /\ toolPc' = [toolPc EXCEPT ![t] = "store"]
    BY <1>4 DEF LoadDraft
  <2>2. IsCopy(e) /\ Agreed(e)'
    BY <1>1, <1>4 DEF XInv, StoreInv, Agreed
  <2>3. ToolInv'
    BY <1>2, <2>1, <2>2, OneTool DEF XInv
  <2> QED
    BY <1>1, <1>2, <1>3, <2>3, ManagersStay, UsersStay DEF XInv, managerVars
<1>5. CASE ~(toolCopy[t].id \in DOMAIN store /\ store[toolCopy[t].id].status = "draft")
  <2>1. toolCopy' = [toolCopy EXCEPT ![t] = Nil] /\ toolPc' = [toolPc EXCEPT ![t] = "done"]
    BY <1>5 DEF LoadDraft
  <2>2. ToolInv'
    BY <1>2, <2>1, OneTool DEF XInv
  <2> QED
    BY <1>1, <1>2, <1>3, <2>2, ManagersStay, UsersStay DEF XInv, managerVars
<1> QED
  BY <1>4, <1>5

LEMMA StartKeeps ==
    ASSUME XInv, NEW t \in Tools, StartExperiment(t)
    PROVE  XInv'
<1> DEFINE e == [toolCopy[t] EXCEPT !.status = "running"]
<1>1. /\ IsCopy(toolCopy[t]) /\ Agreed(toolCopy[t])
      /\ UNCHANGED <<now, assignments, managerVars, seen, recreated>> /\ StoreWhole(e)
      /\ toolCopy' = [toolCopy EXCEPT ![t] = Nil] /\ toolPc' = [toolPc EXCEPT ![t] = "done"]
  BY DEF StartExperiment, XInv, ToolInv
<1>2. e.id = toolCopy[t].id /\ e.split = toolCopy[t].split /\ DOMAIN e = ExperimentFields
  BY <1>1 DEF IsCopy, ExperimentFields
<1> HIDE DEF e
<1>3. IsCopy(e) /\ Agreed(e)
  BY <1>1, <1>2 DEF IsCopy, Agreed
<1>4. StoreInv' /\ SplitsStay
  BY <1>1, <1>3, Storing DEF XInv, StoreInv
<1>5. ToolInv'
  BY <1>1, <1>4, OneTool DEF XInv
<1> QED
  BY <1>1, <1>4, <1>5, ManagersStay, UsersStay DEF XInv, managerVars

-----------------------------------------------------------------------------
(* The detectors.                                                          *)

(* A detector starts with the experiments of Redis.                        *)
LEMMA RunningCopies ==
    ASSUME StoreInv,
           NEW running, running = {store[e] : e \in {id \in DOMAIN store : IsActive(store[id])}},
           NEW copies \in SetToAllKPermutations(running)
    PROVE  /\ copies \in Seq(running)
           /\ \A i \in 1 .. Len(copies) : IsCopy(copies[i]) /\ Agreed(copies[i])
<1>1. PICK S \in SUBSET running : copies \in [1 .. Cardinality(S) -> S]
  BY DEF SetToAllKPermutations, SetToSeqs
<1>2. IsFiniteSet(running)
  <2> DEFINE A == {id \in DOMAIN store : IsActive(store[id])}
             f == [id \in A |-> store[id]]
  <2>1. IsFiniteSet(Ids) /\ A \subseteq Ids
    BY ExperimentsAssumption, FS_Interval DEF Ids, StoreInv
  <2>2. IsFiniteSet(A)
    BY <2>1, FS_Subset
  <2>3. f \in Surjection(A, running)
    BY DEF Surjection
  <2> HIDE DEF A, f
  <2> QED
    BY <2>2, <2>3, FS_Surjection
<1>3. Cardinality(S) \in Nat
  BY <1>1, <1>2, FS_Subset, FS_CardinalityType
<1>4. copies \in Seq(running)
  BY <1>1, <1>3
<1>5. \A e \in running : IsCopy(e) /\ Agreed(e)
  BY DEF StoreInv, Agreed
<1> QED
  BY <1>4, <1>5

LEMMA StartManagerKeeps ==
    ASSUME XInv, NEW m \in Managers, StartManager(m)
    PROVE  XInv'
<1>1. /\ ~up[m] /\ up' = [up EXCEPT ![m] = TRUE]
      /\ UNCHANGED <<now, store, assignments, toolVars, pc, at, result, stopped, seen, recreated>>
  BY DEF StartManager, redisVars
<1>2. SplitsStay
  BY <1>1, Unchanging
<1>3. StoreInv'
  BY <1>1 DEF XInv, StoreInv, IsCopy
<1> PICK running : running = {store[e] : e \in {id \in DOMAIN store : IsActive(store[id])}}
  OBVIOUS
<1>4. PICK copies \in SetToAllKPermutations(running) : mine' = [mine EXCEPT ![m] = copies]
  BY DEF StartManager
<1>5. /\ copies \in Seq(running)
      /\ \A i \in 1 .. Len(copies) : IsCopy(copies[i]) /\ Agreed(copies[i])
  BY RunningCopies DEF XInv
<1>6. /\ pc[m] = "idle" /\ mine'[m] = copies /\ up'[m] /\ ManagerFunctions'
      /\ \A o \in Managers \ {m} : mine'[o] = mine[o] /\ up'[o] = up[o]
  BY <1>1, <1>4 DEF XInv, ManagersInv, ManagerFunctions, ManagerInv
<1>7. ManagerInv(m)'
  BY <1>1, <1>2, <1>5, <1>6, AgreedStays DEF ManagerInv, IsCopy
<1>8. ManagersInv'
  BY <1>1, <1>2, <1>6, <1>7, OneManager DEF XInv
<1> QED
  BY <1>1, <1>2, <1>3, <1>8, ToolsStay, UsersStay DEF XInv

LEMMA AssignKeeps ==
    ASSUME XInv, NEW m \in Managers, NEW u \in Users, Assign(m, u)
    PROVE  XInv'
<1> PICK e : e = mine[m][1]
  OBVIOUS
<1>1. /\ mine[m] # <<>> /\ Head(mine[m]) = e /\ IsCopy(e) /\ Agreed(e)
      /\ Len(mine[m]) \in Nat /\ Len(mine[m]) > 0
  <2>1. mine[m] # <<>>
    BY DEF Assign
  <2>2. PICK S : mine[m] \in Seq(S)
    BY DEF XInv, ManagersInv, ManagerInv
  <2>3. Len(mine[m]) \in Nat /\ Len(mine[m]) > 0 /\ Head(mine[m]) = e
    BY <2>1, <2>2
  <2> QED
    BY <2>1, <2>3 DEF XInv, ManagersInv, ManagerInv
<1> PICK v : v = IF assignments[<<u, e.id>>] # Nil THEN assignments[<<u, e.id>>] ELSE VariantFor(u, e)
  OBVIOUS
<1> PICK p : p = IF assignments[<<u, e.id>>] # Nil THEN "record" ELSE "keep"
  OBVIOUS
<1>2. /\ mine[m] # <<>> /\ pc[m] = "idle"
      /\ UNCHANGED <<now, store, assignments, toolVars, up, mine, stopped, seen, recreated>>
      /\ at' = [at EXCEPT ![m] = <<u, e.id>>]
      /\ result' = [result EXCEPT ![m] = v] /\ pc' = [pc EXCEPT ![m] = p]
  BY <1>1 DEF Assign, Goto, redisVars, ghostVars
<1>3. SplitsStay
  BY <1>2, Unchanging
<1>4. StoreInv'
  BY <1>2 DEF XInv, StoreInv, IsCopy
<1>5. v \in Variants /\ (e.id \notin recreated => v = VariantFor(u, e))
  <2>1. CASE assignments[<<u, e.id>>] # Nil
    <3>1. v = assignments[<<u, e.id>>] /\ v \in Variants
      BY <1>1, <2>1 DEF XInv, UsersInv, IsCopy
    <3>2. ASSUME e.id \notin recreated PROVE v = VariantFor(u, e)
      <4>1. e.id \in DOMAIN store /\ v = VariantFor(u, store[e.id])
        BY <1>1, <2>1, <3>1, <3>2 DEF XInv, UsersInv, IsCopy
      <4>2. store[e.id].id = e.id /\ store[e.id].split = e.split
        BY <1>1, <3>2, <4>1 DEF XInv, StoreInv, Agreed
      <4> QED
        BY <4>1, <4>2, VariantStays
    <3> QED
      BY <3>1, <3>2
  <2>2. CASE assignments[<<u, e.id>>] = Nil
    BY <2>2 DEF VariantFor, Variants
  <2> QED
    BY <2>1, <2>2
<1>6. /\ up[m] /\ pc'[m] = p /\ at'[m] = <<u, e.id>> /\ result'[m] = v /\ ManagerFunctions'
      /\ \A o \in Managers \ {m} : pc'[o] = pc[o] /\ at'[o] = at[o] /\ result'[o] = result[o]
  BY <1>2 DEF XInv, ManagersInv, ManagerFunctions, ManagerInv
<1>7. ManagerInv(m)'
  <2>1. \A i \in 1 .. Len(mine[m]) : IsCopy(mine[m][i])' /\ Agreed(mine[m][i])'
    BY <1>2, <1>3, AgreedStays DEF XInv, ManagersInv, ManagerInv, IsCopy
  <2>2. \E S : mine'[m] \in Seq(S)
    BY <1>2 DEF XInv, ManagersInv, ManagerInv
  <2>3. p \in {"record", "keep"}
    OBVIOUS
  <2> QED
    BY <1>2, <1>5, <1>6, <2>1, <2>2, <2>3 DEF ManagerInv
<1>8. ManagersInv'
  BY <1>2, <1>3, <1>6, <1>7, OneManager DEF XInv
<1> QED
  BY <1>2, <1>3, <1>4, <1>8, ToolsStay, UsersStay DEF XInv

(* What a detector knows of its first experiment.                          *)
LEMMA FirstCopy ==
    ASSUME ManagersInv, NEW m \in Managers, mine[m] # <<>>
    PROVE  /\ Head(mine[m]) = mine[m][1] /\ IsCopy(mine[m][1]) /\ Agreed(mine[m][1])
           /\ Len(mine[m]) \in Nat /\ Len(mine[m]) > 0
           /\ \E S : Tail(mine[m]) \in Seq(S)
           /\ \A i \in 1 .. Len(Tail(mine[m])) : IsCopy(Tail(mine[m])[i]) /\ Agreed(Tail(mine[m])[i])
<1>1. PICK S : mine[m] \in Seq(S)
  BY DEF ManagersInv, ManagerInv
<1>2. /\ Len(mine[m]) \in Nat /\ Len(mine[m]) > 0 /\ Head(mine[m]) = mine[m][1]
      /\ Tail(mine[m]) \in Seq(S) /\ Len(Tail(mine[m])) = Len(mine[m]) - 1
      /\ \A i \in 1 .. Len(Tail(mine[m])) : Tail(mine[m])[i] = mine[m][i + 1]
  BY <1>1
<1> QED
  BY <1>2 DEF ManagersInv, ManagerInv

LEMMA KeepKeeps ==
    ASSUME XInv, NEW m \in Managers, KeepAssignment(m)
    PROVE  XInv'
<1>1. /\ pc[m] = "keep"
      /\ UNCHANGED <<now, store, toolVars, up, mine, stopped, seen, recreated>>
  BY DEF KeepAssignment
<1>2. SplitsStay
  BY <1>1, Unchanging
<1>3. StoreInv'
  BY <1>1 DEF XInv, StoreInv, IsCopy
<1>4. /\ mine[m] # <<>> /\ up[m]
      /\ \A i \in 1 .. Len(mine[m]) : IsCopy(mine[m][i])' /\ Agreed(mine[m][i])'
      /\ \E S : mine'[m] \in Seq(S)
  BY <1>1, <1>2, AgreedStays DEF XInv, ManagersInv, ManagerInv, IsCopy
<1>5. CASE /\ assignments' = [assignments EXCEPT ![at[m]] = result[m]]
           /\ Goto(m, "record") /\ UNCHANGED <<at, result>>
  <2>1. PICK u \in Users :
          /\ at[m] = <<u, mine[m][1].id>> /\ result[m] \in Variants
          /\ mine[m][1].id \notin recreated => result[m] = VariantFor(u, mine[m][1])
    BY <1>1 DEF XInv, ManagersInv, ManagerInv
  <2>2. /\ pc'[m] = "record" /\ ManagerFunctions' /\ \A o \in Managers \ {m} : pc'[o] = pc[o]
    BY <1>1, <1>5 DEF XInv, ManagersInv, ManagerFunctions, Goto
  <2>3. ManagerInv(m)'
    BY <1>1, <1>4, <1>5, <2>1, <2>2 DEF ManagerInv
  <2>4. ManagersInv'
    BY <1>1, <1>2, <1>5, <2>2, <2>3, OneManager DEF XInv
  <2>5. UsersInv'
    <3>1. IsCopy(mine[m][1]) /\ Agreed(mine[m][1])
      BY <1>4, FirstCopy DEF XInv
    <3>2. assignments' \in [Users \X Ids -> Variants \cup {Nil}]
      BY <1>5, <2>1, <3>1 DEF XInv, UsersInv, IsCopy
    <3>3. ASSUME NEW v \in Users, NEW id \in Ids \ recreated, assignments'[<<v, id>>] # Nil
          PROVE  id \in DOMAIN store /\ assignments'[<<v, id>>] = VariantFor(v, store[id])
      <4>1. CASE <<v, id>> = at[m]
        <5>1. v = u /\ id = mine[m][1].id
          BY <2>1, <4>1
        <5>2. /\ id \in DOMAIN store /\ store[id].id = id /\ store[id].split = mine[m][1].split
          BY <3>1, <3>3, <5>1 DEF XInv, StoreInv, Agreed
        <5>3. VariantFor(u, mine[m][1]) = VariantFor(u, store[id])
          BY <5>1, <5>2, VariantStays
        <5>4. assignments'[<<v, id>>] = result[m]
          BY <1>5, <4>1 DEF XInv, UsersInv
        <5> QED
          BY <2>1, <3>3, <5>1, <5>2, <5>3, <5>4
      <4>2. CASE <<v, id>> # at[m]
        <5>1. assignments'[<<v, id>>] = assignments[<<v, id>>]
          BY <1>5, <4>2 DEF XInv, UsersInv
        <5> QED
          BY <3>3, <5>1 DEF XInv, UsersInv
      <4> QED
        BY <4>1, <4>2
    <3> QED
      BY <1>1, <3>2, <3>3 DEF XInv, UsersInv
  <2> QED
    BY <1>1, <1>2, <1>3, <2>4, <2>5, ToolsStay DEF XInv
<1>6. CASE /\ Goto(m, "idle") /\ UNCHANGED assignments
           /\ at' = [at EXCEPT ![m] = Nowhere] /\ result' = [result EXCEPT ![m] = Nil]
  <2>1. /\ pc'[m] = "idle" /\ ManagerFunctions'
        /\ \A o \in Managers \ {m} : pc'[o] = pc[o] /\ at'[o] = at[o] /\ result'[o] = result[o]
    BY <1>1, <1>6 DEF XInv, ManagersInv, ManagerFunctions, Goto
  <2>2. ManagerInv(m)'
    BY <1>1, <1>4, <2>1 DEF ManagerInv
  <2>3. ManagersInv'
    BY <1>1, <1>2, <2>1, <2>2, OneManager DEF XInv
  <2> QED
    BY <1>1, <1>2, <1>3, <1>6, <2>3, ToolsStay, UsersStay DEF XInv
<1> QED
  BY <1>5, <1>6 DEF KeepAssignment

LEMMA CountedCopy ==
    ASSUME NEW e, IsCopy(e), NEW v, NEW hit
    PROVE  LET c == Counted(e, v, hit)
           IN  IsCopy(c) /\ c.id = e.id /\ c.split = e.split
BY DEF Counted, IsCopy, ExperimentFields

LEMMA RecordKeeps ==
    ASSUME XInv, NEW m \in Managers, RecordResult(m)
    PROVE  XInv'
<1> PICK h : h = mine[m][1]
  OBVIOUS
<1>1. /\ pc[m] = "record" /\ mine[m] # <<>> /\ up[m]
      /\ UNCHANGED <<now, assignments, toolVars, up, stopped, recreated>>
      /\ seen' = [seen EXCEPT ![at[m]] = @ \cup {result[m]}]
      /\ result' = [result EXCEPT ![m] = Nil]
  BY DEF RecordResult, XInv, ManagersInv, ManagerInv
<1>2. /\ Head(mine[m]) = h /\ IsCopy(h) /\ Agreed(h)
  BY <1>1, FirstCopy DEF XInv
<1>3. PICK e : /\ IsCopy(e) /\ e.id = h.id /\ e.split = h.split
               /\ mine' = [mine EXCEPT ![m] = <<e>> \o Tail(mine[m])]
               /\ StoreWhole(e)
               /\ \/ Goto(m, "analyze") /\ UNCHANGED at
                  \/ Goto(m, "idle") /\ at' = [at EXCEPT ![m] = Nowhere]
  <2>1. PICK hit \in BOOLEAN :
          LET e == Counted(Head(mine[m]), result[m], hit)
          IN  /\ mine' = [mine EXCEPT ![m] = <<e>> \o Tail(@)]
              /\ StoreWhole(e)
              /\ \/ Goto(m, "analyze") /\ UNCHANGED at
                 \/ Goto(m, "idle") /\ at' = [at EXCEPT ![m] = Nowhere]
    BY DEF RecordResult
  <2> PICK e : e = Counted(h, result[m], hit)
    OBVIOUS
  <2>2. IsCopy(e) /\ e.id = h.id /\ e.split = h.split
    BY <1>2, CountedCopy
  <2> QED
    BY <1>2, <2>1, <2>2
<1>4. Agreed(e)
  BY <1>2, <1>3 DEF Agreed
<1>5. StoreInv' /\ SplitsStay
  BY <1>1, <1>3, <1>4, Storing DEF XInv, StoreInv
<1>6. /\ mine'[m] = <<e>> \o Tail(mine[m]) /\ pc'[m] \in {"analyze", "idle"} /\ ManagerFunctions'
      /\ \A o \in Managers \ {m} : /\ mine'[o] = mine[o] /\ pc'[o] = pc[o] /\ at'[o] = at[o]
                                  /\ result'[o] = result[o]
  BY <1>1, <1>3 DEF XInv, ManagersInv, ManagerFunctions, Goto
<1>7. ManagerInv(m)'
  <2>1. PICK S : Tail(mine[m]) \in Seq(S)
    BY <1>1, FirstCopy DEF XInv
  <2>2. /\ mine'[m] \in Seq(S \cup {e}) /\ mine'[m] # <<>> /\ Len(mine'[m]) = Len(Tail(mine[m])) + 1
        /\ \A i \in 1 .. Len(mine'[m]) : mine'[m][i] = IF i = 1 THEN e ELSE Tail(mine[m])[i - 1]
    BY <1>6, <2>1
  <2>3. Len(Tail(mine[m])) \in Nat
    BY <2>1
  <2>4. ASSUME NEW i \in 1 .. Len(mine'[m]) PROVE IsCopy(mine[m][i])' /\ Agreed(mine[m][i])'
    <3>1. CASE i = 1
      BY <1>3, <1>4, <1>5, <2>2, <3>1, AgreedStays DEF IsCopy
    <3>2. CASE i # 1
      <4>1. i - 1 \in 1 .. Len(Tail(mine[m])) /\ mine'[m][i] = Tail(mine[m])[i - 1]
        <5>1. i \in 1 .. Len(Tail(mine[m])) + 1
          BY <2>2
        <5>2. mine'[m][i] = Tail(mine[m])[i - 1]
          BY <2>2, <3>2
        <5> QED
          BY <2>3, <3>2, <5>1, <5>2
      <4> PICK c : c = Tail(mine[m])[i - 1]
        OBVIOUS
      <4>2. IsCopy(c) /\ Agreed(c) /\ mine'[m][i] = c
        BY <1>1, <4>1, FirstCopy DEF XInv
      <4>3. Agreed(c)'
        BY <1>5, <4>2, AgreedStays
      <4>4. Agreed(mine[m][i])'
        BY <4>2, <4>3 DEF Agreed
      <4> QED
        BY <4>2, <4>4 DEF IsCopy
    <3> QED
      BY <3>1, <3>2
  <2> QED
    BY <1>1, <1>6, <2>2, <2>4 DEF ManagerInv
<1>8. ManagersInv'
  BY <1>1, <1>5, <1>6, <1>7, OneManager DEF XInv
<1>9. UsersInv'
  <2>1. PICK u \in Users :
          /\ at[m] = <<u, h.id>> /\ result[m] \in Variants
          /\ h.id \notin recreated => result[m] = VariantFor(u, h)
    BY <1>1 DEF XInv, ManagersInv, ManagerInv
  <2>2. /\ seen' \in [Users \X Ids -> SUBSET Variants]
        /\ seen'[<<u, h.id>>] = seen[<<u, h.id>>] \cup {result[m]}
        /\ \A ue \in Users \X Ids : ue # <<u, h.id>> => seen'[ue] = seen[ue]
    BY <1>1, <1>2, <2>1 DEF XInv, UsersInv, IsCopy
  <2>3. ASSUME NEW w \in Users, NEW id \in DOMAIN store, id \notin recreated
        PROVE  id \in DOMAIN store' /\ VariantFor(w, store'[id]) = VariantFor(w, store[id])
    BY <1>1, <1>5, <2>3, VariantStays DEF SplitsStay, StoreInv, XInv
  <2>4. ASSUME NEW w \in Users, NEW id \in Ids \ recreated, NEW v \in seen'[<<w, id>>]
        PROVE  id \in DOMAIN store /\ v = VariantFor(w, store[id])
    <3>1. CASE v \in seen[<<w, id>>]
      BY <3>1 DEF XInv, UsersInv
    <3>2. CASE v \notin seen[<<w, id>>]
      <4>1. w = u /\ id = h.id /\ v = result[m]
        BY <2>2, <2>4, <3>2
      <4>2. /\ id \in DOMAIN store /\ store[id].id = h.id /\ store[id].split = h.split
            /\ v = VariantFor(u, h)
        BY <1>2, <2>1, <2>4, <4>1 DEF XInv, StoreInv, Agreed
      <4> QED
        BY <4>1, <4>2, VariantStays
    <3> QED
      BY <3>1, <3>2
  <2>5. assignments' \in [Users \X Ids -> Variants \cup {Nil}]
    BY <1>1 DEF XInv, UsersInv
  <2>6. ASSUME NEW w \in Users, NEW id \in Ids \ recreated', assignments'[<<w, id>>] # Nil
        PROVE  id \in DOMAIN store' /\ assignments'[<<w, id>>] = VariantFor(w, store'[id])
    BY <1>1, <2>3, <2>6 DEF XInv, UsersInv
  <2>7. ASSUME NEW w \in Users, NEW id \in Ids \ recreated', NEW v \in seen'[<<w, id>>]
        PROVE  id \in DOMAIN store' /\ v = VariantFor(w, store'[id])
    BY <1>1, <2>3, <2>4
  <2> QED
    BY <2>2, <2>5, <2>6, <2>7 DEF UsersInv
<1> QED
  BY <1>1, <1>5, <1>8, <1>9, ToolsStay DEF XInv

(* A detector at its first experiment's analysis.                          *)
LEMMA AnalyzeKeeps ==
    ASSUME XInv, NEW m \in Managers, Analyze(m)
    PROVE  XInv'
<1> PICK e : e = mine[m][1]
  OBVIOUS
<1>1. /\ pc[m] = "analyze" /\ mine[m] # <<>> /\ up[m]
      /\ UNCHANGED <<now, assignments, toolVars, up, result, seen, recreated>>
  BY DEF Analyze, XInv, ManagersInv, ManagerInv
<1>2. Head(mine[m]) = e /\ IsCopy(e) /\ Agreed(e)
  BY <1>1, FirstCopy DEF XInv
<1>3. \/ /\ UNCHANGED store \/ StoreWhole(e)
         /\ Goto(m, "idle") /\ at' = [at EXCEPT ![m] = Nowhere] /\ UNCHANGED <<mine, stopped>>
      \/ \E winner : LET s == [e EXCEPT !.status = "stopped", !.winner = winner]
                     IN  /\ StoreWhole(s) /\ mine' = [mine EXCEPT ![m] = Tail(@)]
                         /\ stopped' = [stopped EXCEPT ![m] = s]
                         /\ Goto(m, "again") /\ UNCHANGED at
  BY <1>2 DEF Analyze, WithoutFirst
<1>4. CASE /\ UNCHANGED store \/ StoreWhole(e)
           /\ Goto(m, "idle") /\ at' = [at EXCEPT ![m] = Nowhere] /\ UNCHANGED <<mine, stopped>>
  <2>1. StoreInv' /\ SplitsStay
    <3>1. CASE UNCHANGED store
      BY <1>1, <3>1, Unchanging DEF XInv, StoreInv, IsCopy
    <3>2. CASE StoreWhole(e)
      BY <1>1, <1>2, <3>2, Storing DEF XInv, StoreInv
    <3> QED
      BY <1>4, <3>1, <3>2
  <2>2. /\ pc'[m] = "idle" /\ ManagerFunctions'
        /\ \A o \in Managers \ {m} : pc'[o] = pc[o] /\ at'[o] = at[o]
    BY <1>1, <1>4 DEF XInv, ManagersInv, ManagerFunctions, Goto
  <2>3. /\ \E S : mine'[m] \in Seq(S)
        /\ \A i \in 1 .. Len(mine[m]) : IsCopy(mine[m][i])' /\ Agreed(mine[m][i])'
    BY <1>4, <2>1, AgreedStays DEF XInv, ManagersInv, ManagerInv, IsCopy
  <2>4. ManagerInv(m)'
    BY <1>1, <1>4, <2>2, <2>3 DEF ManagerInv
  <2>5. ManagersInv'
    BY <1>1, <1>4, <2>1, <2>2, <2>4, OneManager DEF XInv
  <2> QED
    BY <1>1, <2>1, <2>5, ToolsStay, UsersStay DEF XInv
<1>5. CASE \E winner : LET s == [e EXCEPT !.status = "stopped", !.winner = winner]
                      IN  /\ StoreWhole(s) /\ mine' = [mine EXCEPT ![m] = Tail(@)]
                          /\ stopped' = [stopped EXCEPT ![m] = s]
                          /\ Goto(m, "again") /\ UNCHANGED at
  <2>1. PICK winner, s : /\ s = [e EXCEPT !.status = "stopped", !.winner = winner]
                         /\ StoreWhole(s) /\ mine' = [mine EXCEPT ![m] = Tail(@)]
                         /\ stopped' = [stopped EXCEPT ![m] = s]
                         /\ Goto(m, "again") /\ UNCHANGED at
    BY <1>5
  <2>2. IsCopy(s) /\ Agreed(s)
    <3>1. DOMAIN s = ExperimentFields /\ s.id = e.id /\ s.split = e.split
      BY <1>2, <2>1 DEF IsCopy, ExperimentFields
    <3> QED
      BY <1>2, <3>1 DEF IsCopy, Agreed
  <2>3. StoreInv' /\ SplitsStay
    BY <1>1, <2>1, <2>2, Storing DEF XInv, StoreInv
  <2>4. /\ pc'[m] = "again" /\ mine'[m] = Tail(mine[m]) /\ stopped'[m] = s /\ ManagerFunctions'
        /\ \A o \in Managers \ {m} : pc'[o] = pc[o] /\ mine'[o] = mine[o] /\ stopped'[o] = stopped[o]
    BY <1>1, <2>1 DEF XInv, ManagersInv, ManagerFunctions, Goto
  <2>5. /\ \E S : Tail(mine[m]) \in Seq(S)
        /\ \A i \in 1 .. Len(Tail(mine[m])) : IsCopy(Tail(mine[m])[i]) /\ Agreed(Tail(mine[m])[i])
    BY <1>1, FirstCopy DEF XInv
  <2>6. \A i \in 1 .. Len(mine'[m]) : IsCopy(mine[m][i])' /\ Agreed(mine[m][i])'
    <3> TAKE i \in 1 .. Len(mine'[m])
    <3> PICK c : c = mine'[m][i]
      OBVIOUS
    <3>1. IsCopy(c) /\ Agreed(c)
      BY <2>4, <2>5
    <3>2. Agreed(c)'
      BY <2>3, <3>1, AgreedStays
    <3> QED
      BY <3>1, <3>2 DEF IsCopy, Agreed
  <2>7. IsCopy(stopped[m])' /\ Agreed(stopped[m])'
    <3>1. Agreed(s)'
      BY <2>2, <2>3, AgreedStays
    <3> QED
      BY <2>2, <2>4, <3>1 DEF IsCopy, Agreed
  <2>8. ManagerInv(m)'
    BY <1>1, <2>4, <2>5, <2>6, <2>7 DEF ManagerInv
  <2>9. ManagersInv'
    BY <1>1, <2>1, <2>3, <2>4, <2>8, OneManager DEF XInv
  <2> QED
    BY <1>1, <2>3, <2>9, ToolsStay, UsersStay DEF XInv
<1> QED
  BY <1>3, <1>4, <1>5

LEMMA AgainKeeps ==
    ASSUME XInv, NEW m \in Managers, StoreAgain(m)
    PROVE  XInv'
<1>1. /\ pc[m] = "again" /\ StoreWhole(stopped[m]) /\ IsCopy(stopped[m]) /\ Agreed(stopped[m]) /\ up[m]
      /\ Goto(m, "idle") /\ at' = [at EXCEPT ![m] = Nowhere] /\ stopped' = [stopped EXCEPT ![m] = Nil]
      /\ UNCHANGED <<now, assignments, toolVars, up, mine, result, seen, recreated>>
  BY DEF StoreAgain, XInv, ManagersInv, ManagerInv
<1>2. StoreInv' /\ SplitsStay
  BY <1>1, Storing DEF XInv, StoreInv
<1>3. /\ pc'[m] = "idle" /\ ManagerFunctions'
      /\ \A o \in Managers \ {m} : pc'[o] = pc[o] /\ at'[o] = at[o] /\ stopped'[o] = stopped[o]
  BY <1>1 DEF XInv, ManagersInv, ManagerFunctions, Goto
<1>4. /\ \E S : mine'[m] \in Seq(S)
      /\ \A i \in 1 .. Len(mine[m]) : IsCopy(mine[m][i])' /\ Agreed(mine[m][i])'
  BY <1>1, <1>2, AgreedStays DEF XInv, ManagersInv, ManagerInv, IsCopy
<1>5. ManagerInv(m)'
  BY <1>1, <1>3, <1>4 DEF ManagerInv
<1>6. ManagersInv'
  BY <1>1, <1>2, <1>3, <1>5, OneManager DEF XInv
<1> QED
  BY <1>1, <1>2, <1>6, ToolsStay, UsersStay DEF XInv

LEMMA DieKeeps ==
    ASSUME XInv, NEW m \in Managers, Die(m)
    PROVE  XInv'
<1>1. /\ up' = [up EXCEPT ![m] = FALSE] /\ mine' = [mine EXCEPT ![m] = <<>>] /\ Goto(m, "idle")
      /\ at' = [at EXCEPT ![m] = Nowhere] /\ result' = [result EXCEPT ![m] = Nil]
      /\ stopped' = [stopped EXCEPT ![m] = Nil]
      /\ UNCHANGED <<now, store, assignments, toolVars, seen, recreated>>
  BY DEF Die, redisVars
<1>2. StoreInv' /\ SplitsStay
  BY <1>1, Unchanging DEF XInv, StoreInv, IsCopy
<1>3. /\ pc'[m] = "idle" /\ mine'[m] = <<>> /\ ManagerFunctions'
      /\ \A o \in Managers \ {m} :
            /\ mine'[o] = mine[o] /\ pc'[o] = pc[o] /\ at'[o] = at[o] /\ up'[o] = up[o]
            /\ result'[o] = result[o] /\ stopped'[o] = stopped[o]
  BY <1>1 DEF XInv, ManagersInv, ManagerFunctions, Goto
<1>4. ManagerInv(m)'
  <2>1. <<>> \in Seq({}) /\ Len(<<>>) = 0
    OBVIOUS
  <2> QED
    BY <1>3, <2>1 DEF ManagerInv
<1>5. ManagersInv'
  BY <1>2, <1>3, <1>4, OneManager DEF XInv
<1> QED
  BY <1>1, <1>2, <1>5, ToolsStay, UsersStay DEF XInv

LEMMA ExpireKeeps ==
    ASSUME XInv, Expire
    PROVE  XInv'
<1>1. /\ UNCHANGED <<now, store, toolVars, managerVars, seen, recreated>>
      /\ \E ue \in Users \X Ids : assignments' = [assignments EXCEPT ![ue] = Nil]
  BY DEF Expire
<1>2. StoreInv' /\ SplitsStay
  BY <1>1, Unchanging DEF XInv, StoreInv, IsCopy
<1>3. UsersInv'
  BY <1>1 DEF XInv, UsersInv
<1> QED
  BY <1>1, <1>2, <1>3, ToolsStay, ManagersStay DEF XInv, managerVars

LEMMA SecondKeeps ==
    ASSUME XInv, UNCHANGED xvars \/ SecondPasses
    PROVE  XInv'
<1>1. /\ UNCHANGED <<store, assignments, toolVars, managerVars, seen, recreated>>
      /\ now' = now \/ (now < MaxStart /\ now' = now + 1)
  BY DEF SecondPasses, xvars, redisVars, ghostVars
<1>2. StoreInv' /\ SplitsStay
  BY <1>1, Unchanging, ExperimentsAssumption DEF XInv, StoreInv, IsCopy, Ids
<1> QED
  BY <1>1, <1>2, ToolsStay, ManagersStay, UsersStay DEF XInv, managerVars

LEMMA XInvNext == XInv /\ [XNext]_xvars => XInv'
BY CreateKeeps, LoadDraftKeeps, StartKeeps, StartManagerKeeps, AssignKeeps, KeepKeeps, RecordKeeps,
   AnalyzeKeeps, AgainKeeps, DieKeeps, ExpireKeeps, SecondKeeps DEF XNext

(* A user of an experiment that was created once is scored by one variant, *)
(* whichever detectors score the user's transactions, and whatever was     *)
(* forgotten or overwritten meanwhile (assign_variant,                     *)
(* record_prediction_result).                                              *)
THEOREM UsersSeeOneVariant == XSpec => []OneVariantPerUser
<1>1. XInv => OneVariantPerUser
  <2> SUFFICES ASSUME XInv, NEW ue \in Users \X Ids, ue[2] \notin recreated
               PROVE  Cardinality(seen[ue]) <= 1
    BY DEF OneVariantPerUser
  <2>1. PICK u \in Users, id \in Ids : ue = <<u, id>> /\ id \notin recreated
    OBVIOUS
  <2> PICK v : v = VariantFor(u, store[id])
    OBVIOUS
  <2>2. seen[ue] \subseteq {v}
    BY <2>1 DEF XInv, UsersInv
  <2>3. IsFiniteSet({v}) /\ Cardinality({v}) = 1
    BY FS_Singleton
  <2>4. Cardinality(seen[ue]) <= Cardinality({v})
    BY <2>2, <2>3, FS_Subset
  <2> QED
    BY <2>3, <2>4
<1> QED
  BY XInvInit, XInvNext, <1>1, PTL DEF XSpec

-----------------------------------------------------------------------------
(* Counting.  No copy of an experiment counts more than was recorded.      *)
CopyCounts(e) ==
    /\ e.n["control"] \in Nat /\ e.n["treatment"] \in Nat /\ DOMAIN e.n = Variants
    /\ e.id \notin recreated => Samples(e) <= recorded[e.id]

CountInv ==
    /\ recorded \in [Ids -> Nat]
    /\ \A id \in DOMAIN store : CopyCounts(store[id])
    /\ \A t \in Tools : toolPc[t] \in {"load", "store"} => CopyCounts(toolCopy[t])
    /\ \A m \in Managers :
          /\ \A i \in 1 .. Len(mine[m]) : CopyCounts(mine[m][i])
          /\ pc[m] = "again" => CopyCounts(stopped[m])

(* An experiment that no two detectors had a copy of, that was created     *)
(* once, and for which no SET failed, has one owner at a time: the tool    *)
(* while it is a draft, then at most one detector, and nobody once it is   *)
(* stopped; and the owner's copy and Redis count what was recorded.        *)
Good(id) == id \in Ids /\ id \notin shared \cup recreated \cup unsaved

Drafts(t, id) == toolPc[t] \in {"load", "store"} /\ toolCopy[t].id = id
Holds(m, i, id) == i \in 1 .. Len(mine[m]) /\ mine[m][i].id = id

IsDraft(id) == id \in DOMAIN store /\ store[id].status = "draft"
IsRunning(id) == id \in DOMAIN store /\ store[id].status = "running"
IsStopped(id) == id \in DOMAIN store /\ store[id].status = "stopped"

OwnedInv(id) ==
    /\ id \in DOMAIN store => Samples(store[id]) = recorded[id]
    /\ id \notin DOMAIN store => recorded[id] = 0
    /\ id \in ended => IsStopped(id)
    /\ \A t \in Tools : Drafts(t, id) =>
          /\ IsDraft(id) /\ (toolPc[t] = "store" => toolCopy[t] = store[id])
          /\ \A s \in Tools : Drafts(s, id) => s = t
    /\ \A m \in Managers, i \in Nat : Holds(m, i, id) =>
          /\ IsRunning(id) /\ mine[m][i] = store[id]
          /\ \A o \in Managers, j \in Nat : Holds(o, j, id) => o = m /\ j = i
    /\ \A m \in Managers : pc[m] = "again" /\ stopped[m].id = id =>
          IsStopped(id) /\ stopped[m] = store[id]

OwnersInv == \A id \in Ids : Good(id) => OwnedInv(id)

XCInv == XInv /\ CountInv /\ OwnersInv

LEMMA CountsStay ==
    ASSUME NEW e, CopyCounts(e), recreated \subseteq recreated',
           e.id \in recreated \/ (recorded[e.id] \in Nat /\ recorded'[e.id] \in Nat /\ recorded'[e.id] >= recorded[e.id])
    PROVE  CopyCounts(e)'
<1>1. Samples(e) \in Nat
  BY DEF CopyCounts, Samples
<1> QED
  BY <1>1 DEF CopyCounts, Samples

(* Copies of one experiment with the same counts.                          *)
LEMMA SameCounts ==
    ASSUME NEW e, NEW f, f.n = e.n, f.id = e.id
    PROVE  Samples(f) = Samples(e) /\ (CopyCounts(e) => CopyCounts(f))
BY DEF CopyCounts, Samples

(* What Redis counts after a SET.                                          *)
LEMMA StoringCounts ==
    ASSUME XInv, CountInv, NEW e, IsCopy(e), CopyCounts(e)', StoreWhole(e), recreated \subseteq recreated',
           \A id \in Ids : recorded'[id] \in Nat /\ recorded'[id] >= recorded[id]
    PROVE  \A id \in DOMAIN store' : CopyCounts(store[id])'
<1>1. \A id \in DOMAIN store : CopyCounts(store[id]) /\ store[id].id = id /\ id \in Ids
  BY DEF CountInv, XInv, StoreInv
<1>2. \A id \in DOMAIN store : recorded[id] \in Nat
  BY <1>1 DEF CountInv
<1>3. ASSUME NEW id \in DOMAIN store', store'[id] # e PROVE CopyCounts(store[id])'
  <2>1. id \in DOMAIN store /\ store'[id] = store[id]
    BY <1>3 DEF StoreWhole, Stored
  <2> PICK f : f = store[id]
    OBVIOUS
  <2>2. CopyCounts(f)'
    BY <1>1, <1>2, <2>1, CountsStay
  <2> QED
    BY <2>1, <2>2 DEF CopyCounts, Samples
<1>4. ASSUME NEW id \in DOMAIN store', store'[id] = e PROVE CopyCounts(store[id])'
  BY <1>4 DEF CopyCounts, Samples
<1> QED
  BY <1>3, <1>4

(* The counts of the tools and the detectors that do nothing.              *)
LEMMA ToolCountsStay ==
    ASSUME XInv, CountInv, NEW t \in Tools, toolPc'[t] = toolPc[t], toolCopy'[t] = toolCopy[t],
           recreated \subseteq recreated',
           \A id \in Ids : recorded'[id] \in Nat /\ recorded'[id] >= recorded[id]
    PROVE  toolPc'[t] \in {"load", "store"} => CopyCounts(toolCopy[t])'
<1> SUFFICES ASSUME toolPc[t] \in {"load", "store"} PROVE CopyCounts(toolCopy[t])'
  OBVIOUS
<1> PICK e : e = toolCopy[t]
  OBVIOUS
<1>1. CopyCounts(e) /\ e.id \in Ids
  BY DEF CountInv, XInv, ToolInv, IsCopy
<1>2. CopyCounts(e)'
  BY <1>1, CountsStay DEF CountInv
<1> QED
  BY <1>2 DEF CopyCounts, Samples

ManagerCounts(m) ==
    /\ \A i \in 1 .. Len(mine[m]) : CopyCounts(mine[m][i])
    /\ pc[m] = "again" => CopyCounts(stopped[m])

LEMMA ManagerCountsStay ==
    ASSUME XInv, CountInv, NEW m \in Managers, mine'[m] = mine[m], 
           pc'[m] = "again" => pc[m] = "again" /\ stopped'[m] = stopped[m],
           recreated \subseteq recreated',
           \A id \in Ids : recorded'[id] \in Nat /\ recorded'[id] >= recorded[id]
    PROVE  ManagerCounts(m)'
<1>1. ASSUME NEW e, CopyCounts(e), IsCopy(e) PROVE CopyCounts(e)'
  BY <1>1, CountsStay DEF CountInv, IsCopy
<1>2. \A i \in 1 .. Len(mine[m]) : CopyCounts(mine[m][i]) /\ IsCopy(mine[m][i])
  BY DEF CountInv, XInv, ManagersInv, ManagerInv
<1>3. pc[m] = "again" => CopyCounts(stopped[m]) /\ IsCopy(stopped[m])
  BY DEF CountInv, XInv, ManagersInv, ManagerInv
<1>4. ASSUME NEW i \in 1 .. Len(mine'[m]) PROVE CopyCounts(mine[m][i])'
  <2> PICK e : e = mine[m][i]
    OBVIOUS
  <2>1. CopyCounts(e)'
    BY <1>1, <1>2
  <2> QED
    BY <2>1 DEF CopyCounts, Samples
<1>5. ASSUME pc'[m] = "again" PROVE CopyCounts(stopped[m])'
  <2> PICK e : e = stopped[m]
    OBVIOUS
  <2>1. CopyCounts(e)' /\ stopped'[m] = e
    BY <1>1, <1>3, <1>5
  <2> QED
    BY <2>1 DEF CopyCounts, Samples
<1> QED
  BY <1>4, <1>5 DEF ManagerCounts

(* Nothing is counted: what a step that records nothing leaves.            *)
LEMMA CountInvBy ==
    ASSUME recorded' \in [Ids -> Nat],
           \A id \in DOMAIN store' : CopyCounts(store[id])',
           \A t \in Tools : toolPc'[t] \in {"load", "store"} => CopyCounts(toolCopy[t])',
           \A m \in Managers : ManagerCounts(m)'
    PROVE  CountInv'
BY DEF CountInv, ManagerCounts

-----------------------------------------------------------------------------
(* An experiment that a step does not touch.                               *)
LEMMA OwnedStays ==
    ASSUME NEW id, OwnedInv(id),
           id \in DOMAIN store' <=> id \in DOMAIN store,
           id \in DOMAIN store => store'[id] = store[id],
           recorded'[id] = recorded[id], id \in ended' => id \in ended,
           \A t \in Tools : Drafts(t, id)' =>
              Drafts(t, id) /\ (toolPc'[t] = "store" => toolCopy'[t] = store[id]),
           NEW k \in [Managers -> {0, 1}],
           \A m \in Managers, i \in Nat : Holds(m, i, id)' =>
              Holds(m, i + k[m], id) /\ mine'[m][i] = mine[m][i + k[m]],
           \A m \in Managers : pc'[m] = "again" /\ stopped'[m].id = id =>
              pc[m] = "again" /\ stopped'[m] = stopped[m]
    PROVE  OwnedInv(id)'
<1>1. /\ IsDraft(id)' <=> IsDraft(id)
      /\ IsRunning(id)' <=> IsRunning(id)
      /\ IsStopped(id)' <=> IsStopped(id)
  BY DEF IsDraft, IsRunning, IsStopped
<1>2. id \in DOMAIN store' => Samples(store'[id]) = recorded'[id]
  BY DEF OwnedInv
<1>3. \A t \in Tools : Drafts(t, id)' =>
        /\ IsDraft(id)' /\ (toolPc'[t] = "store" => toolCopy'[t] = store'[id])
        /\ \A s \in Tools : Drafts(s, id)' => s = t
  BY <1>1 DEF OwnedInv, IsDraft
<1>4. ASSUME NEW m \in Managers, NEW i \in Nat, Holds(m, i, id)'
      PROVE  /\ IsRunning(id)' /\ mine'[m][i] = store'[id]
             /\ \A o \in Managers, j \in Nat : Holds(o, j, id)' => o = m /\ j = i
  <2>1. \A o \in Managers : k[o] \in Nat
    OBVIOUS
  <2>2. Holds(m, i + k[m], id) /\ mine'[m][i] = mine[m][i + k[m]] /\ i + k[m] \in Nat
    BY <1>4, <2>1
  <2>3. IsRunning(id) /\ mine[m][i + k[m]] = store[id]
    BY <2>2 DEF OwnedInv
  <2>4. ASSUME NEW o \in Managers, NEW j \in Nat, Holds(o, j, id)' PROVE o = m /\ j = i
    <3>1. Holds(o, j + k[o], id) /\ j + k[o] \in Nat
      BY <2>1, <2>4
    <3>2. o = m /\ j + k[o] = i + k[m]
      BY <2>2, <3>1 DEF OwnedInv
    <3> QED
      BY <2>1, <3>2
  <2> QED
    BY <1>1, <2>2, <2>3, <2>4 DEF IsRunning
<1>5. \A m \in Managers : pc'[m] = "again" /\ stopped'[m].id = id =>
         IsStopped(id)' /\ stopped'[m] = store'[id]
  BY <1>1 DEF OwnedInv, IsStopped
<1>6. id \in ended' => IsStopped(id)'
  BY <1>1 DEF OwnedInv
<1>7. id \notin DOMAIN store' => recorded'[id] = 0
  BY DEF OwnedInv
<1> QED
  BY <1>2, <1>3, <1>4, <1>5, <1>6, <1>7 DEF OwnedInv, Samples

LEMMA SetUnsaved ==
    ASSUME NEW e, StoreWhole(e)
    PROVE  /\ unsaved \subseteq unsaved'
           /\ e.id \notin unsaved' => store' = Stored(e)
           /\ \A id : id # e.id => /\ id \in DOMAIN store' <=> id \in DOMAIN store
                                   /\ id \in DOMAIN store => store'[id] = store[id]
           /\ e.id \notin unsaved' => e.id \in DOMAIN store' /\ store'[e.id] = e
BY DEF StoreWhole, Stored

LEMMA NoShift == [m \in Managers |-> 0] \in [Managers -> {0, 1}]
OBVIOUS

-----------------------------------------------------------------------------
LEMMA CreateCounts ==
    ASSUME XCInv, NEW t \in Tools, Create(t)
    PROVE  CountInv' /\ OwnersInv'
<1>1. PICK e : /\ IsCopy(e) /\ e.id = now /\ e.n = Zero /\ e.status = "draft"
               /\ toolCopy' = [toolCopy EXCEPT ![t] = e] /\ StoreWhole(e)
  <2>1. PICK split \in Splits :
          LET e == [id |-> now, status |-> "draft", split |-> split,
                    n |-> Zero, hits |-> Zero, winner |-> Nil]
          IN  StoreWhole(e) /\ toolCopy' = [toolCopy EXCEPT ![t] = e]
    BY DEF Create
  <2> DEFINE e == [id |-> now, status |-> "draft", split |-> split,
                   n |-> Zero, hits |-> Zero, winner |-> Nil]
  <2>2. IsCopy(e) /\ e.id = now /\ e.n = Zero /\ e.status = "draft"
    BY DEF XCInv, XInv, StoreInv, IsCopy, ExperimentFields
  <2> HIDE DEF e
  <2> QED
    BY <2>1, <2>2 DEF e
<1>2. /\ now \in Ids /\ recorded \in [Ids -> Nat] /\ Samples(e) = 0
      /\ toolPc' = [toolPc EXCEPT ![t] = "load"]
      /\ recreated \subseteq recreated'
      /\ now \notin recreated' => now \notin DOMAIN store
      /\ UNCHANGED <<mine, pc, stopped, recorded, ended, shared>>
  BY <1>1 DEF XCInv, XInv, StoreInv, CountInv, Create, managerVars, Zero, Samples, Variants
<1>a. /\ UNCHANGED <<mine, pc, stopped, recorded, ended, shared>> /\ recreated \subseteq recreated'
      /\ StoreWhole(e) /\ e.id = now /\ \A id \in Ids : recorded'[id] \in Nat /\ recorded'[id] >= recorded[id]
  <2>1. \A id \in Ids : recorded'[id] \in Nat /\ recorded'[id] >= recorded[id]
    BY <1>2
  <2> QED
    BY <1>1, <1>2, <2>1
<1>3. CopyCounts(e)'
  BY <1>1, <1>2 DEF CopyCounts, Zero, Variants, Samples
<1>4. /\ toolPc'[t] = "load" /\ toolCopy'[t] = e
      /\ \A s \in Tools \ {t} : toolPc'[s] = toolPc[s] /\ toolCopy'[s] = toolCopy[s]
  BY <1>1, <1>2 DEF XCInv, XInv, ToolInv
<1>5. CountInv'
  <2>1. \A id \in DOMAIN store' : CopyCounts(store[id])'
    BY <1>1, <1>3, <1>a, StoringCounts DEF XCInv
  <2>2. \A s \in Tools : toolPc'[s] \in {"load", "store"} => CopyCounts(toolCopy[s])'
    <3>1. CopyCounts(toolCopy[t])'
      BY <1>3, <1>4 DEF CopyCounts, Samples
    <3> QED
      BY <1>4, <1>a, <3>1, ToolCountsStay DEF XCInv
  <2>3. \A m \in Managers : ManagerCounts(m)'
    BY <1>a, ManagerCountsStay DEF XCInv
  <2> QED
    BY <1>2, <2>1, <2>2, <2>3, CountInvBy
<1>6. ASSUME NEW id \in Ids, Good(id)' PROVE OwnedInv(id)'
  <2>1. Good(id) /\ OwnedInv(id)
    <3>1. Good(id)
      BY <1>6, <1>a DEF Good, StoreWhole
    <3> QED
      BY <3>1 DEF XCInv, OwnersInv
  <2>2. CASE id # now
    <3>1. \A s \in Tools : Drafts(s, id)' =>
              Drafts(s, id) /\ (toolPc'[s] = "store" => toolCopy'[s] = store[id])
      BY <1>1, <1>4, <2>1, <2>2 DEF Drafts, OwnedInv
    <3>2. \A m \in Managers, i \in Nat : Holds(m, i, id)' =>
              Holds(m, i + 0, id) /\ mine'[m][i] = mine[m][i + 0]
      BY <1>2 DEF Holds
    <3>3. /\ id \in DOMAIN store' <=> id \in DOMAIN store
          /\ id \in DOMAIN store => store'[id] = store[id]
      BY <1>a, <2>2, SetUnsaved
    <3> QED
      BY <1>a, <2>1, <2>2, <3>1, <3>2, <3>3, OwnedStays, NoShift
  <2>3. CASE id = now
    <3>1. id \notin DOMAIN store /\ id \in DOMAIN store' /\ store'[id] = e
      <4>1. now \notin recreated' /\ e.id \notin unsaved'
        BY <1>6, <1>a, <2>3 DEF Good
      <4>2. now \notin DOMAIN store
        BY <4>1 DEF Create
      <4> QED
        BY <1>a, <2>3, <4>1, <4>2, SetUnsaved
    <3>2. /\ recorded'[id] = 0 /\ id \notin ended'
          /\ \A s \in Tools : ~Drafts(s, id)
          /\ \A m \in Managers, i \in Nat : ~Holds(m, i, id)
          /\ \A m \in Managers : ~(pc[m] = "again" /\ stopped[m].id = id)
      BY <1>2, <2>1, <3>1 DEF OwnedInv, IsDraft, IsRunning, IsStopped
    <3>3. \A s \in Tools : Drafts(s, id)' => s = t
      BY <1>4, <3>2 DEF Drafts
    <3>4. \A m \in Managers, i \in Nat : ~Holds(m, i, id)'
      BY <1>2, <3>2 DEF Holds
    <3> QED
      BY <1>1, <1>2, <1>4, <3>1, <3>2, <3>3, <3>4 DEF OwnedInv, IsDraft, Samples
  <2> QED
    BY <2>2, <2>3
<1> QED
  BY <1>5, <1>6 DEF OwnersInv

LEMMA LoadDraftCounts ==
    ASSUME XCInv, NEW t \in Tools, LoadDraft(t)
    PROVE  CountInv' /\ OwnersInv'
<1> PICK k : k = toolCopy[t].id
  OBVIOUS
<1>1. /\ UNCHANGED <<store, mine, pc, stopped, recorded, ended, shared, recreated, unsaved>>
      /\ recorded \in [Ids -> Nat] /\ toolPc[t] = "load"
      /\ \A id \in Ids : recorded[id] \in Nat
  BY DEF LoadDraft, redisVars, managerVars, ghostVars, XCInv, CountInv
<1>2. /\ toolPc'[t] = "done" \/ (toolPc'[t] = "store" /\ toolCopy'[t] = store[k] /\ k \in DOMAIN store)
      /\ \A s \in Tools \ {t} : toolPc'[s] = toolPc[s] /\ toolCopy'[s] = toolCopy[s]
  BY DEF LoadDraft, XCInv, XInv, ToolInv
<1>3. \A id \in DOMAIN store : store[id].id = id
  BY DEF XCInv, XInv, StoreInv
<1>4. CountInv'
  <2>1. \A id \in DOMAIN store' : CopyCounts(store[id])'
    BY <1>1 DEF XCInv, CountInv, CopyCounts, Samples
  <2>2. \A s \in Tools : toolPc'[s] \in {"load", "store"} => CopyCounts(toolCopy[s])'
    <3>1. toolPc'[t] = "store" => CopyCounts(toolCopy[t])'
      BY <1>1, <1>2, <2>1 DEF CopyCounts, Samples
    <3> QED
      BY <1>1, <1>2, <3>1, ToolCountsStay DEF XCInv
  <2>3. \A m \in Managers : ManagerCounts(m)'
    BY <1>1, ManagerCountsStay DEF XCInv
  <2> QED
    BY <1>1, <2>1, <2>2, <2>3, CountInvBy
<1>5. ASSUME NEW id \in Ids, Good(id)' PROVE OwnedInv(id)'
  <2>1. Good(id) /\ OwnedInv(id)
    BY <1>1, <1>5 DEF Good, XCInv, OwnersInv
  <2>2. \A s \in Tools : Drafts(s, id)' =>
            Drafts(s, id) /\ (toolPc'[s] = "store" => toolCopy'[s] = store[id])
    BY <1>1, <1>2, <1>3, <2>1 DEF Drafts, OwnedInv
  <2>3. \A m \in Managers, i \in Nat : Holds(m, i, id)' =>
            Holds(m, i + 0, id) /\ mine'[m][i] = mine[m][i + 0]
    BY <1>1 DEF Holds
  <2> QED
    BY <1>1, <2>1, <2>2, <2>3, OwnedStays, NoShift
<1> QED
  BY <1>4, <1>5 DEF OwnersInv

LEMMA StartCounts ==
    ASSUME XCInv, NEW t \in Tools, StartExperiment(t)
    PROVE  CountInv' /\ OwnersInv'
<1> PICK c : c = toolCopy[t]
  OBVIOUS
<1> PICK e : e = [c EXCEPT !.status = "running"]
  OBVIOUS
<1>1. /\ IsCopy(c) /\ CopyCounts(c) /\ StoreWhole(e) /\ toolPc[t] = "store" /\ recorded \in [Ids -> Nat]
      /\ toolCopy' = [toolCopy EXCEPT ![t] = Nil] /\ toolPc' = [toolPc EXCEPT ![t] = "done"]
      /\ UNCHANGED <<mine, pc, stopped, recorded, ended, shared, recreated>>
  BY DEF StartExperiment, XCInv, XInv, ToolInv, CountInv, managerVars
<1>2. e.id = c.id /\ e.n = c.n /\ e.status = "running" /\ DOMAIN e = ExperimentFields
  BY <1>1 DEF IsCopy, ExperimentFields
<1>a. /\ UNCHANGED <<mine, pc, stopped, recorded, ended, shared, recreated>> /\ StoreWhole(e)
      /\ \A id \in Ids : recorded'[id] \in Nat /\ recorded'[id] >= recorded[id]
  BY <1>1
<1>3. IsCopy(e) /\ CopyCounts(e) /\ Samples(e) = Samples(c)
  BY <1>1, <1>2, SameCounts DEF IsCopy
<1>4. /\ toolPc'[t] = "done"
      /\ \A s \in Tools \ {t} : toolPc'[s] = toolPc[s] /\ toolCopy'[s] = toolCopy[s]
  BY <1>1 DEF XCInv, XInv, ToolInv
<1>5. CountInv'
  <2>1. CopyCounts(e)'
    BY <1>1, <1>3 DEF CopyCounts, Samples
  <2>2. \A id \in DOMAIN store' : CopyCounts(store[id])'
    BY <1>3, <1>a, <2>1, StoringCounts DEF XCInv
  <2>3. \A s \in Tools : toolPc'[s] \in {"load", "store"} => CopyCounts(toolCopy[s])'
    BY <1>a, <1>4, ToolCountsStay DEF XCInv
  <2>4. \A m \in Managers : ManagerCounts(m)'
    BY <1>a, ManagerCountsStay DEF XCInv
  <2> QED
    BY <1>1, <2>2, <2>3, <2>4, CountInvBy
<1>6. ASSUME NEW id \in Ids, Good(id)' PROVE OwnedInv(id)'
  <2>1. Good(id) /\ OwnedInv(id)
    <3>1. Good(id)
      BY <1>6, <1>a DEF Good, StoreWhole
    <3> QED
      BY <3>1 DEF XCInv, OwnersInv
  <2>2. CASE id # e.id
    <3>1. \A s \in Tools : Drafts(s, id)' =>
              Drafts(s, id) /\ (toolPc'[s] = "store" => toolCopy'[s] = store[id])
      BY <1>4, <2>1 DEF Drafts, OwnedInv
    <3>2. \A m \in Managers, i \in Nat : Holds(m, i, id)' =>
              Holds(m, i + 0, id) /\ mine'[m][i] = mine[m][i + 0]
      BY <1>1 DEF Holds
    <3>3. /\ id \in DOMAIN store' <=> id \in DOMAIN store
          /\ id \in DOMAIN store => store'[id] = store[id]
      BY <1>a, <2>2, SetUnsaved
    <3> QED
      BY <1>a, <2>1, <3>1, <3>2, <3>3, OwnedStays, NoShift
  <2>3. CASE id = e.id
    <3>1. id \in DOMAIN store' /\ store'[id] = e
      BY <1>1, <1>6, <2>3, SetUnsaved DEF Good
    <3>2. Drafts(t, id) /\ IsDraft(id) /\ c = store[id] /\ \A s \in Tools : Drafts(s, id) => s = t
      BY <1>1, <1>2, <2>1, <2>3 DEF OwnedInv, Drafts
    <3>3. /\ id \notin ended' /\ Samples(e) = recorded'[id]
          /\ \A m \in Managers, i \in Nat : ~Holds(m, i, id)
          /\ \A m \in Managers : ~(pc[m] = "again" /\ stopped[m].id = id)
      BY <1>1, <1>3, <2>1, <3>2 DEF OwnedInv, IsDraft, IsRunning, IsStopped
    <3>4. \A s \in Tools : ~Drafts(s, id)'
      BY <1>4, <3>2 DEF Drafts
    <3>5. \A m \in Managers, i \in Nat : ~Holds(m, i, id)'
      BY <1>1, <3>3 DEF Holds
    <3> QED
      BY <1>1, <3>1, <3>3, <3>4, <3>5 DEF OwnedInv, Samples
  <2> QED
    BY <2>2, <2>3
<1> QED
  BY <1>5, <1>6 DEF OwnersInv

-----------------------------------------------------------------------------
(* The detectors' steps, for the experiments a detector does not write.    *)
LEMMA DetectorKeepsOthers ==
    ASSUME XCInv, NEW m \in Managers, UNCHANGED toolVars, NEW id, OwnedInv(id),
           \A o \in Managers \ {m} : mine'[o] = mine[o] /\ pc'[o] = pc[o] /\ stopped'[o] = stopped[o],
           id \in DOMAIN store' <=> id \in DOMAIN store,
           id \in DOMAIN store => store'[id] = store[id],
           recorded'[id] = recorded[id], id \in ended' => id \in ended,
           NEW n \in {0, 1},
           \A i \in Nat : Holds(m, i, id)' => Holds(m, i + n, id) /\ mine'[m][i] = mine[m][i + n],
           pc'[m] = "again" /\ stopped'[m].id = id => pc[m] = "again" /\ stopped'[m] = stopped[m]
    PROVE  OwnedInv(id)'
<1> DEFINE k == [o \in Managers |-> IF o = m THEN n ELSE 0]
<1>1. k \in [Managers -> {0, 1}] /\ k[m] = n /\ \A o \in Managers \ {m} : k[o] = 0
  OBVIOUS
<1> HIDE DEF k
<1>2. ASSUME NEW o \in Managers, NEW i \in Nat, Holds(o, i, id)'
      PROVE  Holds(o, i + k[o], id) /\ mine'[o][i] = mine[o][i + k[o]]
  <2>1. CASE o = m
    BY <1>1, <1>2, <2>1
  <2>2. CASE o # m
    BY <1>1, <1>2, <2>2 DEF Holds
  <2> QED
    BY <2>1, <2>2
<1>3. \A t \in Tools : Drafts(t, id)' => Drafts(t, id) /\ (toolPc'[t] = "store" => toolCopy'[t] = store[id])
  BY DEF toolVars, Drafts, OwnedInv
<1>4. \A o \in Managers : pc'[o] = "again" /\ stopped'[o].id = id => pc[o] = "again" /\ stopped'[o] = stopped[o]
  OBVIOUS
<1> QED
  BY <1>1, <1>2, <1>3, <1>4, OwnedStays

(* What a step of a detector that records nothing keeps of the counts.     *)
LEMMA DetectorCounts ==
    ASSUME XCInv, NEW m \in Managers, UNCHANGED <<toolVars, recorded>>, recreated \subseteq recreated',
           \A o \in Managers \ {m} : mine'[o] = mine[o] /\ pc'[o] = pc[o] /\ stopped'[o] = stopped[o],
           \A id \in DOMAIN store' : CopyCounts(store[id])', ManagerCounts(m)'
    PROVE  CountInv'
<1>1. recorded' \in [Ids -> Nat] /\ \A id \in Ids : recorded'[id] \in Nat /\ recorded'[id] >= recorded[id]
  BY DEF XCInv, CountInv
<1>2. \A t \in Tools : toolPc'[t] \in {"load", "store"} => CopyCounts(toolCopy[t])'
  BY <1>1, ToolCountsStay DEF XCInv, toolVars
<1>3. \A o \in Managers : ManagerCounts(o)'
  BY <1>1, ManagerCountsStay DEF XCInv
<1> QED
  BY <1>1, <1>2, <1>3, CountInvBy

LEMMA StoreUnchangedCounts ==
    ASSUME CountInv, UNCHANGED <<store, recorded, recreated>>
    PROVE  \A id \in DOMAIN store' : CopyCounts(store[id])'
BY DEF CountInv, CopyCounts, Samples

LEMMA StartManagerCounts ==
    ASSUME XCInv, NEW m \in Managers, StartManager(m)
    PROVE  CountInv' /\ OwnersInv'
<1>1. /\ ~up[m] /\ UNCHANGED <<store, toolVars, recorded, recreated, unsaved>> /\ UNCHANGED <<pc, stopped, ended>>
  BY DEF StartManager, redisVars
<1>2. pc[m] = "idle" /\ pc'[m] = "idle" /\ mine[m] = <<>>
  BY <1>1 DEF XCInv, XInv, ManagersInv, ManagerInv
<1> PICK running : running = {store[e] : e \in {id \in DOMAIN store : IsActive(store[id])}}
  OBVIOUS
<1>3. PICK copies \in SetToAllKPermutations(running) :
         /\ mine' = [mine EXCEPT ![m] = copies]
         /\ shared' = shared \cup {e \in IdsOf(copies) : \E o \in Managers \ {m} : e \in IdsOf(mine[o])}
  BY DEF StartManager
<1>4. PICK S \in SUBSET running : /\ copies \in [1 .. Cardinality(S) -> S]
                                  /\ \A i, j \in 1 .. Cardinality(S) : i # j => copies[i] # copies[j]
  BY DEF SetToAllKPermutations, SetToSeqs
<1>5. copies \in Seq(running) /\ Len(copies) \in Nat /\ DOMAIN copies = 1 .. Len(copies)
  BY RunningCopies DEF XCInv, XInv
<1>6. 1 .. Cardinality(S) = 1 .. Len(copies)
  BY <1>4, <1>5
<1>7. \A i, j \in 1 .. Len(copies) : copies[i] = copies[j] => i = j
  BY <1>4, <1>6
<1>8. \A i \in 1 .. Len(copies) : /\ copies[i].id \in DOMAIN store /\ copies[i] = store[copies[i].id]
                                 /\ IsRunning(copies[i].id)
  BY <1>5 DEF XCInv, XInv, StoreInv, IsActive, IsRunning
<1>9. mine'[m] = copies /\ \A o \in Managers \ {m} : mine'[o] = mine[o] /\ pc'[o] = pc[o] /\ stopped'[o] = stopped[o]
  BY <1>1, <1>3 DEF XCInv, XInv, ManagersInv, ManagerFunctions
<1>10. CountInv'
  <2>1. \A id \in DOMAIN store' : CopyCounts(store[id])'
    BY <1>1, StoreUnchangedCounts DEF XCInv
  <2>2. ManagerCounts(m)'
    BY <1>1, <1>2, <1>8, <1>9, <2>1 DEF ManagerCounts, CopyCounts, Samples
  <2> QED
    BY <1>1, <1>9, <2>1, <2>2, DetectorCounts
<1>11. ASSUME NEW id \in Ids, Good(id)' PROVE OwnedInv(id)'
  <2>1. Good(id) /\ OwnedInv(id)
    BY <1>1, <1>3, <1>11 DEF Good, XCInv, OwnersInv
  <2>2. CASE \E i \in 1 .. Len(copies) : copies[i].id = id
    <3>1. PICK i \in 1 .. Len(copies) : copies[i].id = id /\ copies[i] = store[id]
      BY <1>8, <2>2
    <3>2. IsRunning(id)' /\ mine'[m][i] = store'[id] /\ IsRunning(id)
      BY <1>1, <1>8, <1>9, <3>1 DEF IsRunning
    <3>3. \A o \in Managers \ {m} : id \notin IdsOf(mine[o])
      <4>1. id \in IdsOf(copies)
        BY <1>5, <3>1 DEF IdsOf
      <4> QED
        BY <1>3, <1>11, <4>1 DEF Good
    <3>4. \A o \in Managers \ {m}, j \in Nat : ~Holds(o, j, id)'
      <4>1. \A o \in Managers : DOMAIN mine[o] = 1 .. Len(mine[o])
        BY DEF XCInv, XInv, ManagersInv, ManagerInv
      <4> QED
        BY <1>9, <3>3, <4>1 DEF Holds, IdsOf
    <3>5. \A j \in Nat : Holds(m, j, id)' => j = i /\ mine'[m][j] = store'[id]
      BY <1>7, <1>8, <1>9, <3>1, <3>2 DEF Holds
    <3>6. \A t \in Tools : ~Drafts(t, id)'
      BY <1>1, <2>1, <3>2 DEF OwnedInv, IsDraft, IsRunning, Drafts, toolVars
    <3>7. /\ id \notin ended' /\ recorded' = recorded /\ store' = store
          /\ \A o \in Managers : ~(pc'[o] = "again" /\ stopped'[o].id = id)
      BY <1>1, <2>1, <3>2 DEF OwnedInv, IsStopped, IsRunning
    <3> QED
      BY <2>1, <3>2, <3>4, <3>5, <3>6, <3>7 DEF OwnedInv, IsRunning, Samples
  <2>3. CASE ~\E i \in 1 .. Len(copies) : copies[i].id = id
    <3>1. \A i \in Nat : ~Holds(m, i, id)'
      BY <1>9, <2>3 DEF Holds
    <3> QED
      BY <1>1, <1>2, <1>9, <2>1, <3>1, DetectorKeepsOthers
  <2> QED
    BY <2>2, <2>3
<1> QED
  BY <1>10, <1>11 DEF OwnersInv

(* A detector's steps that touch no copy.                                  *)
LEMMA AsideCounts ==
    ASSUME XCInv, NEW m \in Managers, (\E u \in Users : Assign(m, u)) \/ KeepAssignment(m) \/ Die(m)
    PROVE  CountInv' /\ OwnersInv'
<1>1. /\ UNCHANGED <<store, toolVars, recorded, recreated>> /\ UNCHANGED <<shared, ended, unsaved>>
      /\ mine'[m] = mine[m] \/ mine'[m] = <<>>
      /\ pc'[m] # "again"
      /\ \A o \in Managers \ {m} : mine'[o] = mine[o] /\ pc'[o] = pc[o] /\ stopped'[o] = stopped[o]
  BY DEF Assign, KeepAssignment, Die, Goto, redisVars, ghostVars, XCInv, XInv, ManagersInv, ManagerFunctions
<1>2. CountInv'
  <2>1. \A id \in DOMAIN store' : CopyCounts(store[id])'
    BY <1>1, StoreUnchangedCounts DEF XCInv
  <2>2. ManagerCounts(m)'
    BY <1>1 DEF XCInv, CountInv, ManagerCounts, CopyCounts, Samples
  <2> QED
    BY <1>1, <2>1, <2>2, DetectorCounts
<1>3. ASSUME NEW id \in Ids, Good(id)' PROVE OwnedInv(id)'
  <2>1. OwnedInv(id)
    BY <1>1, <1>3 DEF Good, XCInv, OwnersInv
  <2>2. \A i \in Nat : Holds(m, i, id)' => Holds(m, i + 0, id) /\ mine'[m][i] = mine[m][i + 0]
    BY <1>1 DEF Holds
  <2> QED
    BY <1>1, <2>1, <2>2, DetectorKeepsOthers
<1> QED
  BY <1>2, <1>3 DEF OwnersInv

-----------------------------------------------------------------------------
(* The detector that has the only copy of an experiment writes it.         *)
LEMMA OwnerKnows ==
    ASSUME XCInv, NEW m \in Managers, NEW i \in Nat, NEW id, OwnedInv(id), Holds(m, i, id)
    PROVE  /\ mine[m][i] = store[id] /\ IsRunning(id) /\ id \notin ended
           /\ Samples(store[id]) = recorded[id]
           /\ \A t \in Tools : ~Drafts(t, id)
           /\ \A o \in Managers : ~(pc[o] = "again" /\ stopped[o].id = id)
           /\ \A o \in Managers, j \in Nat : Holds(o, j, id) => o = m /\ j = i
BY DEF OwnedInv, IsDraft, IsRunning, IsStopped

LEMMA OwnerWrites ==
    ASSUME XCInv, NEW m \in Managers, NEW id, OwnedInv(id), Holds(m, 1, id), UNCHANGED toolVars,
           \A o \in Managers \ {m} : mine'[o] = mine[o] /\ pc'[o] = pc[o] /\ stopped'[o] = stopped[o],
           NEW e, id \in DOMAIN store', store'[id] = e, e.status = "running",
           Samples(e) = recorded'[id], ended' = ended, pc'[m] # "again", mine'[m][1] = e,
           \A j \in Nat : Holds(m, j, id)' => Holds(m, j, id)
    PROVE  OwnedInv(id)'
<1>1. /\ id \notin ended'
      /\ \A t \in Tools : ~Drafts(t, id)
      /\ \A o \in Managers : ~(pc[o] = "again" /\ stopped[o].id = id)
      /\ \A o \in Managers, j \in Nat : Holds(o, j, id) => o = m /\ j = 1
  BY OwnerKnows
<1>2. IsRunning(id)' /\ Samples(store'[id]) = recorded'[id]
  BY DEF IsRunning
<1>3. \A t \in Tools : ~Drafts(t, id)'
  BY <1>1 DEF Drafts, toolVars
<1>4. \A o \in Managers : ~(pc'[o] = "again" /\ stopped'[o].id = id)
  BY <1>1
<1>5. \A o \in Managers, j \in Nat : Holds(o, j, id)' => o = m /\ j = 1
  <2> TAKE o \in Managers, j \in Nat
  <2>1. Holds(o, j, id)' => Holds(o, j, id)
    BY DEF Holds
  <2> QED
    BY <1>1, <2>1
<1> QED
  BY <1>1, <1>2, <1>3, <1>4, <1>5 DEF OwnedInv, Samples

LEMMA OneMore ==
    ASSUME NEW e, IsCopy(e), CopyCounts(e), NEW v \in Variants, NEW hit
    PROVE  LET c == Counted(e, v, hit)
           IN  /\ c.n["control"] \in Nat /\ c.n["treatment"] \in Nat /\ DOMAIN c.n = Variants
               /\ Samples(c) = Samples(e) + 1 /\ c.status = e.status
<1> PICK c : c = Counted(e, v, hit)
  OBVIOUS
<1>1. c.n = [e.n EXCEPT ![v] = @ + 1] /\ c.status = e.status
  BY DEF Counted, IsCopy, ExperimentFields
<1>2. e.n["control"] \in Nat /\ e.n["treatment"] \in Nat /\ DOMAIN e.n = Variants
  BY DEF CopyCounts
<1>3. CASE v = "control"
  <2>1. c.n["control"] = e.n["control"] + 1 /\ c.n["treatment"] = e.n["treatment"] /\ DOMAIN c.n = Variants
    BY <1>1, <1>2, <1>3 DEF Variants
  <2> QED
    BY <1>1, <1>2, <2>1 DEF Samples
<1>4. CASE v = "treatment"
  <2>1. c.n["control"] = e.n["control"] /\ c.n["treatment"] = e.n["treatment"] + 1 /\ DOMAIN c.n = Variants
    BY <1>1, <1>2, <1>4 DEF Variants
  <2> QED
    BY <1>1, <1>2, <2>1 DEF Samples
<1> QED
  BY <1>3, <1>4 DEF Variants

LEMMA RecordCounts ==
    ASSUME XCInv, NEW m \in Managers, RecordResult(m)
    PROVE  CountInv' /\ OwnersInv'
<1> PICK h : h = mine[m][1]
  OBVIOUS
<1>1. /\ pc[m] = "record" /\ mine[m] # <<>>
      /\ UNCHANGED <<toolVars, stopped, ended, shared, recreated>>
  BY DEF RecordResult, XCInv, XInv, ManagersInv, ManagerInv
<1>2. /\ Head(mine[m]) = h /\ IsCopy(h) /\ Len(mine[m]) \in Nat /\ Len(mine[m]) > 0
      /\ CopyCounts(h) /\ result[m] \in Variants
  BY <1>1, FirstCopy DEF XCInv, XInv, CountInv, ManagersInv, ManagerInv
<1>3. PICK e : /\ IsCopy(e) /\ e.id = h.id /\ StoreWhole(e) /\ e.status = h.status
               /\ e.n["control"] \in Nat /\ e.n["treatment"] \in Nat /\ DOMAIN e.n = Variants
               /\ Samples(e) = Samples(h) + 1
               /\ mine' = [mine EXCEPT ![m] = <<e>> \o Tail(mine[m])]
               /\ recorded' = [recorded EXCEPT ![e.id] = @ + 1]
               /\ Goto(m, "analyze") \/ Goto(m, "idle")
  <2>1. PICK hit \in BOOLEAN :
          LET e == Counted(Head(mine[m]), result[m], hit)
          IN  /\ mine' = [mine EXCEPT ![m] = <<e>> \o Tail(@)]
              /\ StoreWhole(e)
              /\ recorded' = [recorded EXCEPT ![e.id] = @ + 1]
              /\ Goto(m, "analyze") \/ Goto(m, "idle")
    BY DEF RecordResult
  <2> PICK e : e = Counted(h, result[m], hit)
    OBVIOUS
  <2>2. IsCopy(e) /\ e.id = h.id
    BY <1>2, CountedCopy
  <2>3. /\ e.n["control"] \in Nat /\ e.n["treatment"] \in Nat /\ DOMAIN e.n = Variants
        /\ Samples(e) = Samples(h) + 1 /\ e.status = h.status
    BY <1>2, OneMore
  <2> QED
    BY <1>2, <2>1, <2>2, <2>3
<1>4. /\ recorded \in [Ids -> Nat] /\ recorded' \in [Ids -> Nat]
      /\ e.id \in Ids /\ recorded'[e.id] = recorded[e.id] + 1
      /\ \A id \in Ids : recorded'[id] \in Nat /\ recorded'[id] >= recorded[id]
      /\ \A id \in Ids \ {e.id} : recorded'[id] = recorded[id]
  BY <1>3 DEF XCInv, CountInv, IsCopy
<1>5. /\ mine'[m] = <<e>> \o Tail(mine[m]) /\ pc'[m] \in {"analyze", "idle"}
      /\ \A o \in Managers \ {m} : mine'[o] = mine[o] /\ pc'[o] = pc[o] /\ stopped'[o] = stopped[o]
  BY <1>1, <1>3 DEF XCInv, XInv, ManagersInv, ManagerFunctions, Goto
<1>6. /\ Len(mine'[m]) = Len(mine[m]) /\ mine'[m][1] = e
      /\ \A i \in 2 .. Len(mine[m]) : mine'[m][i] = mine[m][i]
  <2>1. PICK S : mine[m] \in Seq(S)
    BY DEF XCInv, XInv, ManagersInv, ManagerInv
  <2>2. Tail(mine[m]) \in Seq(S) /\ Len(Tail(mine[m])) = Len(mine[m]) - 1
    BY <1>2, <2>1
  <2>3. \A i \in 1 .. Len(Tail(mine[m])) : Tail(mine[m])[i] = mine[m][i + 1]
    BY <1>2, <2>1
  <2>4. /\ Len(<<e>> \o Tail(mine[m])) = Len(Tail(mine[m])) + 1
        /\ \A i \in 1 .. Len(Tail(mine[m])) + 1 :
              (<<e>> \o Tail(mine[m]))[i] = IF i = 1 THEN e ELSE Tail(mine[m])[i - 1]
    BY <2>2
  <2>5. \A i \in 2 .. Len(mine[m]) : i - 1 \in 1 .. Len(Tail(mine[m])) /\ (i - 1) + 1 = i
    BY <1>2, <2>2
  <2> QED
    BY <1>2, <1>5, <2>2, <2>3, <2>4, <2>5
<1>7. CopyCounts(e)'
  <2>1. h.id \notin recreated => Samples(h) <= recorded[h.id]
    BY <1>2 DEF CopyCounts
  <2>2. Samples(h) \in Nat
    BY <1>2 DEF CopyCounts, Samples
  <2>3. e.id \notin recreated' => Samples(e) <= recorded'[e.id]
    BY <1>1, <1>3, <1>4, <2>1, <2>2
  <2> QED
    BY <1>3, <2>3 DEF CopyCounts, Samples
<1>8. CountInv'
  <2>1. \A id \in DOMAIN store' : CopyCounts(store[id])'
    BY <1>1, <1>3, <1>4, <1>7, StoringCounts DEF XCInv
  <2>2. \A t \in Tools : toolPc'[t] \in {"load", "store"} => CopyCounts(toolCopy[t])'
    BY <1>1, <1>4, ToolCountsStay DEF XCInv, toolVars
  <2>3. ASSUME NEW i \in 1 .. Len(mine'[m]) PROVE CopyCounts(mine[m][i])'
    <3>1. CASE i = 1
      BY <1>6, <1>7, <3>1 DEF CopyCounts, Samples
    <3>2. CASE i # 1
      <4> PICK c : c = mine[m][i]
        OBVIOUS
      <4>1. i \in 2 .. Len(mine[m]) /\ mine'[m][i] = c
        BY <1>2, <1>6, <3>2
      <4>2. CopyCounts(c) /\ IsCopy(c)
        BY <1>2, <4>1 DEF XCInv, XInv, CountInv, ManagersInv, ManagerInv
      <4>3. CopyCounts(c)'
        BY <1>1, <1>4, <4>2, CountsStay DEF IsCopy
      <4> QED
        BY <4>1, <4>3 DEF CopyCounts, Samples
    <3> QED
      BY <3>1, <3>2
  <2>4. ASSUME NEW o \in Managers PROVE ManagerCounts(o)'
    <3>1. CASE o = m
      BY <1>5, <2>3, <3>1 DEF ManagerCounts
    <3>2. CASE o # m
      BY <1>1, <1>4, <1>5, <3>2, ManagerCountsStay DEF XCInv
    <3> QED
      BY <3>1, <3>2
  <2> QED
    BY <1>4, <2>1, <2>2, <2>4, CountInvBy
<1>9. ASSUME NEW id \in Ids, Good(id)' PROVE OwnedInv(id)'
  <2>1. OwnedInv(id)
    <3>1. unsaved \subseteq unsaved'
      BY <1>3, SetUnsaved
    <3>2. Good(id)
      BY <1>1, <1>9, <3>1 DEF Good
    <3> QED
      BY <3>2 DEF XCInv, OwnersInv
  <2>2. \A j \in Nat : Holds(m, j, id)' => Holds(m, j, id)
    <3> SUFFICES ASSUME NEW j \in Nat, Holds(m, j, id)' PROVE Holds(m, j, id)
      OBVIOUS
    <3>1. j \in 1 .. Len(mine[m]) /\ mine'[m][j].id = id
      BY <1>6 DEF Holds
    <3>2. j = 1 \/ j \in 2 .. Len(mine[m])
      BY <1>2, <3>1
    <3> QED
      BY <1>3, <1>6, <3>1, <3>2 DEF Holds
  <2>3. CASE id # e.id
    <3>1. /\ id \in DOMAIN store' <=> id \in DOMAIN store
          /\ id \in DOMAIN store => store'[id] = store[id]
      BY <1>3, <2>3, SetUnsaved
    <3>2. \A j \in Nat : Holds(m, j, id)' => Holds(m, j + 0, id) /\ mine'[m][j] = mine[m][j + 0]
      <4> SUFFICES ASSUME NEW j \in Nat, Holds(m, j, id)' PROVE mine'[m][j] = mine[m][j]
        BY <2>2
      <4>1. j \in 1 .. Len(mine[m]) /\ j # 1
        BY <1>6, <2>3 DEF Holds
      <4>2. j \in 2 .. Len(mine[m])
        BY <1>2, <4>1
      <4> QED
        BY <1>6, <4>2
    <3>3. recorded'[id] = recorded[id] /\ ended' = ended /\ ~(pc'[m] = "again")
      BY <1>1, <1>4, <1>5, <2>3
    <3> QED
      BY <1>1, <1>5, <2>1, <3>1, <3>2, <3>3, DetectorKeepsOthers
  <2>4. CASE id = e.id
    <3>1. id \in DOMAIN store' /\ store'[id] = e
      BY <1>3, <1>9, <2>4, SetUnsaved DEF Good
    <3>2. Holds(m, 1, id)
      BY <1>2, <1>3, <2>4 DEF Holds
    <3>3. h = store[id] /\ IsRunning(id) /\ Samples(store[id]) = recorded[id]
      BY <2>1, <3>2, OwnerKnows
    <3>4. e.status = "running" /\ Samples(e) = recorded'[id]
      BY <1>3, <1>4, <2>4, <3>3 DEF IsRunning
    <3> QED
      BY <1>1, <1>5, <1>6, <2>1, <2>2, <3>1, <3>2, <3>4, OwnerWrites
  <2> QED
    BY <2>3, <2>4
<1> QED
  BY <1>8, <1>9 DEF OwnersInv

(* The analysis stores the copy unchanged, or stops the experiment.        *)
Continues(m, e) ==
    /\ UNCHANGED <<store, unsaved>> \/ StoreWhole(e)
    /\ Goto(m, "idle") /\ UNCHANGED <<mine, stopped, ended>>

Stops(m, e, s) ==
    /\ s.n = e.n /\ s.id = e.id /\ s.status = "stopped"
    /\ StoreWhole(s) /\ mine' = [mine EXCEPT ![m] = Tail(@)]
    /\ stopped' = [stopped EXCEPT ![m] = s] /\ ended' = ended \cup {e.id} /\ Goto(m, "again")

LEMMA AnalyzeOutcomes ==
    ASSUME XCInv, NEW m \in Managers, Analyze(m)
    PROVE  Continues(m, Head(mine[m])) \/ \E s : IsCopy(s) /\ Stops(m, Head(mine[m]), s)
<1> PICK e : e = Head(mine[m])
  OBVIOUS
<1>1. IsCopy(e)
  <2>1. mine[m] # <<>>
    BY DEF Analyze, XCInv, XInv, ManagersInv, ManagerInv
  <2> QED
    BY <2>1, FirstCopy DEF XCInv, XInv
<1>2. \/ Continues(m, e)
      \/ \E winner : LET s == [e EXCEPT !.status = "stopped", !.winner = winner]
                     IN  /\ StoreWhole(s) /\ mine' = [mine EXCEPT ![m] = Tail(@)]
                         /\ stopped' = [stopped EXCEPT ![m] = s] /\ ended' = ended \cup {e.id}
                         /\ Goto(m, "again")
  BY DEF Analyze, Continues, WithoutFirst
<1>3. ASSUME NEW winner, NEW s, s = [e EXCEPT !.status = "stopped", !.winner = winner]
      PROVE  s.n = e.n /\ s.id = e.id /\ s.status = "stopped" /\ IsCopy(s)
  BY <1>1, <1>3 DEF IsCopy, ExperimentFields
<1>4. ASSUME ~Continues(m, e) PROVE \E s : IsCopy(s) /\ Stops(m, e, s)
  <2>1. PICK winner : LET s == [e EXCEPT !.status = "stopped", !.winner = winner]
                      IN  /\ StoreWhole(s) /\ mine' = [mine EXCEPT ![m] = Tail(@)]
                          /\ stopped' = [stopped EXCEPT ![m] = s] /\ ended' = ended \cup {e.id}
                          /\ Goto(m, "again")
    BY <1>2, <1>4
  <2> PICK s : s = [e EXCEPT !.status = "stopped", !.winner = winner]
    OBVIOUS
  <2>2. IsCopy(s) /\ Stops(m, e, s)
    BY <1>3, <2>1 DEF Stops
  <2> QED
    BY <2>2
<1> QED
  BY <1>4

LEMMA ContinueCounts ==
    ASSUME XCInv, NEW m \in Managers, mine[m] # <<>>, NEW e, e = mine[m][1], Continues(m, e),
           UNCHANGED <<toolVars, recorded, shared, recreated>>
    PROVE  CountInv' /\ OwnersInv'
<1>1. /\ IsCopy(e) /\ CopyCounts(e) /\ Len(mine[m]) \in Nat /\ Len(mine[m]) > 0
      /\ UNCHANGED <<store, unsaved>> \/ StoreWhole(e)
  BY FirstCopy DEF XCInv, XInv, CountInv, Continues
<1>2. /\ pc'[m] = "idle" /\ UNCHANGED <<mine, stopped, ended>>
      /\ \A o \in Managers \ {m} : mine'[o] = mine[o] /\ pc'[o] = pc[o] /\ stopped'[o] = stopped[o]
  BY DEF Continues, Goto, XCInv, XInv, ManagersInv, ManagerFunctions
<1>3. \A id \in Ids : recorded'[id] \in Nat /\ recorded'[id] >= recorded[id]
  BY DEF XCInv, CountInv
<1>4. CountInv'
  <2>1. CopyCounts(e)'
    BY <1>1 DEF CopyCounts, Samples
  <2>2. \A id \in DOMAIN store' : CopyCounts(store[id])'
    <3>1. CASE UNCHANGED store
      BY <3>1, StoreUnchangedCounts DEF XCInv
    <3>2. CASE StoreWhole(e)
      BY <1>1, <1>3, <2>1, <3>2, StoringCounts DEF XCInv
    <3> QED
      BY <1>1, <3>1, <3>2
  <2>3. ManagerCounts(m)'
    BY <1>2 DEF XCInv, CountInv, ManagerCounts, CopyCounts, Samples
  <2> QED
    BY <1>2, <2>2, <2>3, DetectorCounts
<1>5. ASSUME NEW id \in Ids, Good(id)' PROVE OwnedInv(id)'
  <2>1. OwnedInv(id)
    <3>1. Good(id)
      BY <1>1, <1>5, SetUnsaved DEF Good
    <3> QED
      BY <3>1 DEF XCInv, OwnersInv
  <2>2. \A j \in Nat : Holds(m, j, id)' => Holds(m, j, id)
    BY <1>2 DEF Holds
  <2>3. /\ id \in DOMAIN store' <=> id \in DOMAIN store
        /\ id \in DOMAIN store => store'[id] = store[id]
    <3>1. CASE UNCHANGED store
      BY <3>1
    <3>2. CASE StoreWhole(e) /\ id # e.id
      BY <3>2, SetUnsaved
    <3>3. CASE StoreWhole(e) /\ id = e.id
      <4>1. Holds(m, 1, id)
        BY <1>1, <3>3 DEF Holds
      <4>2. e = store[id] /\ id \in DOMAIN store
        BY <2>1, <4>1, OwnerKnows DEF IsRunning
      <4>3. id \in DOMAIN store' /\ store'[id] = e
        BY <1>5, <3>3, SetUnsaved DEF Good
      <4> QED
        BY <4>2, <4>3
    <3> QED
      BY <1>1, <3>1, <3>2, <3>3
  <2>4. \A j \in Nat : Holds(m, j, id)' => Holds(m, j + 0, id) /\ mine'[m][j] = mine[m][j + 0]
    BY <1>2, <2>2
  <2> QED
    BY <1>2, <2>1, <2>3, <2>4, DetectorKeepsOthers
<1> QED
  BY <1>4, <1>5 DEF OwnersInv

LEMMA StopCounts ==
    ASSUME XCInv, NEW m \in Managers, mine[m] # <<>>, pc[m] = "analyze", NEW e, e = mine[m][1],
           NEW s, IsCopy(s), Stops(m, e, s), UNCHANGED <<toolVars, recorded, shared, recreated>>
    PROVE  CountInv' /\ OwnersInv'
<1>1. IsCopy(e) /\ CopyCounts(e) /\ Len(mine[m]) \in Nat /\ Len(mine[m]) > 0
  BY FirstCopy DEF XCInv, XInv, CountInv
<1>2. s.id = e.id /\ s.status = "stopped" /\ StoreWhole(s) /\ CopyCounts(s) /\ Samples(s) = Samples(e)
  BY <1>1, SameCounts DEF Stops
<1>3. /\ pc'[m] = "again" /\ mine'[m] = Tail(mine[m]) /\ stopped'[m] = s /\ ended' = ended \cup {e.id}
      /\ \A o \in Managers \ {m} : mine'[o] = mine[o] /\ pc'[o] = pc[o] /\ stopped'[o] = stopped[o]
  BY DEF Stops, Goto, XCInv, XInv, ManagersInv, ManagerFunctions
<1>4. /\ Len(mine'[m]) = Len(mine[m]) - 1
      /\ \A i \in 1 .. Len(mine[m]) - 1 : mine'[m][i] = mine[m][i + 1]
  <2>1. PICK S : mine[m] \in Seq(S)
    BY DEF XCInv, XInv, ManagersInv, ManagerInv
  <2> QED
    BY <1>3, <2>1
<1>5. \A id \in Ids : recorded'[id] \in Nat /\ recorded'[id] >= recorded[id]
  BY DEF XCInv, CountInv
<1>6. CountInv'
  <2>1. CopyCounts(s)'
    BY <1>2 DEF CopyCounts, Samples
  <2>2. \A id \in DOMAIN store' : CopyCounts(store[id])'
    BY <1>2, <1>5, <2>1, StoringCounts DEF XCInv
  <2>3. ASSUME NEW i \in 1 .. Len(mine'[m]) PROVE CopyCounts(mine[m][i])'
    <3> PICK c : c = mine'[m][i]
      OBVIOUS
    <3>1. i + 1 \in 1 .. Len(mine[m]) /\ c = mine[m][i + 1]
      BY <1>1, <1>4
    <3>2. CopyCounts(c)
      BY <3>1 DEF XCInv, CountInv
    <3> QED
      BY <3>2 DEF CopyCounts, Samples
  <2>4. CopyCounts(stopped[m])'
    BY <1>3, <2>1 DEF CopyCounts, Samples
  <2>5. ManagerCounts(m)'
    BY <2>3, <2>4 DEF ManagerCounts
  <2> QED
    BY <1>3, <2>2, <2>5, DetectorCounts
<1>7. ASSUME NEW id \in Ids, Good(id)' PROVE OwnedInv(id)'
  <2>1. OwnedInv(id)
    <3>1. Good(id)
      BY <1>2, <1>7, SetUnsaved DEF Good
    <3> QED
      BY <3>1 DEF XCInv, OwnersInv
  <2>2. \A j \in Nat : Holds(m, j, id)' => Holds(m, j + 1, id) /\ mine'[m][j] = mine[m][j + 1]
    <3> SUFFICES ASSUME NEW j \in Nat, Holds(m, j, id)'
                 PROVE  Holds(m, j + 1, id) /\ mine'[m][j] = mine[m][j + 1]
      OBVIOUS
    <3>1. j \in 1 .. Len(mine[m]) - 1 /\ mine'[m][j].id = id
      BY <1>4 DEF Holds
    <3>2. j + 1 \in 1 .. Len(mine[m])
      BY <1>1, <3>1
    <3> QED
      BY <1>4, <3>1, <3>2 DEF Holds
  <2>3. CASE id # e.id
    <3>1. /\ id \in DOMAIN store' <=> id \in DOMAIN store
          /\ id \in DOMAIN store => store'[id] = store[id]
      BY <1>2, <2>3, SetUnsaved
    <3>2. /\ id \in ended' => id \in ended
          /\ stopped'[m].id # id /\ recorded'[id] = recorded[id]
      BY <1>2, <1>3, <2>3
    <3> QED
      BY <1>3, <2>1, <2>2, <3>1, <3>2, DetectorKeepsOthers
  <2>4. CASE id = e.id
    <3>1. id \in DOMAIN store' /\ store'[id] = s
      BY <1>2, <1>7, <2>4, SetUnsaved DEF Good
    <3>2. Holds(m, 1, id)
      BY <1>1, <2>4 DEF Holds
    <3>3. /\ Samples(e) = recorded[id]
          /\ \A t \in Tools : ~Drafts(t, id)
          /\ \A o \in Managers : ~(pc[o] = "again" /\ stopped[o].id = id)
          /\ \A o \in Managers, j \in Nat : Holds(o, j, id) => o = m /\ j = 1
      BY <2>1, <3>2, OwnerKnows
    <3>4. IsStopped(id)' /\ Samples(store'[id]) = recorded'[id]
      BY <1>2, <3>1, <3>3 DEF IsStopped
    <3>5. \A t \in Tools : ~Drafts(t, id)'
      BY <3>3 DEF Drafts, toolVars
    <3>6. ASSUME NEW o \in Managers, NEW j \in Nat PROVE ~Holds(o, j, id)'
      <4>1. CASE o = m
        BY <2>2, <3>3, <4>1 DEF Holds
      <4>2. CASE o # m
        BY <1>3, <3>3, <4>2 DEF Holds
      <4> QED
        BY <4>1, <4>2
    <3>7. \A o \in Managers : pc'[o] = "again" /\ stopped'[o].id = id => IsStopped(id)' /\ stopped'[o] = store'[id]
      BY <1>3, <3>1, <3>3, <3>4
    <3> QED
      BY <3>1, <3>4, <3>5, <3>6, <3>7 DEF OwnedInv, Samples
  <2> QED
    BY <2>3, <2>4
<1> QED
  BY <1>6, <1>7 DEF OwnersInv

LEMMA AnalyzeCounts ==
    ASSUME XCInv, NEW m \in Managers, Analyze(m)
    PROVE  CountInv' /\ OwnersInv'
<1>1. mine[m] # <<>> /\ pc[m] = "analyze" /\ UNCHANGED <<toolVars, recorded, shared, recreated>>
  BY DEF Analyze, XCInv, XInv, ManagersInv, ManagerInv
<1>2. Head(mine[m]) = mine[m][1]
  BY <1>1, FirstCopy DEF XCInv, XInv
<1> QED
  BY <1>1, <1>2, AnalyzeOutcomes, ContinueCounts, StopCounts

(* The second SET of a stopped experiment stores what Redis has.           *)
LEMMA AgainCounts ==
    ASSUME XCInv, NEW m \in Managers, StoreAgain(m)
    PROVE  CountInv' /\ OwnersInv'
<1> PICK s : s = stopped[m]
  OBVIOUS
<1>1. /\ pc[m] = "again" /\ StoreWhole(s) /\ IsCopy(s) /\ CopyCounts(s)
      /\ UNCHANGED <<mine, ended>> /\ UNCHANGED <<toolVars, recorded, shared, recreated>>
      /\ \A id \in Ids : recorded'[id] \in Nat /\ recorded'[id] >= recorded[id]
  BY DEF StoreAgain, XCInv, XInv, CountInv, ManagersInv, ManagerInv
<1>2. /\ pc'[m] = "idle"
      /\ \A o \in Managers \ {m} : mine'[o] = mine[o] /\ pc'[o] = pc[o] /\ stopped'[o] = stopped[o]
  BY <1>1 DEF StoreAgain, Goto, XCInv, XInv, ManagersInv, ManagerFunctions
<1>3. CountInv'
  <2>1. CopyCounts(s)'
    BY <1>1 DEF CopyCounts, Samples
  <2>2. \A id \in DOMAIN store' : CopyCounts(store[id])'
    BY <1>1, <2>1, StoringCounts DEF XCInv
  <2>3. ManagerCounts(m)'
    BY <1>1, <1>2 DEF XCInv, CountInv, ManagerCounts, CopyCounts, Samples
  <2> QED
    BY <1>1, <1>2, <2>2, <2>3, DetectorCounts
<1>4. ASSUME NEW id \in Ids, Good(id)' PROVE OwnedInv(id)'
  <2>1. OwnedInv(id)
    <3>1. Good(id)
      BY <1>1, <1>4, SetUnsaved DEF Good
    <3> QED
      BY <3>1 DEF XCInv, OwnersInv
  <2>2. /\ id \in DOMAIN store' <=> id \in DOMAIN store
        /\ id \in DOMAIN store => store'[id] = store[id]
    <3>1. CASE id # s.id
      BY <1>1, <3>1, SetUnsaved
    <3>2. CASE id = s.id
      <4>1. s = store[id] /\ id \in DOMAIN store
        BY <1>1, <2>1, <3>2 DEF OwnedInv, IsStopped
      <4>2. id \in DOMAIN store' /\ store'[id] = s
        BY <1>1, <1>4, <3>2, SetUnsaved DEF Good
      <4> QED
        BY <4>1, <4>2
    <3> QED
      BY <3>1, <3>2
  <2>3. \A j \in Nat : Holds(m, j, id)' => Holds(m, j + 0, id) /\ mine'[m][j] = mine[m][j + 0]
    BY <1>1 DEF Holds
  <2> QED
    BY <1>1, <1>2, <2>1, <2>2, <2>3, DetectorKeepsOthers
<1> QED
  BY <1>3, <1>4 DEF OwnersInv

(* Steps that touch no experiment.                                         *)
LEMMA IdleCounts ==
    ASSUME XCInv, UNCHANGED xvars \/ SecondPasses \/ Expire
    PROVE  CountInv' /\ OwnersInv'
<1>1. UNCHANGED <<store, toolPc, toolCopy, mine, pc, stopped, recorded, ended, shared, recreated, unsaved>>
  BY DEF SecondPasses, Expire, xvars, redisVars, toolVars, managerVars, ghostVars
<1>2. CountInv'
  BY <1>1 DEF XCInv, CountInv, CopyCounts, Samples
<1>3. ASSUME NEW id \in Ids, Good(id)' PROVE OwnedInv(id)'
  <2>1. OwnedInv(id)
    BY <1>1, <1>3 DEF Good, XCInv, OwnersInv
  <2>2. \A m \in Managers, i \in Nat : Holds(m, i, id)' => Holds(m, i + 0, id) /\ mine'[m][i] = mine[m][i + 0]
    BY <1>1 DEF Holds
  <2>3. \A t \in Tools : Drafts(t, id)' => Drafts(t, id) /\ (toolPc'[t] = "store" => toolCopy'[t] = store[id])
    BY <1>1, <2>1 DEF Drafts, OwnedInv
  <2> QED
    BY <1>1, <2>1, <2>2, <2>3, OwnedStays, NoShift
<1> QED
  BY <1>2, <1>3 DEF OwnersInv

LEMMA XCInvInit == XInit => XCInv
<1> SUFFICES ASSUME XInit PROVE CountInv /\ OwnersInv
  BY XInvInit DEF XCInv
<1>1. /\ DOMAIN store = {} /\ recorded = [id \in Ids |-> 0] /\ ended = {}
      /\ \A t \in Tools : toolPc[t] = "create"
      /\ \A m \in Managers : pc[m] = "idle" /\ mine[m] = <<>>
  BY DEF XInit
<1>2. CountInv
  BY <1>1 DEF CountInv
<1>3. OwnersInv
  BY <1>1 DEF OwnersInv, OwnedInv, Drafts, Holds
<1> QED
  BY <1>2, <1>3

LEMMA XCInvNext == XCInv /\ [XNext]_xvars => XCInv'
<1> SUFFICES ASSUME XCInv, [XNext]_xvars PROVE XCInv'
  OBVIOUS
<1>1. XInv'
  BY XInvNext DEF XCInv
<1>2. CountInv' /\ OwnersInv'
  BY CreateCounts, LoadDraftCounts, StartCounts, StartManagerCounts, AsideCounts, RecordCounts, AnalyzeCounts,
     AgainCounts, IdleCounts DEF XNext
<1> QED
  BY <1>1, <1>2 DEF XCInv

(* Redis counts the results of an experiment once each: never more than    *)
(* were recorded, and every one of them when a single detector had a copy  *)
(* (record_prediction_result stores the whole experiment from the copy of  *)
(* the process, and _load_active_experiments reads it back on a restart).  *)
THEOREM CountsAreRecorded == XSpec => []ResultsCounted
<1>1. XCInv => ResultsCounted
  <2> SUFFICES ASSUME XCInv, NEW id \in DOMAIN store \ recreated
               PROVE  /\ Samples(store[id]) <= recorded[id]
                      /\ id \notin shared \cup unsaved => Samples(store[id]) = recorded[id]
    BY DEF ResultsCounted
  <2>1. id \in Ids /\ store[id].id = id
    BY DEF XCInv, XInv, StoreInv
  <2>2. Samples(store[id]) <= recorded[id]
    BY <2>1 DEF XCInv, CountInv, CopyCounts
  <2>3. ASSUME id \notin shared \cup unsaved PROVE Samples(store[id]) = recorded[id]
    BY <2>1, <2>3 DEF XCInv, OwnersInv, OwnedInv, Good
  <2> QED
    BY <2>2, <2>3
<1> QED
  BY XCInvInit, XCInvNext, <1>1, PTL DEF XSpec

(* What a detector has stopped (_stop_experiment_early) stays stopped in   *)
(* Redis, and no detector goes on with it: none loads it again, and no     *)
(* stale copy is stored over it.                                           *)
THEOREM StoppedForGood == XSpec => []EndedForAll
<1>1. XCInv /\ ended \subseteq Ids => EndedForAll
  <2> SUFFICES ASSUME XCInv, NEW id \in ended \ (shared \cup recreated \cup unsaved), id \in Ids
               PROVE  store[id].status = "stopped" /\ \A m \in Managers : id \notin IdsOf(mine[m])
    BY DEF EndedForAll
  <2>1. OwnedInv(id) /\ IsStopped(id)
    BY DEF XCInv, OwnersInv, OwnedInv, Good
  <2>2. ASSUME NEW m \in Managers, id \in IdsOf(mine[m]) PROVE FALSE
    <3>1. PICK S : mine[m] \in Seq(S)
      BY DEF XCInv, XInv, ManagersInv, ManagerInv
    <3>2. PICK i \in 1 .. Len(mine[m]) : mine[m][i].id = id
      BY <2>2, <3>1 DEF IdsOf
    <3>3. i \in Nat /\ Holds(m, i, id)
      BY <3>1, <3>2 DEF Holds
    <3>4. IsRunning(id)
      BY <2>1, <3>3 DEF OwnedInv
    <3> QED
      BY <2>1, <3>4 DEF IsStopped, IsRunning
  <2> QED
    BY <2>1, <2>2 DEF IsStopped
<1>2. XInit => ended \subseteq Ids
  BY DEF XInit
<1>3. XCInv /\ ended \subseteq Ids /\ [XNext]_xvars => (ended \subseteq Ids)'
  <2> SUFFICES ASSUME XCInv, ended \subseteq Ids, [XNext]_xvars PROVE ended' \subseteq Ids
    OBVIOUS
  <2>1. CASE \E m \in Managers : Analyze(m)
    <3>1. PICK m \in Managers : Analyze(m)
      BY <2>1
    <3>2. mine[m] # <<>>
      BY <3>1 DEF Analyze, XCInv, XInv, ManagersInv, ManagerInv
    <3>3. IsCopy(Head(mine[m]))
      BY <3>2, FirstCopy DEF XCInv, XInv
    <3> QED
      BY <3>1, <3>3, AnalyzeOutcomes DEF Continues, Stops, IsCopy
  <2>2. CASE ~\E m \in Managers : Analyze(m)
    BY <2>2 DEF XNext, xvars, Create, LoadDraft, StartExperiment, SecondPasses, StartManager, Assign,
                KeepAssignment, RecordResult, StoreAgain, Die, Expire, ghostVars
  <2> QED
    BY <2>1, <2>2
<1> QED
  BY XCInvInit, XCInvNext, <1>1, <1>2, <1>3, PTL DEF XSpec

-----------------------------------------------------------------------------
(* Training.                                                               *)

USE TrainingAssumption

Fields == {"pc", "pipeline", "outer", "attempts", "data", "done", "top", "since", "trial", "best",
           "chosen"}

Trial == [state : {"running", "complete", "pruned"}, score : Nat]

(* Trials are sequences of records, and a process that is not idle has a   *)
(* pipeline.                                                               *)
Shapes ==
  /\ clock \in Pipelines
  /\ study \in [Pipelines -> Seq(Trial)]
  /\ proc = [p \in Processes |-> [f \in Fields |-> proc[p][f]]]
  /\ \A p \in Processes : proc[p].pc # "idle" => proc[p].pipeline \in Pipelines

(* What a process is about to save or to tell is the checkpoint of its     *)
(* trial, and the files it has moved so far are there.                     *)
Saving ==
  \A p \in Processes : proc[p].pc \in {"save_model", "save_metadata", "tell"} =>
    LET c == proc[p].chosen
    IN /\ c.pipeline = proc[p].pipeline /\ c.trial = proc[p].trial /\ c.score \in Scores
       /\ proc[p].pc # "save_model" => c \in models
       /\ proc[p].pc = "tell" => c \in listed

KeptInv == Shapes /\ Saving /\ CheckpointsLoad /\ CompletedTrialsKept

-----------------------------------------------------------------------------
(* A trial may be replaced by another.                                     *)
LEMMA ReplacedTrial ==
  ASSUME NEW s \in Seq(Trial), NEW n, NEW t \in Trial
  PROVE  /\ [s EXCEPT ![n] = t] \in Seq(Trial)
         /\ \A i \in DOMAIN s : [s EXCEPT ![n] = t][i] = IF i = n THEN t ELSE s[i]
         /\ DOMAIN [s EXCEPT ![n] = t] = DOMAIN s
<1>1. /\ Len(s) \in Nat /\ DOMAIN s = 1 .. Len(s)
      /\ \A i \in 1 .. Len(s) : s[i] \in Trial
  BY LenProperties, ElementOfSeq
<1>2. [s EXCEPT ![n] = t] \in [1 .. Len(s) -> Trial]
  BY <1>1
<1> QED
  BY <1>1, <1>2, IsASeq

LEMMA KeptInit == Init => KeptInv
<1> SUFFICES ASSUME Init PROVE KeptInv
  OBVIOUS
<1>1. << >> \in Seq(Trial)
  OBVIOUS
<1> USE DEF Init
<1>2. Shapes
  BY <1>1 DEF Shapes, Pipelines, Idle, Fields
<1>3. Saving
  BY DEF Saving, Idle
<1>4. CheckpointsLoad /\ CompletedTrialsKept
  BY DEF CheckpointsLoad, CompletedTrialsKept, Complete
<1> QED
  BY <1>2, <1>3, <1>4 DEF KeptInv

(* A step that keeps the study and the checkpoints keeps what was kept, as *)
(* long as no process comes to be saving.                                  *)
LEMMA KeptByOthers ==
  ASSUME KeptInv, UNCHANGED <<study, models, listed>>, Shapes',
         \A p \in Processes : \/ proc'[p] = proc[p]
                              \/ proc'[p].pc \notin {"save_model", "save_metadata", "tell"}
  PROVE  KeptInv'
<1>1. Saving'
  BY DEF KeptInv, Saving
<1>2. CheckpointsLoad' /\ CompletedTrialsKept'
  BY DEF KeptInv, CheckpointsLoad, CompletedTrialsKept, Complete, Loadable
<1> QED
  BY <1>1, <1>2 DEF KeptInv

(* The process that takes a step has the fields it had, those it changes   *)
(* excepted, and the others are as they were.                              *)
LEMMA GoesShape ==
  ASSUME Shapes, NEW p \in Processes, NEW changes, DOMAIN changes \subseteq Fields, Goes(p, changes)
  PROVE  /\ proc' = [q \in Processes |-> [f \in Fields |-> proc'[q][f]]]
         /\ \A q \in Processes \ {p} : proc'[q] = proc[q]
         /\ \A f \in Fields : proc'[p][f] = IF f \in DOMAIN changes THEN changes[f] ELSE proc[p][f]
<1>1. proc = [q \in Processes |-> [f \in Fields |-> proc[q][f]]]
  BY DEF Shapes
<1>2. DOMAIN proc = Processes /\ DOMAIN proc[p] = Fields
  BY <1>1
<1>3. proc' = [proc EXCEPT ![p] = [f \in Fields |-> IF f \in DOMAIN changes THEN changes[f] ELSE proc[p][f]]]
  BY <1>2 DEF Goes
<1>4. \A q \in Processes \ {p} : proc'[q] = proc[q] /\ proc[q] = [f \in Fields |-> proc[q][f]]
  BY <1>1, <1>3
<1>5. proc'[p] = [f \in Fields |-> IF f \in DOMAIN changes THEN changes[f] ELSE proc[p][f]]
  BY <1>2, <1>3
<1>6. \A q \in Processes : proc'[q] = [f \in Fields |-> proc'[q][f]]
  BY <1>4, <1>5
<1>7. proc' = [q \in Processes |-> proc'[q]]
  BY <1>2, <1>3
<1> QED
  BY <1>4, <1>5, <1>6, <1>7

LEMMA IdleShape ==
  ASSUME Shapes, NEW p \in Processes, NEW r, r = [f \in Fields |-> r[f]], proc' = [proc EXCEPT ![p] = r],
         UNCHANGED <<clock, study>>, r.pc = "idle" \/ r.pipeline \in Pipelines
  PROVE  Shapes' /\ proc'[p] = r /\ \A q \in Processes \ {p} : proc'[q] = proc[q]
<1>1. proc = [q \in Processes |-> [f \in Fields |-> proc[q][f]]]
  BY DEF Shapes
<1>2. /\ proc'[p] = r
      /\ \A q \in Processes \ {p} : proc'[q] = proc[q] /\ proc[q] = [f \in Fields |-> proc[q][f]]
      /\ proc' = [q \in Processes |-> proc'[q]]
  BY <1>1
<1>3. \A q \in Processes : proc'[q] = [f \in Fields |-> proc'[q][f]]
  BY <1>2
<1> QED
  BY <1>2, <1>3 DEF Shapes

(* A process goes on with its pipeline.                                    *)
LEMMA GoesOn ==
  ASSUME Shapes, NEW p \in Processes, NEW changes, DOMAIN changes \subseteq Fields \ {"pipeline"},
         Goes(p, changes), proc[p].pc # "idle", clock' = clock, study' \in [Pipelines -> Seq(Trial)]
  PROVE  Shapes'
<1>1. /\ proc' = [q \in Processes |-> [f \in Fields |-> proc'[q][f]]]
      /\ \A q \in Processes \ {p} : proc'[q] = proc[q]
      /\ proc'[p].pipeline = proc[p].pipeline
  BY GoesShape DEF Fields
<1> QED
  BY <1>1 DEF Shapes

-----------------------------------------------------------------------------
(* The steps that end a call, or begin one.                                *)
LEMMA FailKeeps ==
  ASSUME KeptInv, NEW p \in Processes, Fail(p), UNCHANGED <<clock, study, models, listed>>
  PROVE  KeptInv'
<1>1. proc' = [proc EXCEPT ![p] = Idle(proc[p].best)]
  BY DEF Fail
<1>2. Shapes' /\ proc'[p] = Idle(proc[p].best) /\ \A q \in Processes \ {p} : proc'[q] = proc[q]
  BY <1>1, IdleShape DEF KeptInv, Idle, Fields
<1> QED
  BY <1>2, KeptByOthers DEF Idle

LEMMA CallKeeps ==
  ASSUME KeptInv, NEW p \in Processes,
         \/ Execute(p) \/ (\E q \in Pipelines : Resume(p, q)) \/ CompletePipeline(p) \/ Kill(p)
         \/ Exit(p)
  PROVE  KeptInv'
<1> DEFINE Called(r) ==
      /\ r = [f \in Fields |-> r[f]] /\ (r.pc = "idle" \/ r.pipeline \in Pipelines)
      /\ r.pc \in {"idle", "load"}
<1>1. \E r : Called(r) /\ proc' = [proc EXCEPT ![p] = r]
  <2>1. CASE Execute(p)
    <3> DEFINE r == [Idle(proc[p].best) EXCEPT !.pc = "load", !.pipeline = clock, !.outer = "initialized"]
    <3>1. Called(r)
      BY DEF KeptInv, Shapes, Idle, Fields
    <3> QED
      BY <2>1, <3>1 DEF Execute
  <2>2. ASSUME NEW q \in Pipelines, Resume(p, q) PROVE \E r : Called(r) /\ proc' = [proc EXCEPT ![p] = r]
    <3> DEFINE r == [Idle(proc[p].best) EXCEPT !.pc = "load", !.pipeline = q, !.outer = "recovering",
                                               !.attempts = file[q].attempts + 1]
    <3>1. Called(r)
      BY DEF Idle, Fields
    <3> QED
      BY <2>2, <3>1 DEF Resume
  <2>3. Called(Idle(None)) /\ Called(Idle(proc[p].best))
    BY DEF Idle, Fields
  <2> QED
    BY <2>1, <2>2, <2>3 DEF CompletePipeline, Kill, Exit
<1>2. UNCHANGED <<clock, study, models, listed>>
  BY DEF Execute, Resume, CompletePipeline, Kill, Exit, stores
<1>3. PICK r : Called(r) /\ proc' = [proc EXCEPT ![p] = r]
  BY <1>1
<1>4. Shapes' /\ proc'[p] = r /\ \A q \in Processes \ {p} : proc'[q] = proc[q]
  BY <1>2, <1>3, IdleShape DEF KeptInv
<1> QED
  BY <1>2, <1>3, <1>4, KeptByOthers

(* A step between two stages, which leaves the study and the checkpoints.  *)
LEMMA GoesKeeps ==
  ASSUME KeptInv, NEW p \in Processes, NEW changes, DOMAIN changes \subseteq Fields \ {"pipeline"},
         Goes(p, changes), proc[p].pc # "idle", "pc" \in DOMAIN changes,
         changes["pc"] \notin {"save_model", "save_metadata", "tell"},
         UNCHANGED <<clock, study, models, listed>>
  PROVE  KeptInv'
<1>1. Shapes'
  BY GoesOn DEF KeptInv, Shapes
<1>2. proc'[p].pc = changes["pc"] /\ \A q \in Processes \ {p} : proc'[q] = proc[q]
  BY GoesShape DEF KeptInv, Fields
<1> QED
  BY <1>1, <1>2, KeptByOthers

LEMMA StageKeeps ==
  ASSUME KeptInv, NEW p \in Processes,
         \/ LoadFromCache(p) \/ (\E d \in Datasets : Preprocess(p, d)) \/ CacheData(p) \/ CacheMeta(p)
         \/ DataFails(p) \/ CreateStudy(p) \/ EndSearch(p) \/ Validate(p) \/ OpenProduction(p)
         \/ DumpProduction(p) \/ StageFails(p) \/ Register(p)
  PROVE  KeptInv'
<1> USE DEF Fields
<1>1. UNCHANGED <<clock, study, models, listed>>
  BY DEF LoadFromCache, Preprocess, CacheData, CacheMeta, DataFails, CreateStudy, EndSearch, Validate,
         OpenProduction, DumpProduction, StageFails, Register, stores
<1>2. CASE LoadFromCache(p) \/ CacheMeta(p)
  <2>1. PICK d : Goes(p, [pc |-> "study", data |-> d, outer |-> "data_loaded"])
    BY <1>2 DEF LoadFromCache, CacheMeta, DataLoaded
  <2> QED
    BY <1>1, <1>2, <2>1, GoesKeeps DEF LoadFromCache, CacheMeta
<1>3. CASE \E d \in Datasets : Preprocess(p, d)
  <2>1. PICK d : Goes(p, [pc |-> "cache_data", data |-> [columns |-> d, names |-> d]])
    BY <1>3 DEF Preprocess
  <2> QED
    BY <1>1, <1>3, <2>1, GoesKeeps DEF Preprocess
<1>4. CASE CacheData(p)
  BY <1>1, <1>4, GoesKeeps DEF CacheData
<1>5. CASE DataFails(p) \/ StageFails(p)
  BY <1>1, <1>5, FailKeeps DEF DataFails, StageFails
<1>6. CASE CreateStudy(p)
  <2>1. CASE Fail(p)
    BY <1>1, <2>1, FailKeeps
  <2>2. CASE ~Fail(p)
    <3>1. PICK top, since : Goes(p, [pc |-> "trial", done |-> 0, top |-> top, since |-> since])
      BY <1>6, <2>2 DEF CreateStudy
    <3> QED
      BY <1>1, <1>6, <3>1, GoesKeeps DEF CreateStudy
  <2> QED
    BY <2>1, <2>2
<1>7. CASE EndSearch(p)
  <2>1. CASE Fail(p)
    BY <1>1, <2>1, FailKeeps
  <2>2. CASE ~Fail(p)
    <3>1. Goes(p, [pc |-> "validate", outer |-> "optimization_completed"])
      BY <1>7, <2>2 DEF EndSearch
    <3> QED
      BY <1>1, <1>7, <3>1, GoesKeeps DEF EndSearch
  <2> QED
    BY <2>1, <2>2
<1>8. CASE Validate(p)
  <2>1. CASE Fail(p)
    BY <1>1, <2>1, FailKeeps
  <2>2. CASE ~Fail(p)
    <3>1. PICK c : Goes(p, [pc |-> "deploy", outer |-> "model_validated", chosen |-> c])
      BY <1>8, <2>2 DEF Validate
    <3> QED
      BY <1>1, <1>8, <3>1, GoesKeeps DEF Validate
  <2> QED
    BY <2>1, <2>2
<1>9. CASE OpenProduction(p)
  BY <1>1, <1>9, GoesKeeps DEF OpenProduction
<1>10. CASE DumpProduction(p)
  BY <1>1, <1>10, GoesKeeps DEF DumpProduction
<1>11. CASE Register(p)
  BY <1>1, <1>11, GoesKeeps DEF Register
<1> QED
  BY <1>2, <1>3, <1>4, <1>5, <1>6, <1>7, <1>8, <1>9, <1>10, <1>11
-----------------------------------------------------------------------------
(* The steps of a trial.                                                   *)

(* What another process is about to save stays what it was.                *)
LEMMA SavingOfOthers ==
  ASSUME Saving, NEW p \in Processes, \A q \in Processes \ {p} : proc'[q] = proc[q],
         models \subseteq models', listed \subseteq listed',
         proc'[p].pc \in {"save_model", "save_metadata", "tell"} =>
           LET c == proc'[p].chosen
           IN /\ c.pipeline = proc'[p].pipeline /\ c.trial = proc'[p].trial /\ c.score \in Scores
              /\ proc'[p].pc # "save_model" => c \in models'
              /\ proc'[p].pc = "tell" => c \in listed'
  PROVE  Saving'
BY DEF Saving

(* A trial that is told is complete only with its checkpoint.              *)
LEMMA TellKeeps ==
  ASSUME KeptInv, NEW p \in Processes, NEW t \in Trial, Tell(p, t), proc[p].pc # "idle",
         UNCHANGED <<models, listed>>,
         t.state = "complete" => \E c \in Loadable : /\ c.pipeline = proc[p].pipeline
                                                     /\ c.trial = proc[p].trial /\ c.score = t.score
  PROVE  study' \in [Pipelines -> Seq(Trial)] /\ CompletedTrialsKept'
<1> DEFINE q == proc[p].pipeline
           n == proc[p].trial
<1>1. q \in Pipelines /\ study[q] \in Seq(Trial) /\ study \in [Pipelines -> Seq(Trial)]
  BY DEF KeptInv, Shapes
<1>2. study' = [study EXCEPT ![q] = [study[q] EXCEPT ![n] = t]]
  BY DEF Tell
<1>3. /\ [study[q] EXCEPT ![n] = t] \in Seq(Trial)
      /\ DOMAIN [study[q] EXCEPT ![n] = t] = DOMAIN study[q]
      /\ \A i \in DOMAIN study[q] : [study[q] EXCEPT ![n] = t][i] = IF i = n THEN t ELSE study[q][i]
  BY <1>1, ReplacedTrial
<1>4. study' \in [Pipelines -> Seq(Trial)]
  BY <1>1, <1>2, <1>3
<1>5. ASSUME NEW r \in Pipelines, NEW i \in DOMAIN study'[r], study'[r][i].state = "complete"
      PROVE  \E c \in Loadable' : c.pipeline = r /\ c.trial = i /\ c.score = study'[r][i].score
  <2>1. CASE r = q /\ i = n
    <3>1. study'[r][i] = t
      BY <1>1, <1>2, <1>3, <1>5, <2>1
    <3> QED
      BY <1>5, <2>1, <3>1 DEF Loadable
  <2>2. CASE ~(r = q /\ i = n)
    <3>1. i \in DOMAIN study[r] /\ study'[r][i] = study[r][i]
      BY <1>1, <1>2, <1>3, <1>5, <2>2
    <3> QED
      BY <1>5, <3>1 DEF KeptInv, CompletedTrialsKept, Complete, Loadable
  <2> QED
    BY <2>1, <2>2
<1> QED
  BY <1>4, <1>5 DEF CompletedTrialsKept, Complete

LEMMA BeginTrialKeeps ==
  ASSUME KeptInv, NEW p \in Processes, BeginTrial(p) PROVE KeptInv'
<1> DEFINE q == proc[p].pipeline
           t == [state |-> "running", score |-> 0]
<1> USE DEF BeginTrial
<1>1. Shapes /\ q \in Pipelines /\ study[q] \in Seq(Trial) /\ t \in Trial
  BY DEF KeptInv, Shapes, Trial
<1>2. study' = [study EXCEPT ![q] = Append(study[q], t)]
  OBVIOUS
<1>3. /\ Append(study[q], t) \in Seq(Trial)
      /\ \A i \in DOMAIN Append(study[q], t) :
            \/ i \in DOMAIN study[q] /\ Append(study[q], t)[i] = study[q][i]
            \/ Append(study[q], t)[i] = t
  BY <1>1, AppendProperties, LenProperties
<1>4. study' \in [Pipelines -> Seq(Trial)]
  BY <1>1, <1>2, <1>3 DEF Shapes
<1>5. Shapes'
  BY <1>1, <1>4, GoesOn DEF Fields
<1>6. proc'[p].pc = "train" /\ \A r \in Processes \ {p} : proc'[r] = proc[r]
  BY <1>1, GoesShape DEF Fields
<1>7. Saving'
  BY <1>6, SavingOfOthers DEF KeptInv
<1>8. CheckpointsLoad'
  BY DEF KeptInv, CheckpointsLoad
<1>9. CompletedTrialsKept'
  <2> SUFFICES ASSUME NEW r \in Pipelines, NEW i \in DOMAIN study'[r], study'[r][i].state = "complete"
               PROVE  \E c \in Loadable' : c.pipeline = r /\ c.trial = i /\ c.score = study'[r][i].score
    BY DEF CompletedTrialsKept, Complete
  <2>1. i \in DOMAIN study[r] /\ study'[r][i] = study[r][i]
    BY <1>1, <1>2, <1>3 DEF Shapes
  <2> QED
    BY <2>1 DEF KeptInv, CompletedTrialsKept, Complete, Loadable
<1> QED
  BY <1>5, <1>7, <1>8, <1>9 DEF KeptInv

LEMMA TrialFailsKeeps ==
  ASSUME KeptInv, NEW p \in Processes, TrialFails(p) PROVE KeptInv'
<1> USE DEF TrialFails
<1>1. Shapes /\ Saving
  BY DEF KeptInv
<1>2. FailedTrial \in Trial
  BY DEF FailedTrial, Trial
<1>3. study' \in [Pipelines -> Seq(Trial)] /\ CompletedTrialsKept'
  BY <1>2, TellKeeps DEF FailedTrial
<1>4. Shapes'
  BY <1>1, <1>3, GoesOn DEF Fields
<1>5. proc'[p].pc = "trial" /\ \A r \in Processes \ {p} : proc'[r] = proc[r]
  BY <1>1, GoesShape DEF Fields
<1>6. Saving'
  BY <1>1, <1>5, SavingOfOthers
<1> QED
  BY <1>3, <1>4, <1>6 DEF KeptInv, CheckpointsLoad

LEMMA TrainKeeps ==
  ASSUME KeptInv, NEW p \in Processes, NEW score \in Scores, Train(p, score) PROVE KeptInv'
<1> USE DEF Train, stores
<1>1. Shapes /\ Saving
  BY DEF KeptInv
<1>2. Shapes'
  BY <1>1, GoesOn DEF Fields, Shapes
<1>3. /\ proc'[p].pc = "save_model" /\ proc'[p].chosen = Checkpoint(p, score)
      /\ proc'[p].pipeline = proc[p].pipeline /\ proc'[p].trial = proc[p].trial
      /\ \A r \in Processes \ {p} : proc'[r] = proc[r]
  BY <1>1, GoesShape DEF Fields
<1>4. Saving'
  BY <1>1, <1>3, SavingOfOthers DEF Checkpoint
<1> QED
  BY <1>2, <1>4 DEF KeptInv, CheckpointsLoad, CompletedTrialsKept, Complete, Loadable

(* The model is moved before the metadata.                                 *)
LEMMA SaveKeeps ==
  ASSUME KeptInv, NEW p \in Processes, SaveModel(p) \/ SaveMetadata(p) PROVE KeptInv'
<1> DEFINE c == proc[p].chosen
<1> USE DEF SaveModel, SaveMetadata, MoveFile
<1>1. Shapes /\ Saving /\ CheckpointsLoad /\ CompletedTrialsKept
  BY DEF KeptInv
<1>2. study' = study /\ clock' = clock /\ models \subseteq models' /\ listed \subseteq listed'
  OBVIOUS
<1>3. Shapes'
  <2>1. CASE SaveModel(p)
    BY <1>1, <1>2, <2>1, GoesOn DEF Fields, Shapes
  <2>2. CASE SaveMetadata(p)
    <3>1. PICK b : Goes(p, [pc |-> "tell", best |-> b])
      BY <2>2
    <3> QED
      BY <1>1, <1>2, <2>2, <3>1, GoesOn DEF Fields, Shapes
  <2> QED
    BY <2>1, <2>2
<1>4. /\ proc'[p].chosen = c /\ proc'[p].pipeline = proc[p].pipeline
      /\ proc'[p].trial = proc[p].trial /\ \A r \in Processes \ {p} : proc'[r] = proc[r]
      /\ SaveModel(p) => proc'[p].pc = "save_metadata"
      /\ SaveMetadata(p) => proc'[p].pc = "tell"
  <2>1. CASE SaveModel(p)
    BY <1>1, <2>1, GoesShape DEF Fields
  <2>2. CASE SaveMetadata(p)
    <3>1. PICK b : Goes(p, [pc |-> "tell", best |-> b])
      BY <2>2
    <3> QED
      BY <1>1, <2>2, <3>1, GoesShape DEF Fields
  <2> QED
    BY <2>1, <2>2
<1>5. /\ c.pipeline = proc[p].pipeline /\ c.trial = proc[p].trial /\ c.score \in Scores
      /\ SaveModel(p) => models' = models \cup {c} /\ listed' = listed
      /\ SaveMetadata(p) => models' = models /\ listed' = listed \cup {c} /\ c \in models
  BY <1>1 DEF Saving
<1>6. Saving'
  <2>1. c \in models' /\ (proc'[p].pc = "tell" => c \in listed')
    BY <1>4, <1>5
  <2> QED
    BY <1>1, <1>2, <1>4, <1>5, <2>1, SavingOfOthers
<1>7. CheckpointsLoad'
  BY <1>1, <1>5 DEF CheckpointsLoad
<1>8. CompletedTrialsKept'
  BY <1>1, <1>2 DEF CompletedTrialsKept, Complete, Loadable
<1> QED
  BY <1>3, <1>6, <1>7, <1>8 DEF KeptInv

LEMMA TellCompleteKeeps ==
  ASSUME KeptInv, NEW p \in Processes, TellComplete(p) PROVE KeptInv'
<1> DEFINE c == proc[p].chosen
           t == [state |-> "complete", score |-> c.score]
<1>1. Shapes /\ Saving /\ CheckpointsLoad
  BY DEF KeptInv
<1>2. /\ proc[p].pc = "tell" /\ Tell(p, t) /\ UNCHANGED <<clock, models, listed>>
      /\ \E stage, done, since, top :
            /\ Goes(p, [pc |-> stage, done |-> done, chosen |-> None, since |-> since, top |-> top])
            /\ stage \in {"search_over", "trial"}
  BY DEF TellComplete
<1>3. /\ c \in Loadable /\ c.pipeline = proc[p].pipeline /\ c.trial = proc[p].trial
      /\ c.score \in Scores
  BY <1>1, <1>2 DEF Saving, Loadable
<1>4. t \in Trial
  BY <1>3 DEF Trial
<1>5. study' \in [Pipelines -> Seq(Trial)] /\ CompletedTrialsKept'
  BY <1>2, <1>3, <1>4, TellKeeps
<1>6. PICK changes :
        /\ DOMAIN changes \subseteq Fields \ {"pipeline"} /\ "pc" \in DOMAIN changes
        /\ changes["pc"] \in {"search_over", "trial"} /\ Goes(p, changes)
  BY <1>2 DEF Fields
<1>7. Shapes'
  BY <1>1, <1>2, <1>5, <1>6, GoesOn
<1>8. proc'[p].pc \in {"search_over", "trial"} /\ \A r \in Processes \ {p} : proc'[r] = proc[r]
  BY <1>1, <1>6, GoesShape DEF Fields
<1>9. Saving'
  BY <1>1, <1>2, <1>8, SavingOfOthers
<1> QED
  BY <1>1, <1>2, <1>5, <1>7, <1>9 DEF KeptInv, CheckpointsLoad

-----------------------------------------------------------------------------
LEMMA KeptNext == KeptInv /\ [Next]_vars => KeptInv'
<1> SUFFICES ASSUME KeptInv, [Next]_vars PROVE KeptInv'
  OBVIOUS
<1>1. CASE UNCHANGED vars
  BY <1>1 DEF vars, KeptInv, Shapes, Saving, CheckpointsLoad, CompletedTrialsKept, Complete, Loadable
<1>2. CASE Tick
  <2>1. Shapes'
    BY <1>2 DEF KeptInv, Shapes, Tick, stores, Pipelines
  <2> QED
    BY <1>2, <2>1, KeptByOthers DEF Tick, stores
<1>3. ASSUME NEW p \in Processes,
             \/ Execute(p) \/ (\E q \in Pipelines : Resume(p, q)) \/ CompletePipeline(p) \/ Kill(p)
             \/ Exit(p)
      PROVE  KeptInv'
  BY <1>3, CallKeeps
<1>4. ASSUME NEW p \in Processes,
             \/ LoadFromCache(p) \/ (\E d \in Datasets : Preprocess(p, d)) \/ CacheData(p)
             \/ CacheMeta(p) \/ DataFails(p) \/ CreateStudy(p) \/ EndSearch(p) \/ Validate(p)
             \/ OpenProduction(p) \/ DumpProduction(p) \/ StageFails(p) \/ Register(p)
      PROVE  KeptInv'
  BY <1>4, StageKeeps
<1>5. ASSUME NEW p \in Processes,
             \/ BeginTrial(p) \/ TrialFails(p) \/ (\E s \in Scores : Train(p, s)) \/ SaveModel(p)
             \/ SaveMetadata(p) \/ TellComplete(p)
      PROVE  KeptInv'
  BY <1>5, BeginTrialKeeps, TrialFailsKeeps, TrainKeeps, SaveKeeps, TellCompleteKeeps
<1> QED
  BY <1>1, <1>2, <1>3, <1>4, <1>5 DEF Next

(* What list_checkpoints finds can be loaded, however many processes train *)
(* in the same directories, fail and are killed (save_atomic).             *)
THEOREM ListedCheckpointsLoad == Spec => []CheckpointsLoad
<1>1. KeptInv => CheckpointsLoad
  BY DEF KeptInv
<1> QED
  BY KeptInit, KeptNext, <1>1, PTL DEF Spec

(* A trial the study counts as complete has its checkpoint, which can be   *)
(* loaded (objective's immediate persistence).                             *)
THEOREM CompletedTrialsHaveCheckpoints == Spec => []CompletedTrialsKept
<1>1. KeptInv => CompletedTrialsKept
  BY DEF KeptInv
<1> QED
  BY KeptInit, KeptNext, <1>1, PTL DEF Spec
-----------------------------------------------------------------------------
(***************************************************************************)
(* What stops can be resumed.                                              *)
(***************************************************************************)
AtData == {"load", "cache_data", "cache_meta"}

(* A process past its data has a context from which a failure is stored;   *)
(* before, it may be the first attempt's, from which it is not.            *)
Contexts ==
  \A p \in Processes :
    /\ proc[p].pc # "idle" => proc[p].outer \in MayFail \cup {"initialized"}
    /\ proc[p].pc \notin AtData \cup {"idle"} => proc[p].outer \in MayFail

(* Somebody works on the pipeline who would store a failure.               *)
Attended(q) ==
  \E p \in Processes : proc[p].pc # "idle" /\ proc[p].pipeline = q /\ proc[p].outer \in MayFail

Ended(q) ==
  \/ file[q] = None
  \/ file[q].state \in {"completed", "failed"}
  \/ file[q] = [state |-> "data_loading", attempts |-> 0]

ResumeInv ==
  /\ Shapes /\ file = [q \in Pipelines |-> file[q]]
  /\ Contexts
  /\ \A q \in Pipelines : Ended(q) \/ q \in killed \/ Attended(q)

LEMMA WaysToFail ==
  /\ \A s \in MayFail : "failed" \in ValidTransitions[s]
  /\ {"recovering", "data_loaded", "optimization_completed", "model_validated"} \subseteq MayFail
BY DEF ValidTransitions, MayFail, States

LEMMA ResumeInit == Init => ResumeInv
<1> SUFFICES ASSUME Init PROVE ResumeInv
  OBVIOUS
<1>1. Shapes
  BY KeptInit DEF KeptInv
<1>2. Contexts
  BY DEF Init, Contexts, Idle, AtData
<1> QED
  BY <1>1, <1>2 DEF Init, ResumeInv, Ended

(* A process goes on; it stores a state only with a context of its own.    *)
LEMMA OnwardResumes ==
  ASSUME ResumeInv, Shapes', NEW p \in Processes, proc[p].pc # "idle", proc'[p].pc # "idle",
         \A r \in Processes \ {p} : proc'[r] = proc[r],
         proc'[p].pipeline = proc[p].pipeline, killed' = killed,
         \/ proc'[p].outer \in MayFail
         \/ proc'[p].outer = proc[p].outer /\ (proc'[p].pc \in AtData \/ proc[p].pc \notin AtData),
         \/ file' = file
         \/ /\ proc'[p].outer \in MayFail
            /\ \E v : file' = [file EXCEPT ![proc[p].pipeline] = v]
  PROVE  ResumeInv'
<1>1. Contexts'
  BY DEF ResumeInv, Contexts
<1>2. file' = [q \in Pipelines |-> file'[q]]
  BY DEF ResumeInv
<1>3. ASSUME NEW q \in Pipelines PROVE Ended(q)' \/ q \in killed' \/ Attended(q)'
  <2>1. Attended(q) => Attended(q)'
    <3>1. proc[p].outer \in MayFail => proc'[p].outer \in MayFail
      OBVIOUS
    <3> QED
      BY <3>1 DEF Attended
  <2>2. CASE file'[q] = file[q]
    BY <2>1, <2>2 DEF ResumeInv, Ended
  <2>3. CASE file'[q] # file[q]
    <3>1. proc[p].pipeline = q /\ proc'[p].outer \in MayFail
      BY <2>3 DEF ResumeInv
    <3> QED
      BY <3>1 DEF Attended
  <2> QED
    BY <2>2, <2>3
<1> QED
  BY <1>1, <1>2, <1>3 DEF ResumeInv

(* A process ends its call: it has stored the end, or had none to store.   *)
LEMMA EndResumes ==
  ASSUME ResumeInv, Shapes', NEW p \in Processes, proc[p].pc # "idle", proc'[p].pc = "idle",
         \A r \in Processes \ {p} : proc'[r] = proc[r], killed' = killed,
         file' = [q \in Pipelines |-> file'[q]],
         \/ /\ file'[proc[p].pipeline].state \in {"completed", "failed"}
            /\ \A q \in Pipelines \ {proc[p].pipeline} : file'[q] = file[q]
         \/ file' = file /\ proc[p].outer \notin MayFail
  PROVE  ResumeInv'
<1>1. Contexts'
  BY DEF ResumeInv, Contexts, AtData
<1>2. ASSUME NEW q \in Pipelines PROVE Ended(q)' \/ q \in killed' \/ Attended(q)'
  <2>1. CASE /\ file'[proc[p].pipeline].state \in {"completed", "failed"}
             /\ \A r \in Pipelines \ {proc[p].pipeline} : file'[r] = file[r]
    <3>1. q # proc[p].pipeline => file'[q] = file[q] /\ (Attended(q) => Attended(q)')
      BY <2>1 DEF Attended
    <3> QED
      BY <2>1, <3>1 DEF ResumeInv, Ended
  <2>2. CASE file' = file /\ proc[p].outer \notin MayFail
    <3>1. Attended(q) => Attended(q)'
      BY <2>2 DEF Attended
    <3> QED
      BY <2>2, <3>1 DEF ResumeInv, Ended
  <2> QED
    BY <2>1, <2>2
<1> QED
  BY <1>1, <1>2 DEF ResumeInv

LEMMA FailResumes ==
  ASSUME ResumeInv, NEW p \in Processes, Fail(p), proc[p].pc # "idle",
         UNCHANGED <<clock, study, killed>>
  PROVE  ResumeInv'
<1>1. proc' = [proc EXCEPT ![p] = Idle(proc[p].best)]
  BY DEF Fail
<1>2. Shapes' /\ proc'[p] = Idle(proc[p].best) /\ \A q \in Processes \ {p} : proc'[q] = proc[q]
  BY <1>1, IdleShape DEF ResumeInv, Idle, Fields
<1>3. proc[p].outer \in MayFail => "failed" \in ValidTransitions[proc[p].outer]
  BY WaysToFail
<1>4. proc[p].pipeline \in Pipelines /\ file = [q \in Pipelines |-> file[q]]
  BY DEF ResumeInv, Shapes
<1>5. /\ file' = [q \in Pipelines |-> file'[q]]
      /\ \/ /\ file'[proc[p].pipeline].state = "failed"
            /\ \A q \in Pipelines \ {proc[p].pipeline} : file'[q] = file[q]
         \/ file' = file /\ proc[p].outer \notin MayFail
  BY <1>3, <1>4 DEF Fail, Store
<1>6. proc'[p].pc = "idle"
  BY <1>2 DEF Idle
<1> QED
  BY <1>2, <1>5, <1>6, EndResumes

(* A call begins, or a process ends or is killed.                          *)
LEMMA CallResumes ==
  ASSUME ResumeInv, Shapes', NEW p \in Processes,
         \/ Execute(p) \/ (\E q \in Pipelines : Resume(p, q)) \/ CompletePipeline(p) \/ Kill(p)
         \/ Exit(p)
  PROVE  ResumeInv'
<1>1. DOMAIN proc = Processes /\ DOMAIN file = Pipelines /\ clock \in Pipelines
  BY DEF ResumeInv, Shapes
<1>2. CASE Execute(p) \/ (\E q \in Pipelines : Resume(p, q))
  <2>1. PICK q \in Pipelines :
          /\ proc[p].pc = "idle"
          /\ proc'[p].pc = "load" /\ proc'[p].pipeline = q
          /\ \/ /\ proc'[p].outer = "initialized"
                /\ file' = [file EXCEPT ![q] = [state |-> "data_loading", attempts |-> 0]]
             \/ proc'[p].outer = "recovering" /\ \E v : file' = [file EXCEPT ![q] = v]
    <3>1. CASE Execute(p)
      BY <1>1, <3>1 DEF Execute, Idle
    <3>2. CASE \E q \in Pipelines : Resume(p, q)
      <4>1. PICK q \in Pipelines : Resume(p, q)
        BY <3>2
      <4>2. proc'[p].pc = "load" /\ proc'[p].pipeline = q /\ proc'[p].outer = "recovering"
        BY <1>1, <4>1 DEF Resume, Idle
      <4> QED
        BY <4>1, <4>2 DEF Resume
    <3> QED
      BY <1>2, <3>1, <3>2
  <2>2. killed' = killed /\ \A r \in Processes \ {p} : proc'[r] = proc[r]
    BY <1>1, <1>2 DEF Execute, Resume
  <2>3. Contexts'
    BY <2>1, <2>2, WaysToFail DEF ResumeInv, Contexts, AtData
  <2>4. file' = [r \in Pipelines |-> file'[r]]
    BY <1>1, <2>1
  <2>5. ASSUME NEW r \in Pipelines PROVE Ended(r)' \/ r \in killed' \/ Attended(r)'
    <3>1. CASE r = q
      BY <1>1, <2>1, <3>1, WaysToFail DEF Ended, Attended
    <3>2. CASE r # q
      <4>1. file'[r] = file[r]
        BY <1>1, <2>1, <3>2
      <4>2. Attended(r) => Attended(r)'
        BY <2>1, <2>2 DEF Attended
      <4> QED
        BY <2>2, <4>1, <4>2 DEF ResumeInv, Ended
    <3> QED
      BY <3>1, <3>2
  <2> QED
    BY <2>3, <2>4, <2>5 DEF ResumeInv
<1>3. CASE CompletePipeline(p)
  <2>1. /\ proc[p].pc = "complete" /\ proc'[p].pc = "idle" /\ killed' = killed
        /\ \A q \in Processes \ {p} : proc'[q] = proc[q]
    BY <1>1, <1>3 DEF CompletePipeline, Idle
  <2>2. proc[p].pipeline \in Pipelines /\ file = [q \in Pipelines |-> file[q]]
    BY <2>1 DEF ResumeInv, Shapes
  <2>3. /\ file' = [q \in Pipelines |-> file'[q]]
        /\ file'[proc[p].pipeline].state = "completed"
        /\ \A q \in Pipelines \ {proc[p].pipeline} : file'[q] = file[q]
    BY <1>3, <2>2 DEF CompletePipeline, Store
  <2> QED
    BY <2>1, <2>3, EndResumes
<1>4. CASE Kill(p) \/ Exit(p)
  <2>1. /\ file' = file /\ proc'[p].pc = "idle" /\ \A r \in Processes \ {p} : proc'[r] = proc[r]
        /\ \/ killed' = killed \cup {proc[p].pipeline}
           \/ killed' = killed /\ proc[p].pc = "idle"
    BY <1>1, <1>4 DEF Kill, Exit, Idle
  <2>2. Contexts'
    BY <2>1 DEF ResumeInv, Contexts, AtData
  <2>3. ASSUME NEW r \in Pipelines PROVE Ended(r)' \/ r \in killed' \/ Attended(r)'
    <3>1. Attended(r) => r \in killed' \/ Attended(r)'
      BY <2>1 DEF Attended
    <3> QED
      BY <2>1, <3>1 DEF ResumeInv, Ended
  <2> QED
    BY <2>1, <2>2, <2>3 DEF ResumeInv
<1> QED
  BY <1>2, <1>3, <1>4
(* Every other step goes on with its pipeline, or ends it by a failure.    *)
LEMMA StageResumes ==
  ASSUME ResumeInv, Shapes', NEW p \in Processes,
         \/ LoadFromCache(p) \/ (\E d \in Datasets : Preprocess(p, d)) \/ CacheData(p) \/ CacheMeta(p)
         \/ DataFails(p) \/ CreateStudy(p) \/ EndSearch(p) \/ Validate(p) \/ OpenProduction(p)
         \/ DumpProduction(p) \/ StageFails(p) \/ Register(p)
         \/ BeginTrial(p) \/ TrialFails(p) \/ (\E s \in Scores : Train(p, s)) \/ SaveModel(p)
         \/ SaveMetadata(p) \/ TellComplete(p)
  PROVE  ResumeInv'
<1> DEFINE Onward(changes) ==
      /\ DOMAIN changes \subseteq Fields \ {"pipeline"} /\ Goes(p, changes)
      /\ "pc" \in DOMAIN changes /\ changes["pc"] # "idle"
      /\ IF "outer" \in DOMAIN changes THEN changes["outer"] \in MayFail
         ELSE changes["pc"] \in AtData \/ proc[p].pc \notin AtData
      /\ \/ file' = file
         \/ /\ "outer" \in DOMAIN changes \/ proc[p].pc \notin AtData
            /\ \E v : file' = [file EXCEPT ![proc[p].pipeline] = v]
<1>1. proc[p].pc # "idle" /\ killed' = killed
  BY DEF LoadFromCache, Preprocess, CacheData, CacheMeta, DataFails, CreateStudy, EndSearch, Validate,
         OpenProduction, DumpProduction, StageFails, Register, BeginTrial, TrialFails, Train, SaveModel,
         SaveMetadata, TellComplete
<1>2. ASSUME NEW changes, Onward(changes) PROVE ResumeInv'
  <2>1. /\ \A r \in Processes \ {p} : proc'[r] = proc[r]
        /\ \A f \in Fields : proc'[p][f] = IF f \in DOMAIN changes THEN changes[f] ELSE proc[p][f]
    BY <1>2, GoesShape DEF ResumeInv
  <2>2. /\ proc'[p].pc = changes["pc"] /\ proc'[p].pipeline = proc[p].pipeline
        /\ proc'[p].outer = IF "outer" \in DOMAIN changes THEN changes["outer"] ELSE proc[p].outer
    BY <1>2, <2>1 DEF Fields
  <2>3. proc[p].pc \notin AtData => proc[p].outer \in MayFail
    BY <1>1 DEF ResumeInv, Contexts
  <2>4. /\ proc'[p].pc # "idle"
        /\ \/ proc'[p].outer \in MayFail
           \/ proc'[p].outer = proc[p].outer /\ (proc'[p].pc \in AtData \/ proc[p].pc \notin AtData)
    BY <1>2, <2>2
  <2>5. \/ file' = file
        \/ proc'[p].outer \in MayFail /\ \E v : file' = [file EXCEPT ![proc[p].pipeline] = v]
    BY <1>2, <2>2, <2>3
  <2> QED
    BY <1>1, <2>1, <2>2, <2>4, <2>5, OnwardResumes
<1>3. CASE \/ DataFails(p) \/ StageFails(p)
           \/ Fail(p) /\ (CreateStudy(p) \/ EndSearch(p) \/ Validate(p))
  BY <1>1, <1>3, FailResumes DEF DataFails, StageFails, CreateStudy, EndSearch, Validate, stores
<1> USE DEF Fields, AtData
<1>4. CASE LoadFromCache(p) \/ CacheMeta(p)
  <2>1. PICK d : Goes(p, [pc |-> "study", data |-> d, outer |-> "data_loaded"])
    BY <1>4 DEF LoadFromCache, CacheMeta, DataLoaded
  <2>2. \E v : file' = [file EXCEPT ![proc[p].pipeline] = v]
    BY <1>4 DEF LoadFromCache, CacheMeta, DataLoaded, Store
  <2> QED
    BY <1>2, <2>1, <2>2, WaysToFail
<1>5. CASE \E d \in Datasets : Preprocess(p, d)
  <2>1. PICK d : Goes(p, [pc |-> "cache_data", data |-> [columns |-> d, names |-> d]])
    BY <1>5 DEF Preprocess
  <2> QED
    BY <1>2, <1>5, <2>1 DEF Preprocess
<1>6. CASE CacheData(p)
  BY <1>2, <1>6 DEF CacheData, stores
<1>7. CASE CreateStudy(p) /\ ~Fail(p)
  <2>1. PICK top, since : Goes(p, [pc |-> "trial", done |-> 0, top |-> top, since |-> since])
    BY <1>7 DEF CreateStudy
  <2>2. proc[p].pc = "study" /\ \E v : file' = [file EXCEPT ![proc[p].pipeline] = v]
    BY <1>7 DEF CreateStudy, Store
  <2> QED
    BY <1>2, <2>1, <2>2
<1>8. CASE EndSearch(p) /\ ~Fail(p)
  <2>1. /\ Goes(p, [pc |-> "validate", outer |-> "optimization_completed"])
        /\ \E v : file' = [file EXCEPT ![proc[p].pipeline] = v]
    BY <1>8 DEF EndSearch, Store
  <2> QED
    BY <1>2, <2>1, WaysToFail
<1>9. CASE Validate(p) /\ ~Fail(p)
  <2>1. PICK c : Goes(p, [pc |-> "deploy", outer |-> "model_validated", chosen |-> c])
    BY <1>9 DEF Validate
  <2>2. \E v : file' = [file EXCEPT ![proc[p].pipeline] = v]
    BY <1>9 DEF Validate, Store
  <2> QED
    BY <1>2, <2>1, <2>2, WaysToFail
<1>10. CASE OpenProduction(p)
  BY <1>2, <1>10 DEF OpenProduction
<1>11. CASE DumpProduction(p)
  BY <1>2, <1>11 DEF DumpProduction
<1>12. CASE Register(p)
  BY <1>2, <1>12 DEF Register
<1>13. CASE BeginTrial(p)
  BY <1>2, <1>13 DEF BeginTrial
<1>14. CASE TrialFails(p)
  BY <1>2, <1>14 DEF TrialFails
<1>15. CASE \E s \in Scores : Train(p, s)
  BY <1>2, <1>15 DEF Train
<1>16. CASE SaveModel(p)
  BY <1>2, <1>16 DEF SaveModel
<1>17. CASE SaveMetadata(p)
  <2>1. PICK b : Goes(p, [pc |-> "tell", best |-> b])
    BY <1>17 DEF SaveMetadata
  <2> QED
    BY <1>2, <1>17, <2>1 DEF SaveMetadata
<1>18. CASE TellComplete(p)
  <2>1. PICK stage, done, since, top :
          /\ Goes(p, [pc |-> stage, done |-> done, chosen |-> None, since |-> since, top |-> top])
          /\ stage \in {"search_over", "trial"}
    BY <1>18 DEF TellComplete
  <2> QED
    BY <1>2, <1>18, <2>1 DEF TellComplete
<1> HIDE DEF Onward
<1>19. CASE \/ LoadFromCache(p) \/ (\E d \in Datasets : Preprocess(p, d)) \/ CacheData(p) \/ CacheMeta(p)
            \/ DataFails(p) \/ CreateStudy(p) \/ EndSearch(p) \/ Validate(p)
  BY <1>3, <1>4, <1>5, <1>6, <1>7, <1>8, <1>9, <1>19
<1>20. CASE \/ OpenProduction(p) \/ DumpProduction(p) \/ StageFails(p) \/ Register(p)
            \/ BeginTrial(p) \/ TrialFails(p) \/ (\E s \in Scores : Train(p, s)) \/ SaveModel(p)
            \/ SaveMetadata(p) \/ TellComplete(p)
  BY <1>3, <1>10, <1>11, <1>12, <1>13, <1>14, <1>15, <1>16, <1>17, <1>18, <1>20
<1> QED
  BY <1>19, <1>20

LEMMA ResumeNext == ResumeInv /\ Shapes' /\ [Next]_vars => ResumeInv'
<1> SUFFICES ASSUME ResumeInv, Shapes', [Next]_vars PROVE ResumeInv'
  OBVIOUS
<1>1. CASE UNCHANGED vars \/ Tick
  BY <1>1 DEF vars, Tick, stores, ResumeInv, Contexts, Ended, Attended
<1>2. ASSUME NEW p \in Processes,
             \/ Execute(p) \/ (\E q \in Pipelines : Resume(p, q)) \/ CompletePipeline(p) \/ Kill(p)
             \/ Exit(p)
      PROVE  ResumeInv'
  BY <1>2, CallResumes
<1>3. ASSUME NEW p \in Processes,
             \/ LoadFromCache(p) \/ (\E d \in Datasets : Preprocess(p, d)) \/ CacheData(p)
             \/ CacheMeta(p) \/ DataFails(p) \/ CreateStudy(p) \/ EndSearch(p) \/ Validate(p)
             \/ OpenProduction(p) \/ DumpProduction(p) \/ StageFails(p) \/ Register(p)
             \/ BeginTrial(p) \/ TrialFails(p) \/ (\E s \in Scores : Train(p, s)) \/ SaveModel(p)
             \/ SaveMetadata(p) \/ TellComplete(p)
      PROVE  ResumeInv'
  BY <1>3, StageResumes
<1> QED
  BY <1>1, <1>2, <1>3 DEF Next

(* A pipeline nobody works on can be resumed, unless a process was killed  *)
(* in it or its first attempt to load data failed (VALID_TRANSITIONS).     *)
THEOREM StoppedPipelinesCanResume == Spec => []StoppedCanResume
<1>1. KeptInv => Shapes
  BY DEF KeptInv
<1>2. ResumeInv => StoppedCanResume
  BY DEF ResumeInv, StoppedCanResume, Ended, Attended
<1> QED
  BY KeptInit, KeptNext, ResumeInit, ResumeNext, <1>1, <1>2, PTL DEF Spec
=============================================================================
