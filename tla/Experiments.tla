---------------------------- MODULE Experiments ----------------------------
(***************************************************************************)
(* ABTestManager (src/ml/online_learning/ab_test_manager.py): a tool       *)
(* creates and starts an experiment, the detectors assign users to its     *)
(* variants and count their predictions, and one of them stops it.  Redis  *)
(* holds each experiment as one value, which every process stores whole    *)
(* from its own copy; a detector has a copy of those experiments that ran  *)
(* when it started.                                                        *)
(*                                                                         *)
(* An action is what a process does up to its next command to Redis.  Each *)
(* detector uses its manager from one thread.                              *)
(***************************************************************************)
EXTENDS Integers, Sequences, FiniteSets, SequencesExt, Functions

CONSTANTS
    Managers,   \* the detectors
    Tools,      \* runs of deploy_model.py ab-test
    Users,
    Splits,     \* traffic allocations of the control variant, in percent
    Bucket,     \* assignment_ratio of a user in an experiment, in percent
    Every,      \* results are analysed at every multiple of this (100)
    MinEach,    \* with fewer predictions of a variant they are not (50)
    HalfTarget, \* target_sample_size * 0.5
    Nil,
    MaxStart,  \* bound: the seconds at which experiments are created
    MaxResults, \* bound: no user is assigned when so many results are recorded
    MaxMishaps \* bound: how many detectors die, commands fail, and assignments expire

Ids == 1 .. MaxStart

ASSUME ExperimentsAssumption ==
    /\ Splits \subseteq 0 .. 100
    /\ Bucket \in [Users \X Ids -> 0 .. 100]
    /\ Every \in Nat \ {0} /\ MinEach \in Nat \ {0} /\ HalfTarget \in Nat
    /\ MaxStart \in Nat \ {0} /\ MaxResults \in Nat /\ MaxMishaps \in Nat
    /\ Nil \notin {"control", "treatment"}

Variants == {"control", "treatment"}

\* An experiment: n counts total_predictions, hits true_positives.
Experiment == [id: Ids, status: {"draft", "running", "stopped"}, split: Splits,
               n: [Variants -> Nat], hits: [Variants -> Nat], winner: Variants \cup {Nil}]

VARIABLES
    now,        \* the time, in seconds
    store,      \* experiment:* in Redis
    assignments,\* assignment:*:* in Redis
    toolPc,     \* what a tool is about to do
    toolCopy,   \* the experiment it has created, and then loaded
    up,         \* whether a detector runs
    mine,       \* its active_experiments, in the order of the dictionary
    pc,         \* what it is about to do
    at,         \* the user and experiment of the transaction it scores
    result,     \* the variant of that transaction
    stopped,    \* the experiment that it is stopping
    mishaps,   \* ghost: how many of these there were
    recorded,   \* ghost: the results recorded for an experiment
    seen,       \* ghost: the variants a user was scored with
    ended,      \* ghost: the experiments some detector has stopped
    shared,     \* ghost: experiments two detectors had a copy of
    recreated,  \* ghost: experiments created anew under the same identifier
    unsaved     \* ghost: experiments a SET failed for

redisVars == <<store, assignments>>
toolVars == <<toolPc, toolCopy>>
managerVars == <<up, mine, pc, at, result, stopped>>
ghostVars == <<mishaps, recorded, seen, ended, shared, recreated, unsaved>>
xvars == <<now, redisVars, toolVars, managerVars, ghostVars>>

Samples(e) == e.n["control"] + e.n["treatment"]
Nowhere == <<Nil, Nil>>

TypeOK ==
    /\ now \in Ids
    /\ DOMAIN store \subseteq Ids /\ \A e \in DOMAIN store : store[e] \in Experiment
    /\ assignments \in [Users \X Ids -> Variants \cup {Nil}]
    /\ toolPc \in [Tools -> {"create", "load", "store", "done"}]
    /\ toolCopy \in [Tools -> Experiment \cup {Nil}]
    /\ up \in [Managers -> BOOLEAN]
    /\ \A m \in Managers : \A i \in DOMAIN mine[m] :
          /\ mine[m][i] \in Experiment /\ mine[m][i].status = "running"
          /\ \A j \in 1 .. i - 1 : mine[m][j].id # mine[m][i].id
    /\ pc \in [Managers -> {"idle", "keep", "record", "analyze", "again"}]
    /\ at \in [Managers -> (Users \X Ids) \cup {Nowhere}]
    /\ result \in [Managers -> Variants \cup {Nil}]
    /\ stopped \in [Managers -> Experiment \cup {Nil}]
    /\ mishaps \in 0 .. MaxMishaps /\ recorded \in [Ids -> Nat]
    /\ seen \in [Users \X Ids -> SUBSET Variants]
    /\ {ended, shared, recreated, unsaved} \subseteq SUBSET Ids

XInit ==
    /\ now = 1 /\ store = <<>> /\ assignments = [ue \in Users \X Ids |-> Nil]
    /\ toolPc = [t \in Tools |-> "create"] /\ toolCopy = [t \in Tools |-> Nil]
    /\ up = [m \in Managers |-> FALSE] /\ mine = [m \in Managers |-> <<>>]
    /\ pc = [m \in Managers |-> "idle"]
    /\ at = [m \in Managers |-> Nowhere] /\ result = [m \in Managers |-> Nil]
    /\ stopped = [m \in Managers |-> Nil]
    /\ mishaps = 0 /\ recorded = [e \in Ids |-> 0] /\ seen = [ue \in Users \X Ids |-> {}]
    /\ ended = {} /\ shared = {} /\ recreated = {} /\ unsaved = {}

(* _store_experiment: SET, an error of which is logged and swallowed.      *)
Stored(e) == [id \in DOMAIN store \cup {e.id} |-> IF id = e.id THEN e ELSE store[id]]

StoreWhole(e) ==
    \/ store' = Stored(e) /\ UNCHANGED <<mishaps, unsaved>>
    \/ /\ mishaps < MaxMishaps /\ mishaps' = mishaps + 1
       /\ unsaved' = unsaved \cup {e.id}
       /\ UNCHANGED store

-----------------------------------------------------------------------------
(* The tool t.                                                             *)
Zero == [v \in Variants |-> 0]

(* create_experiment: the identifier is the second, whatever is there.     *)
Create(t) ==
    /\ toolPc[t] = "create"
    /\ \E split \in Splits :
          LET e == [id |-> now, status |-> "draft", split |-> split,
                    n |-> Zero, hits |-> Zero, winner |-> Nil]
          IN  StoreWhole(e) /\ toolCopy' = [toolCopy EXCEPT ![t] = e]
    /\ recreated' = IF now \in DOMAIN store THEN recreated \cup {now} ELSE recreated
    /\ toolPc' = [toolPc EXCEPT ![t] = "load"]
    /\ UNCHANGED <<now, assignments, managerVars, recorded, seen, ended, shared>>

(* start_experiment: GET; only a draft is started ...                      *)
LoadDraft(t) ==
    /\ toolPc[t] = "load"
    /\ LET id == toolCopy[t].id
       IN  IF id \in DOMAIN store /\ store[id].status = "draft"
             THEN /\ toolCopy' = [toolCopy EXCEPT ![t] = store[id]]
                  /\ toolPc' = [toolPc EXCEPT ![t] = "store"]
             ELSE /\ toolPc' = [toolPc EXCEPT ![t] = "done"]
                  /\ toolCopy' = [toolCopy EXCEPT ![t] = Nil]
    /\ UNCHANGED <<now, redisVars, managerVars, ghostVars>>

(* ... and SET with the new status.                                        *)
StartExperiment(t) ==
    /\ toolPc[t] = "store"
    /\ StoreWhole([toolCopy[t] EXCEPT !.status = "running"])
    /\ toolPc' = [toolPc EXCEPT ![t] = "done"]
    /\ toolCopy' = [toolCopy EXCEPT ![t] = Nil]
    /\ UNCHANGED <<now, assignments, managerVars, recorded, seen, ended, shared, recreated>>

SecondPasses ==
    /\ now < MaxStart /\ now' = now + 1
    /\ UNCHANGED <<redisVars, toolVars, managerVars, ghostVars>>

-----------------------------------------------------------------------------
(* The detector m.                                                         *)
Goto(m, step) == pc' = [pc EXCEPT ![m] = step]
IdsOf(copies) == {copies[i].id : i \in DOMAIN copies}

IsActive(e) == e.status = "running"

(* _load_active_experiments: those that run, in the order of KEYS.         *)
StartManager(m) ==
    /\ ~up[m]
    /\ up' = [up EXCEPT ![m] = TRUE]
    /\ LET running == {store[e] : e \in {id \in DOMAIN store : IsActive(store[id])}}
       IN  \E copies \in SetToAllKPermutations(running) :
              /\ Len(copies) = Cardinality(running)
              /\ mine' = [mine EXCEPT ![m] = copies]
              /\ shared' = shared \cup
                     {e \in IdsOf(copies) : \E o \in Managers \ {m} : e \in IdsOf(mine[o])}
    /\ UNCHANGED <<now, redisVars, toolVars, pc, at, result, stopped, mishaps, recorded, seen, ended,
                   recreated, unsaved>>

\* Mutant: the hash depends on the time, like _generate_assignment_hash.
TimedHash(u, e) == (Bucket[u, e] + 50 * now) % 100

HashOf(u, e) == Bucket[u, e]

(* _assign_user_to_variant: the first variant whose cumulative allocation  *)
(* the ratio does not exceed.                                              *)
VariantFor(u, e) == IF HashOf(u, e.id) <= e.split THEN "control" ELSE "treatment"

(* assign_variant up to the GET of an earlier assignment: the first active *)
(* experiment is the one.                                                  *)
Assign(m, u) ==
    /\ pc[m] = "idle" /\ mine[m] # <<>>
    /\ LET e == Head(mine[m])
           before == assignments[u, e.id]
       IN  /\ FoldFunction(+, 0, recorded) < MaxResults
           /\ at' = [at EXCEPT ![m] = <<u, e.id>>]
           /\ result' = [result EXCEPT ![m] = IF before # Nil THEN before ELSE VariantFor(u, e)]
           /\ Goto(m, IF before # Nil THEN "record" ELSE "keep")
    /\ UNCHANGED <<now, redisVars, toolVars, up, mine, stopped, ghostVars>>

(* SETEX; when it fails the user has no variant.                           *)
KeepAssignment(m) ==
    /\ pc[m] = "keep"
    /\ \/ /\ assignments' = [assignments EXCEPT ![at[m]] = result[m]]
          /\ Goto(m, "record")
          /\ UNCHANGED <<at, result, mishaps>>
       \/ /\ mishaps < MaxMishaps /\ mishaps' = mishaps + 1
          /\ Goto(m, "idle")
          /\ at' = [at EXCEPT ![m] = Nowhere] /\ result' = [result EXCEPT ![m] = Nil]
          /\ UNCHANGED assignments
    /\ UNCHANGED <<now, store, toolVars, up, mine, stopped, recorded, seen, ended, shared,
                   recreated, unsaved>>

\* Mutant: a prediction is counted once its label is known.
CountedIfHit(e, v, hit) == IF hit THEN [e EXCEPT !.n[v] = @ + 1, !.hits[v] = @ + 1] ELSE e

(* record_prediction_result: the copy counts the prediction, and a true    *)
(* positive if the caller knows the label, and is stored.                  *)
Counted(e, v, hit) == [e EXCEPT !.n[v] = @ + 1, !.hits[v] = IF hit THEN @ + 1 ELSE @]

RecordResult(m) ==
    /\ pc[m] = "record"
    /\ \E hit \in BOOLEAN :
          LET e == Counted(Head(mine[m]), result[m], hit)
          IN  /\ mine' = [mine EXCEPT ![m] = <<e>> \o Tail(@)]
              /\ StoreWhole(e)
              /\ recorded' = [recorded EXCEPT ![e.id] = @ + 1]
              /\ IF Samples(e) % Every = 0
                   THEN Goto(m, "analyze") /\ UNCHANGED at
                   ELSE Goto(m, "idle") /\ at' = [at EXCEPT ![m] = Nowhere]
    /\ seen' = [seen EXCEPT ![at[m]] = @ \cup {result[m]}]
    /\ result' = [result EXCEPT ![m] = Nil]
    /\ UNCHANGED <<now, assignments, toolVars, up, stopped, ended, shared, recreated>>

(* _perform_statistical_test on the true positives (f1), as the winner it  *)
(* may lead to, Nil being no significance with an effect of some size, or *)
(* "futile" without one.  Where nothing or everything is a true positive   *)
(* the standard error is 0, and so is the effect.                          *)
Verdicts(e) ==
    LET hits == e.hits["control"] + e.hits["treatment"]
        sameRate == e.hits["control"] * e.n["treatment"] = e.hits["treatment"] * e.n["control"]
    IN  IF hits \in {0, Samples(e)} \/ sameRate THEN {"futile"}
        ELSE Variants \cup {Nil, "futile"}

\* Mutant: a stopped experiment stays among the active ones.
StaysActive(copies) == copies

WithoutFirst(copies) == Tail(copies)

(* _analyze_experiment_results: significance stops the experiment, its     *)
(* confidence being above 0.95; so does futility beyond half the target.   *)
Analyze(m) ==
    /\ pc[m] = "analyze"
    /\ LET e == Head(mine[m])
           enough == \A v \in Variants : e.n[v] >= MinEach
           stop(winner) ==
              LET s == [e EXCEPT !.status = "stopped",
                                 !.winner = IF winner \in Variants THEN winner ELSE Nil]
              IN  /\ StoreWhole(s)
                  /\ mine' = [mine EXCEPT ![m] = WithoutFirst(@)]
                  /\ stopped' = [stopped EXCEPT ![m] = s]
                  /\ ended' = ended \cup {e.id}
                  /\ Goto(m, "again")
           goOn == /\ Goto(m, "idle") /\ at' = [at EXCEPT ![m] = Nowhere]
                   /\ UNCHANGED <<mine, stopped, ended>>
       IN  \/ ~enough /\ goOn /\ UNCHANGED <<store, mishaps, unsaved>>
           \/ /\ enough
              /\ \E verdict \in Verdicts(e) :
                    IF verdict \in Variants \/ (verdict = "futile" /\ Samples(e) > HalfTarget)
                      THEN stop(verdict) /\ UNCHANGED at
                      ELSE goOn /\ StoreWhole(e)
    /\ UNCHANGED <<now, assignments, toolVars, up, result, recorded, seen, shared, recreated>>

(* After the SET of _stop_experiment_early comes that of the analysis.     *)
StoreAgain(m) ==
    /\ pc[m] = "again"
    /\ StoreWhole(stopped[m])
    /\ Goto(m, "idle")
    /\ at' = [at EXCEPT ![m] = Nowhere] /\ stopped' = [stopped EXCEPT ![m] = Nil]
    /\ UNCHANGED <<now, assignments, toolVars, up, mine, result, recorded, seen, ended, shared, recreated>>

(* The detector ends, at any point.                                        *)
Die(m) ==
    /\ up[m] /\ mishaps < MaxMishaps /\ mishaps' = mishaps + 1
    /\ up' = [up EXCEPT ![m] = FALSE] /\ mine' = [mine EXCEPT ![m] = <<>>]
    /\ Goto(m, "idle")
    /\ at' = [at EXCEPT ![m] = Nowhere] /\ result' = [result EXCEPT ![m] = Nil]
    /\ stopped' = [stopped EXCEPT ![m] = Nil]
    /\ UNCHANGED <<now, redisVars, toolVars, recorded, seen, ended, shared, recreated, unsaved>>

(* An assignment expires after a day.                                      *)
Expire ==
    /\ mishaps < MaxMishaps /\ mishaps' = mishaps + 1
    /\ \E ue \in Users \X Ids :
          assignments[ue] # Nil /\ assignments' = [assignments EXCEPT ![ue] = Nil]
    /\ UNCHANGED <<now, store, toolVars, managerVars, recorded, seen, ended, shared, recreated,
                   unsaved>>

XNext ==
    \/ \E t \in Tools : Create(t) \/ LoadDraft(t) \/ StartExperiment(t)
    \/ \E m \in Managers :
          \/ StartManager(m) \/ (\E u \in Users : Assign(m, u)) \/ KeepAssignment(m)
          \/ RecordResult(m) \/ Analyze(m) \/ StoreAgain(m) \/ Die(m)
    \/ SecondPasses \/ Expire

XSpec == XInit /\ [][XNext]_xvars

-----------------------------------------------------------------------------
(* Redis never counts more results than were recorded, and it counts every *)
(* one over restarts of the detector, but for experiments of which two     *)
(* detectors had a copy (one SET overwrites the other), or a SET failed.   *)
(* One that was created twice has counts of its own.                       *)
ResultsCounted ==
    \A e \in DOMAIN store \ recreated :
        /\ Samples(store[e]) <= recorded[e]
        /\ e \notin shared \cup unsaved => Samples(store[e]) = recorded[e]

(* What one detector has stopped is stopped in Redis and goes on nowhere,  *)
(* with the same exceptions.                                               *)
EndedForAll ==
    \A e \in ended \ (shared \cup recreated \cup unsaved) :
        store[e].status = "stopped" /\ \A m \in Managers : e \notin IdsOf(mine[m])

(* A user sees one variant of an experiment, whichever detectors score the *)
(* user's transactions and even after the assignment has expired, unless   *)
(* the experiment was created twice.                                       *)
OneVariantPerUser ==
    \A ue \in Users \X Ids : ue[2] \notin recreated => Cardinality(seen[ue]) <= 1
=============================================================================
