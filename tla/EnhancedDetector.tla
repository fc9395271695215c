-------------------------- MODULE EnhancedDetector --------------------------
(***************************************************************************)
(* The enhanced fraud detector (src/consumers/enhanced_fraud_detector      *)
(* .py), the alternate detector that keeps user profiles in memory: a      *)
(* profile is loaded from Redis when its user is first seen, saved when it *)
(* is evicted, at every SaveEvery-th prediction, and at the end. It scores *)
(* with a model or with rules, feeds the drift detector, and announces     *)
(* fraud.                                                                  *)
(*                                                                         *)
(* It shares the keys of the profiles in Redis with the fraud detector,    *)
(* which keeps a hash under the key where this one keeps a string, and     *)
(* each fails on the other's. It never commits an offset.                  *)
(***************************************************************************)
EXTENDS DriftDetector

CONSTANTS
  Users,
  Log,            \* the topic: records with a user, a kind and possible verdicts
  CacheSize,      \* profile_cache_size (10000 in the code)
  EvictSize,      \* profiles evicted at once (100)
  SaveEvery,      \* predictions between two saves (50)
  CheckEvery,     \* predictions between two rounds of periodic tasks (100)
  MaxRestarts,    \* bound: stops and crashes
  MaxFaults,      \* bound: calls to Redis, Kafka or the model that fail
  MaxOthers       \* bound: transactions the fraud detector handles

ASSUME EnhancedAssumption ==
  /\ Log \in Seq([user: Users, kind: {"transaction", "bad_json"}, verdicts: SUBSET {"fair", "fraud"}])
  /\ CacheSize \in Nat /\ EvictSize \in 1..CacheSize

VARIABLES
  epc,            \* what the processing loop does next
  position,       \* the next message
  message,        \* the message being processed, 0 for none
  verdict,        \* what it was scored
  cached,         \* user_profiles: users and transaction counts, oldest first
  stored,         \* stored[u]: type and count under the profile's key in Redis
  predictions,    \* prediction_count, modulo the two periods
  model,          \* current_model: "none" or "loaded"
  alerts,         \* the messages a fraud alert was produced for
  fate,           \* fate[m]: how far message m got
  excused,        \* users whose latest count may be missing, and why it is so
  restarts, faults, others

evars == <<driftVars, epc, position, message, verdict, cached, stored, predictions,
           model, alerts, fate, excused, restarts, faults, others>>
bounds == <<restarts, others>>

Messages == DOMAIN Log
Period == SaveEvery * CheckEvery
Absent == [type |-> "none", count |-> 0]
String(n) == [type |-> "string", count |-> n]

EInit ==
  /\ DriftInit
  /\ epc \in {"off", "demo"} /\ position = 1 /\ message = 0 /\ verdict = "none"
  /\ cached = <<>> /\ stored = [u \in Users |-> Absent]
  /\ predictions = 0 /\ model = "none" /\ alerts = {}
  /\ fate = [m \in Messages |-> "waiting"] /\ excused = {}
  /\ restarts = 0 /\ faults = 0 /\ others = 0

\* A call that may fail: fails counts it.
MayFail(fails) == faults' = faults + (IF fails THEN 1 ELSE 0) /\ faults' <= MaxFaults

CachedUsers == {cached[i].user : i \in DOMAIN cached}
CountOf(u) == cached[CHOOSE i \in DOMAIN cached : cached[i].user = u].count

-----------------------------------------------------------------------------
\* Starting, and the loop.

\* _load_production_model: the registry's model, the file's, or none.
LoadModel == model' \in {"none", "loaded"}

\* _check_model_updates: a model of the registry replaces the current one.
CheckModelUpdates == model' \in {model, "loaded"}

\* __init__. With no committed offset and auto.offset.reset latest, a process that
\* starts again reads from the end of the topic.
EStart ==
  /\ epc = "off" /\ restarts <= MaxRestarts
  /\ DriftReset
  /\ epc' = "poll" /\ cached' = <<>> /\ predictions' = 0
  /\ LoadModel
  /\ position' \in IF restarts = 0 THEN {position} ELSE position..Len(Log) + 1
  /\ fate' = [m \in Messages |-> IF m \in position..position' - 1 THEN "skipped" ELSE fate[m]]
  /\ UNCHANGED <<message, verdict, stored, alerts, excused, faults, bounds>>

\* run polls a message: what is not JSON is logged and left.
Poll ==
  /\ epc = "poll" /\ position <= Len(Log)
  /\ position' = position + 1
  /\ IF Log[position].kind = "bad_json"
     THEN /\ fate' = [fate EXCEPT ![position] = "unreadable"]
          /\ UNCHANGED <<epc, message>>
     ELSE /\ message' = position /\ epc' = "profile" /\ fate' = fate
  /\ UNCHANGED <<driftVars, verdict, cached, stored, predictions, model, alerts, excused, faults, bounds>>

User == Log[message].user

\* _process_transaction logs what is raised and returns None; the loop goes on to the
\* periodic tasks.
GiveUp(why) == /\ fate' = [fate EXCEPT ![message] = why]
               /\ epc' = "periodic"

\* Saving profiles one by one: an error is logged, and the profile stays as it was.
Saved(profiles, failing) ==
  [u \in Users |-> IF \E i \in DOMAIN profiles : profiles[i].user = u /\ u \notin failing
                   THEN String(CountOf(u)) ELSE stored[u]]

\* Mutant: old profiles are dropped, not saved.
DropOldest(failing) ==
  /\ cached' = Append(SubSeq(cached, EvictSize + 1, Len(cached)), [user |-> User, count |-> 0])
  /\ stored' = stored /\ excused' = excused

\* The cache is over its size: the oldest profiles are saved and forgotten.
EvictOldest(failing) ==
  LET oldest == SubSeq(cached, 1, EvictSize)
      lost == {u \in failing : \E i \in DOMAIN oldest : oldest[i].user = u}
  IN /\ cached' = Append(SubSeq(cached, EvictSize + 1, Len(cached)), [user |-> User, count |-> 0])
     /\ stored' = Saved(oldest, lost)
     /\ excused' = excused \cup lost

\* _get_user_profile. A profile that Redis has is added to the cache without a look at
\* the cache's size. A hash under the key raises, as an unreachable Redis does.
GetUserProfile ==
  /\ epc = "profile"
  /\ \/ /\ User \in CachedUsers
        /\ epc' = "score" /\ UNCHANGED <<cached, stored, fate, faults, excused>>
     \/ /\ User \notin CachedUsers
        /\ \E unreachable \in BOOLEAN :
             /\ unreachable \/ stored[User].type = "hash"
             /\ MayFail(unreachable)
        /\ GiveUp("no_profile") /\ UNCHANGED <<cached, stored, excused>>
     \/ /\ User \notin CachedUsers /\ stored[User].type = "string"
        /\ cached' = Append(cached, [user |-> User, count |-> stored[User].count])
        /\ epc' = "score" /\ UNCHANGED <<stored, fate, faults, excused>>
     \/ /\ User \notin CachedUsers /\ stored[User].type = "none"
        /\ IF Len(cached) + 1 > CacheSize
           THEN \E failing \in SUBSET CachedUsers : EvictOldest(failing) /\ MayFail(failing # {})
           ELSE /\ cached' = Append(cached, [user |-> User, count |-> 0])
                /\ UNCHANGED <<stored, faults, excused>>
        /\ epc' = "score" /\ fate' = fate
  /\ UNCHANGED <<driftVars, position, message, verdict, predictions, model, alerts, bounds>>

\* _engineer_features, _predict_fraud_score, _rule_based_fraud_score: without a model,
\* or when it raises, the rules score. They read TransactionAmt and TransactionDT,
\* which the producer spells transaction_amt and transaction_dt, so that every amount
\* is 0 and every time is now: the rules add up to 0.6 at most, and 0.7 is fraud.
Score ==
  /\ epc = "score"
  /\ \E raises \in IF model = "loaded" THEN BOOLEAN ELSE {FALSE} :
       /\ MayFail(raises)
       /\ verdict' \in IF model = "loaded" /\ ~raises THEN Log[message].verdicts ELSE {"fair"}
  /\ epc' = "update"
  /\ UNCHANGED <<driftVars, position, message, cached, stored, predictions, model, alerts,
                 fate, excused, bounds>>

\* _update_user_profile: the object in the cache is changed in place.
Counted(u) ==
  [i \in DOMAIN cached |-> IF cached[i].user = u THEN [cached[i] EXCEPT !.count = @ + 1] ELSE cached[i]]

\* _update_user_profile, _add_to_drift_monitoring and the result. When Redis refuses the
\* drift sample the transaction has no result, though its profile has counted it.
UpdateAndSample ==
  /\ epc = "update"
  /\ cached' = Counted(User)
  /\ AddSample(FALSE)
  /\ \E refused \in BOOLEAN :
       /\ MayFail(refused)
       /\ IF refused
          THEN GiveUp("no_sample") /\ UNCHANGED predictions
          ELSE /\ predictions' = (predictions + 1) % Period
               /\ epc' = "result" /\ fate' = fate
  /\ UNCHANGED <<position, message, verdict, stored, model, alerts, excused, bounds>>

\* _handle_prediction_result: the alert, the performance figures, and now and then the
\* profile of this very user. Each logs its own errors.
HandleResult ==
  /\ epc = "result"
  /\ \E refused \in IF verdict = "fraud" THEN BOOLEAN ELSE {FALSE} :
     \E unsaved \in IF predictions % SaveEvery = 0 THEN BOOLEAN ELSE {FALSE} :
       /\ MayFail(refused \/ unsaved)
       /\ alerts' = IF verdict = "fraud" /\ ~refused THEN alerts \cup {message} ELSE alerts
       /\ fate' = [fate EXCEPT ![message] = IF refused THEN "refused" ELSE "handled"]
       /\ stored' = IF predictions % SaveEvery = 0 /\ ~unsaved
                    THEN [stored EXCEPT ![User] = String(CountOf(User))] ELSE stored
  /\ AddMetrics(85)
  /\ epc' = "periodic"
  /\ UNCHANGED <<position, message, verdict, cached, predictions, model, excused, bounds>>

\* _run_periodic_tasks, when the count of predictions says so: after transactions without
\* a result it says so again.
PeriodicTasks ==
  /\ epc = "periodic"
  /\ IF predictions % CheckEvery = 0
     THEN /\ CheckModelUpdates
          /\ IF ShouldRun THEN \E drifted \in SUBSET DriftKinds : DetectDrift(FALSE, drifted)
                          ELSE UNCHANGED driftVars
     ELSE UNCHANGED <<model, driftVars>>
  /\ epc' = "poll" /\ message' = 0 /\ verdict' = "none"
  /\ UNCHANGED <<position, cached, stored, predictions, alerts, fate, excused, faults, bounds>>

-----------------------------------------------------------------------------
\* The end.

Behind == {u \in CachedUsers : stored[u] # String(CountOf(u))}

\* A signal ends the loop; _cleanup saves every profile that is cached.
CleanUp ==
  /\ epc = "poll" /\ restarts < MaxRestarts
  /\ \E failing \in SUBSET Behind :
       /\ MayFail(failing # {})
       /\ stored' = Saved(cached, failing)
       /\ excused' = excused \cup failing
  /\ cached' = <<>> /\ epc' = "off" /\ restarts' = restarts + 1
  /\ UNCHANGED <<driftVars, position, message, verdict, predictions, model, alerts, fate, others>>

\* The process dies: the counts that were only in memory are gone.
ECrash ==
  /\ epc # "off" /\ restarts < MaxRestarts
  /\ excused' = excused \cup Behind \cup (IF epc = "result" THEN {User} ELSE {})
  /\ fate' = IF message # 0 /\ fate[message] = "waiting" THEN [fate EXCEPT ![message] = "crashed"] ELSE fate
  /\ cached' = <<>> /\ epc' = "off" /\ message' = 0 /\ verdict' = "none"
  /\ restarts' = restarts + 1
  /\ UNCHANGED <<driftVars, position, stored, predictions, model, alerts, faults, others>>

-----------------------------------------------------------------------------
\* The others.

\* A profile expires a day after it was saved.
Expire(u) ==
  /\ stored[u].type = "string"
  /\ stored' = [stored EXCEPT ![u] = Absent]
  /\ excused' = IF u \in CachedUsers THEN excused ELSE excused \cup {u}
  /\ faults < MaxFaults /\ faults' = faults + 1
  /\ UNCHANGED <<driftVars, epc, position, message, verdict, cached, predictions, model, alerts, fate, bounds>>

\* The fraud detector handles a transaction of the user: get_user_profile makes a new
\* profile where it finds a string, and save_user_profile fails on it.
OtherDetector(u) ==
  /\ others < MaxOthers /\ others' = others + 1
  /\ stored' = IF stored[u].type = "string" THEN stored
               ELSE [stored EXCEPT ![u] = [type |-> "hash", count |-> @.count + 1]]
  /\ UNCHANGED <<driftVars, epc, position, message, verdict, cached, predictions, model, alerts,
                 fate, excused, restarts, faults>>

\* The demonstration of drift detection, a program of its own.
Demo ==
  /\ epc = "demo" /\ Demonstrate
  /\ UNCHANGED <<epc, position, message, verdict, cached, stored, predictions, model, alerts,
                 fate, excused, faults, bounds>>

ENext ==
  \/ EStart \/ Poll \/ GetUserProfile \/ Score \/ UpdateAndSample \/ HandleResult
  \/ PeriodicTasks \/ CleanUp \/ ECrash \/ Demo
  \/ epc = "poll" /\ HourPasses /\ UNCHANGED <<epc, position, message, verdict, cached, stored,
       predictions, model, alerts, fate, excused, faults, bounds>>
  \/ \E u \in Users : Expire(u) \/ OtherDetector(u)

ESpec == EInit /\ [][ENext]_evars

-----------------------------------------------------------------------------
\* The transactions of a user that were counted: those with a result, with or without
\* an alert, and those whose drift sample was refused after the profile had changed.
Counting(u) ==
  Cardinality({m \in Messages : /\ Log[m].user = u
                                /\ \/ fate[m] \in {"handled", "refused", "no_sample"}
                                   \/ epc = "result" /\ m = message})

\* A user's transactions are counted once each, through loading, eviction, saving,
\* stopping and starting again: in memory, or in Redis when the user is not cached.
\* A crash, an expired profile or a save that failed may cost counts, and never adds any.
ProfileKeepsCount ==
  \A u \in Users :
    LET count == IF u \in CachedUsers THEN CountOf(u)
                 ELSE IF stored[u].type = "string" THEN stored[u].count ELSE 0
    IN count = Counting(u) \/ (u \in excused /\ count < Counting(u))
=============================================================================
