-------------------------- MODULE Lifecycle_proofs --------------------------
(***************************************************************************)
(* From drift to the model in use: the retraining loop and the registry.   *)
(* The loop, for every number of detectors and triggers, every interval and*)
(* cooldown; the registry, for every number of operators, detectors and    *)
(* models; and every bound on commands, time and faults.                   *)
(***************************************************************************)
EXTENDS ModelRegistry, DriftLoop, TLAPS

-----------------------------------------------------------------------------
(* The drift loop.                                                         *)

(* A running monitor without a baseline found none when it started.        *)
BaselineInv ==
    /\ baseline \in [Monitors -> {baseline[m] : m \in Monitors}]
    /\ watching \in [Monitors -> {watching[m] : m \in Monitors}]
    /\ \A m \in Monitors : watching[m] /\ baseline[m] = None => m \in uninformed

LEMMA BaselineInit == LoopInit => BaselineInv
BY DEF LoopInit, BaselineInv

(* Steps that leave the monitors' copies alone.                            *)
LEMMA BaselineIdle ==
    ASSUME BaselineInv, UNCHANGED <<watching, baseline, uninformed>>
    PROVE  BaselineInv'
BY DEF BaselineInv

LEMMA BaselineMonitor ==
    ASSUME BaselineInv, NEW m \in Monitors,
           StartMonitor(m) \/ RecordScore(m) \/ StopMonitor(m) \/ DeliverAlert(m)
    PROVE  BaselineInv'
<1>1. CASE StartMonitor(m)
  <2>1. /\ watching' = [watching EXCEPT ![m] = TRUE]
        /\ uninformed' = IF baseline'[m] = None THEN uninformed \cup {m} ELSE uninformed \ {m}
        /\ \E b : baseline' = [baseline EXCEPT ![m] = b]
    BY <1>1 DEF StartMonitor
  <2> QED
    BY <2>1 DEF BaselineInv
<1>2. CASE RecordScore(m)
  <2>1. UNCHANGED <<watching, uninformed>> /\ watching[m]
    BY <1>2 DEF RecordScore
  <2>2. baseline' = baseline \/ \E share : baseline' = [baseline EXCEPT ![m] = share]
    BY <1>2 DEF RecordScore, DriftCheck, Calibrate
  <2>3. baseline[m] # None => baseline' = baseline
    BY <1>2 DEF RecordScore, DriftCheck, Calibrate, Calibrates
  <2> QED
    BY <2>1, <2>2, <2>3 DEF BaselineInv
<1>3. CASE StopMonitor(m)
  BY <1>3 DEF StopMonitor, BaselineInv
<1>4. CASE DeliverAlert(m)
  BY <1>4, BaselineIdle DEF DeliverAlert
<1> QED
  BY <1>1, <1>2, <1>3, <1>4

-----------------------------------------------------------------------------
(* The partition has one holder, and only the holder has an alert at hand. *)
(* Redis knows the latest job, or its save is behind; a running trigger    *)
(* knows it, or had no way to.                                             *)
LatestJob == IF jobs = <<>> THEN Never ELSE Last(jobs)

CooldownInv ==
    /\ clock \in Nat /\ jobs \in Seq(Nat)
    /\ tpc \in [Triggers -> {"down", "poll", "handle", "save"}]
    /\ lastRetrain \in [Triggers -> Nat \cup {Never}] /\ savedRetrain \in Nat \cup {Never}
    /\ \A t \in Triggers :
          /\ tpc[t] \in {"handle", "save"} => holder = t
          /\ tpc[t] = "save" => lastRetrain[t] = LatestJob
          /\ tpc[t] # "down" /\ t \notin unaware => lastRetrain[t] = LatestJob
    /\ ~saveLags => savedRetrain = LatestJob

LEMMA CooldownInit == LoopInit => CooldownInv
BY DEF LoopInit, CooldownInv, LatestJob, Never

(* Steps in which no job is scheduled, loaded or saved.                    *)
LEMMA CooldownIdle ==
    ASSUME CooldownInv, UNCHANGED <<jobs, lastRetrain, savedRetrain, unaware, saveLags>>,
           clock' \in Nat, NEW t \in Triggers, NEW step \in {"down", "poll", "handle"},
           tpc' = tpc \/ (tpc' = [tpc EXCEPT ![t] = step] /\ (step # "down" => tpc[t] # "down")),
           \/ holder' = holder
           \/ holder = None /\ None \notin Triggers
           \/ holder = t /\ tpc'[t] = "down",
           tpc' # tpc /\ step = "handle" => holder' = t
    PROVE  CooldownInv'
<1>1. UNCHANGED LatestJob
  BY DEF LatestJob
<1>2. ASSUME NEW s \in Triggers
      PROVE  /\ tpc'[s] \in {"handle", "save"} => holder' = s
             /\ tpc'[s] = "save" => tpc[s] = "save"
             /\ tpc'[s] # "down" => tpc[s] # "down"
  BY DEF CooldownInv
<1>3. tpc' \in [Triggers -> {"down", "poll", "handle", "save"}]
  BY DEF CooldownInv
<1> QED
  BY <1>1, <1>2, <1>3 DEF CooldownInv

LEMMA CooldownStart ==
    ASSUME CooldownInv, NEW t \in Triggers, StartTrigger(t)
    PROVE  CooldownInv'
<1>1. /\ tpc[t] = "down" /\ tpc' = [tpc EXCEPT ![t] = "poll"]
      /\ UNCHANGED <<jobs, savedRetrain, saveLags, holder, clock>>
      /\ \/ /\ lastRetrain' = [lastRetrain EXCEPT ![t] = savedRetrain]
            /\ unaware' = IF saveLags THEN unaware \cup {t} ELSE unaware \ {t}
         \/ /\ lastRetrain' = [lastRetrain EXCEPT ![t] = Never]
            /\ unaware' = unaware \cup {t}
  BY DEF StartTrigger, TriggerGoto
<1>2. UNCHANGED LatestJob
  BY <1>1 DEF LatestJob
<1>3. /\ lastRetrain' \in [Triggers -> Nat \cup {Never}]
      /\ tpc' \in [Triggers -> {"down", "poll", "handle", "save"}]
  BY <1>1 DEF CooldownInv
<1>4. ASSUME NEW s \in Triggers
      PROVE  /\ tpc'[s] \in {"handle", "save"} => holder' = s
             /\ tpc'[s] = "save" => lastRetrain'[s] = LatestJob
             /\ tpc'[s] # "down" /\ s \notin unaware' => lastRetrain'[s] = LatestJob
  <2>1. CASE s = t
    BY <1>1, <2>1 DEF CooldownInv
  <2>2. CASE s # t
    BY <1>1, <2>2 DEF CooldownInv
  <2> QED
    BY <2>1, <2>2
<1> QED
  BY <1>1, <1>2, <1>3, <1>4 DEF CooldownInv

(* The latest job is known to the trigger that scheduled it alone.         *)
LEMMA CooldownHandle ==
    ASSUME CooldownInv, NEW t \in Triggers, HandleAlert(t)
    PROVE  CooldownInv'
<1>1. tpc[t] = "handle" /\ holder = t /\ UNCHANGED <<clock, holder, savedRetrain>>
  BY DEF HandleAlert, CooldownInv
<1>2. CASE ShouldRetrain(t, alertTopic[next])
  <2>1. /\ jobs' = Append(jobs, clock) /\ lastRetrain' = [lastRetrain EXCEPT ![t] = clock]
        /\ unaware' = {s \in Triggers : s # t /\ tpc[s] # "down"} /\ saveLags' = TRUE
        /\ tpc' = [tpc EXCEPT ![t] = "save"]
    BY <1>2 DEF HandleAlert, TriggerGoto
  <2>2. jobs' \in Seq(Nat) /\ LatestJob' = clock
    <3>1. jobs \in Seq(Nat) /\ clock \in Nat /\ jobs' = Append(jobs, clock)
      BY <2>1 DEF CooldownInv
    <3>2. /\ jobs' \in Seq(Nat) /\ jobs' # <<>>
          /\ Len(jobs') = Len(jobs) + 1 /\ jobs'[Len(jobs) + 1] = clock
      BY <3>1
    <3> QED
      BY <3>2 DEF LatestJob, Last
  <2>3. /\ lastRetrain' \in [Triggers -> Nat \cup {Never}]
        /\ tpc' \in [Triggers -> {"down", "poll", "handle", "save"}]
    BY <2>1 DEF CooldownInv
  <2>4. ASSUME NEW s \in Triggers
        PROVE  /\ tpc'[s] \in {"handle", "save"} => holder' = s
               /\ tpc'[s] = "save" => lastRetrain'[s] = clock
               /\ tpc'[s] # "down" /\ s \notin unaware' => lastRetrain'[s] = clock
    BY <1>1, <2>1 DEF CooldownInv
  <2> QED
    BY <1>1, <2>1, <2>2, <2>3, <2>4 DEF CooldownInv
<1>3. CASE ~ShouldRetrain(t, alertTopic[next])
  <2>1. /\ tpc' = [tpc EXCEPT ![t] = "poll"] /\ UNCHANGED <<jobs, lastRetrain, unaware, saveLags>>
    BY <1>3 DEF HandleAlert, TriggerGoto
  <2>2. clock' \in Nat
    BY <1>1 DEF CooldownInv
  <2> QED
    BY <1>1, <2>1, <2>2, CooldownIdle
<1> QED
  BY <1>2, <1>3

LEMMA CooldownSave ==
    ASSUME CooldownInv, NEW t \in Triggers, SaveState(t)
    PROVE  CooldownInv'
<1>1. /\ tpc[t] = "save" /\ tpc' = [tpc EXCEPT ![t] = "poll"]
      /\ UNCHANGED <<jobs, lastRetrain, unaware, holder, clock>>
      /\ \/ savedRetrain' = lastRetrain[t] /\ saveLags' = FALSE
         \/ UNCHANGED <<savedRetrain, saveLags>>
  BY DEF SaveState, TriggerGoto, SavedTime
<1>2. UNCHANGED LatestJob
  BY <1>1 DEF LatestJob
<1>3. savedRetrain' \in Nat \cup {Never} /\ (~saveLags' => savedRetrain' = LatestJob)
  BY <1>1 DEF CooldownInv
<1>4. ASSUME NEW s \in Triggers
      PROVE  /\ tpc'[s] \in {"handle", "save"} => holder' = s
             /\ tpc'[s] = "save" => tpc[s] = "save"
             /\ tpc'[s] # "down" => tpc[s] # "down"
  BY <1>1 DEF CooldownInv
<1>5. tpc' \in [Triggers -> {"down", "poll", "handle", "save"}]
  BY <1>1 DEF CooldownInv
<1> QED
  BY <1>1, <1>2, <1>3, <1>4, <1>5 DEF CooldownInv

(* The end of a trigger's process.                                         *)
LEMMA CooldownEnd ==
    ASSUME CooldownInv, NEW t \in Triggers, LoopError(t) \/ StopTrigger(t) \/ KillTrigger(t)
    PROVE  CooldownInv'
<1>1. UNCHANGED <<jobs, lastRetrain, savedRetrain, unaware, saveLags, clock>>
  BY DEF LoopError, StopTrigger, KillTrigger
<1>2. \/ UNCHANGED <<tpc, holder>>
      \/ tpc' = [tpc EXCEPT ![t] = "down"] /\ holder' = IF holder = t THEN None ELSE holder
  BY DEF LoopError, StopTrigger, KillTrigger, Cleanup, End, TriggerGoto
<1>3. clock' \in Nat /\ tpc \in [Triggers -> {"down", "poll", "handle", "save"}]
  BY <1>1 DEF CooldownInv
<1> QED
  BY <1>1, <1>2, <1>3, CooldownIdle

LEMMA CooldownTrigger ==
    ASSUME CooldownInv, NEW t \in Triggers, Assign(t) \/ PollAlert(t) \/ DeliverJob(t)
    PROVE  CooldownInv'
<1>1. clock' \in Nat /\ UNCHANGED <<jobs, lastRetrain, savedRetrain, unaware, saveLags>>
  BY DEF Assign, PollAlert, DeliverJob, CooldownInv, loopGhosts
<1>2. CASE Assign(t)
  BY <1>1, <1>2, DriftAssumption, CooldownIdle DEF Assign
<1>3. CASE PollAlert(t)
  BY <1>1, <1>3, CooldownIdle DEF PollAlert, TriggerGoto
<1>4. CASE DeliverJob(t)
  BY <1>1, <1>4, CooldownIdle DEF DeliverJob
<1> QED
  BY <1>2, <1>3, <1>4

LEMMA CooldownOthers ==
    ASSUME CooldownInv,
           \/ \E m \in Monitors : StartMonitor(m) \/ RecordScore(m) \/ DeliverAlert(m) \/ StopMonitor(m)
           \/ AutoCommit \/ Shift \/ Expire \/ Tick \/ UNCHANGED loopVars
    PROVE  CooldownInv'
<1>1. /\ UNCHANGED <<jobs, lastRetrain, savedRetrain, unaware, saveLags, tpc, holder>>
      /\ clock' \in Nat
  BY DEF StartMonitor, RecordScore, DeliverAlert, StopMonitor, AutoCommit, Shift, Expire, Tick, loopVars,
         loopGhosts, triggerVars, CooldownInv
<1>2. UNCHANGED LatestJob
  BY <1>1 DEF LatestJob
<1> QED
  BY <1>1, <1>2 DEF CooldownInv

-----------------------------------------------------------------------------
LoopInv == BaselineInv /\ CooldownInv

LEMMA LoopStep == LoopInv /\ [LoopNext]_loopVars => LoopInv'
<1> SUFFICES ASSUME LoopInv, [LoopNext]_loopVars PROVE LoopInv'
  OBVIOUS
<1>1. BaselineInv'
  <2>1. CASE \E m \in Monitors : StartMonitor(m) \/ RecordScore(m) \/ DeliverAlert(m) \/ StopMonitor(m)
    BY <2>1, BaselineMonitor DEF LoopInv
  <2>2. CASE \E t \in Triggers : \/ StartTrigger(t) \/ Assign(t) \/ RunTrigger(t)
                                 \/ LoopError(t) \/ StopTrigger(t) \/ KillTrigger(t)
    <3>1. UNCHANGED <<watching, baseline, uninformed>>
      BY <2>2 DEF StartTrigger, Assign, RunTrigger, PollAlert, HandleAlert, SaveState, DeliverJob,
                  LoopError, StopTrigger, KillTrigger, monitorVars
    <3> QED
      BY <3>1, BaselineIdle DEF LoopInv
  <2>3. CASE AutoCommit \/ Shift \/ Expire \/ Tick \/ UNCHANGED loopVars
    <3>1. UNCHANGED <<watching, baseline, uninformed>>
      BY <2>3 DEF AutoCommit, Shift, Expire, Tick, loopVars, monitorVars
    <3> QED
      BY <3>1, BaselineIdle DEF LoopInv
  <2> QED
    BY <2>1, <2>2, <2>3 DEF LoopNext
<1>2. CooldownInv'
  BY CooldownStart, CooldownHandle, CooldownSave, CooldownEnd, CooldownTrigger, CooldownOthers
     DEF LoopInv, LoopNext, RunTrigger
<1> QED
  BY <1>1, <1>2 DEF LoopInv

THEOREM LoopInvariant == LoopSpec => []LoopInv
BY BaselineInit, CooldownInit, LoopStep, PTL DEF LoopSpec, LoopInv

(* The baseline that all monitors share is replaced only by a monitor that *)
(* found none when it started (_calibrate_baseline), for every number of   *)
(* detectors and whatever Redis fails to do.                               *)
THEOREM StoredBaselineStays == LoopSpec => BaselineKept
<1>1. LoopInv /\ [LoopNext]_loopVars =>
        [storedBaseline # None => \/ storedBaseline' \in {storedBaseline, None}
                                  \/ \E m \in uninformed : storedBaseline' = baseline'[m]]_loopVars
  <2> SUFFICES ASSUME LoopInv, LoopNext, storedBaseline' \notin {storedBaseline, None}
               PROVE  \E m \in uninformed : storedBaseline' = baseline'[m]
    BY DEF loopVars
  <2>1. PICK m \in Monitors : RecordScore(m)
    BY DEF LoopNext, StartMonitor, DeliverAlert, StopMonitor, StartTrigger, Assign, RunTrigger,
           PollAlert, HandleAlert, SaveState, DeliverJob, LoopError, StopTrigger, KillTrigger,
           AutoCommit, Shift, Expire, Tick, monitorVars
  <2>2. PICK share : Calibrates(m) /\ Calibrate(m, share) /\ watching[m]
    BY <2>1 DEF RecordScore, DriftCheck
  <2>3. baseline'[m] = share /\ storedBaseline' = share
    BY <2>2 DEF Calibrate, LoopInv, BaselineInv
  <2>4. m \in uninformed
    BY <2>2 DEF Calibrates, LoopInv, BaselineInv
  <2> QED
    BY <2>3, <2>4
<1> QED
  BY <1>1, LoopInvariant, PTL DEF LoopSpec, BaselineKept

(* No trigger that could know of the latest job schedules another within   *)
(* the cooldown, whichever of them holds the partition and whenever they   *)
(* start, stop and fail to save (_should_retrain, _handle_alert).          *)
THEOREM CooldownIsKept == LoopSpec => CooldownKept
<1>1. LoopInv /\ [LoopNext]_loopVars =>
        [\A t \in Triggers :
            Len(jobs') > Len(jobs) /\ jobs # <<>> /\ tpc[t] = "handle" /\ tpc'[t] = "save"
               => clock - Last(jobs) >= Cooldown \/ t \in unaware]_loopVars
  <2> SUFFICES ASSUME LoopInv, LoopNext, NEW t \in Triggers, jobs # <<>>, t \notin unaware,
                      tpc[t] = "handle", tpc'[t] = "save"
               PROVE  clock - Last(jobs) >= Cooldown
    BY DEF loopVars
  <2>1. tpc \in [Triggers -> {"down", "poll", "handle", "save"}]
    BY DEF LoopInv, CooldownInv
  <2>2. HandleAlert(t) /\ ShouldRetrain(t, alertTopic[next])
    BY <2>1 DEF LoopNext, StartMonitor, RecordScore, DeliverAlert, StopMonitor, StartTrigger, Assign,
           RunTrigger, PollAlert, HandleAlert, SaveState, DeliverJob, LoopError, StopTrigger, KillTrigger,
           AutoCommit, Shift, Expire, Tick, triggerVars, TriggerGoto, Cleanup, End
  <2>3. lastRetrain[t] = Last(jobs) /\ Last(jobs) \in Nat
    BY DEF LoopInv, CooldownInv, LatestJob, Last
  <2> QED
    BY <2>2, <2>3 DEF ShouldRetrain, Never
<1> QED
  BY <1>1, LoopInvariant, PTL DEF LoopSpec, CooldownKept

-----------------------------------------------------------------------------
(* The registry.                                                           *)

Busy == {"store", "set_deployed", "set_serving", "archive", "save_models", "save_active"}

(* What an operator's step says of the operation in hand.                  *)
CommandOf(o) ==
    /\ pc[o] \in Busy \cup {"registered"} => command[o].model \in Models
    /\ pc[o] = "store" => command[o].op = "register"
    /\ pc[o] \in {"set_deployed", "set_serving", "archive"} =>
          command[o].op = "deploy" /\ models[o][command[o].model].version > 0
CommandInv == \A o \in Operators : CommandOf(o)

(* A release is only ever active in production, another model in staging.  *)
PlacedIn(f) == \A e \in Environments : f[e] # NoVersion => EnvironmentOf(f[e].model) = e
PlacedInv == PlacedIn(stored.active) /\ \A x \in Processes : PlacedIn(active[x])

(* Only the pipeline's models have more than one version.                  *)
Numbered(f) == \A m \in Models \ Trained : f[m].version <= 1
NumberedInv == Numbered(stored.models) /\ \A o \in Operators : Numbered(models[o])

(* The deployments f name no version that the models g do not know.        *)
Known(f, g) == \A e \in Environments : f[e] # NoVersion => f[e].version <= g[f[e].model].version

(* A copy that misses no save is not behind what is stored, and knows what *)
(* it says is active.                                                      *)
Fresh(o) == pc[o] # "closed" /\ o \notin stale
CopyInv(o) ==
    /\ \A m \in Models : stored.models[m].version <= models[o][m].version
    /\ pc[o] = "save_active" => models[o] = stored.models
    /\ pc[o] # "opening" => Known(active[o], models[o])

StoredInv ==
    /\ Known(stored.active, stored.models)
    /\ \A m \in Models : registered[m] <= stored.models[m].version
    /\ \A o \in Operators : Fresh(o) => CopyInv(o)

StaleInv == \A o \in stale : pc[o] # "closed"

RegistryInv ==
    /\ TypeOK /\ CommandInv /\ PlacedInv /\ NumberedInv /\ StaleInv
    /\ ~clobbered => StoredInv

(* A stale copy will be written back by the operation in hand, if nothing  *)
(* fails.                                                                  *)
Doomed == \E o \in stale : pc[o] \in Busy

(* What o's deployment has done, if any, at one of these steps, it has     *)
(* done to e.                                                              *)
Sets(o, e, steps) == /\ command[o].op = "deploy" /\ pc[o] \in steps
                     /\ EnvironmentOf(command[o].model) = e

\* What is deployed, or served, is what is stored as active, or what one of
\* the operators that are past their SET has set.
SetBy(f, steps) ==
    \A e \in Environments :
        \/ f[e] = stored.active[e] /\ ~\E o \in Operators : Sets(o, e, steps)
        \/ \E o \in Operators : Sets(o, e, steps) /\ f[e] = Latest(o, command[o].model)

Deploying == {"set_serving", "archive", "save_models", "save_active"}
Serving == {"archive", "save_models", "save_active"}

(* The copy of an operator is what is stored, but for its own deployment.  *)
OwnInv(o) ==
    /\ ~(command[o].op = "deploy" /\ pc[o] \in {"save_models", "save_active"}) =>
          active[o] = stored.active
    /\ command[o].op = "deploy" /\ pc[o] \in {"save_models", "save_active"} =>
          LET env == EnvironmentOf(command[o].model)
          IN  active[o] = [stored.active EXCEPT ![env] = Latest(o, command[o].model)]

AgreeInv ==
    /\ SetBy(deployed, Deploying)
    /\ SetBy(serving, Serving)
    /\ \A o \in Operators : Fresh(o) /\ pc[o] # "opening" => OwnInv(o)

DeployInv == clobbered \/ faults > 0 \/ Doomed \/ AgreeInv

-----------------------------------------------------------------------------
(* The steps, by the names the proofs below call them.                     *)
LEMMA Steps ==
    ASSUME Next
    PROVE  \/ \E o \in Operators :
                 \/ Open(o) \/ OpenActive(o) \/ Close(o) \/ Kill(o)
                 \/ \E m \in Models : Register(o, m)
                 \/ \E m \in Models : Deploy(o, m)
                 \/ StoreArtifact(o) \/ SetDeployed(o) \/ SetServing(o) \/ Archive(o)
                 \/ SaveModels(o) \/ SaveActive(o)
           \/ \E d \in Detectors : \/ StartDetector(d) \/ OpenInDetector(d) \/ LoadModel(d)
                                   \/ Refresh(d) \/ StopDetector(d)
BY DEF Next, Operate, Detect

LEMMA NothingTyped == /\ Unregistered \in [Models -> Entry] /\ NothingActive \in Deployments
                      /\ \A e \in Environments : NothingActive[e] = NoVersion
                      /\ \A m \in Models : Unregistered[m].version = 0
BY DEF Unregistered, NothingActive, Entry, Deployments, Stages

LEMMA VersionTyped == /\ NoVersion \notin Version /\ NoModel \notin Models
                      /\ \A v : v \in Version <=>
                            v = [model |-> v.model, version |-> v.version]
                               /\ v.model \in Models /\ v.version \in Nat /\ v.version > 0
BY RegistryAssumption DEF Version, NoVersion, Models

LEMMA StoredTyped ==
    ASSUME TypeOK
    PROVE  stored.models \in [Models -> Entry] /\ stored.active \in Deployments
BY DEF TypeOK

LEMMA LatestTyped ==
    ASSUME TypeOK, NEW x \in Processes, NEW m \in Models
    PROVE  /\ models[x][m].version \in Nat /\ models[x][m] \in Entry
           /\ Latest(x, m).model = m /\ Latest(x, m).version = models[x][m].version
           /\ models[x][m].version > 0 => Latest(x, m) \in Version
BY DEF TypeOK, Latest, Entry, Version

LEMMA ForgetTyped ==
    ASSUME TypeOK, NEW o \in Operators, Forget(o)
    PROVE  /\ models' \in [Processes -> [Models -> Entry]] /\ active' \in [Processes -> Deployments]
           /\ command' \in [Operators -> [op: {"register", "deploy"}, model: Models] \cup {NoCommand}]
           /\ pc' = [pc EXCEPT ![o] = "closed"]
           /\ pc'[o] = "closed"
BY NothingTyped DEF TypeOK, Forget, Goto

LEMMA TypeInit == Init => TypeOK /\ CommandInv
<1> SUFFICES ASSUME Init PROVE TypeOK /\ CommandInv
  OBVIOUS
<1> USE DEF Init
<1>1. PICK v \in {NoVersion} \cup [model: Releases, version: {1}] :
          /\ deployed = [NothingActive EXCEPT !["production"] = v]
          /\ stored = [models |-> [m \in Models |->
                                     IF m = v.model THEN [version |-> 1, stage |-> "production"]
                                     ELSE Unregistered[m]],
                       active |-> deployed]
          /\ artifacts = {v} \ {NoVersion}
  OBVIOUS
<1>2. v \in Version \cup {NoVersion}
  BY DEF Version, Models
<1>3. deployed \in Deployments
  BY <1>1, <1>2, NothingTyped DEF Deployments
<1>4. stored.models \in [Models -> Entry] /\ stored.active = deployed
  BY <1>1, NothingTyped DEF Entry, Stages
<1>5. stored \in [models: [Models -> Entry], active: Deployments]
  BY <1>1, <1>3, <1>4
<1>6. artifacts \in SUBSET Version
  BY <1>1, <1>2
<1>7. registered \in [Models -> Nat]
  BY <1>4 DEF Entry
<1>8. models \in [Processes -> [Models -> Entry]] /\ active \in [Processes -> Deployments]
  BY NothingTyped
<1>9. /\ pc \in [Operators -> {"closed"}] /\ command \in [Operators -> {NoCommand}]
      /\ detector \in [Detectors -> {"down"}] /\ served \in [Detectors -> {NoVersion}]
  OBVIOUS
<1>10. NoVersion.model = NoModel
  BY DEF NoVersion
<1>11. /\ pc \in [Operators -> {"closed", "opening", "ready", "store", "set_deployed",
                             "set_serving", "archive", "save_models", "save_active", "registered"}]
       /\ command \in [Operators -> [op: {"register", "deploy"}, model: Models] \cup {NoCommand}]
       /\ detector \in [Detectors -> {"down", "opening", "loading", "running"}]
       /\ served \in [Detectors -> {w \in Version \cup {NoVersion} : w.model \in Releases \cup {NoModel}}]
  BY <1>9, <1>10
<1>12. TypeOK
  BY <1>3, <1>5, <1>6, <1>7, <1>8, <1>11 DEF TypeOK
<1>13. CommandInv
  BY <1>9 DEF CommandInv, CommandOf, Busy
<1> QED
  BY <1>12, <1>13
-----------------------------------------------------------------------------
LEMMA TypeStep ==
    ASSUME TypeOK, CommandInv, PlacedInv, [Next]_vars
    PROVE  TypeOK'
<1> USE DEF vars, operatorVars, copyVars, redisVars, detectorVars, ghostVars
<1>1. CASE UNCHANGED vars
  BY <1>1 DEF TypeOK
<1>2. ASSUME NEW o \in Operators, Open(o) PROVE TypeOK'
  <2>1. models' \in [Processes -> [Models -> Entry]] /\ stale' \in SUBSET Operators /\ faults' \in Nat
    BY <1>2, StoredTyped DEF TypeOK, Open, Works, Fails, Processes
  <2>2. pc' = [pc EXCEPT ![o] = "opening"] \/ pc' = [pc EXCEPT ![o] = "ready"]
    BY <1>2 DEF Open, Goto
  <2> QED
    BY <1>2, <2>1, <2>2 DEF TypeOK, Open
<1>3. ASSUME NEW o \in Operators, OpenActive(o) PROVE TypeOK'
  BY <1>3 DEF TypeOK, OpenActive, Works, Fails, Goto, Processes
<1>4. ASSUME NEW o \in Operators, Close(o) PROVE TypeOK'
  BY <1>4, ForgetTyped DEF TypeOK, Close
<1>5. ASSUME NEW o \in Operators, Kill(o) PROVE TypeOK'
  BY <1>5, ForgetTyped DEF TypeOK, Kill, Fails
<1>6. ASSUME NEW o \in Operators, NEW m \in Models, Register(o, m) PROVE TypeOK'
  BY <1>6 DEF TypeOK, Register, Goto
<1>7. ASSUME NEW o \in Operators, NEW m \in Models, Deploy(o, m) PROVE TypeOK'
  BY <1>7 DEF TypeOK, Deploy, Goto
<1>8. ASSUME NEW o \in Operators, StoreArtifact(o) PROVE TypeOK'
  <2> DEFINE m == command[o].model
             v == NextVersion(o, m)
  <2>1. m \in Models /\ o \in Processes
    BY <1>8 DEF StoreArtifact, CommandInv, CommandOf, Busy, Processes
  <2>2. v \in Version /\ v.version \in Nat
    BY <2>1, LatestTyped DEF NextVersion, Version
  <2>3. [version |-> v.version, stage |-> RegistrationStage(m)] \in Entry
    BY <2>2 DEF Entry, RegistrationStage, Stages
  <2>4. CASE Fails /\ Forget(o) /\ stale' = stale \ {o} /\ UNCHANGED artifacts
    BY <2>4, <1>8, ForgetTyped DEF TypeOK, StoreArtifact, Fails
  <2>5. CASE /\ Works
             /\ artifacts' = artifacts \cup {v}
             /\ models' = [models EXCEPT ![o][m] =
                              [version |-> v.version, stage |-> RegistrationStage(m)]]
             /\ Goto(o, "save_models")
             /\ UNCHANGED <<active, command, stale>>
    <3>1. models' \in [Processes -> [Models -> Entry]]
      BY <2>1, <2>3, <2>5 DEF TypeOK
    <3>2. artifacts' \in SUBSET Version
      BY <2>2, <2>5 DEF TypeOK
    <3> QED
      BY <3>1, <3>2, <2>5, <1>8 DEF TypeOK, StoreArtifact, Works, Goto
  <2> QED
    BY <1>8, <2>4, <2>5 DEF StoreArtifact
<1>9. ASSUME NEW o \in Operators, SetDeployed(o) PROVE TypeOK'
  <2>1. command[o].model \in Models /\ models[o][command[o].model].version > 0 /\ o \in Processes
    BY <1>9 DEF SetDeployed, CommandInv, CommandOf, Busy, Processes
  <2>2. Latest(o, command[o].model) \in Version
    BY <2>1, LatestTyped
  <2>3. deployed' \in Deployments
    BY <1>9, <2>2 DEF SetDeployed, TypeOK, Deployments
  <2> QED
    BY <1>9, <2>3 DEF TypeOK, SetDeployed, Works, Fails, Goto
<1>10. ASSUME NEW o \in Operators, SetServing(o) PROVE TypeOK'
  <2>1. command[o].model \in Models /\ models[o][command[o].model].version > 0 /\ o \in Processes
    BY <1>10 DEF SetServing, CommandInv, CommandOf, Busy, Processes
  <2>2. Latest(o, command[o].model) \in Version
    BY <2>1, LatestTyped
  <2>3. serving' \in Deployments
    BY <1>10, <2>2 DEF SetServing, TypeOK, Deployments
  <2> QED
    BY <1>10, <2>3 DEF TypeOK, SetServing, Works, Fails, Goto
<1>11. ASSUME NEW o \in Operators, Archive(o) PROVE TypeOK'
  <2> DEFINE m == command[o].model
             env == EnvironmentOf(m)
             old == active[o][env]
  <2>1. m \in Models /\ models[o][m].version > 0 /\ o \in Processes
    BY <1>11 DEF Archive, CommandInv, CommandOf, Busy, Processes
  <2>2. Latest(o, m) \in Version
    BY <2>1, LatestTyped
  <2>3. env \in Environments /\ env \in Stages
    BY DEF EnvironmentOf, Environments, Stages
  <2>4. old \in Version \cup {NoVersion}
    BY <2>1, <2>3 DEF TypeOK, Deployments
  <2>5. CASE Fails /\ Forget(o) /\ stale' = stale \ {o} /\ UNCHANGED archived
    BY <2>5, <1>11, ForgetTyped DEF TypeOK, Archive, Fails
  <2>6. CASE /\ Works
             /\ models' = [models EXCEPT ![o][m].stage = env]
             /\ active' = [active EXCEPT ![o][env] = Latest(o, m)]
             /\ archived' = IF old = NoVersion THEN archived ELSE archived \cup {old}
             /\ Goto(o, "save_models")
             /\ UNCHANGED <<command, stale>>
    <3>1. [models[o][m] EXCEPT !.stage = env] \in Entry
      BY <2>1, <2>3, LatestTyped DEF Entry
    <3>2. models' \in [Processes -> [Models -> Entry]]
      BY <2>1, <2>6, <3>1 DEF TypeOK
    <3>3. active' \in [Processes -> Deployments]
      BY <2>1, <2>2, <2>3, <2>6 DEF TypeOK, Deployments
    <3>4. archived' \in SUBSET Version
      BY <2>4, <2>6 DEF TypeOK
    <3> QED
      BY <3>2, <3>3, <3>4, <2>6, <1>11 DEF TypeOK, Archive, Works, Goto
  <2> QED
    BY <1>11, <2>5, <2>6 DEF Archive
<1>12. ASSUME NEW o \in Operators, SaveModels(o) PROVE TypeOK'
  <2>1. command[o].model \in Models /\ o \in Processes
    BY <1>12 DEF SaveModels, CommandInv, CommandOf, Busy, Processes
  <2>2. models[o] \in [Models -> Entry] /\ models[o][command[o].model].version \in Nat
    BY <2>1, LatestTyped DEF TypeOK
  <2>3. CASE Fails /\ EndOperation(o) /\ stale' = {x \in stale : pc'[x] # "closed"}
               /\ UNCHANGED <<stored, registered, clobbered>>
    <3>1. CASE Forget(o)
      <4>1. stale' \in SUBSET Operators /\ faults' \in Nat
        BY <2>3 DEF TypeOK, Fails
      <4> QED
        BY <4>1, <3>1, <2>3, <1>12, ForgetTyped DEF TypeOK, SaveModels
    <3>2. CASE Goto(o, "registered") /\ UNCHANGED <<copyVars, command>>
      BY <3>2, <2>3, <1>12 DEF TypeOK, SaveModels, Fails, Goto
    <3> QED
      BY <2>3, <3>1, <3>2 DEF EndOperation
  <2>4. CASE /\ Works
             /\ stored' = [stored EXCEPT !.models = models[o]]
             /\ registered' = [registered EXCEPT ![command[o].model] =
                                  models[o][command[o].model].version]
             /\ clobbered' = (clobbered \/ o \in stale)
             /\ stale' = StaleAfter(o)
             /\ Goto(o, "save_active")
             /\ UNCHANGED <<command, copyVars>>
    <3>1. stored' \in [models: [Models -> Entry], active: Deployments]
      BY <2>2, <2>4 DEF TypeOK
    <3>2. registered' \in [Models -> Nat]
      BY <2>1, <2>2, <2>4 DEF TypeOK
    <3> QED
      BY <3>1, <3>2, <2>4, <1>12 DEF TypeOK, SaveModels, Works, Goto, StaleAfter
  <2> QED
    BY <1>12, <2>3, <2>4 DEF SaveModels, SavedModels
<1>13. ASSUME NEW o \in Operators, SaveActive(o) PROVE TypeOK'
  <2>1. /\ stored' \in [models: [Models -> Entry], active: Deployments]
        /\ clobbered' \in BOOLEAN /\ stale' \in SUBSET Operators /\ faults' \in Nat
    <3>1. active[o] \in Deployments
      BY DEF TypeOK, Processes
    <3>2. CASE Works /\ stored' = [stored EXCEPT !.active = active[o]]
                 /\ clobbered' = (clobbered \/ o \in stale)
                 /\ stale' = {x \in StaleAfter(o) : pc'[x] # "closed"}
      BY <3>1, <3>2 DEF TypeOK, Works, StaleAfter
    <3>3. CASE Fails /\ stale' = {x \in stale : pc'[x] # "closed"} /\ UNCHANGED <<stored, clobbered>>
      BY <3>3 DEF TypeOK, Fails
    <3> QED
      BY <1>13, <3>2, <3>3 DEF SaveActive, SavedActive
  <2>2. CASE Forget(o)
    BY <2>1, <2>2, <1>13, ForgetTyped DEF TypeOK, SaveActive
  <2>3. CASE Goto(o, "registered") /\ UNCHANGED <<copyVars, command>>
    BY <2>1, <2>3, <1>13 DEF TypeOK, SaveActive, Goto
  <2> QED
    BY <1>13, <2>2, <2>3 DEF SaveActive, EndOperation
<1>14. ASSUME NEW d \in Detectors, StartDetector(d) PROVE TypeOK'
  <2>1. models' \in [Processes -> [Models -> Entry]] /\ faults' \in Nat
    <3>1. CASE Works /\ models' = [models EXCEPT ![d] = stored.models]
      BY <3>1, StoredTyped DEF TypeOK, Works, Processes
    <3>2. CASE Fails /\ UNCHANGED models
      BY <3>2 DEF TypeOK, Fails
    <3> QED
      BY <1>14, <3>1, <3>2 DEF StartDetector
  <2>2. detector' = [detector EXCEPT ![d] = "opening"] \/ detector' = [detector EXCEPT ![d] = "loading"]
    BY <1>14 DEF StartDetector
  <2> QED
    BY <1>14, <2>1, <2>2 DEF TypeOK, StartDetector
<1>15. ASSUME NEW d \in Detectors, OpenInDetector(d) PROVE TypeOK'
  <2>1. active' \in [Processes -> Deployments] /\ faults' \in Nat
    BY <1>15, StoredTyped DEF TypeOK, OpenInDetector, Works, Fails, Processes
  <2> QED
    BY <1>15, <2>1 DEF TypeOK, OpenInDetector
<1>16. ASSUME NEW d \in Detectors, CanLoadActive(d)
       PROVE  ActiveModel(d) \in {v \in Version \cup {NoVersion} : v.model \in Releases \cup {NoModel}}
  <2>1. d \in Processes /\ "production" \in Environments
    BY DEF Processes, Environments
  <2>2. active[d]["production"] \in Version
    BY <1>16, <2>1 DEF CanLoadActive, TypeOK, Deployments
  <2>3. active[d]["production"].model \in Releases
    BY <1>16, <2>1, <2>2 DEF PlacedInv, PlacedIn, CanLoadActive, EnvironmentOf
  <2>4. ActiveModel(d) \in Version
    BY <1>16 DEF CanLoadActive, TypeOK
  <2> QED
    BY <2>3, <2>4 DEF ActiveModel, Latest
<1>17. ASSUME NEW d \in Detectors, LoadModel(d) PROVE TypeOK'
  BY <1>16, <1>17 DEF TypeOK, LoadModel, Works, Fails
<1>18. ASSUME NEW d \in Detectors, Refresh(d) PROVE TypeOK'
  BY <1>16, <1>18 DEF TypeOK, Refresh
<1>19. ASSUME NEW d \in Detectors, StopDetector(d) PROVE TypeOK'
  <2>1. served' \in [Detectors -> {v \in Version \cup {NoVersion} : v.model \in Releases \cup {NoModel}}]
    BY <1>19 DEF TypeOK, StopDetector, NoVersion
  <2> QED
    BY <2>1, <1>19, NothingTyped DEF TypeOK, StopDetector, Fails, Processes
<1> QED
  BY Steps, <1>1, <1>2, <1>3, <1>4, <1>5, <1>6, <1>7, <1>8, <1>9, <1>10, <1>11, <1>12, <1>13,
     <1>14, <1>15, <1>17, <1>18, <1>19

-----------------------------------------------------------------------------
(* What a step leaves alone: a detector everything but its own copy, an    *)
(* operator the copies and operations of the others.                       *)
LEMMA DetectorFrame ==
    ASSUME TypeOK, NEW d \in Detectors, Detect(d)
    PROVE  /\ UNCHANGED <<operatorVars, redisVars, stale, clobbered, registered, commands>>
           /\ \A x \in Processes \ {d} : models'[x] = models[x] /\ active'[x] = active[x]
           /\ active'[d] \in {active[d], stored.active, NothingActive}
           /\ faults' \in Nat /\ faults' >= faults
<1> USE DEF Processes
<1>1. CASE StartDetector(d)
  BY <1>1 DEF TypeOK, StartDetector, Works, Fails, redisVars
<1>2. CASE OpenInDetector(d)
  BY <1>2 DEF TypeOK, OpenInDetector, Works, Fails, redisVars
<1>3. CASE LoadModel(d)
  BY <1>3 DEF TypeOK, LoadModel, Works, Fails, copyVars, redisVars
<1>4. CASE Refresh(d)
  BY <1>4 DEF TypeOK, Refresh, copyVars, redisVars, ghostVars
<1>5. CASE StopDetector(d)
  BY <1>5 DEF TypeOK, StopDetector, Fails, redisVars
<1> QED
  BY <1>1, <1>2, <1>3, <1>4, <1>5 DEF Detect

(* What an operator's step does to its own copy and operation.             *)
Forgotten(o) == /\ pc'[o] = "closed" /\ models'[o] = Unregistered /\ active'[o] = NothingActive
                /\ command'[o] = NoCommand
KeptModels(o) == models'[o] = models[o] /\ active'[o] = active[o] /\ command'[o] = command[o]

LEMMA ForgetFrame ==
    ASSUME TypeOK, NEW o \in Operators, Forget(o)
    PROVE  /\ Forgotten(o)
           /\ \A x \in Operators \ {o} : pc'[x] = pc[x] /\ command'[x] = command[x]
           /\ \A x \in Processes \ {o} : models'[x] = models[x] /\ active'[x] = active[x]
BY DEF TypeOK, Forget, Goto, Forgotten, Processes

LEMMA EndFrame ==
    ASSUME TypeOK, NEW o \in Operators, EndOperation(o)
    PROVE  /\ Forgotten(o) \/ (pc'[o] = "registered" /\ KeptModels(o) /\ command[o].op = "register")
           /\ \A x \in Operators \ {o} : pc'[x] = pc[x] /\ command'[x] = command[x]
           /\ \A x \in Processes \ {o} : models'[x] = models[x] /\ active'[x] = active[x]
<1>1. CASE Forget(o)
  BY <1>1, ForgetFrame
<1>2. CASE /\ command[o].op = "register" /\ Goto(o, "registered") /\ UNCHANGED <<copyVars, command>>
  BY <1>2 DEF TypeOK, Goto, KeptModels, copyVars
<1> QED
  BY <1>1, <1>2 DEF EndOperation

LEMMA OthersFrame ==
    ASSUME TypeOK, NEW o \in Operators, Operate(o)
    PROVE  /\ \A x \in Operators \ {o} : pc'[x] = pc[x] /\ command'[x] = command[x]
           /\ \A x \in Processes \ {o} : models'[x] = models[x] /\ active'[x] = active[x]
           /\ faults' \in Nat /\ faults' >= faults
<1> USE DEF Processes
<1>0. faults \in Nat /\ o \in Processes
  BY DEF TypeOK
<1>1. CASE Open(o)
  BY <1>0, <1>1 DEF TypeOK, Open, Works, Fails, Goto
<1>2. CASE OpenActive(o)
  BY <1>0, <1>2 DEF TypeOK, OpenActive, Works, Fails, Goto
<1>3. CASE Close(o)
  BY <1>0, <1>3, ForgetFrame DEF Close
<1>4. CASE Kill(o)
  BY <1>0, <1>4, ForgetFrame DEF Kill, Fails
<1>5. ASSUME NEW m \in Models, Register(o, m) \/ Deploy(o, m)
      PROVE  /\ \A x \in Operators \ {o} : pc'[x] = pc[x] /\ command'[x] = command[x]
             /\ UNCHANGED <<models, active, faults>>
  BY <1>5 DEF TypeOK, Register, Deploy, Goto, copyVars
<1>6. CASE StoreArtifact(o)
  BY <1>0, <1>6, ForgetFrame DEF TypeOK, StoreArtifact, Works, Fails, Goto
<1>7. CASE SetDeployed(o)
  BY <1>0, <1>7 DEF TypeOK, SetDeployed, Works, Fails, Goto, copyVars
<1>8. CASE SetServing(o)
  BY <1>0, <1>8 DEF TypeOK, SetServing, Works, Fails, Goto, copyVars
<1>9. CASE Archive(o)
  BY <1>0, <1>9, ForgetFrame DEF TypeOK, Archive, Works, Fails, Goto
<1>10. CASE SaveModels(o)
  BY <1>0, <1>10, EndFrame DEF TypeOK, SaveModels, Works, Fails, Goto, copyVars
<1>11. CASE SaveActive(o)
  BY <1>0, <1>11, EndFrame DEF SaveActive, Works, Fails
<1> QED
  BY <1>0, <1>1, <1>2, <1>3, <1>4, <1>5, <1>6, <1>7, <1>8, <1>9, <1>10, <1>11 DEF Operate

-----------------------------------------------------------------------------
LEMMA CommandOfStep ==
    ASSUME TypeOK, CommandInv, NEW o \in Operators, Operate(o)
    PROVE  CommandOf(o)'
<1> USE DEF CommandOf, Busy
<1>0. CommandOf(o) /\ o \in Processes
  BY DEF CommandInv, Processes
<1>1. CASE Forgotten(o)
  BY <1>1 DEF Forgotten
<1>2. CASE pc'[o] = "registered" /\ KeptModels(o) /\ pc[o] \in Busy
  BY <1>0, <1>2 DEF KeptModels
<1>3. CASE Open(o) \/ OpenActive(o)
  BY <1>0, <1>3 DEF TypeOK, Open, OpenActive, Goto
<1>4. CASE Close(o) \/ Kill(o)
  BY <1>1, <1>4, ForgetFrame DEF Close, Kill
<1>5. ASSUME NEW m \in Models, Register(o, m) PROVE CommandOf(o)'
  BY <1>5 DEF TypeOK, Register, Goto
<1>6. ASSUME NEW m \in Models, Deploy(o, m) PROVE CommandOf(o)'
  BY <1>6 DEF TypeOK, Deploy, Goto, ReadyFor, copyVars
<1>7. CASE StoreArtifact(o)
  BY <1>0, <1>1, <1>7, ForgetFrame DEF TypeOK, StoreArtifact, Goto
<1>8. CASE SetDeployed(o) \/ SetServing(o)
  BY <1>0, <1>8 DEF TypeOK, SetDeployed, SetServing, Goto, copyVars
<1>9. CASE Archive(o)
  BY <1>0, <1>1, <1>9, ForgetFrame DEF TypeOK, Archive, Goto
<1>10. CASE SaveModels(o)
  BY <1>0, <1>1, <1>2, <1>10, EndFrame DEF TypeOK, SaveModels, Goto, copyVars
<1>11. CASE SaveActive(o)
  BY <1>0, <1>1, <1>2, <1>11, EndFrame DEF SaveActive
<1> QED
  BY <1>3, <1>4, <1>5, <1>6, <1>7, <1>8, <1>9, <1>10, <1>11 DEF Operate

LEMMA CommandStep ==
    ASSUME TypeOK, CommandInv, [Next]_vars
    PROVE  CommandInv'
<1>1. CASE UNCHANGED vars
  BY <1>1 DEF CommandInv, CommandOf, vars, operatorVars, copyVars
<1>2. ASSUME NEW o \in Operators, Operate(o) PROVE CommandInv'
  BY <1>2, CommandOfStep, OthersFrame DEF CommandInv, CommandOf, Processes
<1>3. ASSUME NEW d \in Detectors, Detect(d) PROVE CommandInv'
  BY <1>3, DetectorFrame, RegistryAssumption DEF CommandInv, CommandOf, Processes, operatorVars
<1> QED
  BY <1>1, <1>2, <1>3 DEF Next

(* What becomes of an operator's copy of the models, and of the stored one. *)
LEMMA ModelsFrame ==
    ASSUME TypeOK, CommandInv, NEW o \in Operators, Operate(o)
    PROVE  /\ \/ models'[o] \in {models[o], stored.models, Unregistered}
              \/ \A m \in Models : \/ models'[o][m].version = models[o][m].version
                                   \/ m \in Trained \/ models'[o][m].version = 1
           /\ stored'.models \in {stored.models, models[o]}
<1>0. o \in Processes /\ CommandOf(o) /\ models[o] \in [Models -> Entry]
  BY DEF CommandInv, Processes, TypeOK
<1>1. CASE Open(o) \/ OpenActive(o)
  BY <1>0, <1>1 DEF TypeOK, Open, OpenActive, redisVars
<1>2. CASE Close(o) \/ Kill(o)
  BY <1>2, ForgetFrame DEF Close, Kill, Forgotten, redisVars
<1>3. ASSUME NEW m \in Models, Register(o, m) \/ Deploy(o, m)
      PROVE  UNCHANGED <<models, stored>>
  BY <1>3 DEF Register, Deploy, copyVars, redisVars
<1>4. CASE StoreArtifact(o)
  <2> DEFINE m == command[o].model
  <2>1. m \in Models
    BY <1>0, <1>4 DEF StoreArtifact, CommandOf, Busy
  <2>2. CASE Forget(o)
    BY <2>2, <1>4, ForgetFrame DEF StoreArtifact, Forgotten
  <2>3. CASE models' = [models EXCEPT ![o][m] =
                          [version |-> NextVersion(o, m).version, stage |-> RegistrationStage(m)]]
    <3>1. \A n \in Models \ {m} : models'[o][n] = models[o][n]
      BY <1>0, <2>1, <2>3 DEF TypeOK
    <3>2. models'[o][m].version = NextVersion(o, m).version
      BY <1>0, <2>1, <2>3 DEF TypeOK
    <3>3. m \in Trained \/ NextVersion(o, m).version = 1
      BY DEF NextVersion
    <3> QED
      BY <1>4, <3>1, <3>2, <3>3 DEF StoreArtifact
  <2> QED
    BY <1>4, <2>2, <2>3 DEF StoreArtifact
<1>5. CASE SetDeployed(o) \/ SetServing(o)
  BY <1>5 DEF SetDeployed, SetServing, copyVars
<1>6. CASE Archive(o)
  <2> DEFINE m == command[o].model
  <2>1. m \in Models
    BY <1>0, <1>6 DEF Archive, CommandOf, Busy
  <2>2. CASE Forget(o)
    BY <2>2, <1>6, ForgetFrame DEF Archive, Forgotten
  <2>3. CASE models' = [models EXCEPT ![o][m].stage = EnvironmentOf(m)]
    BY <1>0, <1>6, <2>1, <2>3 DEF TypeOK, Entry, Archive
  <2> QED
    BY <1>6, <2>2, <2>3 DEF Archive
<1>7. CASE SaveModels(o)
  BY <1>7, EndFrame DEF SaveModels, SavedModels, Forgotten, KeptModels, copyVars, TypeOK
<1>8. CASE SaveActive(o)
  BY <1>8, EndFrame DEF SaveActive, Forgotten, KeptModels, TypeOK
<1> QED
  BY <1>1, <1>2, <1>3, <1>4, <1>5, <1>6, <1>7, <1>8 DEF Operate

LEMMA NumberedStep ==
    ASSUME TypeOK, CommandInv, NumberedInv, [Next]_vars
    PROVE  NumberedInv'
<1> USE DEF NumberedInv, Numbered
<1>1. CASE UNCHANGED vars
  BY <1>1 DEF vars, copyVars, redisVars
<1>2. ASSUME NEW o \in Operators, Operate(o) PROVE NumberedInv'
  <2>1. Numbered(stored'.models)
    BY <1>2, ModelsFrame
  <2>2. Numbered(models'[o])
    BY <1>2, ModelsFrame, NothingTyped
  <2> QED
    BY <1>2, <2>1, <2>2, OthersFrame DEF Processes
<1>3. ASSUME NEW d \in Detectors, Detect(d) PROVE NumberedInv'
  BY <1>3, DetectorFrame, RegistryAssumption DEF Processes, redisVars
<1> QED
  BY <1>1, <1>2, <1>3 DEF Next

(* What becomes of an operator's copy of the deployments.                  *)
LEMMA ActiveFrame ==
    ASSUME TypeOK, CommandInv, NEW o \in Operators, Operate(o)
    PROVE  /\ \/ active'[o] \in {active[o], stored.active, NothingActive}
              \/ /\ pc[o] = "archive" /\ command[o].model \in Models
                 /\ active'[o] = [active[o] EXCEPT ![EnvironmentOf(command[o].model)] =
                                     Latest(o, command[o].model)]
           /\ stored'.active \in {stored.active, active[o]}
<1>0. o \in Processes /\ CommandOf(o) /\ active[o] \in Deployments
  BY DEF CommandInv, Processes, TypeOK
<1>1. CASE Open(o) \/ OpenActive(o)
  BY <1>0, <1>1 DEF TypeOK, Open, OpenActive, redisVars
<1>2. CASE Close(o) \/ Kill(o)
  BY <1>2, ForgetFrame DEF Close, Kill, Forgotten, redisVars
<1>3. ASSUME NEW m \in Models, Register(o, m) \/ Deploy(o, m)
      PROVE  UNCHANGED <<active, stored>>
  BY <1>3 DEF Register, Deploy, copyVars, redisVars
<1>4. CASE StoreArtifact(o)
  BY <1>4, ForgetFrame DEF StoreArtifact, Forgotten
<1>5. CASE SetDeployed(o) \/ SetServing(o)
  BY <1>5 DEF SetDeployed, SetServing, copyVars
<1>6. CASE Archive(o)
  <2> DEFINE m == command[o].model
  <2>1. m \in Models /\ pc[o] = "archive"
    BY <1>0, <1>6 DEF Archive, CommandOf, Busy
  <2>2. CASE Forget(o)
    BY <2>2, <1>6, ForgetFrame DEF Archive, Forgotten
  <2>3. CASE active' = [active EXCEPT ![o][EnvironmentOf(m)] = Latest(o, m)]
    BY <1>0, <1>6, <2>1, <2>3 DEF TypeOK, Archive
  <2> QED
    BY <1>6, <2>2, <2>3 DEF Archive
<1>7. CASE SaveModels(o)
  BY <1>7, EndFrame DEF SaveModels, SavedModels, Forgotten, KeptModels, copyVars, TypeOK
<1>8. CASE SaveActive(o)
  BY <1>8, EndFrame DEF SaveActive, SavedActive, Forgotten, KeptModels, TypeOK
<1> QED
  BY <1>1, <1>2, <1>3, <1>4, <1>5, <1>6, <1>7, <1>8 DEF Operate

LEMMA PlacedStep ==
    ASSUME TypeOK, CommandInv, PlacedInv, [Next]_vars
    PROVE  PlacedInv'
<1>0. PlacedIn(NothingActive)
  BY NothingTyped DEF PlacedIn
<1>1. CASE UNCHANGED vars
  BY <1>1 DEF vars, copyVars, redisVars, PlacedInv, PlacedIn
<1>2. ASSUME NEW o \in Operators, Operate(o) PROVE PlacedInv'
  <2>0. o \in Processes /\ active[o] \in Deployments /\ PlacedIn(active[o]) /\ PlacedIn(stored.active)
    BY DEF Processes, TypeOK, PlacedInv
  <2>1. PlacedIn(stored'.active)
    BY <1>2, <2>0, ActiveFrame
  <2>2. PlacedIn(active'[o])
    <3>1. CASE active'[o] \in {active[o], stored.active, NothingActive}
      BY <1>0, <2>0, <3>1
    <3>2. CASE active'[o] = [active[o] EXCEPT ![EnvironmentOf(command[o].model)] =
                               Latest(o, command[o].model)]
      BY <2>0, <3>2 DEF PlacedIn, Deployments, Latest
    <3> QED
      BY <1>2, <3>1, <3>2, ActiveFrame
  <2>3. \A x \in Processes \ {o} : PlacedIn(active'[x])
    BY <1>2, OthersFrame DEF PlacedInv
  <2> QED
    BY <2>1, <2>2, <2>3 DEF PlacedInv, PlacedIn
<1>3. ASSUME NEW d \in Detectors, Detect(d) PROVE PlacedInv'
  <2>1. stored'.active = stored.active
    BY <1>3, DetectorFrame DEF redisVars
  <2>2. \A x \in Processes : PlacedIn(active'[x])
    BY <1>0, <1>3, DetectorFrame DEF PlacedInv
  <2> QED
    BY <2>1, <2>2 DEF PlacedInv, PlacedIn
<1> QED
  BY <1>1, <1>2, <1>3 DEF Next

-----------------------------------------------------------------------------
LEMMA StaleStep ==
    ASSUME TypeOK, StaleInv, [Next]_vars
    PROVE  StaleInv'
<1> USE DEF StaleInv
<1>1. CASE UNCHANGED vars
  BY <1>1 DEF vars, operatorVars, ghostVars
<1>2. ASSUME NEW o \in Operators, Operate(o) PROVE StaleInv'
  <2>0. \A x \in Operators \ {o} : pc'[x] = pc[x]
    BY <1>2, OthersFrame
  <2>1. CASE Open(o) \/ OpenActive(o)
    BY <2>1 DEF TypeOK, Open, OpenActive, Goto
  <2>2. CASE Close(o) \/ Kill(o)
    BY <2>0, <2>2 DEF TypeOK, Close, Kill
  <2>3. ASSUME NEW m \in Models, Register(o, m) \/ Deploy(o, m) PROVE StaleInv'
    BY <2>3 DEF TypeOK, Register, Deploy, Goto
  <2>4. CASE StoreArtifact(o)
    BY <2>0, <2>4 DEF TypeOK, StoreArtifact, Goto
  <2>5. CASE SetDeployed(o) \/ SetServing(o)
    BY <2>5 DEF TypeOK, SetDeployed, SetServing, Goto
  <2>6. CASE Archive(o)
    BY <2>0, <2>6 DEF TypeOK, Archive, Goto
  <2>7. CASE SaveModels(o)
    BY <2>0, <2>7 DEF TypeOK, SaveModels, Goto, StaleAfter
  <2>8. CASE SaveActive(o)
    BY <2>0, <2>8 DEF SaveActive
  <2> QED
    BY <1>2, <2>1, <2>2, <2>3, <2>4, <2>5, <2>6, <2>7, <2>8 DEF Operate
<1>3. ASSUME NEW d \in Detectors, Detect(d) PROVE StaleInv'
  BY <1>3, DetectorFrame DEF operatorVars
<1> QED
  BY <1>1, <1>2, <1>3 DEF Next

-----------------------------------------------------------------------------
(* A save by a copy that misses none brings what is stored forward, and    *)
(* leaves no other copy fresh; any other step leaves what is stored alone, *)
(* and no other copy becomes fresh.                                        *)
Saves(o) == /\ o \notin stale /\ \A x \in Operators \ {o} : ~Fresh(x)'
LeavesStored(o) == /\ UNCHANGED <<stored, registered>>
                   /\ \A x \in Operators \ {o} : Fresh(x)' => Fresh(x)

LEMMA SaveFrame ==
    ASSUME TypeOK, StaleInv, NEW o \in Operators, Operate(o), ~clobbered'
    PROVE  /\ ~clobbered
           /\ \/ LeavesStored(o)
              \/ /\ Saves(o) /\ pc[o] = "save_models" /\ pc'[o] = "save_active" /\ KeptModels(o)
                 /\ stored'.models = models[o] /\ stored'.active = stored.active
                 /\ registered' = [registered EXCEPT ![command[o].model] =
                                      models[o][command[o].model].version]
              \/ /\ Saves(o) /\ pc[o] = "save_active" /\ EndOperation(o) /\ faults' = faults
                 /\ stored'.models = stored.models /\ stored'.active = active[o]
                 /\ UNCHANGED <<registered, deployed, serving>>
<1>0. \A x \in Operators \ {o} : pc'[x] = pc[x]
  BY OthersFrame
<1> USE DEF LeavesStored, Fresh
<1>1. CASE Open(o) \/ OpenActive(o)
  BY <1>0, <1>1 DEF Open, OpenActive, redisVars
<1>2. CASE Close(o) \/ Kill(o)
  BY <1>0, <1>2 DEF Close, Kill, redisVars
<1>3. ASSUME NEW m \in Models, Register(o, m) \/ Deploy(o, m)
      PROVE  LeavesStored(o) /\ ~clobbered
  BY <1>0, <1>3 DEF Register, Deploy, redisVars
<1>4. CASE StoreArtifact(o)
  BY <1>0, <1>4 DEF StoreArtifact
<1>5. CASE SetDeployed(o) \/ SetServing(o)
  BY <1>0, <1>5 DEF SetDeployed, SetServing
<1>6. CASE Archive(o)
  BY <1>0, <1>6 DEF Archive
<1>7. CASE SaveModels(o)
  <2>1. CASE Works /\ stored' = [stored EXCEPT !.models = SavedModels(o)] /\ Goto(o, "save_active")
             /\ clobbered' = (clobbered \/ o \in stale) /\ stale' = StaleAfter(o)
             /\ registered' = [registered EXCEPT ![command[o].model] =
                                   models[o][command[o].model].version]
             /\ UNCHANGED <<command, copyVars>>
    <3>1. ~clobbered /\ o \notin stale
      BY <2>1
    <3>2. Saves(o)
      BY <3>1, <1>0, <2>1 DEF Saves, StaleAfter
    <3>3. pc[o] = "save_models" /\ pc'[o] = "save_active" /\ KeptModels(o)
      BY <1>7, <2>1 DEF SaveModels, Goto, KeptModels, copyVars, TypeOK
    <3>4. stored'.models = models[o] /\ stored'.active = stored.active
      BY <2>1 DEF SavedModels, TypeOK
    <3> QED
      BY <3>1, <3>2, <3>3, <3>4, <2>1
  <2>2. CASE Fails /\ EndOperation(o) /\ stale' = {x \in stale : pc'[x] # "closed"}
               /\ UNCHANGED <<stored, registered, clobbered>>
    BY <1>0, <2>2 DEF StaleInv
  <2> QED
    BY <1>7, <2>1, <2>2 DEF SaveModels
<1>8. CASE SaveActive(o)
  <2>1. CASE Works /\ stored' = [stored EXCEPT !.active = SavedActive(o)]
             /\ clobbered' = (clobbered \/ o \in stale)
             /\ stale' = {x \in StaleAfter(o) : pc'[x] # "closed"}
    <3>1. ~clobbered /\ o \notin stale
      BY <2>1
    <3>2. Saves(o)
      BY <3>1, <1>0, <2>1 DEF Saves, StaleAfter
    <3>3. stored'.models = stored.models /\ stored'.active = active[o]
      BY <2>1 DEF SavedActive, TypeOK
    <3> QED
      BY <3>1, <3>2, <3>3, <2>1, <1>8 DEF SaveActive, Works
  <2>2. CASE Fails /\ stale' = {x \in stale : pc'[x] # "closed"} /\ UNCHANGED <<stored, clobbered>>
    BY <1>0, <1>8, <2>2 DEF StaleInv, SaveActive
  <2> QED
    BY <1>8, <2>1, <2>2 DEF SaveActive
<1> QED
  BY <1>1, <1>2, <1>3, <1>4, <1>5, <1>6, <1>7, <1>8 DEF Operate

(* The acting operator's copy stays ahead of what is stored.               *)
LEMMA CopyStep ==
    ASSUME TypeOK, CommandInv, NumberedInv, StaleInv, StoredInv, NEW o \in Operators, Operate(o),
           UNCHANGED stored, Fresh(o)'
    PROVE  CopyInv(o)'
<1>0. /\ o \in Processes
      /\ models[o] \in [Models -> Entry] /\ active[o] \in Deployments
      /\ stored.models \in [Models -> Entry] /\ stored.active \in Deployments
  BY DEF Processes, TypeOK
<1>a. CommandOf(o)
  BY DEF CommandInv
<1>b. Fresh(o) => CopyInv(o)
  BY DEF StoredInv
<1>1. ASSUME UNCHANGED <<models[o], active[o]>>, Fresh(o), pc'[o] # "save_active",
             pc[o] # "opening"
      PROVE  CopyInv(o)'
  BY <1>b, <1>1 DEF CopyInv, Known
<1>2. CASE Open(o)
  BY <1>0, <1>2 DEF TypeOK, Open, Goto, Fresh, CopyInv, Entry, Processes
<1>3. CASE OpenActive(o)
  <2>1. Fresh(o) /\ pc[o] = "opening" /\ pc'[o] = "ready" /\ models'[o] = models[o]
        /\ active'[o] = stored.active
    BY <1>0, <1>3 DEF OpenActive, Works, Fails, Goto, Fresh, TypeOK
  <2>2. Known(stored.active, stored.models)
    BY DEF StoredInv
  <2>3. \A e \in Environments : stored.active[e] # NoVersion =>
            /\ stored.active[e].model \in Models /\ stored.active[e].version \in Nat
            /\ models[o][stored.active[e].model].version \in Nat
            /\ stored.models[stored.active[e].model].version \in Nat
    BY <1>0, VersionTyped DEF Deployments, Entry
  <2>4. Known(stored.active, models[o])
    BY <1>b, <1>0, <2>1, <2>2, <2>3 DEF Known, CopyInv
  <2> QED
    BY <1>b, <2>1, <2>4 DEF CopyInv, Known
<1>4. CASE Close(o) \/ Kill(o)
  BY <1>4, ForgetFrame DEF Close, Kill, Fresh, Forgotten
<1>5. ASSUME NEW m \in Models, Register(o, m) \/ Deploy(o, m) PROVE CopyInv(o)'
  BY <1>0, <1>1, <1>5 DEF Register, Deploy, Goto, copyVars, Fresh, TypeOK
<1>6. CASE StoreArtifact(o)
  <2> DEFINE m == command[o].model
             n == NextVersion(o, m).version
  <2>1. m \in Models /\ pc[o] = "store"
    BY <1>a, <1>6 DEF StoreArtifact, CommandOf, Busy
  <2>2. CASE Forget(o)
    BY <2>2, ForgetFrame DEF Fresh, Forgotten
  <2>3. CASE /\ models' = [models EXCEPT ![o][m] = [version |-> n, stage |-> RegistrationStage(m)]]
             /\ Goto(o, "save_models") /\ UNCHANGED <<active, stale>>
    <3>1. \A k \in Models \ {m} : models'[o][k] = models[o][k]
      BY <1>0, <2>1, <2>3 DEF TypeOK
    <3>2. models'[o][m].version = n
      BY <1>0, <2>1, <2>3 DEF TypeOK
    <3>3. n \in Nat /\ n >= models[o][m].version
      BY <1>0, <2>1 DEF NextVersion, NumberedInv, Numbered, Entry
    <3>4. \A k \in Models : models'[o][k].version >= models[o][k].version
                           /\ models'[o][k].version \in Nat /\ models[o][k].version \in Nat
      BY <1>0, <2>1, <3>1, <3>2, <3>3 DEF Entry
    <3>5. Fresh(o) /\ pc'[o] = "save_models"
      BY <2>1, <2>3 DEF Fresh, Goto, TypeOK
    <3>6. \A k \in Models : stored.models[k].version <= models'[o][k].version
      BY <1>b, <1>0, <2>1, <3>4, <3>5 DEF CopyInv, Entry
    <3>7. \A e \in Environments : active[o][e] # NoVersion =>
              active[o][e].model \in Models /\ active[o][e].version \in Nat
      BY <1>0, VersionTyped DEF Deployments
    <3>8. Known(active[o], models[o])
      BY <1>b, <2>1, <3>5 DEF CopyInv
    <3>9. \A e \in Environments : active[o][e] # NoVersion =>
              active[o][e].version <= models'[o][active[o][e].model].version
      BY <3>4, <3>7, <3>8 DEF Known
    <3> QED
      BY <2>3, <3>5, <3>6, <3>9 DEF CopyInv, Known
  <2> QED
    BY <1>6, <2>2, <2>3 DEF StoreArtifact
<1>7. CASE SetDeployed(o) \/ SetServing(o)
  BY <1>0, <1>1, <1>7 DEF SetDeployed, SetServing, Goto, copyVars, Fresh, TypeOK
<1>8. CASE Archive(o)
  <2> DEFINE m == command[o].model
             env == EnvironmentOf(m)
  <2>1. m \in Models /\ pc[o] = "archive" /\ env \in Environments
    BY <1>a, <1>8 DEF Archive, CommandOf, Busy, EnvironmentOf, Environments
  <2>2. CASE Forget(o)
    BY <2>2, ForgetFrame DEF Fresh, Forgotten
  <2>3. CASE /\ models' = [models EXCEPT ![o][m].stage = env]
             /\ active' = [active EXCEPT ![o][env] = Latest(o, m)]
             /\ Goto(o, "save_models") /\ UNCHANGED stale
    <3>1. \A k \in Models : models'[o][k].version = models[o][k].version
      BY <1>0, <2>1, <2>3 DEF TypeOK, Entry
    <3>2. active'[o] = [active[o] EXCEPT ![env] = Latest(o, m)]
      BY <1>0, <2>3 DEF TypeOK
    <3>3. Fresh(o) /\ pc'[o] = "save_models"
      BY <2>1, <2>3 DEF Fresh, Goto, TypeOK
    <3>4. Known(active[o], models[o]) /\ models[o][m].version \in Nat
      BY <1>b, <1>0, <2>1, <3>3 DEF CopyInv, Entry
    <3>5. \A e \in Environments : active'[o][e] # NoVersion =>
              active'[o][e].version <= models[o][active'[o][e].model].version
      BY <1>0, <2>1, <3>2, <3>4 DEF Known, Latest, Deployments
    <3>6. \A e \in Environments : active'[o][e] # NoVersion => active'[o][e].model \in Models
      <4>1. \A e \in Environments \ {env} : active'[o][e] = active[o][e]
        BY <1>0, <3>2 DEF Deployments
      <4>2. active'[o][env] = Latest(o, m)
        BY <1>0, <2>1, <3>2 DEF Deployments
      <4> QED
        BY <1>0, <2>1, <4>1, <4>2, VersionTyped DEF Deployments, Latest
    <3> QED
      BY <1>b, <2>1, <3>1, <3>3, <3>5, <3>6 DEF CopyInv, Known
  <2> QED
    BY <1>8, <2>2, <2>3 DEF Archive
<1>9. CASE SaveModels(o) \/ SaveActive(o)
  <2>1. CASE Forgotten(o)
    BY <2>1 DEF Fresh, Forgotten
  <2>2. CASE pc'[o] = "registered" /\ KeptModels(o) /\ o \notin stale /\ pc[o] \in {"save_models", "save_active"}
    BY <1>b, <2>2 DEF CopyInv, Known, KeptModels, Fresh
  <2>3. CASE /\ pc[o] = "save_models" /\ pc'[o] = "save_active" /\ KeptModels(o)
             /\ stored' = [stored EXCEPT !.models = SavedModels(o)] /\ stale' = StaleAfter(o)
    <3>1. models[o] = stored.models
      BY <2>3 DEF SavedModels, TypeOK
    <3>2. CASE Fresh(o)
      BY <1>b, <1>0, <2>3, <3>1, <3>2 DEF CopyInv, Known, KeptModels, Entry
    <3> QED
      BY <2>3, <3>2 DEF Fresh, StaleAfter
  <2> QED
    BY <1>9, <2>1, <2>2, <2>3, EndFrame
       DEF SaveModels, SaveActive, StaleAfter, Fresh, Goto, TypeOK, KeptModels, copyVars
<1> QED
  BY <1>2, <1>3, <1>4, <1>5, <1>6, <1>7, <1>8, <1>9 DEF Operate

LEMMA StoredStep ==
    ASSUME TypeOK, CommandInv, NumberedInv, StaleInv, ~clobbered => StoredInv, [Next]_vars, ~clobbered'
    PROVE  StoredInv'
<1>1. CASE UNCHANGED vars
  BY <1>1 DEF StoredInv, CopyInv, Known, Fresh, vars, operatorVars, copyVars, redisVars, ghostVars
<1>2. ASSUME NEW o \in Operators, Operate(o) PROVE StoredInv'
  <2>0. o \in Processes /\ \A x \in Operators : x \in Processes
    BY DEF Processes
  <2>1. StoredInv /\ ~clobbered
    BY <1>2, SaveFrame
  <2>2. CASE LeavesStored(o)
    <3>1. Fresh(o)' => CopyInv(o)'
      BY <1>2, <2>1, <2>2, CopyStep DEF LeavesStored
    <3>2. ASSUME NEW x \in Operators \ {o}, Fresh(x)' PROVE CopyInv(x)'
      <4>1. CopyInv(x)
        BY <2>1, <2>2, <3>2 DEF LeavesStored, StoredInv
      <4> QED
        BY <1>2, <2>0, <2>2, <4>1, OthersFrame DEF LeavesStored, CopyInv, Known
    <3>3. Known(stored.active, stored.models)' /\ \A m \in Models : registered'[m] <= stored'.models[m].version
      BY <2>1, <2>2 DEF LeavesStored, StoredInv, Known
    <3> QED
      BY <3>1, <3>2, <3>3 DEF StoredInv
  <2>3. CASE Saves(o) /\ pc[o] \in {"save_models", "save_active"}
    <3>1. CopyInv(o)
      BY <2>1, <2>3 DEF StoredInv, Saves, Fresh
    <3>2. \A x \in Operators \ {o} : Fresh(x)' => CopyInv(x)'
      BY <2>3 DEF Saves
    <3>3. CASE /\ pc[o] = "save_models" /\ pc'[o] = "save_active" /\ KeptModels(o)
               /\ stored'.models = models[o] /\ stored'.active = stored.active
               /\ registered' = [registered EXCEPT ![command[o].model] =
                                    models[o][command[o].model].version]
      <4>1. \A m \in Models : /\ stored.models[m].version <= models[o][m].version
                              /\ stored.models[m].version \in Nat /\ models[o][m].version \in Nat
        BY <2>0, <3>1, StoredTyped DEF CopyInv, TypeOK, Entry
      <4>2. \A e \in Environments : stored.active[e] # NoVersion =>
                stored.active[e].model \in Models /\ stored.active[e].version \in Nat
        BY StoredTyped, VersionTyped DEF Deployments
      <4>3. Known(stored'.active, stored'.models)
        BY <2>1, <3>3, <4>1, <4>2 DEF Known, StoredInv
      <4>4. \A m \in Models : registered'[m] <= stored'.models[m].version
        <5>1. \A m \in Models : registered[m] <= stored.models[m].version /\ registered[m] \in Nat
          BY <2>1 DEF StoredInv, TypeOK
        <5>2. \A m \in Models : registered'[m] = registered[m] \/ registered'[m] = models[o][m].version
          BY <3>3 DEF TypeOK
        <5> QED
          BY <3>3, <4>1, <5>1, <5>2
      <4>5. CopyInv(o)'
        BY <3>1, <3>3, <4>1 DEF CopyInv, Known, KeptModels
      <4> QED
        BY <3>2, <4>3, <4>4, <4>5 DEF StoredInv, Known
    <3>4. CASE /\ pc[o] = "save_active" /\ EndOperation(o)
               /\ stored'.models = stored.models /\ stored'.active = active[o]
               /\ UNCHANGED registered
      <4>1. models[o] = stored.models /\ Known(active[o], models[o])
        BY <3>1, <3>4 DEF CopyInv
      <4>2. Known(stored'.active, stored'.models)
        BY <3>4, <4>1
      <4>3. Fresh(o)' => CopyInv(o)'
        BY <3>1, <3>4, EndFrame DEF CopyInv, Known, KeptModels, Fresh, Forgotten
      <4>4. \A m \in Models : registered'[m] <= stored'.models[m].version
        BY <2>1, <3>4 DEF StoredInv
      <4> QED
        BY <3>2, <4>2, <4>3, <4>4 DEF StoredInv, Known
    <3> QED
      BY <1>2, <2>1, <2>3, <3>3, <3>4, SaveFrame, <2>2
  <2> QED
    BY <1>2, <2>2, <2>3, SaveFrame
<1>3. ASSUME NEW d \in Detectors, Detect(d) PROVE StoredInv'
  <2>1. /\ UNCHANGED <<pc, stored, registered, stale>> /\ StoredInv
        /\ \A x \in Operators : models'[x] = models[x] /\ active'[x] = active[x]
    BY <1>3, DetectorFrame, RegistryAssumption DEF operatorVars, redisVars, Processes
  <2> QED
    BY <2>1 DEF StoredInv, CopyInv, Known, Fresh
<1> QED
  BY <1>1, <1>2, <1>3 DEF Next

-----------------------------------------------------------------------------
LEMMA RegistryInit == Init => RegistryInv
<1> SUFFICES ASSUME Init PROVE RegistryInv
  OBVIOUS
<1>1. PICK v \in {NoVersion} \cup [model: Releases, version: {1}] :
          /\ deployed = [NothingActive EXCEPT !["production"] = v]
          /\ stored = [models |-> [m \in Models |->
                                     IF m = v.model THEN [version |-> 1, stage |-> "production"]
                                     ELSE Unregistered[m]],
                       active |-> deployed]
  BY DEF Init
<1>2. /\ \A e \in Environments : stored.active[e] = IF e = "production" THEN v ELSE NoVersion
      /\ \A m \in Models : stored.models[m].version = IF m = v.model THEN 1 ELSE 0
      /\ v = NoVersion \/ (v.model \in Releases /\ v.version = 1)
  BY <1>1, NothingTyped DEF NothingActive, Environments
<1>3. /\ \A x \in Processes : models[x] = Unregistered /\ active[x] = NothingActive
      /\ \A o \in Operators : pc[o] = "closed"
      /\ stale = {} /\ \A m \in Models : registered[m] = stored.models[m].version
  BY DEF Init
<1>4. PlacedInv
  BY <1>2, <1>3, NothingTyped DEF PlacedInv, PlacedIn, EnvironmentOf
<1>5. NumberedInv
  BY <1>2, <1>3, NothingTyped DEF NumberedInv, Numbered, Processes
<1>6. StoredInv
  <2>1. Known(stored.active, stored.models)
    BY <1>2 DEF Known, Models
  <2>2. \A m \in Models : registered[m] <= stored.models[m].version
    BY <1>2, <1>3
  <2> QED
    BY <1>3, <2>1, <2>2 DEF StoredInv, Fresh
<1>7. StaleInv
  BY <1>3 DEF StaleInv
<1> QED
  BY <1>4, <1>5, <1>6, <1>7, TypeInit DEF RegistryInv

(* Whatever the operators and the detectors do, and whenever a command     *)
(* fails or a process is killed, RegistryInv holds.                        *)
THEOREM RegistryInvariant == Spec => []RegistryInv
<1>1. RegistryInv /\ [Next]_vars => RegistryInv'
  BY TypeStep, CommandStep, PlacedStep, NumberedStep, StaleStep, StoredStep DEF RegistryInv
<1> QED
  BY <1>1, RegistryInit, PTL DEF Spec

(* _save_registry_state writes the models and the deployments with two     *)
(* SETs, and any process may be killed between them: for every number of   *)
(* processes and models, the stored deployments never name a version that  *)
(* the stored registry does not have, until a process that could not read  *)
(* the registry, or whose copy misses another's save, writes it back.      *)
THEOREM ActiveVersionsRegistered == Spec => []ActiveIsRegistered
<1>1. RegistryInv => ActiveIsRegistered
  BY DEF RegistryInv, StoredInv, Known, ActiveIsRegistered
<1> QED
  BY <1>1, RegistryInvariant, PTL

(* A registration whose save succeeded outlives every later registration,  *)
(* deployment, failure and kill, under the same condition.                 *)
THEOREM RegistrationsStay == Spec => []RegistrationsSurvive
<1>1. ASSUME RegistryInv PROVE RegistrationsSurvive
  <2>1. \A m \in Models : stored.models[m].version \in Nat /\ registered[m] \in Nat
    BY <1>1 DEF RegistryInv, TypeOK, Entry
  <2> QED
    BY <1>1, <2>1 DEF RegistryInv, StoredInv, RegistrationsSurvive
<1> QED
  BY <1>1, RegistryInvariant, PTL

-----------------------------------------------------------------------------
(* Without a failure, an operation that has begun with a stale copy ends   *)
(* by writing it back.                                                     *)
LEMMA DoomStays ==
    ASSUME RegistryInv, Doomed, NEW o \in Operators, Operate(o), UNCHANGED faults
    PROVE  Doomed' \/ clobbered'
<1> USE DEF Doomed, Busy
<1>0. PICK x \in stale : pc[x] \in Busy
  OBVIOUS
<1>1. /\ ~Fails /\ TypeOK /\ x \in Operators
      /\ \A y \in Operators \ {o} : pc'[y] = pc[y]
  <2>1. TypeOK
    BY DEF RegistryInv
  <2> QED
    BY <2>1, OthersFrame DEF Fails, TypeOK
<1>2. CASE Open(o) \/ OpenActive(o)
  BY <1>0, <1>1, <1>2 DEF Open, OpenActive
<1>3. CASE Close(o) \/ Kill(o)
  BY <1>0, <1>1, <1>3 DEF Close, Kill
<1>4. ASSUME NEW m \in Models, Register(o, m) \/ Deploy(o, m)
      PROVE  Doomed'
  BY <1>0, <1>1, <1>4 DEF Register, Deploy, Goto, TypeOK
<1>5. CASE StoreArtifact(o)
  BY <1>0, <1>1, <1>5 DEF StoreArtifact, Goto, TypeOK
<1>6. CASE SetDeployed(o) \/ SetServing(o)
  BY <1>0, <1>1, <1>6 DEF SetDeployed, SetServing, Goto, TypeOK
<1>7. CASE Archive(o)
  BY <1>0, <1>1, <1>7 DEF Archive, Goto, TypeOK
<1>8. CASE SaveModels(o)
  BY <1>0, <1>1, <1>8 DEF SaveModels, StaleAfter, Goto, TypeOK
<1>9. CASE SaveActive(o)
  BY <1>0, <1>1, <1>9 DEF SaveActive, StaleAfter, TypeOK
<1> QED
  BY <1>2, <1>3, <1>4, <1>5, <1>6, <1>7, <1>8, <1>9 DEF Operate

(* A step that sets nothing, and moves nobody past or out of its SETs.     *)
SetsStay(steps) ==
    \A x \in Operators :
        /\ command[x].op = "deploy" /\ pc[x] \in steps <=> command'[x].op = "deploy" /\ pc'[x] \in steps
        /\ command[x].op = "deploy" /\ pc[x] \in steps =>
              /\ command'[x] = command[x]
              /\ models'[x][command[x].model].version = models[x][command[x].model].version

LEMMA SetByStays ==
    ASSUME NEW steps, SetsStay(steps), stored'.active = stored.active
    PROVE  /\ SetBy(deployed, steps) /\ UNCHANGED deployed => SetBy(deployed, steps)'
           /\ SetBy(serving, steps) /\ UNCHANGED serving => SetBy(serving, steps)'
<1>1. \A x \in Operators, e \in Environments :
          /\ Sets(x, e, steps)' <=> Sets(x, e, steps)
          /\ Sets(x, e, steps) => Latest(x, command[x].model)' = Latest(x, command[x].model)
  BY DEF SetsStay, Sets, Latest
<1> QED
  BY <1>1 DEF SetBy

LEMMA SetsStayBy ==
    ASSUME RegistryInv, NEW steps, steps \in {Deploying, Serving}, NEW o \in Operators, Operate(o),
           command[o].op = "deploy" /\ pc[o] \in steps <=> command'[o].op = "deploy" /\ pc'[o] \in steps,
           command[o].op = "deploy" /\ pc[o] \in steps =>
              /\ command'[o] = command[o]
              /\ models'[o][command[o].model].version = models[o][command[o].model].version
    PROVE  SetsStay(steps)
BY OthersFrame DEF SetsStay, RegistryInv, Processes

(* What a step that saves no deployments does to what is deployed.         *)
LEMMA SetStep ==
    ASSUME RegistryInv, AgreeInv, NEW o \in Operators, Operate(o), ~SaveActive(o), UNCHANGED faults
    PROVE  SetBy(deployed, Deploying)' /\ SetBy(serving, Serving)'
<1>0. /\ ~Fails /\ TypeOK /\ CommandOf(o) /\ o \in Processes
      /\ SetBy(deployed, Deploying) /\ SetBy(serving, Serving)
      /\ \A x \in Operators \ {o} : pc'[x] = pc[x] /\ command'[x] = command[x] /\ models'[x] = models[x]
  <2>1. TypeOK
    BY DEF RegistryInv
  <2> QED
    BY <2>1, OthersFrame DEF Fails, TypeOK, RegistryInv, CommandInv, Processes, AgreeInv
<1>1. ASSUME UNCHANGED <<deployed, serving, stored>>, pc[o] \notin Deploying, pc'[o] \notin Deploying
      PROVE  SetBy(deployed, Deploying)' /\ SetBy(serving, Serving)'
  <2>1. SetsStay(Deploying) /\ SetsStay(Serving)
    BY <1>1, SetsStayBy DEF Deploying, Serving
  <2> QED
    BY <1>0, <1>1, <2>1, SetByStays
<1>2. CASE Open(o) \/ OpenActive(o) \/ Close(o)
  <2>1. UNCHANGED <<deployed, serving, stored>> /\ pc[o] \notin Deploying /\ pc'[o] \notin Deploying
    BY <1>0, <1>2 DEF Open, OpenActive, Close, Forget, Goto, redisVars, Deploying, TypeOK
  <2> QED
    BY <1>1, <2>1
<1>3. CASE Kill(o)
  BY <1>0, <1>3 DEF Kill
<1>4. ASSUME NEW m \in Models, Register(o, m) \/ Deploy(o, m)
      PROVE  SetBy(deployed, Deploying)' /\ SetBy(serving, Serving)'
  <2>1. UNCHANGED <<deployed, serving, stored>> /\ pc[o] \notin Deploying /\ pc'[o] \notin Deploying
    BY <1>0, <1>4 DEF Register, Deploy, Goto, redisVars, Deploying, TypeOK
  <2> QED
    BY <1>1, <2>1
<1>5. CASE StoreArtifact(o)
  <2>1. UNCHANGED <<deployed, serving, stored, command>> /\ command[o].op = "register"
    BY <1>0, <1>5 DEF StoreArtifact, CommandOf
  <2>2. SetsStay(Deploying) /\ SetsStay(Serving)
    BY <2>1, SetsStayBy
  <2> QED
    BY <1>0, <2>1, <2>2, SetByStays
<1>6. CASE SetDeployed(o)
  <2> DEFINE m == command[o].model
             env == EnvironmentOf(m)
  <2>1. /\ deployed' = [deployed EXCEPT ![env] = Latest(o, m)] /\ pc[o] = "set_deployed" /\ pc'[o] = "set_serving"
        /\ UNCHANGED <<command, models, stored, serving>> /\ command[o].op = "deploy"
    BY <1>0, <1>6 DEF SetDeployed, Goto, copyVars, TypeOK, CommandOf
  <2>2. SetBy(serving, Serving)'
    <3>1. SetsStay(Serving)
      BY <2>1, SetsStayBy DEF Serving
    <3> QED
      BY <1>0, <2>1, <3>1, SetByStays
  <2>3. env \in Environments /\ deployed'[env] = Latest(o, m)
        /\ \A e \in Environments \ {env} : deployed'[e] = deployed[e]
    BY <1>0, <2>1 DEF TypeOK, Deployments, EnvironmentOf, Environments
  <2>4. Sets(o, env, Deploying)' /\ Latest(o, command[o].model)' = Latest(o, m)
    BY <2>1 DEF Sets, Deploying, Latest
  <2>5. \A e \in Environments \ {env}, x \in Operators :
            /\ Sets(x, e, Deploying)' <=> Sets(x, e, Deploying)
            /\ Latest(x, command[x].model)' = Latest(x, command[x].model)
    BY <1>0, <2>1 DEF Sets, Latest
  <2>6. SetBy(deployed, Deploying)'
    BY <1>0, <2>1, <2>3, <2>4, <2>5 DEF SetBy
  <2> QED
    BY <2>2, <2>6
<1>7. CASE SetServing(o)
  <2> DEFINE m == command[o].model
             env == EnvironmentOf(m)
  <2>1. /\ serving' = [serving EXCEPT ![env] = Latest(o, m)] /\ pc[o] = "set_serving" /\ pc'[o] = "archive"
        /\ UNCHANGED <<command, models, stored, deployed>> /\ command[o].op = "deploy"
    BY <1>0, <1>7 DEF SetServing, Goto, copyVars, TypeOK, CommandOf
  <2>2. SetBy(deployed, Deploying)'
    <3>1. SetsStay(Deploying)
      BY <2>1, SetsStayBy DEF Deploying
    <3> QED
      BY <1>0, <2>1, <3>1, SetByStays
  <2>3. env \in Environments /\ serving'[env] = Latest(o, m)
        /\ \A e \in Environments \ {env} : serving'[e] = serving[e]
    BY <1>0, <2>1 DEF TypeOK, Deployments, EnvironmentOf, Environments
  <2>4. Sets(o, env, Serving)' /\ Latest(o, command[o].model)' = Latest(o, m)
    BY <2>1 DEF Sets, Serving, Latest
  <2>5. \A e \in Environments \ {env}, x \in Operators :
            /\ Sets(x, e, Serving)' <=> Sets(x, e, Serving)
            /\ Latest(x, command[x].model)' = Latest(x, command[x].model)
    BY <1>0, <2>1 DEF Sets, Latest
  <2>6. SetBy(serving, Serving)'
    BY <1>0, <2>1, <2>3, <2>4, <2>5 DEF SetBy
  <2> QED
    BY <2>2, <2>6
<1>8. CASE Archive(o)
  <2> DEFINE m == command[o].model
  <2>1. /\ models' = [models EXCEPT ![o][m].stage = EnvironmentOf(m)] /\ m \in Models
        /\ pc[o] = "archive" /\ pc'[o] = "save_models"
        /\ UNCHANGED <<command, stored, deployed, serving>>
    BY <1>0, <1>8 DEF Archive, Goto, TypeOK, CommandOf, Busy
  <2>2. models'[o][m].version = models[o][m].version
    BY <1>0, <2>1 DEF TypeOK, Entry
  <2>3. SetsStay(Deploying) /\ SetsStay(Serving)
    BY <2>1, <2>2, SetsStayBy DEF Deploying, Serving
  <2> QED
    BY <1>0, <2>1, <2>3, SetByStays
<1>9. CASE SaveModels(o)
  <2>1. /\ pc[o] = "save_models" /\ pc'[o] = "save_active"
        /\ stored'.active = stored.active /\ UNCHANGED <<command, models, deployed, serving>>
    BY <1>0, <1>9 DEF SaveModels, Goto, copyVars, TypeOK
  <2>2. SetsStay(Deploying) /\ SetsStay(Serving)
    BY <2>1, SetsStayBy DEF Deploying, Serving
  <2> QED
    BY <1>0, <2>1, <2>2, SetByStays
<1> QED
  BY <1>2, <1>3, <1>4, <1>5, <1>6, <1>7, <1>8, <1>9 DEF Operate

(* An operator that is not stale records its own deployment, and no other. *)
LEMMA OwnStep ==
    ASSUME RegistryInv, AgreeInv, NEW o \in Operators, Operate(o), ~SaveActive(o), UNCHANGED faults,
           Fresh(o)', pc'[o] # "opening"
    PROVE  OwnInv(o)'
<1>0. /\ ~Fails /\ TypeOK /\ CommandOf(o) /\ o \in Processes
  <2>1. TypeOK
    BY DEF RegistryInv
  <2> QED
    BY <2>1, OthersFrame DEF Fails, TypeOK, RegistryInv, CommandInv, Processes
<1>1. Fresh(o) /\ pc[o] # "opening" => OwnInv(o)
  BY DEF AgreeInv
<1>2. CASE Open(o)
  BY <1>0, <1>2 DEF Open, Goto, TypeOK
<1>3. CASE OpenActive(o)
  BY <1>0, <1>3 DEF OpenActive, Goto, TypeOK, OwnInv, redisVars
<1>4. CASE Close(o) \/ Kill(o)
  BY <1>0, <1>4, ForgetFrame DEF Close, Kill, Fresh, Forgotten
<1>5. ASSUME NEW m \in Models, Register(o, m) \/ Deploy(o, m) PROVE OwnInv(o)'
  BY <1>0, <1>1, <1>5 DEF Register, Deploy, Goto, copyVars, redisVars, Fresh, TypeOK, OwnInv
<1>6. CASE StoreArtifact(o)
  BY <1>0, <1>1, <1>6 DEF StoreArtifact, Goto, Fresh, TypeOK, OwnInv, CommandOf
<1>7. CASE SetDeployed(o) \/ SetServing(o)
  BY <1>0, <1>1, <1>7 DEF SetDeployed, SetServing, Goto, copyVars, Fresh, TypeOK, OwnInv
<1>8. CASE Archive(o)
  <2> DEFINE m == command[o].model
             env == EnvironmentOf(m)
  <2>1. /\ models' = [models EXCEPT ![o][m].stage = env] /\ active' = [active EXCEPT ![o][env] = Latest(o, m)]
        /\ pc[o] = "archive" /\ pc'[o] = "save_models" /\ UNCHANGED <<command, stale, stored>>
        /\ m \in Models /\ command[o].op = "deploy"
    BY <1>0, <1>8 DEF Archive, Goto, TypeOK, CommandOf, Busy
  <2>2. active[o] = stored.active
    BY <1>1, <2>1 DEF Fresh, OwnInv
  <2>3. active'[o] = [stored.active EXCEPT ![env] = Latest(o, m)]
    BY <1>0, <2>1, <2>2 DEF TypeOK
  <2>4. Latest(o, m)' = Latest(o, m)
    BY <1>0, <2>1 DEF TypeOK, Entry, Latest
  <2> QED
    BY <2>1, <2>3, <2>4 DEF OwnInv
<1>9. CASE SaveModels(o)
  <2>1. /\ pc[o] = "save_models" /\ pc'[o] = "save_active" /\ KeptModels(o)
        /\ stored'.active = stored.active /\ stale' = StaleAfter(o)
    BY <1>0, <1>9 DEF SaveModels, Goto, copyVars, TypeOK, KeptModels
  <2>2. Fresh(o) /\ models'[o] = models[o]
    BY <2>1 DEF Fresh, StaleAfter, KeptModels
  <2> QED
    BY <1>1, <2>1, <2>2 DEF OwnInv, KeptModels, Latest
<1> QED
  BY <1>2, <1>3, <1>4, <1>5, <1>6, <1>7, <1>8, <1>9 DEF Operate

(* The save of the deployments, which ends an operation: with no other     *)
(* operation left that could end without writing a stale copy back, what   *)
(* is deployed and served is what has been saved.                          *)
LEMMA SaveAgrees ==
    ASSUME RegistryInv, AgreeInv, ~Doomed, ~Doomed', ~clobbered', NEW o \in Operators, Operate(o),
           SaveActive(o), UNCHANGED faults
    PROVE  AgreeInv'
<1>0. /\ TypeOK /\ CommandOf(o) /\ o \in Processes /\ pc[o] = "save_active"
      /\ UNCHANGED <<deployed, serving>> /\ EndOperation(o)
  BY DEF SaveActive, RegistryInv, CommandInv, Processes
<1>1. /\ o \notin stale /\ ~clobbered /\ stored' = [stored EXCEPT !.active = active[o]]
      /\ stale' = {x \in StaleAfter(o) : pc'[x] # "closed"}
  <2>1. ~Fails
    BY <1>0 DEF Fails, TypeOK
  <2>2. /\ stored' = [stored EXCEPT !.active = SavedActive(o)]
        /\ clobbered' = (clobbered \/ o \in stale)
        /\ stale' = {x \in StaleAfter(o) : pc'[x] # "closed"}
    BY <2>1, Zenon DEF SaveActive
  <2> QED
    BY <2>2 DEF SavedActive
<1>2. stored'.active = active[o]
  BY <1>0, <1>1 DEF TypeOK
<1>3. OwnInv(o) /\ SetBy(deployed, Deploying) /\ SetBy(serving, Serving)
  BY <1>0, <1>1 DEF AgreeInv, Fresh
<1>4. \A x \in Operators \ {o} : /\ pc'[x] = pc[x] /\ pc[x] \notin Busy
                                 /\ ~Fresh(x)'
  BY <1>0, <1>1, OthersFrame DEF Doomed, StaleAfter, Fresh, Busy
<1>5. pc'[o] \in {"closed", "registered"}
  BY <1>0, EndFrame DEF Forgotten
<1>6. \A x \in Operators, e \in Environments : ~Sets(x, e, Deploying)' /\ ~Sets(x, e, Serving)'
  BY <1>4, <1>5 DEF Sets, Deploying, Serving, Busy
<1>7. \A x \in Operators \ {o}, e \in Environments : ~Sets(x, e, Deploying) /\ ~Sets(x, e, Serving)
  BY <1>4 DEF Sets, Deploying, Serving, Busy
<1>8. ASSUME NEW e \in Environments PROVE deployed[e] = active[o][e] /\ serving[e] = active[o][e]
  <2> DEFINE m == command[o].model
             env == EnvironmentOf(m)
  <2>1. CASE command[o].op = "deploy" /\ env = e
    <3>1. Sets(o, e, Deploying) /\ Sets(o, e, Serving)
      BY <1>0, <2>1 DEF Sets, Deploying, Serving
    <3>2. deployed[e] = Latest(o, m) /\ serving[e] = Latest(o, m)
      BY <1>3, <1>7, <3>1 DEF SetBy
    <3>3. active[o] = [stored.active EXCEPT ![env] = Latest(o, m)]
      BY <1>0, <1>3, <2>1 DEF OwnInv
    <3> QED
      BY <1>0, <2>1, <3>2, <3>3 DEF TypeOK, Deployments
  <2>2. CASE ~(command[o].op = "deploy" /\ env = e)
    <3>1. ~Sets(o, e, Deploying) /\ ~Sets(o, e, Serving)
      BY <2>2 DEF Sets
    <3>2. deployed[e] = stored.active[e] /\ serving[e] = stored.active[e]
      BY <1>3, <1>7, <3>1 DEF SetBy
    <3>3. \/ active[o] = stored.active
          \/ command[o].op = "deploy" /\ active[o] = [stored.active EXCEPT ![env] = Latest(o, m)]
      BY <1>3 DEF OwnInv
    <3> QED
      BY <1>0, <2>2, <3>2, <3>3 DEF TypeOK, Deployments
  <2> QED
    BY <2>1, <2>2
<1>9. SetBy(deployed, Deploying)' /\ SetBy(serving, Serving)'
  BY <1>0, <1>2, <1>6, <1>8 DEF SetBy
<1>10. Fresh(o)' => OwnInv(o)'
  BY <1>0, <1>2, <1>5, EndFrame DEF Fresh, OwnInv, Forgotten, KeptModels
<1> QED
  BY <1>4, <1>9, <1>10 DEF AgreeInv

LEMMA DeployStep ==
    ASSUME RegistryInv, DeployInv, [Next]_vars, ~clobbered', faults' = 0, ~Doomed'
    PROVE  AgreeInv'
<1>1. CASE UNCHANGED vars
  <2>1. /\ ~clobbered /\ faults = 0 /\ ~Doomed /\ AgreeInv
    BY <1>1 DEF DeployInv, Doomed, vars, operatorVars, ghostVars
  <2> QED
    BY <1>1, <2>1 DEF AgreeInv, SetBy, Sets, OwnInv, Fresh, Latest, vars, operatorVars, copyVars, redisVars, ghostVars
<1>2. ASSUME NEW o \in Operators, Operate(o) PROVE AgreeInv'
  <2>0. TypeOK /\ StaleInv
    BY DEF RegistryInv
  <2>1. UNCHANGED faults /\ faults = 0 /\ ~clobbered
    BY <1>2, <2>0, OthersFrame, SaveFrame DEF TypeOK
  <2>2. ~Doomed /\ AgreeInv
    BY <1>2, <2>1, DoomStays DEF DeployInv
  <2>3. CASE SaveActive(o)
    BY <1>2, <2>1, <2>2, <2>3, SaveAgrees
  <2>4. CASE ~SaveActive(o)
    <3>1. SetBy(deployed, Deploying)' /\ SetBy(serving, Serving)'
      BY <1>2, <2>1, <2>2, <2>4, SetStep
    <3>2. Fresh(o)' /\ pc'[o] # "opening" => OwnInv(o)'
      BY <1>2, <2>1, <2>2, <2>4, OwnStep
    <3>3. ASSUME NEW x \in Operators \ {o}, Fresh(x)', pc'[x] # "opening" PROVE OwnInv(x)'
      <4>1. /\ pc'[x] = pc[x] /\ command'[x] = command[x] /\ models'[x] = models[x] /\ active'[x] = active[x]
        BY <1>2, <2>0, OthersFrame DEF Processes
      <4>2. Fresh(x) /\ stored'.active = stored.active
        BY <1>2, <2>0, <2>4, <3>3, SaveFrame DEF LeavesStored, Saves
      <4>3. OwnInv(x)
        BY <2>2, <3>3, <4>1, <4>2 DEF AgreeInv
      <4> QED
        BY <4>1, <4>2, <4>3 DEF OwnInv, Latest
    <3> QED
      BY <3>1, <3>2, <3>3 DEF AgreeInv
  <2> QED
    BY <2>3, <2>4
<1>3. ASSUME NEW d \in Detectors, Detect(d) PROVE AgreeInv'
  <2>1. TypeOK
    BY DEF RegistryInv
  <2>2. /\ UNCHANGED <<operatorVars, redisVars, stale, clobbered>> /\ faults = 0
        /\ \A x \in Operators : models'[x] = models[x] /\ active'[x] = active[x]
    BY <1>3, <2>1, DetectorFrame, RegistryAssumption DEF Processes, TypeOK
  <2>3. ~clobbered /\ ~Doomed /\ AgreeInv
    BY <2>2 DEF DeployInv, Doomed, operatorVars
  <2>4. \A x \in Operators : Latest(x, command[x].model)' = Latest(x, command[x].model)
    BY <2>2 DEF Latest, operatorVars
  <2> QED
    BY <2>2, <2>3, <2>4 DEF AgreeInv, SetBy, Sets, OwnInv, Fresh, operatorVars, redisVars
<1> QED
  BY <1>1, <1>2, <1>3 DEF Next

(* deploy_model changes what is deployed and served before it saves what   *)
(* is active: for every number of operators, as long as no command fails,  *)
(* no process is killed and no stale copy is written back, the three agree *)
(* whenever no operation is under way.                                     *)
THEOREM DeploymentAgreement == Spec => []DeploymentsAgree
<1>1. ASSUME Init PROVE DeployInv
  <2>1. /\ serving = deployed /\ stored.active = deployed /\ \A o \in Operators : pc[o] = "closed"
    BY <1>1 DEF Init
  <2> QED
    BY <2>1 DEF DeployInv, AgreeInv, SetBy, Sets, Deploying, Serving, Fresh
<1>2. RegistryInv /\ DeployInv /\ [Next]_vars => DeployInv'
  <2> SUFFICES ASSUME RegistryInv, DeployInv, [Next]_vars, ~clobbered', ~(faults' > 0), ~Doomed'
               PROVE  AgreeInv'
    BY DEF DeployInv
  <2>1. TypeOK'
    BY TypeStep DEF RegistryInv
  <2> QED
    BY <2>1, DeployStep DEF TypeOK
<1>3. ASSUME RegistryInv, DeployInv PROVE DeploymentsAgree
  <2> SUFFICES ASSUME ~clobbered, ~(faults > 0),
                      \A o \in Operators : pc[o] \in {"closed", "opening", "ready", "registered"}
               PROVE  stored.active = deployed /\ deployed = serving
    BY DEF DeploymentsAgree
  <2>1. TypeOK
    BY <1>3 DEF RegistryInv
  <2>2. ~Doomed
    BY <2>1 DEF Doomed, Busy, TypeOK
  <2>3. \A e \in Environments : deployed[e] = stored.active[e] /\ serving[e] = stored.active[e]
    BY <1>3, <2>2 DEF DeployInv, AgreeInv, SetBy, Sets, Deploying, Serving
  <2> QED
    BY <2>1, <2>3 DEF TypeOK, Deployments
<1> QED
  BY <1>1, <1>2, <1>3, RegistryInvariant, PTL DEF Spec
=============================================================================
