---------------------------- MODULE ModelRegistry ----------------------------
(***************************************************************************)
(* The model registry (src/ml/online_learning/model_registry.py): a copy   *)
(* of the registry in every process that opens it, written back to Redis   *)
(* as a whole; and the fraud detectors that serve the production model     *)
(* (src/consumers/fraud_detector.py: _load_ml_model,                       *)
(* _check_and_refresh_model).                                              *)
(*                                                                         *)
(* The operators are the processes that register and deploy: the           *)
(* deploy_model.py commands (register; promote and rollback, which differ  *)
(* in the strategy they record), the training pipeline, and the online     *)
(* learning demonstration.  Each opens the registry for what it does.      *)
(***************************************************************************)
EXTENDS Integers, FiniteSets

CONSTANTS
    Operators,    \* the processes that register and deploy models
    Detectors,    \* the fraud detectors
    Releases,     \* fraud_detector_v{version}, the ids of the command line
    Trained,      \* fraud_model_{type}, the ids of the training pipeline
    Demos,        \* the ids of the demonstration
    NoModel,      \* no deployment
    MaxCommands,  \* bound: how many registrations and deployments are begun
    MaxFaults     \* bound: how many Redis commands fail and processes are killed

ASSUME RegistryAssumption ==
    /\ Operators \cap Detectors = {}
    /\ Releases \cap Trained = {} /\ Releases \cap Demos = {} /\ Trained \cap Demos = {}
    /\ NoModel \notin Releases \cup Trained \cup Demos
    /\ MaxCommands \in Nat /\ MaxFaults \in Nat

Models == Releases \cup Trained \cup Demos

Environments == {"production", "staging"}

\* DeploymentStage, as far as the code tells the stages apart.
Stages == {"validation", "staging", "production"}

\* A registered model: its latest version, 0 for none, and its stage.
Entry == [version: Nat, stage: Stages]
\* A version of a model, as active_deployments records it.
Version == [model: Models, version: Nat \ {0}]
NoVersion == [model |-> NoModel, version |-> 0]
Deployments == [Environments -> Version \cup {NoVersion}]

VARIABLES
    pc,          \* what each operator is about to do
    command,     \* the operation in hand
    models,      \* registered_models, in each process that has opened it
    active,      \* active_deployments, likewise
    stored,      \* Redis model_registry_state and active_deployments
    artifacts,   \* model_artifact:{id}:{version}, and its copy on disk
    deployed,    \* Redis deployed_model:{environment}
    serving,     \* Redis serving_model:{environment}
    archived,    \* Redis archived_deployments
    detector,    \* what each detector is about to do
    served,      \* the version a detector serves; NoVersion for its file
    stale,       \* ghost: the operators whose copy misses another's save, or that
                 \* could not read the registry
    clobbered,   \* ghost: a stale copy has been written back
    registered,  \* ghost: per model, the latest version whose save succeeded
    commands,    \* ghost: how many operations were begun
    faults       \* ghost: how many Redis commands failed and processes were killed

operatorVars == <<pc, command>>
copyVars == <<models, active>>
redisVars == <<stored, artifacts, deployed, serving, archived>>
detectorVars == <<detector, served>>
ghostVars == <<stale, clobbered, registered, commands, faults>>
vars == <<operatorVars, copyVars, redisVars, detectorVars, ghostVars>>

Processes == Operators \cup Detectors

Unregistered == [m \in Models |-> [version |-> 0, stage |-> "validation"]]
NothingActive == [e \in Environments |-> NoVersion]
NoCommand == [op |-> "none", model |-> NoModel]

\* The environment each kind of model is deployed to, and the stage it is
\* registered in.
EnvironmentOf(m) == IF m \in Releases THEN "production" ELSE "staging"
RegistrationStage(m) == IF m \in Releases THEN "staging" ELSE "validation"

TypeOK ==
    /\ pc \in [Operators -> {"closed", "opening", "ready", "store", "set_deployed",
                             "set_serving", "archive", "save_models", "save_active", "registered"}]
    /\ command \in [Operators -> [op: {"register", "deploy"}, model: Models] \cup {NoCommand}]
    /\ models \in [Processes -> [Models -> Entry]]
    /\ active \in [Processes -> Deployments]
    /\ stored \in [models: [Models -> Entry], active: Deployments]
    /\ artifacts \in SUBSET Version
    /\ deployed \in Deployments /\ serving \in Deployments
    /\ archived \in SUBSET Version
    /\ detector \in [Detectors -> {"down", "opening", "loading", "running"}]
    /\ served \in [Detectors -> {v \in Version \cup {NoVersion} : v.model \in Releases \cup {NoModel}}]
    /\ stale \in SUBSET Operators
    /\ clobbered \in BOOLEAN
    /\ registered \in [Models -> Nat]
    /\ commands \in Nat /\ faults \in Nat

(* Nothing is registered yet, or one release has been promoted before.     *)
Init ==
    /\ pc = [o \in Operators |-> "closed"]
    /\ command = [o \in Operators |-> NoCommand]
    /\ models = [x \in Processes |-> Unregistered]
    /\ active = [x \in Processes |-> NothingActive]
    /\ \E v \in {NoVersion} \cup [model: Releases, version: {1}] :
          /\ deployed = [NothingActive EXCEPT !["production"] = v]
          /\ stored = [models |-> [m \in Models |->
                                     IF m = v.model THEN [version |-> 1, stage |-> "production"]
                                     ELSE Unregistered[m]],
                       active |-> deployed]
          /\ artifacts = {v} \ {NoVersion}
    /\ serving = deployed
    /\ archived = {}
    /\ detector = [d \in Detectors |-> "down"]
    /\ served = [d \in Detectors |-> NoVersion]
    /\ stale = {}
    /\ clobbered = FALSE
    /\ registered = [m \in Models |-> stored.models[m].version]
    /\ commands = 0 /\ faults = 0

-----------------------------------------------------------------------------
Fails == faults < MaxFaults /\ faults' = faults + 1
Works == UNCHANGED faults

Goto(o, step) == pc' = [pc EXCEPT ![o] = step]

\* The version of m that o's copy of the registry knows.
Latest(o, m) == [model |-> m, version |-> models[o][m].version]

(* After a save by o, every other operator that has the registry open      *)
(* misses it.                                                              *)
StaleAfter(o) == stale \cup {x \in Operators \ {o} : pc[x] # "closed"}

(* The process that opened the registry ends.                              *)
Forget(o) ==
    /\ models' = [models EXCEPT ![o] = Unregistered]
    /\ active' = [active EXCEPT ![o] = NothingActive]
    /\ command' = [command EXCEPT ![o] = NoCommand]
    /\ Goto(o, "closed")

(* So it does with its operation, unless it is the demonstration, which    *)
(* goes on to deploy the model it has registered.                          *)
EndOperation(o) ==
    IF command[o].op = "register" /\ command[o].model \in Demos
    THEN Goto(o, "registered") /\ UNCHANGED <<copyVars, command>>
    ELSE Forget(o)

-----------------------------------------------------------------------------
(* ModelRegistry.__init__ reads the models, then the active deployments.   *)
(* An error in either is logged, and the process goes on with what it has. *)
Open(o) ==
    /\ pc[o] = "closed"
    /\ \/ /\ Works
          /\ models' = [models EXCEPT ![o] = stored.models]
          /\ Goto(o, "opening")
          /\ UNCHANGED stale
       \/ /\ Fails
          /\ stale' = stale \cup {o}
          /\ Goto(o, "ready")
          /\ UNCHANGED models
    /\ UNCHANGED <<command, active, redisVars, detectorVars,
                   clobbered, registered, commands>>

OpenActive(o) ==
    /\ pc[o] = "opening"
    /\ \/ /\ Works
          /\ active' = [active EXCEPT ![o] = stored.active]
          /\ UNCHANGED stale
       \/ /\ Fails
          /\ stale' = stale \cup {o}
          /\ UNCHANGED active
    /\ Goto(o, "ready")
    /\ UNCHANGED <<command, models, redisVars, detectorVars,
                   clobbered, registered, commands>>

Close(o) ==
    /\ pc[o] \in {"ready", "registered"}
    /\ Forget(o)
    /\ stale' = stale \ {o}
    /\ UNCHANGED <<redisVars, detectorVars,
                   clobbered, registered, commands, faults>>

Kill(o) ==
    /\ pc[o] # "closed"
    /\ Fails
    /\ Forget(o)
    /\ stale' = stale \ {o}
    /\ UNCHANGED <<redisVars, detectorVars,
                   clobbered, registered, commands>>

(* register_model.                                                         *)
Register(o, m) ==
    /\ pc[o] = "ready"
    /\ commands < MaxCommands
    /\ commands' = commands + 1
    /\ command' = [command EXCEPT ![o] = [op |-> "register", model |-> m]]
    /\ Goto(o, "store")
    /\ UNCHANGED <<copyVars, redisVars, detectorVars,
                   stale, clobbered, registered, faults>>

(* The version to register: an id of the command line or the demonstration *)
(* comes with one, for the pipeline _generate_next_version makes one from  *)
(* the process's own copy.                                                 *)
NextVersion(o, m) ==
    [model |-> m, version |-> IF m \in Trained THEN models[o][m].version + 1 ELSE 1]

(* _store_model_artifact, then the registration in the copy.  If Redis     *)
(* fails nothing is registered.                                            *)
StoreArtifact(o) ==
    /\ pc[o] = "store"
    /\ LET m == command[o].model
           v == NextVersion(o, m)
       IN  \/ /\ Works
              /\ artifacts' = artifacts \cup {v}
              /\ models' = [models EXCEPT ![o][m] =
                               [version |-> v.version, stage |-> RegistrationStage(m)]]
              /\ Goto(o, "save_models")
              /\ UNCHANGED <<active, command, stale>>
           \/ /\ Fails
              /\ Forget(o)
              /\ stale' = stale \ {o}
              /\ UNCHANGED artifacts
    /\ UNCHANGED <<stored, deployed, serving, archived, detectorVars,
                   clobbered, registered, commands>>

(* _validate_deployment_readiness; approval and AUC only refuse more.      *)
ReadyFor(entry, env) ==
    /\ entry.version > 0
    /\ env = "production" => entry.stage = "staging"

(* deploy_model, up to the loading of the artifact.  The command line      *)
(* deploys a release in a process of its own, the demonstration the model  *)
(* it has just registered.                                                 *)
Deploy(o, m) ==
    /\ \/ pc[o] = "ready" /\ m \in Releases
       \/ pc[o] = "registered" /\ m = command[o].model
    /\ commands < MaxCommands
    /\ ReadyFor(models[o][m], EnvironmentOf(m))
    /\ Latest(o, m) \in artifacts
    /\ commands' = commands + 1
    /\ command' = [command EXCEPT ![o] = [op |-> "deploy", model |-> m]]
    /\ Goto(o, "set_deployed")
    /\ UNCHANGED <<copyVars, redisVars, detectorVars,
                   stale, clobbered, registered, faults>>

(* _execute_deployment, its two SETs.  If one fails the deployment has     *)
(* failed, and the unchanged copy is saved all the same.                   *)
SetDeployed(o) ==
    /\ pc[o] = "set_deployed"
    /\ \/ /\ Works
          /\ deployed' = [deployed EXCEPT ![EnvironmentOf(command[o].model)] = Latest(o, command[o].model)]
          /\ Goto(o, "set_serving")
       \/ Fails /\ Goto(o, "save_models") /\ UNCHANGED deployed
    /\ UNCHANGED <<command, copyVars, stored, artifacts, serving, archived,
                   detectorVars, stale, clobbered, registered, commands>>

SetServing(o) ==
    /\ pc[o] = "set_serving"
    /\ \/ /\ Works
          /\ serving' = [serving EXCEPT ![EnvironmentOf(command[o].model)] = Latest(o, command[o].model)]
          /\ Goto(o, "archive")
       \/ Fails /\ Goto(o, "save_models") /\ UNCHANGED serving
    /\ UNCHANGED <<command, copyVars, stored, artifacts, deployed, archived,
                   detectorVars, stale, clobbered, registered, commands>>

(* The copy records the deployment; the one it replaces is archived, and   *)
(* if that fails deploy_model gives up and saves nothing.                  *)
Archive(o) ==
    /\ pc[o] = "archive"
    /\ LET m == command[o].model
           env == EnvironmentOf(m)
           old == active[o][env]
       IN  \/ /\ Works
              /\ models' = [models EXCEPT ![o][m].stage = env]
              /\ active' = [active EXCEPT ![o][env] = Latest(o, m)]
              /\ archived' = IF old = NoVersion THEN archived ELSE archived \cup {old}
              /\ Goto(o, "save_models")
              /\ UNCHANGED <<command, stale>>
           \/ /\ old # NoVersion /\ Fails
              /\ Forget(o)
              /\ stale' = stale \ {o}
              /\ UNCHANGED archived
    /\ UNCHANGED <<stored, artifacts, deployed, serving, detectorVars,
                   clobbered, registered, commands>>

\* Mutant: only the model in hand is written.
SavedModelAlone(o) == [Unregistered EXCEPT ![command[o].model] = models[o][command[o].model]]

\* What _save_registry_state writes of the models: the process's whole copy.
SavedModels(o) == models[o]

(* _save_registry_state, its two SETs; the second is not tried if the      *)
(* first fails.                                                            *)
SaveModels(o) ==
    /\ pc[o] = "save_models"
    /\ \/ /\ Works
          /\ stored' = [stored EXCEPT !.models = SavedModels(o)]
          /\ registered' = [registered EXCEPT ![command[o].model] =
                               models[o][command[o].model].version]
          /\ clobbered' = (clobbered \/ o \in stale)
          /\ stale' = StaleAfter(o)
          /\ Goto(o, "save_active")
          /\ UNCHANGED <<command, copyVars>>
       \/ /\ Fails
          /\ EndOperation(o)
          /\ stale' = {x \in stale : pc'[x] # "closed"}
          /\ UNCHANGED <<stored, registered, clobbered>>
    /\ UNCHANGED <<artifacts, deployed, serving, archived,
                   detectorVars, commands>>

\* Mutant: the deployments of the other environment are forgotten.
SavedActiveAlone(o) ==
    LET env == EnvironmentOf(command[o].model)
    IN  [NothingActive EXCEPT ![env] = active[o][env]]

SavedActive(o) == active[o]

SaveActive(o) ==
    /\ pc[o] = "save_active"
    /\ EndOperation(o)
    /\ \/ /\ Works
          /\ stored' = [stored EXCEPT !.active = SavedActive(o)]
          /\ clobbered' = (clobbered \/ o \in stale)
          /\ stale' = {x \in StaleAfter(o) : pc'[x] # "closed"}
       \/ /\ Fails
          /\ stale' = {x \in stale : pc'[x] # "closed"}
          /\ UNCHANGED <<stored, clobbered>>
    /\ UNCHANGED <<artifacts, deployed, serving, archived,
                   detectorVars, registered, commands>>

-----------------------------------------------------------------------------
(* A detector starts and opens a registry of its own, which it never reads *)
(* again.                                                                  *)
StartDetector(d) ==
    /\ detector[d] = "down"
    /\ \/ /\ Works
          /\ models' = [models EXCEPT ![d] = stored.models]
          /\ detector' = [detector EXCEPT ![d] = "opening"]
       \/ /\ Fails
          /\ detector' = [detector EXCEPT ![d] = "loading"]
          /\ UNCHANGED models
    /\ UNCHANGED <<operatorVars, active, redisVars, served,
                   stale, clobbered, registered, commands>>

OpenInDetector(d) ==
    /\ detector[d] = "opening"
    /\ \/ Works /\ active' = [active EXCEPT ![d] = stored.active]
       \/ Fails /\ UNCHANGED active
    /\ detector' = [detector EXCEPT ![d] = "loading"]
    /\ UNCHANGED <<operatorVars, models, redisVars, served,
                   stale, clobbered, registered, commands>>

(* get_active_model takes the deployment's model, but the version that the *)
(* registered models name.                                                 *)
ActiveModel(d) == Latest(d, active[d]["production"].model)

CanLoadActive(d) ==
    active[d]["production"] # NoVersion /\ ActiveModel(d) \in artifacts

(* _load_ml_model: the registry's production model, or the file when there *)
(* is none or it cannot be loaded.                                         *)
LoadModel(d) ==
    /\ detector[d] = "loading"
    /\ \/ /\ CanLoadActive(d) /\ Works
          /\ served' = [served EXCEPT ![d] = ActiveModel(d)]
       \/ /\ (~CanLoadActive(d) /\ Works) \/ Fails
          /\ UNCHANGED served
    /\ detector' = [detector EXCEPT ![d] = "running"]
    /\ UNCHANGED <<operatorVars, copyVars, redisVars,
                   stale, clobbered, registered, commands>>

(* _check_and_refresh_model, once a minute: a swap when the deployment in  *)
(* the detector's own copy is not the version it serves.                   *)
Refresh(d) ==
    /\ detector[d] = "running"
    /\ CanLoadActive(d)
    /\ active[d]["production"] # served[d]
    /\ served' = [served EXCEPT ![d] = ActiveModel(d)]
    /\ UNCHANGED <<operatorVars, copyVars, redisVars, detector, ghostVars>>

StopDetector(d) ==
    /\ detector[d] # "down"
    /\ Fails
    /\ detector' = [detector EXCEPT ![d] = "down"]
    /\ models' = [models EXCEPT ![d] = Unregistered]
    /\ active' = [active EXCEPT ![d] = NothingActive]
    /\ served' = [served EXCEPT ![d] = NoVersion]
    /\ UNCHANGED <<operatorVars, redisVars,
                   stale, clobbered, registered, commands>>

Operate(o) ==
    \/ Open(o) \/ OpenActive(o) \/ Close(o) \/ Kill(o)
    \/ \E m \in Models : Register(o, m) \/ Deploy(o, m)
    \/ StoreArtifact(o) \/ SetDeployed(o) \/ SetServing(o) \/ Archive(o)
    \/ SaveModels(o) \/ SaveActive(o)

Detect(d) ==
    StartDetector(d) \/ OpenInDetector(d) \/ LoadModel(d) \/ Refresh(d) \/ StopDetector(d)

Next == (\E o \in Operators : Operate(o)) \/ (\E d \in Detectors : Detect(d))

Spec == Init /\ [][Next]_vars

-----------------------------------------------------------------------------
(* The active deployments never name a model that the stored registry does *)
(* not know, across kills between the two SETs and failing ones, until a   *)
(* process writes a copy back that missed another process's save.          *)
ActiveIsRegistered ==
    ~clobbered =>
        \A e \in Environments :
            LET v == stored.active[e]
            IN  v # NoVersion => v.version <= stored.models[v.model].version

(* A registration whose save succeeded is not lost by later operations,    *)
(* under the same condition.                                               *)
RegistrationsSurvive ==
    ~clobbered => \A m \in Models : stored.models[m].version >= registered[m]

(* When no operator is in the middle of anything, what is deployed is what *)
(* the registry says is active, unless a command failed, a process was     *)
(* killed or a stale copy was written back.                                *)
DeploymentsAgree ==
    (\/ clobbered \/ faults > 0
     \/ \E o \in Operators : pc[o] \notin {"closed", "opening", "ready", "registered"})
       \/ (stored.active = deployed /\ deployed = serving)

=============================================================================
