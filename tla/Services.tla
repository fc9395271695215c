------------------------------ MODULE Services ------------------------------
(***************************************************************************)
(* The test orchestrator (src/testing/orchestrator/): it resolves the      *)
(* order in which services may start from their dependencies, starts the   *)
(* services of a profile one by one with Docker Compose, waits for all of  *)
(* them at once, hands them to the test, and stops them in reverse order.  *)
(*                                                                         *)
(* Everything runs in one asyncio event loop: what one coroutine does      *)
(* between two awaits is one step. A set of Python has no order, so where  *)
(* the code iterates over a set every order is possible.                   *)
(***************************************************************************)
EXTENDS Integers, Sequences, FiniteSets, SequencesExt

CONSTANTS
  Names,         \* the services, the keys of the dependency dictionary
  Unknown,       \* a name that is no service
  Profiles,      \* the sets of services a ServiceProfile may name
  KafkaServices, \* the services whose health the Kafka client tells
  MaxAttempts    \* max_attempts of _wait_for_service_healthy (20 in the code)

\* There are finitely many services, and every profile names some of them.
ASSUME ServicesAssumption ==
  /\ IsFiniteSet(Names) /\ Unknown \notin Names
  /\ Profiles \subseteq SUBSET Names /\ {} \notin Profiles

VARIABLES
  dependencies,  \* dependencies[s]: what s was declared to depend on
  pc,            \* what the main coroutine does next
  error,         \* what resolve_startup_order raised
  color, path,   \* the depth-first search of _detect_cycles
  inDegree, queue, \* Kahn's algorithm in _topological_sort
  order,         \* startup_order
  profile,       \* the services to start
  left,          \* the services still to be started, or still to be stopped
  attempt,       \* attempt[s]: failed attempts of the health check that waits for s
  waiting,       \* waiting[s]: the task of s in asyncio.gather
  state,         \* state[s]: ServiceInfo.state
  running,       \* running_services
  caller,        \* who called stop_services: the failed start or the finally clause
  container,     \* container[s]: "absent", "up" or "stopped"
  composeFile,   \* the compose file is on disk
  troubled       \* services whose container did not stop, "down" if compose down failed

resolving == <<dependencies, error, color, path, inDegree, queue, order>>
starting == <<profile, left, attempt, waiting, state, running, caller>>
docker == <<container, composeFile, troubled>>
vars == <<resolving, starting, docker, pc>>

Nothing == [s \in Names |-> 0]
White == [s \in Names |-> "white"]

-----------------------------------------------------------------------------
\* The dependency manager.

InGraph(s) == dependencies[s] \cap Names

Dependents(s) == {t \in Names : s \in dependencies[t]}

\* The depth of a service. Only evaluated when the graph has no cycle: the code
\* computes it before it looks for cycles, and uses it after.
Priority ==
  LET depth[s \in Names] ==
        IF InGraph(s) = {} THEN 0
        ELSE 1 + CHOOSE m \in {depth[d] : d \in InGraph(s)} : \A d \in InGraph(s) : depth[d] <= m
  IN depth

\* Every order a stable sort by priority can leave a set in.
ByPriority(S) ==
  {q \in SetToSeqs(S) : \A i, j \in DOMAIN q : i < j => Priority[q[i]] <= Priority[q[j]]}

\* get_parallel_startup_groups
Groups == [p \in {Priority[s] : s \in Names} |-> {s \in ToSet(order) : Priority[s] = p}]

\* Mutant: services are stopped in the order they were started in.
StartupOrder == order

\* get_shutdown_order, and the reversed startup_order of stop_services
ShutdownOrder == Reverse(order)

\* transitive_dependencies of get_service_dependencies
TransitiveDependencies(s) ==
  LET reach[n \in 0..Cardinality(Names)] ==
        IF n = 0 THEN InGraph(s) ELSE reach[n - 1] \cup UNION {InGraph(d) : d \in reach[n - 1]}
  IN reach[Cardinality(Names)]

Init ==
  /\ dependencies \in [Names -> SUBSET (Names \cup {Unknown})]
  /\ pc = "build" /\ error = "none"
  /\ color = White /\ path = <<>>
  /\ inDegree = Nothing /\ queue = <<>> /\ order = <<>>
  /\ profile = {} /\ left = {}
  /\ attempt = Nothing
  /\ waiting = [s \in Names |-> "none"]
  /\ state = [s \in Names |-> "stopped"]
  /\ running = {} /\ caller = "none"
  /\ container = [s \in Names |-> "absent"]
  /\ composeFile = FALSE /\ troubled = {}

\* Priorities are assigned before dependencies are validated, and looking up an
\* unknown service raises a KeyError: InvalidDependencyError is never raised.
Build ==
  /\ pc = "build"
  /\ IF \E s \in Names : dependencies[s] \notin SUBSET Names
     THEN error' = "KeyError" /\ pc' = "over"
     ELSE error' = error /\ pc' = "cycles"
  /\ UNCHANGED <<dependencies, color, path, inDegree, queue, order, starting, docker>>

Top == Last(path)

\* dfs_visit of a white service: a root, or a dependency of the service on top.
Visit(s) ==
  /\ pc = "cycles" /\ color[s] = "white"
  /\ path # <<>> => s \in dependencies[Top]
  /\ color' = [color EXCEPT ![s] = "gray"]
  /\ path' = Append(path, s)
  /\ UNCHANGED <<dependencies, error, inDegree, queue, order, starting, docker, pc>>

\* Mutant: any service visited before closes a cycle, finished or not.
CloseOnVisited(s) ==
  /\ pc = "cycles" /\ path # <<>>
  /\ s \in dependencies[Top] /\ color[s] # "white"
  /\ error' = "circular" /\ pc' = "over"
  /\ path' = SelectSeq(path, LAMBDA t : t = s)
  /\ UNCHANGED <<dependencies, color, inDegree, queue, order, starting, docker>>

\* A gray dependency: the rest of the path is a cycle.
CloseCycle(s) ==
  /\ pc = "cycles" /\ path # <<>>
  /\ s \in dependencies[Top] /\ color[s] = "gray"
  /\ error' = "circular" /\ pc' = "over"
  /\ path' = SubSeq(path, CHOOSE i \in DOMAIN path : path[i] = s, Len(path))
  /\ UNCHANGED <<dependencies, color, inDegree, queue, order, starting, docker>>

LeaveVisit ==
  /\ pc = "cycles" /\ path # <<>>
  /\ \A d \in dependencies[Top] : color[d] = "black"
  /\ color' = [color EXCEPT ![Top] = "black"]
  /\ path' = Front(path)
  /\ UNCHANGED <<dependencies, error, inDegree, queue, order, starting, docker, pc>>

\* No cycle: the in-degrees, and a queue of the services without dependencies.
BeginSort ==
  /\ pc = "cycles" /\ path = <<>> /\ \A s \in Names : color[s] = "black"
  /\ inDegree' = [s \in Names |-> Cardinality(dependencies[s])]
  /\ queue' \in ByPriority({s \in Names : dependencies[s] = {}})
  /\ color' = White /\ pc' = "sort"
  /\ UNCHANGED <<dependencies, error, path, order, starting, docker>>

TakeFromQueue ==
  /\ pc = "sort" /\ queue # <<>>
  /\ LET s == Head(queue)
         lowered == [t \in Names |-> inDegree[t] - (IF t \in Dependents(s) THEN 1 ELSE 0)]
         available == {t \in Dependents(s) : lowered[t] = 0}
     IN /\ inDegree' = lowered
        /\ order' = Append(order, s)
        /\ \E more \in ByPriority(available) : queue' = Tail(queue) \o more
  /\ UNCHANGED <<dependencies, error, color, path, starting, docker, pc>>

\* A result that is too short is reported as a circular dependency too.
EndSort ==
  /\ pc = "sort" /\ queue = <<>>
  /\ IF Len(order) = Cardinality(Names)
     THEN error' = error /\ pc' = "resolved"
     ELSE error' = "circular" /\ pc' = "over"
  /\ inDegree' = Nothing
  /\ UNCHANGED <<dependencies, color, path, queue, order, starting, docker>>

Resolve ==
  \/ Build \/ LeaveVisit \/ BeginSort \/ TakeFromQueue \/ EndSort
  \/ \E s \in Names : Visit(s) \/ CloseCycle(s)

-----------------------------------------------------------------------------
\* start_services

\* What each check makes of its protocol: the HTTP, Redis, PostgreSQL and TCP checks
\* tell a timeout apart, the Kafka client's timeout is one of its exceptions.
ProtocolStatuses(s) ==
  {"healthy", "unhealthy"} \cup (IF s \in KafkaServices THEN {} ELSE {"timeout"})

\* check_service_health raises nothing: what is not an answer is unhealthy.
CheckHealth(s) == {IF status \in {"healthy", "timeout"} THEN status ELSE "unhealthy" :
                     status \in ProtocolStatuses(s)}

\* The main coroutine gives up: what it was starting is cleaned up.
FailStart(why) == /\ pc' = "stop" /\ caller' = "cleanup" /\ state' = why

\* The services of S are taken in the order of the list q.
FirstIn(S, q) == q[Min({i \in DOMAIN q : q[i] \in S})]

\* The profiles of the code are closed: a service comes with what it depends on.
ServiceProfile(P) == P \in Profiles /\ \A s \in P : dependencies[s] \subseteq P

\* _generate_compose_config, _write_compose_file: the file is written, or it raises.
WriteComposeFile ==
  \/ composeFile' = TRUE /\ pc' = "up" /\ UNCHANGED <<caller, state>>
  \/ composeFile' = FALSE /\ FailStart(state)

StartServices(P) ==
  /\ pc = "resolved"
  /\ ServiceProfile(P)
  /\ profile' = P
  /\ left' = P
  /\ WriteComposeFile
  /\ UNCHANGED <<resolving, attempt, waiting, running, container, troubled>>

\* _docker_compose_up: a failure may leave the container behind.
ComposeUp ==
  /\ pc = "up" /\ left # {}
  /\ LET s == FirstIn(left, order)
         starts == [state EXCEPT ![s] = "starting"]
     IN \/ /\ container' = [container EXCEPT ![s] = "up"]
           /\ state' = starts /\ pc' = "container" /\ caller' = caller
        \/ /\ container' \in {container, [container EXCEPT ![s] = "up"]}
           /\ FailStart([state EXCEPT ![s] = "failed"])
  /\ UNCHANGED <<resolving, profile, left, attempt, waiting, running, composeFile, troubled>>

\* _wait_for_container: running within thirty seconds, or not.
WaitForContainer ==
  /\ pc = "container"
  /\ \/ pc' = "health" /\ UNCHANGED <<caller, state>>
     \/ FailStart([state EXCEPT ![FirstIn(left, order)] = "failed"])
  /\ UNCHANGED <<resolving, profile, left, attempt, waiting, running, docker>>

\* One attempt of _wait_for_service_healthy on behalf of _start_single_service.
TryHealth ==
  /\ pc = "health"
  /\ LET s == FirstIn(left, order)
     IN \E answer \in CheckHealth(s) :
          IF answer = "healthy"
          THEN /\ state' = [state EXCEPT ![s] = "healthy"]
               /\ running' = running \cup {s}
               /\ left' = left \ {s} /\ pc' = "up"
               /\ attempt' = Nothing /\ caller' = caller
          ELSE /\ UNCHANGED <<running, left>>
               /\ IF attempt[s] + 1 < MaxAttempts
                  THEN attempt' = [attempt EXCEPT ![s] = @ + 1] /\ UNCHANGED <<pc, caller, state>>
                  ELSE attempt' = Nothing /\ FailStart([state EXCEPT ![s] = "failed"])
  /\ UNCHANGED <<resolving, profile, waiting, docker>>

\* _wait_for_all_services_healthy: one task for every service, all at once.
WaitForAll ==
  /\ pc = "up" /\ left = {}
  /\ waiting' = [s \in Names |-> IF s \in profile THEN "asking" ELSE "none"]
  /\ pc' = "gather"
  /\ UNCHANGED <<resolving, profile, left, attempt, state, running, caller, docker>>

\* One attempt of one of those tasks. A task lives on when another one has failed
\* and the main coroutine has gone on to stop the services.
AskAgain(s) ==
  /\ waiting[s] = "asking"
  /\ pc \in {"gather", "over"} \/ (pc = "stopping" /\ left = {})
  /\ \E answer \in CheckHealth(s) :
       IF answer = "healthy"
       THEN waiting' = [waiting EXCEPT ![s] = "passed"] /\ UNCHANGED <<attempt, state>>
       ELSE IF attempt[s] + 1 < MaxAttempts
       THEN attempt' = [attempt EXCEPT ![s] = @ + 1] /\ UNCHANGED <<waiting, state>>
       ELSE /\ attempt' = [attempt EXCEPT ![s] = MaxAttempts]
            /\ waiting' = [waiting EXCEPT ![s] = "failed"]
            /\ state' = [state EXCEPT ![s] = "unhealthy"]
  /\ UNCHANGED <<resolving, profile, left, running, caller, docker, pc>>

\* Mutant: asyncio.gather(..., return_exceptions=True).
GatherAllResults ==
  /\ pc = "gather" /\ \A s \in profile : waiting[s] # "asking"
  /\ pc' = "testing"
  /\ UNCHANGED <<resolving, starting, docker>>

\* asyncio.gather returns when every task has, and raises when the first one does.
Gather ==
  /\ pc = "gather"
  /\ \/ /\ \A s \in profile : waiting[s] = "passed"
        /\ pc' = "testing" /\ UNCHANGED <<caller, state>>
     \/ /\ \E s \in profile : waiting[s] = "failed"
        /\ FailStart(state)
  /\ UNCHANGED <<resolving, profile, left, attempt, waiting, running, docker>>

Start ==
  \/ ComposeUp \/ WaitForContainer \/ TryHealth \/ WaitForAll \/ Gather
  \/ \E P \in Profiles : StartServices(P)
  \/ \E s \in Names : AskAgain(s)

-----------------------------------------------------------------------------
\* stop_services, called by a failed start and by service_environment's finally.

EndTest ==
  /\ pc = "testing"
  /\ pc' = "stop" /\ caller' = "finally"
  /\ UNCHANGED <<resolving, profile, left, attempt, waiting, state, running, docker>>

\* The caller after stop_services: a failed start raises, which runs the finally.
Return == IF caller = "cleanup" THEN pc' = "stop" /\ caller' = "finally"
                                ELSE pc' = "over" /\ caller' = caller

\* With nothing running it returns at once: the containers, and the compose file, stay.
StopServices ==
  /\ pc = "stop"
  /\ IF running = {}
     THEN left' = {} /\ Return
     ELSE /\ left' = running
          /\ pc' = "stopping" /\ caller' = caller
  /\ UNCHANGED <<resolving, profile, attempt, waiting, state, running, docker>>

\* container.stop blocks the event loop; an error is logged and the service kept.
StopService ==
  /\ pc = "stopping" /\ left # {}
  /\ LET s == FirstIn(left, ShutdownOrder)
     IN /\ left' = left \ {s}
        /\ state' = [state EXCEPT ![s] = "stopping"]
        /\ \/ /\ container' = [container EXCEPT ![s] = "stopped"]
              /\ running' = running \ {s} /\ troubled' = troubled
           \/ /\ troubled' = troubled \cup {s}
              /\ UNCHANGED <<container, running>>
  /\ UNCHANGED <<resolving, profile, attempt, waiting, caller, composeFile, pc>>

\* Mutant: the containers are stopped, and never removed.
StopWithoutDown ==
  /\ pc = "stopping" /\ left = {}
  /\ running' = {} /\ state' = [s \in Names |-> "stopped"]
  /\ Return
  /\ UNCHANGED <<resolving, profile, left, attempt, waiting, docker>>

\* _docker_compose_down and the reset: nobody looks at its return code. When the
\* command cannot be run the error goes up and the reset does not happen.
ComposeDown ==
  /\ pc = "stopping" /\ left = {}
  /\ \/ /\ \/ container' = [s \in Names |-> "absent"] /\ troubled' = troubled
           \/ container' = container /\ troubled' = troubled \cup {"down"}
        /\ composeFile' = FALSE
        /\ running' = {}
        /\ state' = [s \in Names |-> "stopped"]
     \/ /\ troubled' = troubled \cup {"down"}
        /\ UNCHANGED <<container, composeFile, running, state>>
  /\ Return
  /\ UNCHANGED <<resolving, profile, left, attempt, waiting>>

Stop == EndTest \/ StopServices \/ StopService \/ ComposeDown

Next == Resolve \/ Start \/ Stop

Spec == Init /\ [][Next]_vars

-----------------------------------------------------------------------------
\* Kahn's algorithm on what the depth-first search let through: an order is resolved
\* only if every service comes after all it depends on, and the services of a
\* parallel group do not need one another; a cycle is reported only if it is one.
OrderIsSound ==
  /\ pc \notin {"build", "cycles", "sort"} /\ error = "none" =>
       /\ ToSet(order) = Names /\ Len(order) = Cardinality(Names)
       /\ \A i, j \in DOMAIN order : order[j] \in TransitiveDependencies(order[i]) => j < i
       /\ \A p \in DOMAIN Groups : \A s, t \in Groups[p] : s \notin TransitiveDependencies(t)
  /\ error = "circular" =>
       /\ path # <<>> /\ Head(path) \in dependencies[Top]
       /\ \A i \in 1..Len(path) - 1 : path[i + 1] \in dependencies[path[i]]

\* A service that was found healthy stands on its dependencies, from its own start to
\* its own stop: they are started before it and stopped after it, whatever fails in
\* between. A service whose container did not stop is the exception.
UpAboveItsDependencies ==
  \A s \in running \ troubled : \A d \in TransitiveDependencies(s) : container[d] = "up"

\* What start_services hands to the test is healthy: no task of asyncio.gather that
\* gave up on its service goes unnoticed.
HandedOverHealthy ==
  pc = "testing" => \A s \in profile : s \in running /\ state[s] = "healthy" /\ container[s] = "up"

\* Together: what a profile's services stand on, from the order computed for them to the
\* test they are handed to.
StartedInOrder == OrderIsSound /\ UpAboveItsDependencies /\ HandedOverHealthy

\* When service_environment is left nothing of it remains, whether the test ran, the
\* start failed or a health check outlived it. Two exceptions: Docker did not obey,
\* and the very first service did not start: running_services is then empty, and
\* stop_services takes it that there is nothing to clean up.
EverythingIsRemoved ==
  pc = "over" /\ troubled = {} =>
    \/ ~composeFile /\ \A s \in Names : container[s] = "absent"
    \/ \E s \in Names : /\ state[s] = "failed"
                        /\ \A d \in Names \ {s} : container[d] = "absent"
=============================================================================
