-------------------------- MODULE BatfishService --------------------------
(***************************************************************************)
(* harness/tools/batfish.py: BatfishService, a Batfish container with a    *)
(* pybatfish session on it, and its DockerBatfishRunner.  The client of    *)
(* this module is any caller that keeps to the lifecycle of the docstring: *)
(* start, run_one and close in any order, a fresh object after close.      *)
(*                                                                         *)
(* The environment is docker.  Every container binds the same two ports,   *)
(* so at most one runs at a time, and the session talks to whichever it    *)
(* is.  A container may exit at any moment; docker run and docker rm may   *)
(* fail or time out; a Ctrl-C may come while the service is started or     *)
(* called (not while it cleans up) and ends the process.                   *)
(***************************************************************************)
EXTENDS Naturals, Sequences, FiniteSets

CONSTANTS
  MaxContainers,   \* bound: containers docker creates
  MaxCalls         \* bound: run_one calls

ASSUME ServiceAssumption == {MaxContainers, MaxCalls} \subseteq Nat

Container == 1..MaxContainers
None == 0          \* no container: Python's None, and the start time 0.0

VARIABLES
  phase,        \* where the call of the service in progress stands
  inCall,       \* start() is running inside run_one
  container,    \* self._container_id
  session,      \* self._session is not None
  calls,        \* self._calls
  startCost,    \* the container whose start self._container_start_s timed
  running,      \* docker: the containers that run
  created,      \* docker: how many it created so far
  issued,       \* history: run_one calls of any service, the bound's counter
  stats,        \* history: the BatfishStats that run_one returned
  lost,         \* history: containers of a counted call that returned none
  excused       \* history: containers docker failed to remove, or created
                \* for a docker run that did not return their id

objectVars  == <<inCall, container, session, calls, startCost>>
dockerVars  == <<running, created>>
historyVars == <<issued, stats, lost, excused>>
vars == <<phase, objectVars, dockerVars, historyVars>>

(* A BatfishStats, reduced to whose call it is.                             *)
StatsRecord ==
  [by       : Container,             \* the container the service held
   answered : Container,             \* the one that answered the session
   warm     : BOOLEAN,
   charged  : Container \cup {None}] \* container_start_s

FreshObject ==
  /\ container = None /\ session = FALSE
  /\ calls = 0 /\ startCost = None

Init ==
  /\ phase = "idle" /\ inCall = FALSE
  /\ FreshObject
  /\ running = {} /\ created = 0
  /\ issued = 0 /\ stats = <<>> /\ lost = {} /\ excused = {}

-----------------------------------------------------------------------------
(* start().                                                                 *)

(* On a started service start() is a no-op: no step.                        *)
Start ==
  /\ phase = "idle" /\ container = None
  /\ phase' = "docker run" /\ inCall' = FALSE
  /\ UNCHANGED <<container, session, calls, startCost, dockerVars, historyVars>>

(* DockerBatfishRunner.start: docker only creates the container when the    *)
(* ports are free.                                                          *)
CreateContainer ==
  /\ running = {} /\ created < MaxContainers
  /\ created' = created + 1
  /\ running' = {created'}

MutDockerRun ==  \* the exit code of docker run is not looked at
  /\ phase = "docker run"
  /\ \/ CreateContainer /\ container' = created'
     \/ /\ created < MaxContainers
        /\ created' = created + 1 /\ container' = created'
        /\ UNCHANGED running
  /\ phase' = "wait ready"
  /\ UNCHANGED <<inCall, session, calls, startCost, issued, stats, lost, excused>>

DockerRun ==
  /\ phase = "docker run"
  /\ CreateContainer
  /\ container' = created'
  /\ phase' = "wait ready"
  /\ UNCHANGED <<inCall, session, calls, startCost, issued, stats, lost, excused>>

(* docker run exits non-zero or times out, or a Ctrl-C ends the wait for    *)
(* it: no id is returned, whether or not a container came up.               *)
DockerRunFails ==
  /\ phase = "docker run"
  /\ \/ CreateContainer /\ excused' = excused \cup running'
     \/ UNCHANGED <<dockerVars, excused>>
  /\ phase' \in {"idle", "interrupted"}
  /\ UNCHANGED <<objectVars, issued, stats, lost>>

(* wait_ready and the session factory succeed.                              *)
BecomeReady ==
  /\ phase = "wait ready" /\ running # {}
  /\ session' = TRUE /\ startCost' = container
  /\ phase' = IF inCall THEN "query" ELSE "idle"
  /\ UNCHANGED <<inCall, container, calls, dockerVars, historyVars>>

(* The container exits, does not answer in time, or refuses the session;    *)
(* `except Exception` lets a Ctrl-C through.                                *)
NotReady ==
  /\ phase = "wait ready"
  /\ phase' \in {"abort", "interrupted"}
  /\ UNCHANGED <<objectVars, dockerVars, historyVars>>

(* DockerBatfishRunner.stop: docker rm -f works, or it raises, with the     *)
(* container removed all the same or not; the caller swallows that.         *)
StopContainer ==
  \/ running' = running \ {container} /\ UNCHANGED excused
  \/ /\ running' \in {running, running \ {container}}
     /\ excused' = excused \cup {container}

MutAbort ==  \* start() raises without stopping what it started
  /\ phase = "abort"
  /\ container' = None /\ session' = FALSE
  /\ phase' = "idle"
  /\ UNCHANGED <<inCall, calls, startCost, dockerVars, historyVars>>

(* The half-started container is torn down before start() raises.           *)
Abort ==
  /\ phase = "abort"
  /\ StopContainer
  /\ container' = None /\ session' = FALSE
  /\ phase' = "idle"
  /\ UNCHANGED <<inCall, calls, startCost, created, issued, stats, lost>>

-----------------------------------------------------------------------------
(* run_one() and close().                                                   *)

RunOne ==
  /\ phase = "idle" /\ issued < MaxCalls
  /\ issued' = issued + 1
  /\ inCall' = TRUE
  /\ \/ container = None /\ phase' = "docker run"
     \/ container # None /\ phase' = "query"
  /\ UNCHANGED <<container, session, calls, startCost, dockerVars, stats, lost,
                 excused>>

MutWarm == session  \* a service that is up is taken for warm

Warm == calls > 0

MutReturnStats ==  \* the call is not counted
  /\ phase = "query"
  /\ \E c \in running :
       stats' = Append(stats, [by |-> container, answered |-> c,
                               warm |-> Warm,
                               charged |-> IF Warm THEN None ELSE startCost])
  /\ phase' = "idle"
  /\ UNCHANGED <<objectVars, dockerVars, issued, lost, excused>>

(* init_snapshot and the two queries are answered, the FIBs and the sidecar *)
(* are written.                                                             *)
ReturnStats ==
  /\ phase = "query"
  /\ \E c \in running :
       stats' = Append(stats, [by |-> container, answered |-> c,
                               warm |-> Warm,
                               charged |-> IF Warm THEN None ELSE startCost])
  /\ calls' = calls + 1
  /\ phase' = "idle"
  /\ UNCHANGED <<inCall, container, session, startCost, dockerVars, issued, lost,
                 excused>>

(* A query or a write of a FIB raises, or a Ctrl-C comes.                   *)
CallFails ==
  /\ phase = "query"
  /\ phase' \in {"idle", "interrupted"}
  /\ UNCHANGED <<objectVars, dockerVars, historyVars>>

(* The sidecar cannot be written once the call has been counted.            *)
SidecarFails ==
  /\ phase = "query" /\ running # {}
  /\ calls' = calls + 1
  /\ lost' = lost \cup {container}
  /\ phase' \in {"idle", "interrupted"}
  /\ UNCHANGED <<inCall, container, session, startCost, dockerVars, issued,
                 stats, excused>>

(* close(), called between calls or by a `finally` that a Ctrl-C runs; a    *)
(* no-op on a service that holds no container.  After a Ctrl-C the process  *)
(* ends, otherwise the client constructs a fresh service for its next call. *)
Close ==
  /\ phase \in {"idle", "interrupted"}
  /\ IF container = None THEN UNCHANGED <<running, excused>> ELSE StopContainer
  /\ container' = None /\ session' = FALSE
  /\ calls' = 0 /\ startCost' = None
  /\ phase' = IF phase = "idle" THEN "idle" ELSE "ended"
  /\ UNCHANGED <<inCall, created, issued, stats, lost>>

(* docker, the kernel's OOM killer or the JVM itself ends a container.      *)
ContainerExits ==
  /\ \E c \in running : running' = running \ {c}
  /\ UNCHANGED <<phase, objectVars, created, historyVars>>

Call ==
  \/ DockerRun \/ DockerRunFails \/ BecomeReady \/ NotReady \/ Abort
  \/ ReturnStats \/ CallFails \/ SidecarFails

Next == Start \/ RunOne \/ Close \/ Call \/ ContainerExits

Spec == Init /\ [][Next]_vars

-----------------------------------------------------------------------------
(* Correctness.                                                             *)

(* Every variable keeps its type.                                           *)
TypeOK ==
  /\ phase \in {"idle", "docker run", "wait ready", "abort", "query",
                "interrupted", "ended"}
  /\ inCall \in BOOLEAN /\ session \in BOOLEAN
  /\ container \in Container \cup {None}
  /\ startCost \in Container \cup {None}
  /\ calls \in Nat /\ issued \in 0..MaxCalls
  /\ created \in 0..MaxContainers
  /\ running \subseteq Container
  /\ stats \in Seq(StatsRecord)
  /\ lost \subseteq Container /\ excused \subseteq Container

(* "The container is always torn down": one that still runs is the one the  *)
(* service holds, which close() removes, or docker itself failed to remove  *)
(* it or to name it.                                                        *)
NothingLeaks == running \subseteq {container} \cup excused

(* The numbers of a call are those of the service's own container, never of *)
(* one left behind on the same ports.                                       *)
OwnAnswers == \A i \in DOMAIN stats : stats[i].answered = stats[i].by

(* container_start_s: summing it over the calls counts every container's    *)
(* start at most once, and exactly once when no counted call was lost.      *)
StartChargedOnce ==
  \A c \in Container :
    LET Of == {i \in DOMAIN stats : stats[i].by = c}
        Charged == {i \in DOMAIN stats : stats[i].charged = c}
    IN /\ \A i, j \in Charged : i = j
       /\ Of # {} /\ c \notin lost => Charged # {}
       /\ Charged \subseteq Of

(* A call reported warm did not pay for the JVM's first queries: an earlier *)
(* run_one got all the way through on the same container.                   *)
WarmIsWarm ==
  \A i \in DOMAIN stats : stats[i].warm =>
    \/ \E j \in 1..(i - 1) : stats[j].by = stats[i].by
    \/ stats[i].by \in lost
=============================================================================
