---------------------------- MODULE FrrOnlyTruth ----------------------------
(***************************************************************************)
(* `bench --frr-only-truth`: harness/cli.py:_run_bench_frr_only_truth      *)
(* drives harness/pipeline.py:run_topology_frr_only_truth.  An eligible    *)
(* topology first has its vendor truth collected, by all of run_topology   *)
(* without hooks; the simulators run after the lab's teardown, and three   *)
(* FIB sources are compared.  Any other topology goes the sim-only way,    *)
(* with one trial and a Batfish container of its own.                      *)
(*                                                                         *)
(* The collection is the module TopologyRun, whose variables this module   *)
(* shares and whose steps it takes; results_dir outlives a bench, so FIB   *)
(* files and sidecars may be an earlier one's.                             *)
(***************************************************************************)
EXTENDS Naturals, FiniteSets

CONSTANTS
  NumTopologies, Cap, Usage, HeadroomMultiplier, Slack, HostMb, BatfishMb,
  RecoveryPolls,  \* as in TopologyRun
  Nodes,          \* the nodes of a topology with a FIB
  Benches,        \* hooks set and topologies eligible, per bench
  LeftBehind      \* the sources an earlier bench may have left files of

VARIABLES
  opts, pc, cur, lab, interrupted, runs, baseline, polls, log, written, failed,
  exit, live, owed, avail  \* those of TopologyRun

VARIABLES
  bench,     \* the bench being run
  step,      \* where run_topology_frr_only_truth or the bench loop stands
  dir,       \* dir[s][n]: whose FIB file of node n is in source s's directory
  sidecar,   \* sidecar[s]: whose <simulator>_stats.json is in it
  scores,    \* scores[t]: the FrrOnlyTruthResult of t
  threeWay,  \* the bench loop's lists: topologies with a ThreeWayAgreement
  simOnly    \* and with a SimOnlyAgreement

labVars == <<opts, lab, interrupted, runs, baseline, polls, log, live, owed>>
loopVars == <<cur, written, failed, exit, threeWay, simOnly>>
fileVars == <<dir, sidecar>>
vars == <<labVars, pc, avail, loopVars, bench, step, fileVars, scores>>

(* _default_truth_collector: run_topology with BenchHooks() and defaults.   *)
Collector == [keep |-> FALSE, batfish |-> FALSE, hammerhead |-> FALSE]

Lab == INSTANCE TopologyRun WITH CommandLines <- {Collector}

T == 1..NumTopologies

Simulators == {"batfish", "hammerhead"}
Sources == Simulators \cup {"vendor_truth"}

(* hooks.batfish and hooks.hammerhead, and frr_only_truth_eligible.         *)
BenchRecord == [hooks : SUBSET Simulators, eligible : SUBSET T]

ASSUME BenchAssumption ==
  /\ Lab!ConstantsAssumption
  /\ Benches \subseteq BenchRecord /\ Nodes # {}
  /\ LeftBehind \subseteq SUBSET Sources

(* A file is missing, of an earlier bench, or written by this run.          *)
Writer == {"nobody", "earlier", "this"}

(* A FrrOnlyTruthResult; an agreement keeps the files, the coverage verdict *)
(* and the simulate_s readings it was computed from.                        *)
NoScore == [status |-> "failed", agreement |-> "none", notes |-> {}]

Eligible == cur \in bench.eligible

Init ==
  /\ Lab!Init
  /\ bench \in Benches
  /\ step = "bench"
  /\ dir = [s \in Sources |-> [n \in Nodes |-> "nobody"]]
  /\ sidecar = [s \in Simulators |-> "nobody"]
  /\ scores = [t \in T |-> NoScore]
  /\ threeWay = {} /\ simOnly = {}

-----------------------------------------------------------------------------
(* run_topology_frr_only_truth.                                             *)

(* The next topology, over what an earlier bench left in its directories;   *)
(* render_topology may raise.                                               *)
NextTopology ==
  /\ step = "bench" /\ cur \in T
  /\ \E old \in LeftBehind :
       LET writer(s) == IF s \in old THEN "earlier" ELSE "nobody"
       IN /\ dir' = [s \in Sources |-> [n \in Nodes |-> writer(s)]]
          /\ sidecar' = [s \in Simulators |-> writer(s)]
  /\ step' \in {IF Eligible THEN "collect" ELSE "batfish", "result"}
  /\ UNCHANGED <<labVars, pc, avail, loopVars, bench, scores>>

(* FIB files of these nodes are written; the others stay as they are.       *)
Write(source, nodes) ==
  dir' = [dir EXCEPT ![source] = [n \in Nodes |-> IF n \in nodes THEN "this" ELSE @[n]]]

(* The collector is inside run_topology.  A Ctrl-C there ends the process:  *)
(* `except Exception` does not catch it.                                    *)
CollectTruth ==
  /\ step = "collect"
  /\ Lab!RunTopology
  /\ IF pc = "write"
       THEN \E nodes \in SUBSET Nodes :
              /\ pc' = "batfish" => nodes = Nodes
              /\ Write("vendor_truth", nodes)
       ELSE UNCHANGED dir
  /\ step' = IF pc' = "stopped" THEN "ended" ELSE step
  /\ UNCHANGED <<bench, sidecar, scores, threeWay, simOnly>>

MutTruthCollected ==  \* the collector does not look at result.status
  /\ step = "collect" /\ pc \in {"returned", "escaped"}
  /\ pc' = "bench"
  /\ step' = IF pc = "returned" THEN "batfish" ELSE "result"
  /\ UNCHANGED <<labVars, avail, loopVars, bench, fileVars, scores>>

(* run_topology is left: anything but a passed result raises.  The result's *)
(* notes are dropped with it.                                               *)
TruthCollected ==
  /\ step = "collect" /\ pc \in {"returned", "escaped"}
  /\ pc' = "bench"
  /\ step' = IF pc = "returned" /\ runs[cur].status = "passed" THEN "batfish"
                                                               ELSE "result"
  /\ UNCHANGED <<labVars, avail, loopVars, bench, fileVars, scores>>

(* A hook writes its FIB files and then its sidecar; when it raises, some   *)
(* of the files may be there.  Hammerhead only returns with all of them.    *)
Simulate(s, next) ==
  \/ /\ \E nodes \in SUBSET Nodes :
          /\ s = "hammerhead" => nodes = Nodes
          /\ Write(s, nodes)
     /\ sidecar' = [sidecar EXCEPT ![s] = "this"]
     /\ step' = next
  \/ /\ \E nodes \in SUBSET Nodes : Write(s, nodes)
     /\ step' = "result"
     /\ UNCHANGED sidecar

(* The Batfish hook starts a container, whose memory may stay occupied.     *)
RunBatfish ==
  /\ step = "batfish"
  /\ IF "batfish" \in bench.hooks
       THEN /\ Simulate("batfish", "hammerhead")
            /\ \E leak \in {0, BatfishMb} : leak <= avail /\ avail' = avail - leak
       ELSE step' = "hammerhead" /\ UNCHANGED <<avail, fileVars>>
  /\ UNCHANGED <<labVars, pc, loopVars, bench, scores>>

RunHammerhead ==
  /\ step = "hammerhead"
  /\ IF "hammerhead" \in bench.hooks
       THEN Simulate("hammerhead", "agreement")
       ELSE step' = "agreement" /\ UNCHANGED fileVars
  /\ UNCHANGED <<labVars, pc, avail, loopVars, bench, scores>>

(* The verdict handed to _rollup_hammerhead_coverage: whose sidecar it is   *)
(* read from, if there was a trial.                                         *)
MutCoverage == sidecar["hammerhead"]  \* the hook is not asked for

Coverage == IF "hammerhead" \in bench.hooks THEN sidecar["hammerhead"] ELSE "nobody"

(* Whose sidecar simulate_s is read from: the three-way path reads it       *)
(* whether or not the hook ran.                                             *)
Timing(s) == IF Eligible \/ s \in bench.hooks THEN sidecar[s] ELSE "nobody"

Score ==
  [status |-> "passed", notes |-> {},
   agreement |-> IF Eligible THEN "three_way" ELSE "sim_only",
   files |-> dir, coverage |-> Coverage, timing |-> [s \in Simulators |-> Timing(s)]]

MutComputeAgreement ==  \* the agreement is set before agreement.json is written
  /\ step = "agreement"
  /\ \/ scores' = [scores EXCEPT ![cur] = Score]
     \/ scores' = [scores EXCEPT ![cur] = [Score EXCEPT !.status = "failed"]]
  /\ step' = "result"
  /\ UNCHANGED <<labVars, pc, avail, loopVars, bench, fileVars>>

(* The sidecars are read, and _compute_three_way_agreement, or its sim-only *)
(* counterpart, loads the directories.  A file it cannot parse, a           *)
(* simulate_s above total_s or agreement.json may raise.                    *)
ComputeAgreement ==
  /\ step = "agreement"
  /\ scores' = [scores EXCEPT ![cur] = Score] \/ UNCHANGED scores
  /\ step' = "result"
  /\ UNCHANGED <<labVars, pc, avail, loopVars, bench, fileVars>>

-----------------------------------------------------------------------------
(* The bench loop.                                                          *)

(* The result is written and sorted into the lists; an OSError of the write *)
(* ends the bench.                                                          *)
RecordResult ==
  /\ step = "result"
  /\ \/ /\ written' = written \cup {cur}
        /\ failed' = IF scores[cur].status = "passed" THEN failed
                                                      ELSE failed \cup {cur}
        /\ threeWay' = threeWay \cup {t \in {cur} : scores[t].agreement = "three_way"}
        /\ simOnly' = simOnly \cup {t \in {cur} : scores[t].agreement = "sim_only"}
        /\ cur' = cur + 1
        /\ step' = "bench" /\ UNCHANGED exit
     \/ /\ step' = "ended" /\ exit' = "nonzero"
        /\ UNCHANGED <<written, failed, threeWay, simOnly, cur>>
  /\ UNCHANGED <<labVars, pc, avail, bench, fileVars, scores>>

(* bench_summary.json and sys.exit.                                         *)
Finish ==
  /\ step = "bench" /\ cur \notin T
  /\ \/ step' = "done" /\ exit' = IF failed = {} THEN "ok" ELSE "nonzero"
     \/ step' = "ended" /\ exit' = "nonzero"
  /\ UNCHANGED <<labVars, pc, avail, cur, written, failed, threeWay, simOnly,
                 bench, fileVars, scores>>

(* A Ctrl-C outside run_topology.                                           *)
Interrupt ==
  /\ step \in {"batfish", "hammerhead", "agreement", "result"}
  /\ step' = "ended" /\ exit' = "nonzero"
  /\ UNCHANGED <<labVars, pc, avail, cur, written, failed, threeWay, simOnly,
                 bench, fileVars, scores>>

(* The kernel returns memory of removed containers whenever it likes.       *)
Reclaim ==
  /\ step \notin {"done", "ended"}
  /\ Lab!Reclaim
  /\ UNCHANGED <<threeWay, simOnly, bench, step, fileVars, scores>>

Bench ==
  \/ NextTopology \/ CollectTruth \/ TruthCollected \/ RunBatfish \/ RunHammerhead
  \/ ComputeAgreement \/ RecordResult \/ Finish \/ Interrupt

Next == Bench \/ Reclaim

Spec == Init /\ [][Next]_vars

-----------------------------------------------------------------------------
(* Correctness.                                                             *)

Scored == {t \in T : scores[t].agreement # "none"}

(* Every variable keeps its type, those of TopologyRun included: free       *)
(* memory never goes negative although the simulators take of it too.       *)
TypeOK ==
  /\ Lab!TypeOK
  /\ bench \in Benches
  /\ step \in {"bench", "collect", "batfish", "hammerhead", "agreement",
               "result", "done", "ended"}
  /\ dir \in [Sources -> [Nodes -> Writer]] /\ sidecar \in [Simulators -> Writer]
  /\ \A t \in T \ Scored : scores[t] = NoScore
  /\ \A t \in Scored :
       /\ scores[t].status \in {"passed", "failed"}
       /\ scores[t].agreement \in {"three_way", "sim_only"}
       /\ scores[t].files \in [Sources -> [Nodes -> Writer]]
       /\ scores[t].coverage \in Writer /\ scores[t].timing \in [Simulators -> Writer]
  /\ threeWay \subseteq T /\ simOnly \subseteq T

(* The simulators of an eligible topology have the host to themselves: they *)
(* only run beside its lab when run_topology noted that the teardown may    *)
(* have failed.                                                             *)
LabGoneOrNoted ==
  step \in {"batfish", "hammerhead", "agreement"} /\ cur \in live =>
    runs[cur].notes # {}

(* What is scored as vendor truth is truth: every node's FIB was read in    *)
(* this bench from a run that passed all its steps, never left over or      *)
(* half collected.                                                          *)
TruthIsOwn ==
  \A t \in Scored : scores[t].agreement = "three_way" =>
    /\ runs[t].status = "passed" /\ "vendor_truth" \in runs[t].done
    /\ scores[t].files["vendor_truth"] = [n \in Nodes |-> "this"]

(* A coverage verdict is the scored answer's own, and there is none when    *)
(* Hammerhead did not run.                                                  *)
CoverageIsOwn ==
  \A t \in Scored :
    scores[t].coverage = IF "hammerhead" \in bench.hooks THEN "this" ELSE "nobody"

(* with_truth_count, sim_only_fallback_count and failed_topologies add up:  *)
(* each selected topology is in exactly one, on the side its eligibility    *)
(* says, and the exit status is zero only when none failed.                 *)
SummaryHonest ==
  step = "done" =>
    /\ threeWay \cup simOnly \cup failed = T /\ written = T
    /\ threeWay \cap failed = {} /\ simOnly \cap failed = {}
    /\ threeWay \subseteq bench.eligible /\ simOnly \cap bench.eligible = {}
    /\ exit = "ok" <=> failed = {}

-----------------------------------------------------------------------------
(* What the documentation says and the code does not do.                    *)

(* pipeline.py:419, _verify_teardown: "Fail loudly if any clab-labeled      *)
(* container is still around post-destroy".  The note it makes is one of a  *)
(* result that the collector drops.                                         *)
DanglingIsLoud ==
  step = "done" =>
    \A t \in live : t \in failed \/ scores[t].notes # {}
=============================================================================
