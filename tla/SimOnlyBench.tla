--------------------------- MODULE SimOnlyBench ---------------------------
(***************************************************************************)
(* `bench --sim-only`: harness/cli.py:_run_bench_sim_only drives           *)
(* harness/pipeline.py:run_topology_sim_only over the selected topologies; *)
(* each renders its configs once, runs Batfish and Hammerhead a number of  *)
(* trials, and scores the FIB files the two left on disk.  Batfish is a    *)
(* persistent BatfishService of the whole bench, or, without one, a        *)
(* one-shot service per trial (run_batfish); both are clients of the       *)
(* module BatfishService, whose variables this module shares.              *)
(*                                                                         *)
(* results_dir outlives a bench: FIB files and sidecars of earlier benches *)
(* may lie in the directories that a topology uses.                        *)
(***************************************************************************)
EXTENDS Naturals, Sequences, FiniteSets

CONSTANTS
  NumTopologies,  \* how many topologies the bench selected
  Trials,         \* --trials
  Nodes,          \* the nodes of a topology that emit configs
  CommandLines,   \* the flag combinations the bench is started with
  MaxContainers   \* bound: containers docker creates

T == 1..NumTopologies

(* --persistent-batfish, --no-batfish and --no-hammerhead.                  *)
Options == [persistent : BOOLEAN, batfish : BOOLEAN, hammerhead : BOOLEAN]

ASSUME BenchAssumption ==
  /\ {NumTopologies, MaxContainers} \subseteq Nat /\ Trials \in Nat \ {0}
  /\ Nodes # {}
  /\ CommandLines \subseteq Options

VARIABLES
  phase, inCall, container, session, calls, startCost, running, created,
  issued, stats, lost, excused  \* those of BatfishService

VARIABLES
  opts,        \* the command line
  pc,          \* where the bench stands
  attached,    \* hooks.batfish_service is set
  cur,         \* index of the topology being run
  trial,       \* i + 1 of the trial loop
  outcome,     \* what the one-shot service's `with` block is left with
  bfDir,       \* results/batfish/<topology>: FIB files and who wrote them
  hhDir,       \* results/hammerhead/<topology>
  bfSidecar,   \* the trial that wrote batfish_stats.json, 0 for none or old
  hhSidecar,   \* the trial that wrote hammerhead_stats.json
  bfTimes,     \* batfish_walls, _sims and _warms: one entry a measurement
  hhTimes,     \* hammer_walls, _sims, _coverages
  results,     \* results[t]: the SimOnlyResult of t
  written,     \* topologies whose results/<topology>.json this bench wrote
  failed,      \* the bench loop's `failed` list
  exit         \* the process's exit status

serviceVars == <<phase, inCall, container, session, calls, startCost, running,
                 created, issued, stats, lost, excused>>
batfishVars == <<outcome, bfDir, bfSidecar, bfTimes>>
hammerVars  == <<hhDir, hhSidecar, hhTimes>>
trialVars   == <<trial, batfishVars, hammerVars>>
loopVars    == <<cur, results, written, failed>>
vars == <<serviceVars, opts, pc, attached, exit, trialVars, loopVars>>

Batfish == INSTANCE BatfishService WITH MaxCalls <- NumTopologies * Trials

(* A file of a FIB directory: its node and the trial that wrote it.         *)
Files == [node : Nodes, trial : 0..Trials]

(* A SimOnlyResult; the agreement keeps what it was computed from: files,   *)
(* measurements, and of the latter the trial of the cold companion, or 0,   *)
(* and the trials of the warm mean.                                         *)
FreshResult == [status |-> "failed", bf |-> {}, hh |-> {},
                bfTimes |-> <<>>, hhTimes |-> <<>>, cold |-> 0, warm |-> {}]

Init ==
  /\ Batfish!Init
  /\ opts \in CommandLines
  /\ pc = "attach" /\ attached = FALSE /\ exit = "running"
  /\ cur = 1 /\ written = {} /\ failed = {}
  /\ results = [t \in T |-> FreshResult]
  /\ trial = 1 /\ outcome = "ok"
  /\ bfDir = {} /\ hhDir = {} /\ bfSidecar = 0 /\ hhSidecar = 0
  /\ bfTimes = <<>> /\ hhTimes = <<>>

-----------------------------------------------------------------------------
(* _maybe_attach_persistent_batfish.                                        *)

(* Start the persistent service; without one the bench loop begins at once. *)
Attach ==
  /\ pc = "attach"
  /\ IF opts.persistent /\ opts.batfish
       THEN Batfish!Start /\ pc' = "attaching"
       ELSE pc' = "bench" /\ UNCHANGED serviceVars
  /\ UNCHANGED <<opts, attached, exit, trialVars, loopVars>>

(* start() goes on; when it raises the bench falls back to one-shot         *)
(* containers.  A Ctrl-C comes before the `try` that closes the service.    *)
Attaching ==
  /\ pc = "attaching"
  /\ Batfish!Call
  /\ attached' = (phase' = "idle" /\ session')
  /\ pc' = CASE phase' = "idle"        -> "bench"
             [] phase' = "interrupted" -> "ended"
             [] OTHER                  -> "attaching"
  /\ exit' = IF phase' = "interrupted" THEN "nonzero" ELSE exit
  /\ UNCHANGED <<opts, trialVars, loopVars>>

-----------------------------------------------------------------------------
(* run_topology_sim_only.                                                   *)

(* The next topology of the loop, over whatever its directories hold.       *)
NextTopology ==
  /\ pc = "bench" /\ cur \in T
  /\ \E old \in SUBSET Nodes : bfDir' = [node : old, trial : {0}]
  /\ \E old \in SUBSET Nodes : hhDir' = [node : old, trial : {0}]
  /\ bfSidecar' = 0 /\ hhSidecar' = 0
  /\ bfTimes' = <<>> /\ hhTimes' = <<>>
  /\ trial' = 1 /\ outcome' = "ok"
  /\ pc' \in {"batfish", "result"}    \* "result": render_topology raises
  /\ UNCHANGED <<serviceVars, opts, attached, exit, loopVars>>

(* The trial's FIB files replace those of the same nodes, nothing else.     *)
Overwrite(dir, nodes) ==
  {f \in dir : f.node \notin nodes} \cup [node : nodes, trial : {trial}]

SkipBatfish ==
  /\ pc = "batfish" /\ ~opts.batfish
  /\ pc' = "hammerhead"
  /\ UNCHANGED <<serviceVars, opts, attached, exit, trialVars, loopVars>>

(* bf_service.run_one, or run_batfish, which enters a service of its own.   *)
CallBatfish ==
  /\ pc = "batfish" /\ opts.batfish
  /\ IF attached THEN Batfish!RunOne /\ pc' = "querying"
                 ELSE Batfish!Start /\ pc' = "entering"
  /\ UNCHANGED <<opts, attached, exit, trialVars, loopVars>>

(* BatfishService.__enter__: nothing closes the service when it raises.     *)
Entering ==
  /\ pc = "entering"
  /\ \/ /\ phase = "idle" /\ session
        /\ Batfish!RunOne
        /\ pc' = "querying"
     \/ /\ Batfish!Call
        /\ pc' = CASE phase' = "idle" /\ ~session' -> "result"
                   [] phase' = "interrupted"       -> "closing"
                   [] OTHER                        -> "entering"
  /\ UNCHANGED <<opts, attached, exit, trialVars, loopVars>>

(* One measurement of Batfish: the trial it is of and its warm flag.        *)
MutMeasure(of, warm) == [trial |-> of, warm |-> trial > 1]  \* by trial number

Measure(of, warm) == [trial |-> of, warm |-> warm]

(* run_one does its work.  A call that returns has written FIB files and    *)
(* its sidecar; one that raises may have written some.  A persistent        *)
(* service's stats are read from the return value.                          *)
Querying ==
  /\ pc = "querying"
  /\ Batfish!Call
  /\ \/ /\ phase' \notin {"idle", "interrupted"}
        /\ UNCHANGED <<pc, batfishVars>>
     \/ /\ phase' \in {"idle", "interrupted"}
        /\ \E nodes \in SUBSET Nodes : bfDir' = Overwrite(bfDir, nodes)
        /\ LET returned == stats' # stats
           IN /\ bfSidecar' = IF returned THEN trial ELSE bfSidecar
              /\ bfTimes' = IF returned /\ attached
                              THEN Append(bfTimes, Measure(trial, stats'[Len(stats')].warm))
                              ELSE bfTimes
              /\ outcome' = CASE returned         -> "ok"
                              [] phase' = "idle"  -> "raised"
                              [] OTHER            -> "interrupted"
        /\ pc' = IF ~attached THEN "exiting"
                 ELSE CASE outcome' = "ok"     -> "hammerhead"
                        [] outcome' = "raised" -> "result"
                        [] OTHER               -> "closing"
  /\ UNCHANGED <<opts, attached, exit, trial, hammerVars, loopVars>>

MutExiting ==  \* a failing run_batfish is logged and passed over
  /\ pc = "exiting"
  /\ Batfish!Close
  /\ bfTimes' = Append(bfTimes, Measure(bfSidecar, FALSE))
  /\ pc' = IF outcome = "interrupted" THEN "closing" ELSE "hammerhead"
  /\ UNCHANGED <<opts, attached, exit, trial, outcome, bfDir, bfSidecar,
                 hammerVars, loopVars>>

MutNoWith ==  \* run_batfish without `with`: the service is just dropped
  /\ pc = "exiting" /\ phase = "idle"
  /\ container' = Batfish!None /\ session' = FALSE /\ calls' = 0
  /\ startCost' = Batfish!None
  /\ pc' = IF outcome = "ok" THEN "hammerhead" ELSE "result"
  /\ UNCHANGED <<phase, inCall, running, created, issued, stats, lost, excused,
                 opts, attached, exit, trialVars, loopVars>>

(* BatfishService.__exit__, then the trial's sidecar is read back.  Every   *)
(* call of a one-shot service counts as cold.                               *)
Exiting ==
  /\ pc = "exiting"
  /\ Batfish!Close
  /\ bfTimes' = IF outcome = "ok" THEN Append(bfTimes, Measure(bfSidecar, FALSE))
                                  ELSE bfTimes
  /\ pc' = CASE outcome = "ok"     -> "hammerhead"
             [] outcome = "raised" -> "result"
             [] OTHER              -> "closing"
  /\ UNCHANGED <<opts, attached, exit, trial, outcome, bfDir, bfSidecar,
                 hammerVars, loopVars>>

(* The loop goes on with the next trial, or to the agreement.               *)
NextTrial ==
  IF trial < Trials THEN trial' = trial + 1 /\ pc' = "batfish"
                    ELSE pc' = "agreement" /\ UNCHANGED trial

MutRunHammerhead ==  \* run_hammerhead does not know the expected hostnames
  /\ pc = "hammerhead"
  /\ IF opts.hammerhead
       THEN \/ /\ \E nodes \in SUBSET Nodes : hhDir' = Overwrite(hhDir, nodes)
               /\ hhSidecar' = trial
               /\ hhTimes' = Append(hhTimes, hhSidecar')
               /\ NextTrial
            \/ pc' = "result" /\ UNCHANGED <<hammerVars, trial>>
       ELSE NextTrial /\ UNCHANGED hammerVars
  /\ UNCHANGED <<serviceVars, opts, attached, exit, batfishVars, loopVars>>

(* The Hammerhead hook: run_hammerhead raises, before or after it wrote     *)
(* files, unless the answer holds every expected hostname.                  *)
RunHammerhead ==
  /\ pc = "hammerhead"
  /\ IF opts.hammerhead
       THEN \/ /\ hhDir' = Overwrite(hhDir, Nodes)
               /\ hhSidecar' = trial
               /\ hhTimes' = Append(hhTimes, hhSidecar')
               /\ NextTrial
            \/ /\ \E nodes \in SUBSET Nodes : hhDir' = Overwrite(hhDir, nodes)
               /\ pc' = "result"
               /\ UNCHANGED <<trial, hhSidecar, hhTimes>>
       ELSE NextTrial /\ UNCHANGED hammerVars
  /\ UNCHANGED <<serviceVars, opts, attached, exit, batfishVars, loopVars>>

(* The agreement's timings: the first cold measurement is the companion of  *)
(* the mean of the warm ones.                                               *)
Agreement ==
  LET warms == {i \in DOMAIN bfTimes : bfTimes[i].warm}
      colds == DOMAIN bfTimes \ warms
  IN [status |-> "passed", bf |-> bfDir, hh |-> hhDir,
      bfTimes |-> bfTimes, hhTimes |-> hhTimes,
      cold |-> IF colds = {} THEN 0
               ELSE bfTimes[CHOOSE i \in colds : \A j \in colds : i <= j].trial,
      warm |-> {bfTimes[i].trial : i \in warms}]

(* _compute_sim_only_agreement loads both directories as they are; it may   *)
(* raise on a file it cannot parse.                                         *)
ComputeAgreement ==
  /\ pc = "agreement"
  /\ results' \in {[results EXCEPT ![cur] = Agreement], results}
  /\ pc' = "result"
  /\ UNCHANGED <<serviceVars, opts, attached, exit, trialVars, cur, written, failed>>

-----------------------------------------------------------------------------
(* The bench loop and its end.                                              *)

MutRetryFailed ==  \* a failed topology is run again
  /\ pc = "result"
  /\ written' = written \cup {cur}
  /\ cur' = IF results[cur].status = "passed" THEN cur + 1 ELSE cur
  /\ pc' = "bench"
  /\ UNCHANGED <<serviceVars, opts, attached, exit, failed, trialVars, results>>

(* _write_sim_only_result; an OSError there ends the bench.                 *)
RecordResult ==
  /\ pc = "result"
  /\ \/ /\ written' = written \cup {cur}
        /\ failed' = IF results[cur].status = "passed" THEN failed
                                                       ELSE failed \cup {cur}
        /\ cur' = cur + 1
        /\ pc' = "bench" /\ UNCHANGED exit
     \/ pc' = "closing" /\ exit' = "nonzero" /\ UNCHANGED <<written, failed, cur>>
  /\ UNCHANGED <<serviceVars, opts, attached, trialVars, results>>

(* bench_summary.json and sys.exit, inside the `try` that closes.           *)
Finish ==
  /\ pc = "bench" /\ cur \notin T
  /\ exit' \in {IF failed = {} THEN "ok" ELSE "nonzero", "nonzero"}
  /\ pc' = "closing"
  /\ UNCHANGED <<serviceVars, opts, attached, trialVars, loopVars>>

(* A Ctrl-C outside the service's calls.                                    *)
Interrupt ==
  /\ pc \in {"bench", "batfish", "hammerhead", "agreement", "result"}
  /\ pc' = "closing" /\ exit' = "nonzero"
  /\ UNCHANGED <<serviceVars, opts, attached, trialVars, loopVars>>

MutClosing ==  \* no `finally`: a bench that does not finish does not close
  /\ pc = "closing"
  /\ IF attached /\ cur \notin T THEN Batfish!Close ELSE UNCHANGED serviceVars
  /\ exit' = IF exit = "running" THEN "nonzero" ELSE exit
  /\ pc' = "ended"
  /\ UNCHANGED <<opts, attached, trialVars, loopVars>>

(* The `finally` of bench: service.close().                                 *)
Closing ==
  /\ pc = "closing"
  /\ IF attached THEN Batfish!Close ELSE UNCHANGED serviceVars
  /\ exit' = IF exit = "running" THEN "nonzero" ELSE exit
  /\ pc' = "ended"
  /\ UNCHANGED <<opts, attached, trialVars, loopVars>>

ContainerExits ==
  /\ pc # "ended"
  /\ Batfish!ContainerExits
  /\ UNCHANGED <<opts, pc, attached, exit, trialVars, loopVars>>

Bench ==
  \/ Attach \/ Attaching \/ NextTopology
  \/ SkipBatfish \/ CallBatfish \/ Entering \/ Querying \/ Exiting
  \/ RunHammerhead \/ ComputeAgreement \/ RecordResult \/ Finish
  \/ Interrupt \/ Closing

Next == Bench \/ ContainerExits

(* One thread, whose every subprocess and request has a time limit.         *)
Spec == Init /\ [][Next]_vars /\ WF_vars(Bench)

-----------------------------------------------------------------------------
(* Correctness.                                                             *)

(* The bench keeps to the lifecycle of the service: every step it takes is  *)
(* one the service's own specification allows, or leaves it alone.          *)
ServiceSpec == Batfish!Spec

(* "So we don't leak a running JVM": however the bench ended, a container   *)
(* still runs only if docker failed to remove it, or a Ctrl-C came in the   *)
(* middle of start(), where no handler closes the service.                  *)
NoContainerLeft ==
  pc = "ended" /\ phase # "interrupted" => running \subseteq excused

Passed == {t \in written : results[t].status = "passed"}

(* A scored topology has one measurement per trial and simulator, each of   *)
(* its own trial: none is missing, repeated or read from a stale sidecar.   *)
OneMeasurementPerTrial ==
  \A t \in Passed :
    LET bf == results[t].bfTimes  hh == results[t].hhTimes
    IN /\ Len(bf) = IF opts.batfish THEN Trials ELSE 0
       /\ Len(hh) = IF opts.hammerhead THEN Trials ELSE 0
       /\ \A i \in DOMAIN bf : bf[i].trial = i
       /\ \A i \in DOMAIN hh : hh[i] = i

(* Every node of the topology is scored with the Hammerhead FIB of the      *)
(* final trial, whatever else lies in the directory.                        *)
HammerheadIsFresh ==
  \A t \in Passed : opts.hammerhead =>
    \A n \in Nodes : {f \in results[t].hh : f.node = n} = {[node |-> n, trial |-> Trials]}

(* The warm mean never mixes in a JVM cold start: with a persistent service *)
(* at most one topology of the bench has a cold companion, without one none *)
(* has a warm mean.  The companion is the first trial's, as documented, and *)
(* with a persistent service every other trial is in the mean.              *)
ColdWarmSplit ==
  /\ attached => Cardinality({t \in Passed : results[t].cold # 0}) <= 1
  /\ \A t \in Passed :
       /\ results[t].cold \in {0, 1}
       /\ opts.batfish =>
            results[t].warm = IF attached THEN (1..Trials) \ {results[t].cold} ELSE {}

(* The bench always ends.                                                   *)
BenchEnds == <>(pc = "ended")
=============================================================================
