---------------------------- MODULE TopologyRun ----------------------------
(***************************************************************************)
(* The with-truth bench: harness/cli.py:bench drives                       *)
(* harness/pipeline.py:run_topology over the selected topologies, one      *)
(* after the other.  Each run deploys a containerlab lab, waits, extracts, *)
(* runs the two simulators, diffs, and tears the lab down in a `finally`   *)
(* block, sampling host memory on the way (harness/memory.py).             *)
(*                                                                         *)
(* Every call that can fail does: a ClabError, a subprocess timeout (which *)
(* the finally block does not catch), an OSError from the sample log, an   *)
(* exception of a step, a Ctrl-C.  containerlab, docker and the kernel are *)
(* the environment: they decide what a failed deploy leaves behind, what a *)
(* destroy really removes and when freed memory becomes available.         *)
(***************************************************************************)
EXTENDS Naturals, FiniteSets

CONSTANTS
  NumTopologies,      \* how many topologies `bench` selected
  Cap,                \* Cap[t]: sum of the container memory caps of t, in MB
  Usage,              \* Usage[t]: the memory t's containers really take
  HeadroomMultiplier, \* headroom_multiplier of run_topology
  Slack,              \* BASELINE_SLACK_MB
  HostMb,             \* memory available on the host when the bench starts
  BatfishMb,          \* BATFISH_MEMORY_MB, the cap of the one-shot container
  RecoveryPolls,      \* readings taken before RECOVERY_TIMEOUT_S is reached
  CommandLines        \* the flag combinations the bench is started with

T == 1..NumTopologies

Options == [keep : BOOLEAN, batfish : BOOLEAN, hammerhead : BOOLEAN]

ASSUME ConstantsAssumption ==
  /\ NumTopologies \in Nat
  /\ Cap \in [T -> Nat] /\ Usage \in [T -> Nat]
  /\ \A t \in T : Usage[t] <= Cap[t]
  /\ HeadroomMultiplier \in Nat \ {0}
  /\ {Slack, HostMb, BatfishMb, RecoveryPolls} \subseteq Nat
  /\ CommandLines \subseteq Options

Phases == {"pre-deploy", "post-deploy", "post-teardown", "recovered"}
Steps  == {"vendor_truth", "batfish", "hammerhead", "diff"}
Notes  == {"destroy failed", "verification skipped", "dangling",
           "memory did not recover"}

(* One TopologyRunResult, reduced to what the properties tell apart.        *)
RunRecord ==
  [status  : {"failed", "passed"},
   error   : {"none", "MemoryGuardError", "exception"},
   notes   : SUBSET Notes,
   samples : SUBSET Phases,   \* phases of result.memory_samples
   done    : SUBSET Steps]    \* results on record: the *_path fields set

FreshRun == [status |-> "failed", error |-> "none", notes |-> {},
             samples |-> {}, done |-> {}]

VARIABLES
  opts,        \* the command line: keep_lab_on_failure and the hooks set
  pc,          \* where run_topology or the bench loop stands
  cur,         \* index of the topology being run
  lab,         \* `lab is not None` in run_topology
  interrupted, \* a KeyboardInterrupt is propagating through run_topology
  runs,        \* runs[t]: the TopologyRunResult of t
  baseline,    \* baseline[t]: host_available_mb of t's pre-deploy sample
  polls,       \* readings left before the recovery deadline
  log,         \* memory.jsonl: the <<topology, phase>> lines on disk
  written,     \* topologies whose results/<topology>.json this bench wrote
  failed,      \* the bench loop's `failed` list
  exit,        \* the process's exit status
  live,        \* topologies that have containers on the host
  owed,        \* memory of removed containers the kernel has not returned
  avail        \* host memory available

benchVars == <<opts, cur, written, failed, exit>>
hostVars  == <<live, owed, avail>>
vars == <<opts, pc, cur, lab, interrupted, runs, baseline, polls, log,
          written, failed, exit, live, owed, avail>>

PCs == {"bench", "headroom", "render", "deploy", "post-deploy", "converge",
        "extract", "write", "batfish", "hammerhead", "diff", "finally",
        "post-teardown", "verify", "recovery", "leave", "returned", "escaped",
        "done", "stopped"}

Init ==
  /\ opts \in CommandLines
  /\ pc = "bench" /\ cur = 1
  /\ lab = FALSE /\ interrupted = FALSE
  /\ runs = [t \in T |-> FreshRun]
  /\ baseline = [t \in T |-> 0]
  /\ polls = 0
  /\ log = {}
  /\ written = {} /\ failed = {} /\ exit = "running"
  /\ live = {} /\ owed = 0 /\ avail = HostMb

-----------------------------------------------------------------------------
(* Building blocks.                                                         *)

(* _record_sample: the sample joins result.memory_samples first, then the   *)
(* log line is appended; the append may raise OSError.                      *)
RecordSample(phase, logged) ==
  /\ runs' = [runs EXCEPT ![cur].samples = @ \cup {phase}]
  /\ log' = IF logged THEN log \cup {<<cur, phase>>} ELSE log

(* The same inside the try block, where the OSError becomes result.error.   *)
RecordSampleInTry(phase, logged, next) ==
  /\ log' = IF logged THEN log \cup {<<cur, phase>>} ELSE log
  /\ runs' = [runs EXCEPT ![cur].samples = @ \cup {phase},
                          ![cur].error = IF logged THEN @ ELSE "exception"]
  /\ pc' = IF logged THEN next ELSE "finally"

(* A step of the try block completes and its result is recorded.            *)
Complete(step, next) ==
  /\ runs' = [runs EXCEPT ![cur].done = @ \cup {step}]
  /\ pc' = next
  /\ UNCHANGED interrupted

(* A step of the try block raises: an Exception is caught and becomes       *)
(* result.error; a KeyboardInterrupt is not caught and only runs `finally`. *)
Raise ==
  /\ pc' = "finally"
  /\ \/ /\ runs' = [runs EXCEPT ![cur].error = "exception"]
        /\ UNCHANGED interrupted
     \/ /\ interrupted' = TRUE
        /\ UNCHANGED runs

NoDiff == ~opts.batfish /\ ~opts.hammerhead

-----------------------------------------------------------------------------
(* The try block of run_topology.                                           *)

PreDeploySample ==
  /\ pc = "bench" /\ cur \in T
  /\ baseline' = [baseline EXCEPT ![cur] = avail]
  /\ \E logged \in BOOLEAN : RecordSampleInTry("pre-deploy", logged, "headroom")
  /\ lab' = FALSE /\ interrupted' = FALSE
  /\ UNCHANGED <<benchVars, polls, hostVars>>

(* check_headroom_before_deploy on the reading the baseline sample took.    *)
CheckHeadroom ==
  /\ pc = "headroom"
  /\ IF baseline[cur] >= HeadroomMultiplier * Cap[cur]
       THEN pc' = "render" /\ UNCHANGED runs
       ELSE /\ runs' = [runs EXCEPT ![cur].error = "MemoryGuardError"]
            /\ pc' = "finally"
  /\ UNCHANGED <<benchVars, lab, interrupted, baseline, polls, log, hostVars>>

(* Steps that change nothing the model keeps when they succeed.             *)
RenderTopology == pc = "render" /\ pc' = "deploy" /\ UNCHANGED <<runs, interrupted>>
WaitConvergence == pc = "converge" /\ pc' = "extract" /\ UNCHANGED <<runs, interrupted>>
ExtractFibs == pc = "extract" /\ pc' = "write" /\ UNCHANGED <<runs, interrupted>>

(* `containerlab deploy` creates the containers of cur.                     *)
CreateContainers ==
  /\ live' = live \cup {cur}
  /\ avail' = avail - Usage[cur]

Deploy ==
  /\ pc = "deploy"
  /\ CreateContainers
  /\ lab' = TRUE
  /\ pc' = "post-deploy"
  /\ UNCHANGED <<benchVars, interrupted, runs, baseline, polls, log, owed>>

(* deploy() raises (exit code, timeout, unreadable name, Ctrl-C): `lab` is  *)
(* never assigned, whatever containers were created by then.                *)
DeployFails ==
  /\ pc = "deploy"
  /\ Raise
  /\ CreateContainers \/ UNCHANGED <<live, avail>>
  /\ UNCHANGED <<benchVars, lab, baseline, polls, log, owed>>

PostDeploySample ==
  /\ pc = "post-deploy"
  /\ \E logged \in BOOLEAN : RecordSampleInTry("post-deploy", logged, "converge")
  /\ UNCHANGED <<benchVars, lab, interrupted, baseline, polls, hostVars>>

WriteFibs == pc = "write" /\ Complete("vendor_truth", "batfish")

MutRunHammerhead ==  \* a failing hook is skipped, the diff goes on without it
  /\ pc = "hammerhead"
  /\ pc' = "diff"
  /\ \/ runs' = [runs EXCEPT ![cur].done = @ \cup {"hammerhead"}]
     \/ UNCHANGED runs
  /\ UNCHANGED interrupted

RunHammerhead ==
  /\ pc = "hammerhead"
  /\ IF opts.hammerhead
       THEN Complete("hammerhead", "diff")
       ELSE pc' = "diff" /\ UNCHANGED <<runs, interrupted>>

(* _compute_diff when any hook is set, then `result.status = "passed"`.     *)
ComputeDiff ==
  /\ pc = "diff"
  /\ runs' = [runs EXCEPT ![cur].status = "passed",
                          ![cur].done = IF NoDiff THEN @ ELSE @ \cup {"diff"}]
  /\ pc' = "finally"
  /\ UNCHANGED interrupted

(* Any of these steps may raise instead.                                    *)
StepRaises ==
  /\ pc \in {"render", "converge", "extract", "write", "hammerhead", "diff"}
  /\ Raise

TryStep ==
  /\ \/ RenderTopology
     \/ WaitConvergence
     \/ ExtractFibs
     \/ WriteFibs
     \/ RunHammerhead
     \/ ComputeDiff
     \/ StepRaises
  /\ UNCHANGED <<benchVars, lab, baseline, polls, log, hostVars>>

(* hooks.batfish runs a one-shot container.  BatfishService.close swallows  *)
(* a failed `docker rm`, so the call may succeed, or raise, and leave the   *)
(* container's memory occupied.                                             *)
RunBatfish ==
  /\ pc = "batfish"
  /\ IF opts.batfish
       THEN /\ Complete("batfish", "hammerhead") \/ Raise
            /\ \E leak \in {0, BatfishMb} : leak <= avail /\ avail' = avail - leak
       ELSE pc' = "hammerhead" /\ UNCHANGED <<runs, interrupted, avail>>
  /\ UNCHANGED <<benchVars, lab, baseline, polls, log, live, owed>>

-----------------------------------------------------------------------------
(* The finally block.                                                       *)

(* `containerlab destroy`: the kernel owes the memory from here on.         *)
RemoveContainers ==
  /\ live' = live \ {cur}
  /\ owed' = owed + Usage[cur]

MutTeardownDue == lab  \* keep_lab_on_failure is not consulted

TeardownDue == lab /\ (runs[cur].status = "passed" \/ ~opts.keep)

SkipTeardown ==
  /\ pc = "finally" /\ ~TeardownDue
  /\ pc' = "leave"
  /\ UNCHANGED <<benchVars, lab, interrupted, runs, baseline, polls, log, hostVars>>

MutDestroyAll ==  \* `destroy --all`: every lab on the host goes
  /\ pc = "finally" /\ TeardownDue
  /\ live' = {}
  /\ pc' = "post-teardown"
  /\ UNCHANGED <<benchVars, lab, interrupted, runs, baseline, polls, log,
                 owed, avail>>

(* driver.destroy: whatever it reports, the containers may be gone or not.  *)
(* ClabError is noted; TimeoutExpired escapes the finally block.            *)
DestroyLab ==
  /\ pc = "finally" /\ TeardownDue
  /\ RemoveContainers \/ UNCHANGED <<live, owed>>
  /\ \/ pc' = "post-teardown" /\ UNCHANGED runs
     \/ /\ runs' = [runs EXCEPT ![cur].notes = @ \cup {"destroy failed"}]
        /\ pc' = "post-teardown"
     \/ pc' = "escaped" /\ UNCHANGED runs
  /\ UNCHANGED <<benchVars, lab, interrupted, baseline, polls, log, avail>>

PostTeardownSample ==
  /\ pc = "post-teardown"
  /\ \E logged \in BOOLEAN :
       /\ RecordSample("post-teardown", logged)
       /\ pc' = IF logged THEN "verify" ELSE "escaped"
  /\ UNCHANGED <<benchVars, lab, interrupted, baseline, polls, hostVars>>

MutVerifyTeardown ==  \* a failing `docker ps` counts as "nothing dangling"
  /\ pc = "verify"
  /\ polls' = RecoveryPolls
  /\ \/ /\ runs' = [runs EXCEPT ![cur].notes =
                      IF live = {} THEN @ ELSE @ \cup {"dangling"}]
        /\ pc' = "recovery"
     \/ pc' = "recovery" /\ UNCHANGED runs
     \/ pc' = "escaped" /\ UNCHANGED runs
  /\ UNCHANGED <<benchVars, lab, interrupted, baseline, log, hostVars>>

(* _verify_teardown: `docker ps` lists the containers of every lab.         *)
VerifyTeardown ==
  /\ pc = "verify"
  /\ polls' = RecoveryPolls
  /\ \/ /\ runs' = [runs EXCEPT ![cur].notes =
                      IF live = {} THEN @ ELSE @ \cup {"dangling"}]
        /\ pc' = "recovery"
     \/ /\ runs' = [runs EXCEPT ![cur].notes = @ \cup {"verification skipped"}]
        /\ pc' = "recovery"
     \/ pc' = "escaped" /\ UNCHANGED runs
  /\ UNCHANGED <<benchVars, lab, interrupted, baseline, log, hostVars>>

Recovered == avail + Slack >= baseline[cur]

MutPollForever ==  \* the deadline is computed anew at every reading
  /\ pc = "recovery"
  /\ IF Recovered
       THEN RecordSample("recovered", TRUE) /\ pc' = "leave"
       ELSE UNCHANGED <<pc, runs, log>>
  /\ UNCHANGED <<benchVars, lab, interrupted, baseline, polls, hostVars>>

MutPollRecovery ==  \* the deadline ends the wait as if memory had recovered
  /\ pc = "recovery"
  /\ IF Recovered \/ polls = 0
       THEN /\ RecordSample("recovered", TRUE)
            /\ pc' = "leave"
            /\ UNCHANGED polls
       ELSE polls' = polls - 1 /\ UNCHANGED <<pc, runs, log>>
  /\ UNCHANGED <<benchVars, lab, interrupted, baseline, hostVars>>

(* assert_recovered_to_baseline and _verify_recovery: one reading a second  *)
(* until it is within Slack of the baseline or the deadline has passed.     *)
PollRecovery ==
  /\ pc = "recovery"
  /\ \/ /\ Recovered
        /\ \E logged \in BOOLEAN :
             /\ RecordSample("recovered", logged)
             /\ pc' = IF logged THEN "leave" ELSE "escaped"
        /\ UNCHANGED polls
     \/ /\ ~Recovered /\ polls = 0
        /\ runs' = [runs EXCEPT ![cur].notes = @ \cup {"memory did not recover"}]
        /\ pc' = "leave"
        /\ UNCHANGED <<polls, log>>
     \/ /\ ~Recovered /\ polls > 0
        /\ polls' = polls - 1
        /\ UNCHANGED <<pc, runs, log>>
  /\ UNCHANGED <<benchVars, lab, interrupted, baseline, hostVars>>

(* The finally block is left: a pending KeyboardInterrupt resumes and ends  *)
(* the process, otherwise the result is returned to the bench loop.         *)
LeaveFinally ==
  /\ pc = "leave"
  /\ IF interrupted THEN pc' = "stopped" /\ exit' = "nonzero"
                    ELSE pc' = "returned" /\ UNCHANGED exit
  /\ UNCHANGED <<opts, cur, written, failed, lab, interrupted, runs, baseline,
                 polls, log, hostVars>>

-----------------------------------------------------------------------------
(* The bench loop.                                                          *)

(* _write_run_result is outside the loop's try: an OSError ends the bench.  *)
RecordResult ==
  /\ pc = "returned"
  /\ \/ /\ written' = written \cup {cur}
        /\ failed' = IF runs[cur].status = "passed" THEN failed ELSE failed \cup {cur}
        /\ cur' = cur + 1
        /\ pc' = "bench"
        /\ UNCHANGED exit
     \/ pc' = "stopped" /\ exit' = "nonzero" /\ UNCHANGED <<cur, written, failed>>
  /\ UNCHANGED <<opts, lab, interrupted, runs, baseline, polls, log, hostVars>>

MutCatchEscaped ==  \* the catch-all forgets failed.append
  /\ pc = "escaped"
  /\ cur' = cur + 1
  /\ pc' = "bench"
  /\ UNCHANGED <<opts, written, failed, exit, lab, interrupted, runs, baseline,
                 polls, log, hostVars>>

(* `except Exception` around run_topology: listed as failed, no result.     *)
CatchEscaped ==
  /\ pc = "escaped"
  /\ failed' = failed \cup {cur}
  /\ cur' = cur + 1
  /\ pc' = "bench"
  /\ UNCHANGED <<opts, written, exit, lab, interrupted, runs, baseline, polls,
                 log, hostVars>>

(* bench_summary.json and sys.exit.                                         *)
Finish ==
  /\ pc = "bench" /\ cur \notin T
  /\ \/ pc' = "done" /\ exit' = IF failed = {} THEN "ok" ELSE "nonzero"
     \/ pc' = "stopped" /\ exit' = "nonzero"
  /\ UNCHANGED <<opts, cur, written, failed, lab, interrupted, runs, baseline,
                 polls, log, hostVars>>

(* The kernel hands back memory of removed containers in its own time.      *)
Reclaim ==
  /\ \E mb \in 1..owed : owed' = owed - mb /\ avail' = avail + mb
  /\ UNCHANGED <<benchVars, pc, lab, interrupted, runs, baseline, polls, log,
                 live>>

(* All of run_topology, from its first sample to the end of `finally`.      *)
RunTopology ==
  \/ PreDeploySample \/ CheckHeadroom \/ Deploy \/ DeployFails
  \/ PostDeploySample \/ TryStep \/ RunBatfish
  \/ SkipTeardown \/ DestroyLab \/ PostTeardownSample \/ VerifyTeardown
  \/ PollRecovery \/ LeaveFinally

Harness == RunTopology \/ RecordResult \/ CatchEscaped \/ Finish

Next == Harness \/ Reclaim

(* The harness is one thread whose every call returns or times out, so it   *)
(* keeps taking steps; nothing is assumed of the kernel's reclaim.          *)
Spec == Init /\ [][Next]_vars /\ WF_vars(Harness)

-----------------------------------------------------------------------------
(* Correctness.                                                             *)

(* Every variable keeps its type.                                           *)
TypeOK ==
  /\ opts \in CommandLines
  /\ pc \in PCs /\ cur \in 1..(NumTopologies + 1)
  /\ lab \in BOOLEAN /\ interrupted \in BOOLEAN
  /\ runs \in [T -> RunRecord]
  /\ baseline \in [T -> Nat]
  /\ polls \in Nat
  /\ log \subseteq (T \X Phases)
  /\ written \subseteq T /\ failed \subseteq T
  /\ exit \in {"running", "ok", "nonzero"}
  /\ live \subseteq T /\ owed \in Nat /\ avail \in Nat

Settled == 1..(cur - 1)     \* topologies the bench loop is through with

(* What tells the operator that something of t may still be on the host.    *)
Reported(t) == t \in failed \/ runs[t].notes # {}

(* Teardown is verified, not assumed: containers that outlive their run are *)
(* always accounted for, by a note of the result or by the failed list,     *)
(* whatever deploy, destroy and docker ps did.                              *)
LeftoverReported == \A t \in Settled : t \in live => Reported(t)

(* The recovery check is the only bound on memory drift across topologies:  *)
(* when the next run starts more than Slack below this run's baseline, this *)
(* run was failed or carries a note.                                        *)
DriftReported ==
  \A t \in Settled :
    /\ t + 1 \in T
    /\ "pre-deploy" \in runs[t + 1].samples
    /\ baseline[t + 1] + Slack < baseline[t]
    => Reported(t)

(* A result written as passed means the whole sequence happened: every      *)
(* step, every hook asked for, the teardown, and a memory recovery that is  *)
(* either sampled or noted as missing; and its samples are all in the log   *)
(* memory.jsonl, although a sample joins the result before it is logged.    *)
PassedRunIsComplete ==
  \A t \in written : runs[t].status = "passed" =>
    /\ runs[t].error = "none"
    /\ "vendor_truth" \in runs[t].done
    /\ opts.batfish => "batfish" \in runs[t].done
    /\ opts.hammerhead => "hammerhead" \in runs[t].done
    /\ ("diff" \in runs[t].done) = ~NoDiff
    /\ Phases \ {"recovered"} \subseteq runs[t].samples
    /\ ("recovered" \in runs[t].samples) # ("memory did not recover" \in runs[t].notes)
    /\ {t} \X runs[t].samples \subseteq log

(* The exit status is honest: zero only if every selected topology has a    *)
(* freshly written passed result, and a run that finishes non-zero has one  *)
(* that has not.                                                            *)
ExitCodeHonest ==
  LET passed == {t \in written : runs[t].status = "passed"}
  IN /\ exit = "ok" => passed = T
     /\ pc = "done" /\ exit = "nonzero" => passed # T

(* --keep-lab-on-failure: a lab that came up and whose run failed is still  *)
(* there, untouched by the teardowns of the later topologies.               *)
KeptLabSurvives ==
  \A t \in written :
    /\ opts.keep /\ runs[t].status = "failed"
    /\ "post-deploy" \in runs[t].samples
    => t \in live

(* The bench always ends, with a summary or by stopping early.              *)
BenchEnds == <>(pc \in {"done", "stopped"})

(* Topologies settled with containers left behind, as the ledger sees them. *)
Excused == {t \in Settled : Reported(t)}

(* The bench implements the ledger of labs: only the lab of the topology    *)
(* being run is ever touched, and a topology is closed with containers left *)
(* only if that is on record.                                               *)
Ledger == INSTANCE LabLedger
            WITH next <- cur, excused <- Excused
LedgerSpec == Ledger!Spec
=============================================================================
