------------------------- MODULE HammerheadCoverage -------------------------
(***************************************************************************)
(* The way of Hammerhead's coverage verdict, "did I read every line of     *)
(* these configs?", from the exit status and the JSON of one process to    *)
(* bench_summary.json: harness/tools/hammerhead.py (runner and             *)
(* run_hammerhead), the sidecar on disk, and in harness/pipeline.py the    *)
(* reading of the sidecar, the roll-up over the trials of a topology and   *)
(* the roll-up over the topologies of a `bench --sim-only`.                *)
(*                                                                         *)
(* The rest of a trial is the module SimOnlyBench; here it is a step that  *)
(* may raise.  Sidecars outlive a bench.                                   *)
(***************************************************************************)
EXTENDS Naturals, Sequences, FiniteSets

CONSTANTS
  NumTopologies,  \* how many topologies the bench selected
  Trials,         \* --trials
  Replies         \* what a Hammerhead process may end with

T == 1..NumTopologies

(* coverage.degraded of the JSON: true, false, a value of another type that *)
(* Python takes for one or the other, or no such key.                       *)
Value == {"true", "false", "truthy", "falsy", "absent"}

EXIT_COVERAGE_DEGRADED == 3

(* Any other exit status stands for itself and for a timeout.               *)
Reply == [exit : {0, EXIT_COVERAGE_DEGRADED, 1}, degraded : Value]

ASSUME CoverageAssumption ==
  NumTopologies \in Nat /\ Trials \in Nat \ {0} /\ Replies \subseteq Reply

(* coverage_degraded: Python's True, False and None.                        *)
Verdict == {"true", "false", "none"}

VARIABLES
  hook,       \* hooks.hammerhead is set
  step,       \* where the bench stands
  topo,       \* index of the topology being run
  reply,      \* what the process of this trial ended with
  sidecar,    \* coverage_degraded in hammerhead_stats.json
  verdicts,   \* hammer_coverages: one verdict a trial
  trial,      \* i + 1 of the trial loop
  agreements, \* agreements[t]: the hammerhead_coverage_* fields, if t is scored
  summary,    \* hammerhead_coverage_summary, with the topologies for the counts
  heard       \* history: heard[t]: the replies of t's trials

trialVars == <<reply, sidecar, verdicts, trial>>
coverageVars == <<hook, step, topo, trialVars, agreements, summary, heard>>

NotScored == [degraded |-> "none", degradedTrials |-> 0, trials |-> 0, covered |-> FALSE,
              scored |-> FALSE]

NoSummary == [complete |-> {}, degraded |-> {}, unknown |-> {}, coveredComplete |-> {}]

NoReply == [exit |-> 1, degraded |-> "absent"]

CoverageInit ==
  /\ hook \in BOOLEAN
  /\ step = "bench" /\ topo = 1
  /\ reply = NoReply /\ sidecar = "none" /\ verdicts = <<>> /\ trial = 1
  /\ agreements = [t \in T |-> NotScored]
  /\ summary = NoSummary
  /\ heard = [t \in T |-> <<>>]

-----------------------------------------------------------------------------
(* One trial.                                                               *)

(* The next topology; hammerhead_stats.json may be an earlier bench's.      *)
NextTopology ==
  /\ step = "bench" /\ topo \in T
  /\ sidecar' \in Verdict
  /\ verdicts' = <<>> /\ trial' = 1 /\ reply' = NoReply
  /\ step' = "trial"
  /\ UNCHANGED <<hook, topo, agreements, summary, heard>>

MutAccepted(r) == r.exit \in {0, EXIT_COVERAGE_DEGRADED}  \* the JSON is not asked

(* simulate_emit_rib_all returns the answer of exit 0, and of exit 3 when   *)
(* the JSON says degraded; it raises on any other.                          *)
Accepted(r) ==
  \/ r.exit = 0
  \/ r.exit = EXIT_COVERAGE_DEGRADED /\ r.degraded = "true"

(* Batfish's part of the trial, and the process.                            *)
Simulate ==
  /\ step = "trial" /\ hook
  /\ \E r \in Replies :
       /\ reply' = r
       /\ heard' = [heard EXCEPT ![topo] = Append(@, r)]
       /\ step' = IF Accepted(r) THEN "write" ELSE "result"
  /\ UNCHANGED <<hook, topo, sidecar, verdicts, trial, agreements, summary>>

(* bool(coverage["degraded"]), None without the key.                        *)
Recorded(r) ==
  CASE r.degraded \in {"true", "truthy"} -> "true"
    [] r.degraded \in {"false", "falsy"} -> "false"
    [] r.degraded = "absent"             -> "none"

(* run_hammerhead writes FIB files and then its sidecar; it raises when a   *)
(* device is missing from the answer or a write fails.                      *)
WriteSidecar ==
  /\ step = "write"
  /\ \/ sidecar' = Recorded(reply) /\ step' = "read"
     \/ step' = "result" /\ UNCHANGED sidecar
  /\ UNCHANGED <<hook, topo, reply, verdicts, trial, agreements, summary, heard>>

(* The trial loop goes on, or is over.                                      *)
NextTrial ==
  IF trial < Trials THEN trial' = trial + 1 /\ step' = "trial"
                    ELSE step' = "agreement" /\ UNCHANGED trial

(* _read_hammerhead_coverage; a simulate_s above total_s raises before it.  *)
ReadVerdict ==
  /\ step = "read"
  /\ \/ verdicts' = Append(verdicts, sidecar) /\ NextTrial
     \/ step' = "result" /\ UNCHANGED <<verdicts, trial>>
  /\ UNCHANGED <<hook, topo, reply, sidecar, agreements, summary, heard>>

(* Without the hook a trial has no verdict.                                 *)
SkipHammerhead ==
  /\ step = "trial" /\ ~hook
  /\ NextTrial
  /\ UNCHANGED <<hook, topo, reply, sidecar, verdicts, agreements, summary, heard>>

-----------------------------------------------------------------------------
(* The two roll-ups.                                                        *)

DegradedTrials(vs) == {i \in DOMAIN vs : vs[i] = "true"}

MutRollup(vs) ==  \* a trial without a verdict does not matter
  CASE DegradedTrials(vs) # {}             -> "true"
    [] \E i \in DOMAIN vs : vs[i] = "false" -> "false"
    [] OTHER                               -> "none"

(* _rollup_hammerhead_coverage.                                             *)
Rollup(vs) ==
  CASE DegradedTrials(vs) # {}                               -> "true"
    [] vs # <<>> /\ \A i \in DOMAIN vs : vs[i] = "false"     -> "false"
    [] OTHER                                                 -> "none"

(* _compute_sim_only_agreement; whether both simulators have a route in     *)
(* common, both_sides_keys > 0, is up to their FIBs.                        *)
ComputeAgreement ==
  /\ step = "agreement"
  /\ \/ \E covered \in BOOLEAN :
          agreements' = [agreements EXCEPT ![topo] =
            [degraded |-> Rollup(verdicts), trials |-> Len(verdicts),
             degradedTrials |-> Cardinality(DegradedTrials(verdicts)),
             covered |-> covered, scored |-> TRUE]]
     \/ UNCHANGED agreements
  /\ step' = "result"
  /\ UNCHANGED <<hook, topo, trialVars, summary, heard>>

(* The result is written and the next topology's turn comes; an OSError     *)
(* there ends the bench.                                                    *)
RecordResult ==
  /\ step = "result"
  /\ \/ topo' = topo + 1 /\ step' = "bench"
     \/ step' = "ended" /\ UNCHANGED topo
  /\ UNCHANGED <<hook, trialVars, agreements, summary, heard>>

(* Any other step of run_topology_sim_only raises.                          *)
StepRaises ==
  /\ step \in {"trial", "agreement"}
  /\ step' = "result"
  /\ UNCHANGED <<hook, topo, trialVars, agreements, summary, heard>>

Scored == {t \in T : agreements[t].scored}

(* aggregate_sim_only over the agreements: summarize_hammerhead_coverage    *)
(* and the topologies of the _mean_covered_complete fields.                 *)
Summarize ==
  /\ step = "bench" /\ topo \notin T
  /\ LET of(v) == {t \in Scored : agreements[t].degraded = v}
     IN summary' = [complete |-> of("false"), degraded |-> of("true"),
                    unknown |-> of("none"),
                    coveredComplete |-> {t \in of("false") : agreements[t].covered}]
  /\ step' = "done"
  /\ UNCHANGED <<hook, topo, trialVars, agreements, heard>>

CoverageNext ==
  \/ NextTopology \/ Simulate \/ WriteSidecar \/ ReadVerdict \/ SkipHammerhead
  \/ ComputeAgreement \/ RecordResult \/ StepRaises \/ Summarize

CoverageSpec == CoverageInit /\ [][CoverageNext]_coverageVars

-----------------------------------------------------------------------------
(* Correctness.                                                             *)

(* What is scored was answered: each trial's process ended well, or with    *)
(* the one exit status that means a full answer over configs it could not   *)
(* read in full, and its JSON said the same.                                *)
ScoredWasAnswered ==
  \A t \in Scored : hook =>
    /\ Len(heard[t]) = Trials
    /\ \A i \in 1..Trials :
         LET r == heard[t][i]
         IN r.exit # 0 => r.exit = EXIT_COVERAGE_DEGRADED /\ r.degraded = "true"

(* The trials of a topology that said one of some values; the topologies    *)
(* all of whose replies said true or false, or had no such key.             *)
Saying(t, values) == {i \in DOMAIN heard[t] : heard[t][i].degraded \in values}

WellFormed == {t \in T : Saying(t, {"truthy", "falsy"}) = {}}

(* The summary gives each scored topology one verdict, and where no reply   *)
(* was malformed it is what the topology's own processes said: complete,    *)
(* and in the complete-coverage means, only if every trial said so in this  *)
(* bench, degraded exactly if one did, with how many of how many, and       *)
(* otherwise unknown.                                                       *)
CoverageHonest ==
  LET complete == {t \in Scored : hook /\ Saying(t, {"false"}) = 1..Trials}
      degraded == {t \in Scored : Saying(t, {"true"}) # {}}
      unknown == Scored \ (complete \cup degraded)
  IN step = "done" =>
       /\ summary.complete \cup summary.degraded \cup summary.unknown = Scored
       /\ summary.complete \cap summary.degraded = {}
       /\ (summary.complete \cup summary.degraded) \cap summary.unknown = {}
       /\ summary.coveredComplete \subseteq summary.complete
       /\ summary.complete \cap WellFormed = complete \cap WellFormed
       /\ summary.degraded \cap WellFormed = degraded \cap WellFormed
       /\ summary.unknown \cap WellFormed = unknown \cap WellFormed
       /\ \A t \in degraded \cap WellFormed :
            /\ agreements[t].degradedTrials = Cardinality(Saying(t, {"true"}))
            /\ agreements[t].trials = Trials

-----------------------------------------------------------------------------
(* What the documentation says and the code does not do.                    *)

(* pipeline.py:1486: "A value of the wrong type reads as None [...], so a   *)
(* malformed coverage_degraded can never pass for a complete verdict": no   *)
(* topology that the summary calls complete has a reply whose degraded is   *)
(* neither true nor false.                                                  *)
MalformedIsUnknown == step = "done" => summary.complete \subseteq WellFormed
=============================================================================
