------------------------ MODULE FrrOnlyTruth_proofs ------------------------
(***************************************************************************)
(* Proofs about `bench --frr-only-truth`, for any number of topologies,    *)
(* any host, any hooks and whatever an earlier bench left behind.          *)
(*                                                                         *)
(* The collector's steps are those of TopologyRun, so the invariants of    *)
(* TopologyRun_proofs are kept by them; Inv carries along the conjuncts    *)
(* that speak of one run, and says how the steps around the collection     *)
(* leave them alone, although these take memory and move the bench loop on.*)
(***************************************************************************)
EXTENDS FrrOnlyTruth, TLAPS

(* The proofs about TopologyRun, for the collector's command line.          *)
Run == INSTANCE TopologyRun_proofs WITH CommandLines <- {Collector}

Simulation == {"batfish", "hammerhead", "agreement"}

Complete == [n \in Nodes |-> "this"]

(* Which steps stand inside run_topology, and which topology they are about. *)
Standing ==
  /\ step \in {"bench", "result", "done"} \cup Simulation => pc = "bench"
  /\ step = "collect" => pc \notin {"done", "stopped"} /\ Eligible
  /\ step \in {"collect", "result"} \cup Simulation => cur \in T
  /\ step = "done" => cur = NumTopologies + 1

(* Topologies still to come have no result and no containers, and what is   *)
(* not scored yet has no score.                                             *)
ToCome ==
  \A t \in T :
    /\ t > cur \/ (t = cur /\ pc = "bench" /\ step \in {"bench", "collect"}) =>
         runs[t] = Run!FreshRun /\ t \notin live
    /\ t > cur \/ (t = cur /\ step \notin {"result", "ended"}) => scores[t] = NoScore

(* The invariants of TopologyRun_proofs that are about the current run.     *)
Collecting ==
  /\ Run!InRange /\ Run!Headroom /\ Run!StatusOfPhase /\ Run!Verified
  /\ Run!InTry /\ Run!InFinally

(* A run past its extraction, or passed, has left all FIBs on disk.         *)
TruthOnDisk ==
  /\ step = "collect"
  /\ \/ pc \in {"batfish", "hammerhead", "diff"}
     \/ pc \in Run!EndPCs /\ runs[cur].status = "passed"
  => dir["vendor_truth"] = Complete

(* The simulators of an eligible topology follow a collection that passed;  *)
(* the others never had a lab.                                              *)
Collected ==
  step \in Simulation =>
    IF Eligible
    THEN /\ runs[cur].status = "passed" /\ "vendor_truth" \in runs[cur].done
         /\ cur \in live => runs[cur].notes # {}
         /\ dir["vendor_truth"] = Complete
    ELSE cur \notin live

HammerheadRan ==
  step = "agreement" /\ "hammerhead" \in bench.hooks => sidecar["hammerhead"] = "this"

(* A topology is scored, and passed, or neither, and the way it went.       *)
Scores ==
  /\ DOMAIN scores = T
  /\ \A t \in T :
       \/ scores[t] = NoScore
       \/ /\ scores[t].status = "passed"
          /\ scores[t].agreement = IF t \in bench.eligible THEN "three_way" ELSE "sim_only"

(* The lists of the bench loop.                                             *)
Lists ==
  /\ written = {t \in T : t < cur}
  /\ failed = {t \in written : scores[t].status # "passed"}
  /\ threeWay = {t \in written : scores[t].agreement = "three_way"}
  /\ simOnly = {t \in written : scores[t].agreement = "sim_only"}
  /\ step = "done" => exit = IF failed = {} THEN "ok" ELSE "nonzero"

Inv ==
  /\ TypeOK
  /\ Standing /\ ToCome
  /\ Collecting /\ TruthOnDisk /\ Collected /\ HammerheadRan
  /\ Scores /\ Lists
  /\ TruthIsOwn /\ CoverageIsOwn

-----------------------------------------------------------------------------
(* The collector is TopologyRun with its command line.                      *)
LEMMA RunAssumption == Run!ConstantsAssumption
BY BenchAssumption
DEF BenchAssumption, Lab!ConstantsAssumption, Run!ConstantsAssumption, Lab!T, Run!T,
    Lab!Options, Run!Options

LEMMA SameTopologies == Run!T = T /\ Lab!T = T
BY DEF Run!T, Lab!T, T

LEMMA SameTypes == (Lab!TypeOK <=> Run!TypeOK) /\ (Lab!TypeOK' <=> Run!TypeOK')
BY DEF Lab!TypeOK, Run!TypeOK, Lab!PCs, Run!PCs, Lab!T, Run!T, Lab!RunRecord,
       Run!RunRecord, Lab!Phases, Run!Phases, Lab!Steps, Run!Steps, Lab!Notes, Run!Notes

LEMMA SameStart == Lab!Init <=> Run!Init
BY DEF Lab!Init, Run!Init, Lab!T, Run!T, Lab!FreshRun, Run!FreshRun

LEMMA SameReclaim == Lab!Reclaim <=> Run!Reclaim
BY DEF Lab!Reclaim, Run!Reclaim, Lab!benchVars, Run!benchVars

LEMMA SameSteps == Lab!RunTopology <=> Run!RunTopology
<1>1. Lab!PreDeploySample <=> Run!PreDeploySample
  BY DEF Lab!PreDeploySample, Run!PreDeploySample, Lab!RecordSampleInTry,
      Run!RecordSampleInTry, Lab!benchVars, Run!benchVars, Lab!hostVars,
      Run!hostVars, Lab!T, Run!T
<1>2. Lab!CheckHeadroom <=> Run!CheckHeadroom
  BY DEF Lab!CheckHeadroom, Run!CheckHeadroom, Lab!benchVars, Run!benchVars,
      Lab!hostVars, Run!hostVars
<1>3. Lab!Deploy <=> Run!Deploy
  BY DEF Lab!Deploy, Run!Deploy, Lab!CreateContainers, Run!CreateContainers,
      Lab!benchVars, Run!benchVars
<1>4. Lab!DeployFails <=> Run!DeployFails
  BY DEF Lab!DeployFails, Run!DeployFails, Lab!Raise, Run!Raise,
      Lab!CreateContainers, Run!CreateContainers, Lab!benchVars, Run!benchVars
<1>5. Lab!PostDeploySample <=> Run!PostDeploySample
  BY DEF Lab!PostDeploySample, Run!PostDeploySample, Lab!RecordSampleInTry,
      Run!RecordSampleInTry, Lab!benchVars, Run!benchVars, Lab!hostVars,
      Run!hostVars
<1>6. Lab!TryStep <=> Run!TryStep
  BY DEF Lab!TryStep, Run!TryStep, Lab!RenderTopology, Run!RenderTopology,
      Lab!WaitConvergence, Run!WaitConvergence, Lab!ExtractFibs,
      Run!ExtractFibs, Lab!WriteFibs, Run!WriteFibs, Lab!RunHammerhead,
      Run!RunHammerhead, Lab!ComputeDiff, Run!ComputeDiff, Lab!StepRaises,
      Run!StepRaises, Lab!Complete, Run!Complete, Lab!Raise, Run!Raise,
      Lab!NoDiff, Run!NoDiff, Lab!benchVars, Run!benchVars, Lab!hostVars,
      Run!hostVars
<1>7. Lab!RunBatfish <=> Run!RunBatfish
  BY DEF Lab!RunBatfish, Run!RunBatfish, Lab!Complete, Run!Complete, Lab!Raise,
      Run!Raise, Lab!benchVars, Run!benchVars
<1>8. Lab!SkipTeardown <=> Run!SkipTeardown
  BY DEF Lab!SkipTeardown, Run!SkipTeardown, Lab!TeardownDue, Run!TeardownDue,
      Lab!benchVars, Run!benchVars, Lab!hostVars, Run!hostVars
<1>9. Lab!DestroyLab <=> Run!DestroyLab
  BY DEF Lab!DestroyLab, Run!DestroyLab, Lab!TeardownDue, Run!TeardownDue,
      Lab!RemoveContainers, Run!RemoveContainers, Lab!benchVars, Run!benchVars
<1>10. Lab!PostTeardownSample <=> Run!PostTeardownSample
  BY DEF Lab!PostTeardownSample, Run!PostTeardownSample, Lab!RecordSample,
      Run!RecordSample, Lab!benchVars, Run!benchVars, Lab!hostVars,
      Run!hostVars
<1>11. Lab!VerifyTeardown <=> Run!VerifyTeardown
  BY DEF Lab!VerifyTeardown, Run!VerifyTeardown, Lab!benchVars, Run!benchVars,
      Lab!hostVars, Run!hostVars
<1>12. Lab!PollRecovery <=> Run!PollRecovery
  BY DEF Lab!PollRecovery, Run!PollRecovery, Lab!Recovered, Run!Recovered,
      Lab!RecordSample, Run!RecordSample, Lab!benchVars, Run!benchVars,
      Lab!hostVars, Run!hostVars
<1>13. Lab!LeaveFinally <=> Run!LeaveFinally
  BY DEF Lab!LeaveFinally, Run!LeaveFinally, Lab!hostVars, Run!hostVars
<1> QED
  BY <1>1, <1>2, <1>3, <1>4, <1>5, <1>6, <1>7, <1>8, <1>9, <1>10, <1>11,
     <1>12, <1>13
  DEF Lab!RunTopology, Run!RunTopology
-----------------------------------------------------------------------------
(* What a step of the collector keeps and leaves alone.                     *)

LEMMA RunStep ==
  ASSUME Run!TypeOK, Run!Untouched, Collecting, Run!RunTopology
  PROVE  Run!TypeOK' /\ Run!Untouched' /\ Collecting'
<1>1. Run!Next
  BY DEF Run!Next, Run!Harness
<1>2. Run!TypeOK' /\ Run!InRange' /\ Run!Headroom'
  BY <1>1, RunAssumption, Run!Typing, Run!InRangeStep, Run!HeadroomStep DEF Collecting
<1>3. Run!Untouched' /\ Run!StatusOfPhase'
  BY <1>1, RunAssumption, Run!UntouchedStep, Run!StatusOfPhaseStep DEF Collecting
<1>4. Run!Verified'
  BY <1>1, RunAssumption, Run!VerifiedStep DEF Collecting
<1>5. Run!InTry' /\ Run!InFinally'
  BY <1>1, RunAssumption, Run!InTryStep, Run!InFinallyStep DEF Collecting
<1> QED
  BY <1>2, <1>3, <1>4, <1>5 DEF Collecting

(* The bench loop's own variables, the other topologies, and where the pc   *)
(* goes from where.                                                         *)
LEMMA RunFrame ==
  ASSUME Run!RunTopology
  PROVE  /\ UNCHANGED <<opts, cur, written, failed>>
         /\ pc \notin {"escaped", "done", "stopped"} /\ pc' \notin {"bench", "done"}
         /\ pc' \in {"batfish", "hammerhead", "diff"} =>
              pc \in {"write", "batfish", "hammerhead", "diff"}
         /\ pc = "write" => pc' \in {"batfish", "finally"}
<1> USE DEF Run!benchVars, Run!hostVars, Run!RunRecord
<1>1. CASE Run!PreDeploySample \/ Run!PostDeploySample
  BY <1>1 DEF Run!PreDeploySample, Run!PostDeploySample, Run!RecordSampleInTry
<1>2. CASE Run!CheckHeadroom \/ Run!Deploy \/ Run!DeployFails
  BY <1>2 DEF Run!CheckHeadroom, Run!Deploy, Run!DeployFails, Run!Raise
<1>3. CASE Run!TryStep
  BY <1>3
  DEF Run!TryStep, Run!RenderTopology, Run!WaitConvergence, Run!ExtractFibs,
      Run!WriteFibs, Run!RunHammerhead, Run!ComputeDiff, Run!StepRaises, Run!Complete,
      Run!Raise
<1>4. CASE Run!RunBatfish
  BY <1>4 DEF Run!RunBatfish, Run!Complete, Run!Raise
<1>5. CASE Run!SkipTeardown \/ Run!DestroyLab \/ Run!PostTeardownSample
  BY <1>5 DEF Run!SkipTeardown, Run!DestroyLab, Run!PostTeardownSample
<1>6. CASE Run!VerifyTeardown \/ Run!PollRecovery \/ Run!LeaveFinally
  BY <1>6 DEF Run!VerifyTeardown, Run!PollRecovery, Run!LeaveFinally
<1> QED
  BY <1>1, <1>2, <1>3, <1>4, <1>5, <1>6 DEF Run!RunTopology

LEMMA RunOthers ==
  ASSUME Run!TypeOK, Run!InRange, Run!RunTopology
  PROVE  \A t \in T : t # cur => runs'[t] = runs[t] /\ (t \in live') = (t \in live)
<1>1. Run!Next
  BY DEF Run!Next, Run!Harness
<1> QED
  BY <1>1, RunAssumption, SameTopologies, Run!OnlyCurrent

(* A run passes at its diff.                                                *)
LEMMA RunPasses ==
  ASSUME Run!TypeOK, cur \in T, Run!RunTopology, runs'[cur].status = "passed"
  PROVE  pc = "diff" \/ runs[cur].status = "passed"
<1> USE RunAssumption, SameTopologies
<1>1. CASE Run!PreDeploySample
  BY <1>1, Run!SampleInTryFields DEF Run!PreDeploySample
<1>2. CASE Run!PostDeploySample
  BY <1>2, Run!SampleInTryFields DEF Run!PostDeploySample
<1>3. CASE Run!CheckHeadroom
  BY <1>3 DEF Run!CheckHeadroom, Run!TypeOK, Run!RunRecord
<1>4. CASE Run!Deploy
  BY <1>4 DEF Run!Deploy
<1>5. CASE Run!DeployFails
  BY <1>5, Run!RaiseFields DEF Run!DeployFails
<1>6. CASE Run!TryStep
  BY <1>6, Run!RaiseFields, Run!CompleteFields
  DEF Run!TryStep, Run!RenderTopology, Run!WaitConvergence, Run!ExtractFibs,
      Run!WriteFibs, Run!RunHammerhead, Run!ComputeDiff, Run!StepRaises
<1>7. CASE Run!RunBatfish
  BY <1>7, Run!RaiseFields, Run!CompleteFields DEF Run!RunBatfish
<1>8. CASE Run!SkipTeardown
  BY <1>8 DEF Run!SkipTeardown
<1>9. CASE Run!DestroyLab
  BY <1>9, Run!NoteFields DEF Run!DestroyLab
<1>10. CASE Run!PostTeardownSample
  BY <1>10, Run!SampleFields DEF Run!PostTeardownSample
<1>11. CASE Run!VerifyTeardown
  BY <1>11 DEF Run!VerifyTeardown, Run!TypeOK, Run!RunRecord
<1>12. CASE Run!PollRecovery
  <2>1. CASE \E logged \in BOOLEAN : Run!RecordSample("recovered", logged)
    BY <2>1, Run!SampleFields
  <2>2. CASE runs' = runs \/ runs' = [runs EXCEPT ![cur].notes = @ \cup {"memory did not recover"}]
    BY <2>2, Run!NoteFields
  <2> QED
    BY <1>12, <2>1, <2>2 DEF Run!PollRecovery
<1>13. CASE Run!LeaveFinally
  BY <1>13 DEF Run!LeaveFinally
<1> QED
  BY <1>1, <1>2, <1>3, <1>4, <1>5, <1>6, <1>7, <1>8, <1>9, <1>10, <1>11, <1>12, <1>13
  DEF Run!RunTopology
-----------------------------------------------------------------------------
(* Inv holds at the start.                                                  *)

(* Back in the bench loop, the conjuncts about the current run are empty.   *)
LEMMA AtBench ==
  /\ pc = "bench" => Collecting
  /\ pc' = "bench" => Collecting'
BY DEF Collecting, Run!InRange, Run!Idle, Run!Headroom, Run!StatusOfPhase, Run!Verified,
       Run!InTry, Run!TryPCs, Run!InFinally, Run!EndPCs

LEMMA InvInit == Init => Inv
<1> SUFFICES ASSUME Init
             PROVE  Inv
  OBVIOUS
<1>0. Run!Init /\ Run!Inv
  BY RunAssumption, SameStart, Run!InvInit DEF Init
<1>1. /\ pc = "bench" /\ cur = 1 /\ written = {} /\ failed = {}
      /\ \A t \in T : runs[t] = Run!FreshRun /\ t \notin live
  BY <1>0, SameTopologies DEF Run!Init
<1>2. step = "bench" /\ \A t \in T : scores[t] = NoScore
  BY DEF Init
<1>3. Scored = {}
  BY <1>2 DEF Scored, NoScore
<1>4. TypeOK
  <2>1. Lab!TypeOK
    BY <1>0, SameTypes DEF Run!Inv
  <2>2. dir \in [Sources -> [Nodes -> Writer]] /\ sidecar \in [Simulators -> Writer]
    BY DEF Init, Writer
  <2> QED
    BY <1>2, <1>3, <2>1, <2>2 DEF Init, TypeOK
<1>5. Standing /\ ToCome /\ Scores
  BY <1>1, <1>2 DEF Init, Standing, ToCome, Scores, Simulation
<1>6. Collecting /\ TruthOnDisk /\ Collected /\ HammerheadRan
  BY <1>1, <1>2, AtBench DEF TruthOnDisk, Collected, HammerheadRan, Simulation
<1>7. Lists
  BY <1>1, <1>2 DEF Init, Lists, T
<1>8. TruthIsOwn /\ CoverageIsOwn
  BY <1>3 DEF TruthIsOwn, CoverageIsOwn
<1> QED
  BY <1>4, <1>5, <1>6, <1>7, <1>8 DEF Inv

-----------------------------------------------------------------------------
(* Inv is kept by each action.                                              *)

LEMMA Typed ==
  ASSUME Inv
  PROVE  /\ Run!TypeOK /\ cur \in Nat /\ NumTopologies \in Nat /\ T \subseteq Nat
         /\ \A t \in T : t + 1 \in 1..(NumTopologies + 1)
<1>1. Run!TypeOK
  BY SameTypes DEF Inv, TypeOK
<1>2. NumTopologies \in Nat
  BY RunAssumption DEF Run!ConstantsAssumption
<1> QED
  BY <1>1, <1>2 DEF Run!TypeOK, T

LEMMA CollectTruthStep ==
  ASSUME Inv, CollectTruth
  PROVE  Inv'
<1> DEFINE early == {"batfish", "hammerhead", "diff"}
<1>0. /\ step = "collect" /\ Run!RunTopology /\ Run!TypeOK /\ Run!InRange
      /\ cur \in T /\ cur \in Nat /\ Eligible /\ scores[cur] = NoScore
      /\ UNCHANGED <<bench, sidecar, scores, threeWay, simOnly>>
  BY Typed, SameSteps DEF CollectTruth, Inv, Collecting, Standing, ToCome
<1>1. UNCHANGED <<opts, cur, written, failed>> /\ pc' \notin {"bench", "done"}
  BY <1>0, RunFrame
<1>2. Run!TypeOK' /\ Collecting'
  <2>1. Run!Untouched
    BY <1>0, SameTopologies DEF Inv, ToCome, Run!Untouched
  <2> QED
    BY <1>0, <2>1, RunStep DEF Inv
<1>3. step' \in {"collect", "ended"} /\ (step' = "collect" => pc' # "stopped")
  BY <1>0 DEF CollectTruth
<1>4. dir' \in [Sources -> [Nodes -> Writer]]
  <2>1. CASE UNCHANGED dir
    BY <2>1 DEF Inv, TypeOK
  <2>2. CASE \E nodes \in SUBSET Nodes : Write("vendor_truth", nodes)
    <3>1. PICK nodes \in SUBSET Nodes : Write("vendor_truth", nodes)
      BY <2>2
    <3> DEFINE files == [n \in Nodes |-> IF n \in nodes THEN "this" ELSE dir["vendor_truth"][n]]
    <3>2. dir \in [Sources -> [Nodes -> Writer]] /\ "vendor_truth" \in Sources
      BY DEF Inv, TypeOK, Sources
    <3>3. files \in [Nodes -> Writer]
      BY <3>2 DEF Writer
    <3>4. dir' = [dir EXCEPT !["vendor_truth"] = files]
      BY <3>1 DEF Write
    <3> HIDE DEF files
    <3> QED
      BY <3>2, <3>3, <3>4
  <2> QED
    BY <2>1, <2>2 DEF CollectTruth
<1>5. Scored' = Scored /\ cur \notin Scored
  BY <1>0 DEF Scored, NoScore
<1>6. \A t \in T : t # cur => runs'[t] = runs[t] /\ (t \in live') = (t \in live)
  BY <1>0, RunOthers
<1>7. TypeOK'
  BY <1>0, <1>2, <1>3, <1>4, <1>5, SameTypes DEF Inv, TypeOK
<1>8. Standing'
  BY <1>0, <1>1, <1>3 DEF Standing, Simulation, Eligible
<1>9. ToCome'
  <2> SUFFICES ASSUME NEW t \in T
               PROVE  /\ t > cur => runs'[t] = Run!FreshRun /\ t \notin live'
                      /\ t > cur \/ t = cur => scores[t] = NoScore
    BY <1>0, <1>1, <1>3 DEF ToCome
  <2>1. t \in Nat /\ (t > cur => t # cur)
    BY <1>0, Typed
  <2>2. t > cur => runs[t] = Run!FreshRun /\ t \notin live /\ scores[t] = NoScore
    BY DEF Inv, ToCome
  <2> QED
    BY <1>0, <1>6, <2>1, <2>2
<1>10. TruthOnDisk'
  <2> SUFFICES ASSUME \/ pc' \in early
                      \/ pc' \in Run!EndPCs /\ runs'[cur].status = "passed"
               PROVE  dir'["vendor_truth"] = Complete
    BY <1>1, <1>3 DEF TruthOnDisk
  <2>1. pc = "write" => runs[cur].status # "passed"
    BY <1>0 DEF Inv, Collecting, Run!InTry, Run!TryPCs, Run!Tried
  <2>2. CASE pc = "write"
    <3>1. pc' = "batfish"
      BY <1>0, <2>1, <2>2, RunFrame, RunPasses DEF Run!EndPCs
    <3>2. Write("vendor_truth", Nodes)
      BY <2>2, <3>1 DEF CollectTruth
    <3> QED
      BY <3>2 DEF Write, Complete, Sources, Inv, TypeOK
  <2>3. CASE pc # "write"
    <3>1. UNCHANGED dir
      BY <2>3 DEF CollectTruth
    <3>2. pc \in early \/ runs[cur].status = "passed"
      BY <1>0, <2>3, RunFrame, RunPasses
    <3>3. runs[cur].status = "passed" => pc \in Run!EndPCs
      <4>1. pc \in Run!TryPCs \cup Run!EndPCs \cup {"bench"}
        BY <1>0, RunFrame DEF Run!TypeOK, Run!PCs, Run!TryPCs, Run!EndPCs
      <4>2. pc \in Run!TryPCs => runs[cur].status = "failed"
        BY DEF Inv, Collecting, Run!InTry, Run!Tried
      <4>3. pc = "bench" => runs[cur].status = "failed"
        BY <1>0 DEF Inv, ToCome, Run!FreshRun
      <4> QED
        BY <4>1, <4>2, <4>3
    <3> QED
      BY <1>0, <3>1, <3>2, <3>3 DEF Inv, TruthOnDisk
  <2> QED
    BY <2>2, <2>3
<1>11. Collected' /\ HammerheadRan'
  BY <1>3 DEF Collected, HammerheadRan, Simulation
<1>12. Scores' /\ Lists'
  BY <1>0, <1>1, <1>3 DEF Inv, Scores, Lists
<1>13. TruthIsOwn' /\ CoverageIsOwn'
  BY <1>0, <1>5, <1>6 DEF Inv, TruthIsOwn, CoverageIsOwn, Scored
<1> QED
  BY <1>2, <1>7, <1>8, <1>9, <1>10, <1>11, <1>12, <1>13 DEF Inv

(* The current topology alone has been scored since the last step, if any;  *)
(* what is said of scored topologies does not change with the rest.         *)
LEMMA ScoresKept ==
  ASSUME Inv, UNCHANGED <<runs, scores, bench>>
  PROVE  /\ Scored' = Scored /\ Scores' /\ TruthIsOwn' /\ CoverageIsOwn'
BY DEF Inv, Scored, Scores, TruthIsOwn, CoverageIsOwn

LEMMA ListsKept ==
  ASSUME Inv, UNCHANGED <<cur, written, failed, threeWay, simOnly, scores>>, step' # "done"
  PROVE  Lists'
BY DEF Inv, Lists

(* The types, after a step outside run_topology.                            *)
LEMMA TypesKept ==
  ASSUME Inv, UNCHANGED <<labVars, scores, bench>>, pc' \in Run!PCs, avail' \in Nat,
         cur' \in 1..(NumTopologies + 1), written' \subseteq T, failed' \subseteq T,
         exit' \in {"running", "ok", "nonzero"}, threeWay' \subseteq T, simOnly' \subseteq T,
         step' \in {"bench", "collect", "batfish", "hammerhead", "agreement", "result",
                   "done", "ended"},
         dir' \in [Sources -> [Nodes -> Writer]], sidecar' \in [Simulators -> Writer]
  PROVE  TypeOK'
<1>1. Run!TypeOK'
  BY Typed, SameTopologies DEF Run!TypeOK, labVars
<1>2. Scored' = Scored
  BY DEF Scored
<1> QED
  BY <1>1, <1>2, SameTypes DEF Inv, TypeOK

LEMMA NextTopologyStep ==
  ASSUME Inv, NextTopology
  PROVE  Inv'
<1>1. /\ step = "bench" /\ cur \in T /\ pc = "bench" /\ scores[cur] = NoScore
      /\ UNCHANGED <<labVars, pc, avail, loopVars, bench, scores>>
      /\ step' \in {IF Eligible THEN "collect" ELSE "batfish", "result"}
      /\ cur \notin live
  BY DEF NextTopology, Inv, Standing, ToCome, Simulation
<1>2. /\ dir' \in [Sources -> [Nodes -> Writer]] /\ sidecar' \in [Simulators -> Writer]
  BY DEF NextTopology, Writer
<1>3. TypeOK'
  <2>1. Run!TypeOK /\ threeWay \subseteq T /\ simOnly \subseteq T
    BY Typed DEF Inv, TypeOK
  <2> QED
    BY <1>1, <1>2, <2>1, TypesKept, SameTopologies DEF loopVars, Run!TypeOK
<1>4. Standing' /\ ToCome'
  BY <1>1 DEF Inv, Standing, ToCome, Simulation, loopVars, labVars, Eligible
<1>5. Collecting' /\ TruthOnDisk' /\ Collected' /\ HammerheadRan'
  BY <1>1, AtBench
  DEF TruthOnDisk, Collected, HammerheadRan, Simulation, Run!EndPCs, loopVars, labVars, Eligible
<1>6. Lists'
  BY <1>1, ListsKept DEF loopVars
<1> QED
  BY <1>1, <1>3, <1>4, <1>5, <1>6, ScoresKept DEF Inv, labVars

LEMMA TruthCollectedStep ==
  ASSUME Inv, TruthCollected
  PROVE  Inv'
<1>1. /\ step = "collect" /\ cur \in T /\ Eligible /\ pc' = "bench" /\ pc \in {"returned", "escaped"}
      /\ UNCHANGED <<labVars, avail, loopVars, bench, fileVars, scores>>
      /\ scores[cur] = NoScore
      /\ step' \in {"batfish", "result"}
  BY DEF TruthCollected, Inv, Standing, ToCome
<1>2. TypeOK'
  <2>1. Run!TypeOK /\ threeWay \subseteq T /\ simOnly \subseteq T
    BY Typed DEF Inv, TypeOK
  <2>2. dir' \in [Sources -> [Nodes -> Writer]] /\ sidecar' \in [Simulators -> Writer]
    BY <1>1 DEF Inv, TypeOK, fileVars
  <2> QED
    BY <1>1, <2>1, <2>2, TypesKept, SameTopologies DEF loopVars, Run!TypeOK, Run!PCs
<1>3. Standing' /\ ToCome'
  BY <1>1 DEF Inv, Standing, ToCome, Simulation, loopVars, labVars
<1>4. Collected'
  <2> SUFFICES ASSUME step' = "batfish"
               PROVE  /\ runs[cur].status = "passed" /\ "vendor_truth" \in runs[cur].done
                      /\ cur \in live => runs[cur].notes # {}
                      /\ dir["vendor_truth"] = Complete
    BY <1>1 DEF Collected, Simulation, loopVars, labVars, fileVars, Eligible
  <2>1. pc = "returned" /\ runs[cur].status = "passed"
    BY DEF TruthCollected
  <2>2. "vendor_truth" \in runs[cur].done
    BY <2>1 DEF Inv, Collecting, Run!InFinally, Run!EndPCs, Run!Ran
  <2>3. cur \in live => runs[cur].notes # {}
    BY <2>1 DEF Inv, Collecting, Run!Verified
  <2>4. dir["vendor_truth"] = Complete
    BY <1>1, <2>1 DEF Inv, TruthOnDisk, Run!EndPCs
  <2> QED
    BY <2>1, <2>2, <2>3, <2>4
<1>5. Collecting' /\ TruthOnDisk' /\ HammerheadRan'
  BY <1>1, AtBench DEF TruthOnDisk, HammerheadRan
<1>6. Lists'
  BY <1>1, ListsKept DEF loopVars
<1> QED
  BY <1>1, <1>2, <1>3, <1>4, <1>5, <1>6, ScoresKept DEF Inv, labVars

(* A simulator leaves the routers' files alone.                             *)
LEMMA SimulateFiles ==
  ASSUME Inv, NEW s \in Simulators, NEW next, Simulate(s, next)
  PROVE  /\ dir' \in [Sources -> [Nodes -> Writer]] /\ sidecar' \in [Simulators -> Writer]
         /\ dir'["vendor_truth"] = dir["vendor_truth"]
         /\ step' \in {next, "result"}
         /\ step' # "result" => sidecar'[s] = "this"
<1>1. PICK nodes \in SUBSET Nodes : Write(s, nodes)
  BY DEF Simulate
<1> DEFINE files == [n \in Nodes |-> IF n \in nodes THEN "this" ELSE dir[s][n]]
<1>2. /\ dir \in [Sources -> [Nodes -> Writer]] /\ sidecar \in [Simulators -> Writer]
      /\ s \in Sources /\ s # "vendor_truth" /\ "vendor_truth" \in Sources
  BY DEF Inv, TypeOK, Sources, Simulators
<1>3. files \in [Nodes -> Writer]
  BY <1>2 DEF Writer
<1>4. dir' = [dir EXCEPT ![s] = files]
  BY <1>1 DEF Write
<1>5. dir' \in [Sources -> [Nodes -> Writer]] /\ dir'["vendor_truth"] = dir["vendor_truth"]
  <2> HIDE DEF files
  <2> QED
    BY <1>2, <1>3, <1>4
<1> QED
  BY <1>2, <1>5 DEF Simulate, Writer

(* After a simulator's step, up to what it says of its own sidecar.         *)
LEMMA SimulatedStep ==
  ASSUME Inv, step \in {"batfish", "hammerhead"},
         step' \in {"hammerhead", "agreement", "result"}, avail' \in Nat,
         UNCHANGED <<labVars, pc, loopVars, bench, scores>>,
         dir' \in [Sources -> [Nodes -> Writer]], sidecar' \in [Simulators -> Writer],
         dir'["vendor_truth"] = dir["vendor_truth"],
         HammerheadRan'
  PROVE  Inv'
<1>1. pc = "bench" /\ cur \in T /\ scores[cur] = NoScore /\ pc' = "bench"
  BY DEF Inv, Standing, ToCome, Simulation
<1>2. TypeOK'
  <2>1. Run!TypeOK /\ threeWay \subseteq T /\ simOnly \subseteq T
    BY Typed DEF Inv, TypeOK
  <2> QED
    BY <2>1, TypesKept, SameTopologies DEF loopVars, Run!TypeOK
<1>3. Standing' /\ ToCome'
  BY <1>1 DEF Inv, Standing, ToCome, Simulation, loopVars, labVars
<1>4. Collected'
  BY DEF Inv, Collected, Simulation, loopVars, labVars, Eligible
<1>5. Collecting' /\ TruthOnDisk'
  BY <1>1, AtBench DEF TruthOnDisk
<1>6. Lists'
  BY ListsKept DEF loopVars
<1> QED
  BY <1>2, <1>3, <1>4, <1>5, <1>6, ScoresKept DEF Inv, labVars

LEMMA RunBatfishStep ==
  ASSUME Inv, RunBatfish
  PROVE  Inv'
<1>1. avail \in Nat /\ BatfishMb \in Nat
  BY Typed, RunAssumption DEF Run!TypeOK, Run!ConstantsAssumption
<1>2. CASE "batfish" \in bench.hooks
  <2>1. avail' \in Nat
    BY <1>1, <1>2 DEF RunBatfish
  <2>2. Simulate("batfish", "hammerhead") /\ "batfish" \in Simulators
    BY <1>2 DEF RunBatfish, Simulators
  <2>3. step' \in {"hammerhead", "result"} /\ HammerheadRan'
    BY <2>2, SimulateFiles DEF HammerheadRan
  <2> QED
    BY <2>1, <2>2, <2>3, SimulateFiles, SimulatedStep DEF RunBatfish
<1>3. CASE "batfish" \notin bench.hooks
  <2>1. /\ step' = "hammerhead" /\ UNCHANGED <<avail, fileVars>>
        /\ HammerheadRan'
    BY <1>3 DEF RunBatfish, HammerheadRan
  <2>2. dir \in [Sources -> [Nodes -> Writer]] /\ sidecar \in [Simulators -> Writer]
    BY DEF Inv, TypeOK
  <2> QED
    BY <1>1, <2>1, <2>2, SimulatedStep DEF RunBatfish, fileVars
<1> QED
  BY <1>2, <1>3

LEMMA RunHammerheadStep ==
  ASSUME Inv, RunHammerhead
  PROVE  Inv'
<1>1. avail' \in Nat /\ bench' = bench
  BY Typed DEF Run!TypeOK, RunHammerhead
<1>2. CASE "hammerhead" \in bench.hooks
  <2>1. Simulate("hammerhead", "agreement") /\ "hammerhead" \in Simulators
    BY <1>2 DEF RunHammerhead, Simulators
  <2>2. step' \in {"agreement", "result"} /\ HammerheadRan'
    BY <2>1, SimulateFiles DEF HammerheadRan
  <2> QED
    BY <1>1, <2>1, <2>2, SimulateFiles, SimulatedStep DEF RunHammerhead
<1>3. CASE "hammerhead" \notin bench.hooks
  <2>1. step' = "agreement" /\ UNCHANGED fileVars /\ HammerheadRan'
    BY <1>1, <1>3 DEF RunHammerhead, HammerheadRan
  <2>2. dir \in [Sources -> [Nodes -> Writer]] /\ sidecar \in [Simulators -> Writer]
    BY DEF Inv, TypeOK
  <2> QED
    BY <1>1, <2>1, <2>2, SimulatedStep DEF RunHammerhead, fileVars
<1> QED
  BY <1>2, <1>3

(* The files scored as vendor truth are complete, because the collection    *)
(* passed; the coverage verdict is Hammerhead's, because it returned.       *)
LEMMA ComputeAgreementStep ==
  ASSUME Inv, ComputeAgreement
  PROVE  Inv'
<1>1. /\ step = "agreement" /\ cur \in T /\ pc = "bench" /\ step' = "result"
      /\ scores[cur] = NoScore
      /\ UNCHANGED <<labVars, pc, avail, loopVars, bench, fileVars>>
  BY DEF ComputeAgreement, Inv, Standing, ToCome, Simulation
<1>2. dir \in [Sources -> [Nodes -> Writer]] /\ sidecar \in [Simulators -> Writer]
  BY DEF Inv, TypeOK
<1>3. Standing' /\ Collected' /\ Collecting' /\ TruthOnDisk' /\ HammerheadRan'
  BY <1>1, AtBench
  DEF Standing, Collected, TruthOnDisk, HammerheadRan, Simulation, loopVars
<1>4. CASE UNCHANGED scores
  <2>1. Run!TypeOK /\ threeWay \subseteq T /\ simOnly \subseteq T
    BY Typed DEF Inv, TypeOK
  <2>2. TypeOK'
    BY <1>1, <1>2, <1>4, <2>1, TypesKept, SameTopologies DEF loopVars, fileVars, Run!TypeOK
  <2>3. ToCome'
    BY <1>1, <1>4 DEF Inv, ToCome, loopVars, labVars
  <2>4. Lists'
    BY <1>1, <1>4, ListsKept DEF loopVars
  <2> QED
    BY <1>1, <1>3, <1>4, <2>2, <2>3, <2>4, ScoresKept DEF Inv, labVars
<1>5. CASE scores' = [scores EXCEPT ![cur] = Score]
  <2>1. /\ DOMAIN scores' = T /\ scores'[cur] = Score
        /\ \A t \in T : t # cur => scores'[t] = scores[t]
    BY <1>1, <1>5 DEF Inv, Scores
  <2>2. /\ Score.status = "passed" /\ Score.files = dir /\ Score.coverage = Coverage
        /\ Score.agreement = IF Eligible THEN "three_way" ELSE "sim_only"
        /\ Score.timing \in [Simulators -> Writer] /\ Coverage \in Writer
    BY <1>2 DEF Score, Timing, Coverage, Simulators, Writer
  <2>3. Scored' = Scored \cup {cur} /\ cur \notin Scored
    BY <1>1, <2>1, <2>2 DEF Scored, NoScore
  <2>4. Scores'
    BY <1>1, <2>1, <2>2 DEF Inv, Scores, Eligible
  <2>5. TypeOK'
    <3>1. Lab!TypeOK'
      <4>1. Run!TypeOK
        BY Typed
      <4> QED
        BY <1>1, <4>1, SameTypes DEF Run!TypeOK, loopVars, labVars
    <3>2. \A t \in (T \ Scored)' : scores'[t] = NoScore
      BY <1>1, <2>1, <2>3 DEF Inv, TypeOK
    <3>3. \A t \in Scored' :
            /\ scores'[t].status \in {"passed", "failed"}
            /\ scores'[t].agreement \in {"three_way", "sim_only"}
            /\ scores'[t].files \in [Sources -> [Nodes -> Writer]]
            /\ scores'[t].coverage \in Writer /\ scores'[t].timing \in [Simulators -> Writer]
      <4> SUFFICES ASSUME NEW t \in Scored'
                   PROVE  /\ scores'[t].status \in {"passed", "failed"}
                          /\ scores'[t].agreement \in {"three_way", "sim_only"}
                          /\ scores'[t].files \in [Sources -> [Nodes -> Writer]]
                          /\ scores'[t].coverage \in Writer
                          /\ scores'[t].timing \in [Simulators -> Writer]
        OBVIOUS
      <4>1. CASE t = cur
        BY <1>2, <2>1, <2>2, <4>1
      <4>2. CASE t # cur
        <5>1. t \in Scored /\ scores'[t] = scores[t]
          BY <2>1, <2>3, <4>2 DEF Scored
        <5> QED
          BY <5>1 DEF Inv, TypeOK
      <4> QED
        BY <4>1, <4>2
    <3> QED
      BY <1>1, <1>2, <3>1, <3>2, <3>3 DEF Inv, TypeOK, loopVars, labVars, fileVars
  <2>6. ToCome'
    <3> SUFFICES ASSUME NEW t \in T
                 PROVE  /\ t > cur => runs[t] = Run!FreshRun /\ t \notin live
                        /\ t > cur => scores'[t] = NoScore
      BY <1>1 DEF ToCome, loopVars, labVars
    <3>1. t \in Nat /\ cur \in Nat /\ (t > cur => t # cur)
      BY Typed
    <3> QED
      BY <2>1, <3>1 DEF Inv, ToCome
  <2>7. Lists'
    <3>1. cur \notin written /\ written \subseteq T
      BY Typed DEF Inv, Lists
    <3> QED
      BY <1>1, <2>1, <3>1 DEF Inv, Lists, loopVars
  <2>8. TruthIsOwn' /\ CoverageIsOwn'
    <3>1. Eligible => /\ runs[cur].status = "passed" /\ "vendor_truth" \in runs[cur].done
                      /\ dir["vendor_truth"] = Complete
      BY <1>1 DEF Inv, Collected, Simulation
    <3>2. TruthIsOwn'
      BY <1>1, <2>1, <2>2, <2>3, <3>1 DEF Inv, TruthIsOwn, Complete, labVars, Scored
    <3>3. Coverage = IF "hammerhead" \in bench.hooks THEN "this" ELSE "nobody"
      BY <1>1 DEF Inv, HammerheadRan, Coverage
    <3> QED
      BY <1>1, <2>1, <2>2, <2>3, <3>2, <3>3 DEF Inv, CoverageIsOwn, Scored
  <2> QED
    BY <1>3, <2>4, <2>5, <2>6, <2>7, <2>8 DEF Inv
<1> QED
  BY <1>4, <1>5 DEF ComputeAgreement

LEMMA RecordResultStep ==
  ASSUME Inv, RecordResult
  PROVE  Inv'
<1>1. /\ step = "result" /\ cur \in T /\ pc = "bench" /\ pc' = "bench"
      /\ UNCHANGED <<labVars, avail, bench, fileVars, scores>>
  BY DEF RecordResult, Inv, Standing
<1>2. /\ Run!TypeOK /\ NumTopologies \in Nat /\ T \subseteq Nat
      /\ cur + 1 \in 1..(NumTopologies + 1)
      /\ dir' \in [Sources -> [Nodes -> Writer]] /\ sidecar' \in [Simulators -> Writer]
      /\ written \subseteq T /\ failed \subseteq T
      /\ threeWay \subseteq T /\ simOnly \subseteq T /\ exit \in {"running", "ok", "nonzero"}
  BY <1>1, Typed, SameTopologies DEF Inv, TypeOK, fileVars, Run!TypeOK
<1>3. CASE /\ written' = written \cup {cur}
           /\ failed' = IF scores[cur].status = "passed" THEN failed ELSE failed \cup {cur}
           /\ threeWay' = threeWay \cup {t \in {cur} : scores[t].agreement = "three_way"}
           /\ simOnly' = simOnly \cup {t \in {cur} : scores[t].agreement = "sim_only"}
           /\ cur' = cur + 1
           /\ step' = "bench" /\ UNCHANGED exit
  <2>1. TypeOK'
    BY <1>1, <1>2, <1>3, TypesKept, SameTopologies DEF Run!TypeOK
  <2>2. Standing' /\ Collecting' /\ TruthOnDisk' /\ Collected' /\ HammerheadRan'
    BY <1>1, <1>3, AtBench DEF Standing, TruthOnDisk, Collected, HammerheadRan, Simulation
  <2>3. ToCome'
    <3> SUFFICES ASSUME NEW t \in T, t > cur + 1 \/ t = cur + 1
                 PROVE  runs[t] = Run!FreshRun /\ t \notin live /\ scores[t] = NoScore
      BY <1>1, <1>3 DEF ToCome, labVars
    <3>1. t \in Nat /\ cur \in Nat
      BY Typed
    <3>2. t > cur
      BY <3>1
    <3> QED
      BY <3>2 DEF Inv, ToCome
  <2>4. Lists'
    <3>1. written' = {t \in T : t < cur'}
      <4>1. cur \in Nat /\ written = {t \in T : t < cur}
        BY Typed DEF Inv, Lists
      <4>2. \A t \in T : t < cur + 1 <=> t < cur \/ t = cur
        BY <1>2, <4>1
      <4> QED
        BY <1>1, <1>3, <4>1, <4>2
    <3>2. failed' = {t \in written' : scores'[t].status # "passed"}
      BY <1>1, <1>3 DEF Inv, Lists
    <3>3. /\ threeWay' = {t \in written' : scores'[t].agreement = "three_way"}
          /\ simOnly' = {t \in written' : scores'[t].agreement = "sim_only"}
      BY <1>1, <1>3 DEF Inv, Lists
    <3> QED
      BY <1>3, <3>1, <3>2, <3>3 DEF Lists
  <2> QED
    BY <1>1, <2>1, <2>2, <2>3, <2>4, ScoresKept DEF Inv, labVars
<1>4. CASE /\ step' = "ended" /\ exit' = "nonzero"
           /\ UNCHANGED <<written, failed, threeWay, simOnly, cur>>
  <2>1. TypeOK'
    BY <1>1, <1>2, <1>4, TypesKept, SameTopologies DEF Run!TypeOK
  <2>2. Standing' /\ Collecting' /\ TruthOnDisk' /\ Collected' /\ HammerheadRan'
    BY <1>1, <1>4, AtBench DEF Standing, TruthOnDisk, Collected, HammerheadRan, Simulation
  <2>3. ToCome' /\ Lists'
    BY <1>1, <1>4 DEF Inv, ToCome, Lists, labVars
  <2> QED
    BY <1>1, <2>1, <2>2, <2>3, ScoresKept DEF Inv, labVars
<1> QED
  BY <1>3, <1>4 DEF RecordResult

(* The bench loop is over, or a Ctrl-C or an OSError ends it; no list       *)
(* changes any more.                                                        *)
LEMMA EndStep ==
  ASSUME Inv, Finish \/ Interrupt
  PROVE  Inv'
<1>1. /\ pc = "bench" /\ pc' = "bench" /\ step' \in {"done", "ended"}
      /\ UNCHANGED <<labVars, avail, cur, written, failed, threeWay, simOnly, bench,
                     fileVars, scores>>
      /\ exit' \in {"ok", "nonzero"}
      /\ step' = "done" => /\ cur \notin T
                           /\ exit' = IF failed = {} THEN "ok" ELSE "nonzero"
  BY DEF Finish, Interrupt, Inv, Standing, Simulation
<1>2. /\ Run!TypeOK /\ cur \in 1..(NumTopologies + 1) /\ NumTopologies \in Nat
      /\ dir' \in [Sources -> [Nodes -> Writer]] /\ sidecar' \in [Simulators -> Writer]
      /\ written \subseteq T /\ failed \subseteq T
      /\ threeWay \subseteq T /\ simOnly \subseteq T
  BY <1>1, Typed, SameTopologies DEF Inv, TypeOK, fileVars, Run!TypeOK
<1>3. TypeOK'
  BY <1>1, <1>2, TypesKept, SameTopologies DEF Run!TypeOK
<1>4. Standing'
  BY <1>1, <1>2 DEF Standing, Simulation, T
<1>5. Collecting' /\ TruthOnDisk' /\ Collected' /\ HammerheadRan'
  BY <1>1, AtBench DEF TruthOnDisk, Collected, HammerheadRan, Simulation
<1>6. ToCome'
  <2> SUFFICES ASSUME NEW t \in T
               PROVE  /\ t > cur => runs[t] = Run!FreshRun /\ t \notin live
                      /\ t > cur \/ (t = cur /\ step' = "done") => scores[t] = NoScore
    BY <1>1 DEF ToCome, labVars
  <2> QED
    BY <1>1 DEF Inv, ToCome
<1>7. Lists'
  BY <1>1 DEF Inv, Lists
<1> QED
  BY <1>1, <1>3, <1>4, <1>5, <1>6, <1>7, ScoresKept DEF Inv, labVars

(* Memory the kernel returns changes what is free and nothing else.         *)
LEMMA ReclaimStep ==
  ASSUME Inv, Reclaim
  PROVE  Inv'
<1>1. /\ Run!Reclaim /\ Run!Next
      /\ UNCHANGED <<threeWay, simOnly, bench, step, fileVars, scores>>
  BY SameReclaim DEF Reclaim, Run!Next
<1>2. UNCHANGED <<opts, cur, written, failed, exit, pc, lab, interrupted, runs,
                  baseline, polls, log, live>>
  BY <1>1 DEF Run!Reclaim, Run!benchVars
<1>3. Run!TypeOK' /\ Run!Headroom'
  BY <1>1, Typed, RunAssumption, Run!Typing, Run!HeadroomStep DEF Inv, Collecting
<1>4. Collecting'
  BY <1>2, <1>3
  DEF Inv, Collecting, Run!InRange, Run!StatusOfPhase, Run!Verified, Run!InTry, Run!InFinally,
      Run!Idle, Run!Tried
<1>5. TypeOK'
  BY <1>1, <1>2, <1>3, SameTypes DEF Inv, TypeOK, fileVars, Scored
<1>6. Standing' /\ ToCome' /\ TruthOnDisk' /\ Collected' /\ HammerheadRan' /\ Lists'
  BY <1>1, <1>2
  DEF Inv, Standing, ToCome, TruthOnDisk, Collected, HammerheadRan, Lists, fileVars, Eligible
<1> QED
  BY <1>1, <1>2, <1>4, <1>5, <1>6, ScoresKept DEF Inv

LEMMA InvStep == Inv /\ [Next]_vars => Inv'
<1>1. ASSUME Inv, UNCHANGED vars
      PROVE  Inv'
  <2>1. UNCHANGED <<opts, cur, written, failed, exit, pc, lab, interrupted, runs,
                    baseline, polls, log, live, owed, avail, bench, step, dir, sidecar,
                    scores, threeWay, simOnly>>
    BY <1>1 DEF vars, labVars, loopVars, fileVars
  <2>2. Run!TypeOK'
    BY <1>1, <2>1, Typed DEF Run!TypeOK
  <2>3. TypeOK' /\ Standing' /\ ToCome'
    BY <1>1, <2>1, <2>2, SameTypes DEF Inv, TypeOK, Standing, ToCome, Scored, Eligible
  <2>4. Collecting'
    BY <1>1, <2>1
    DEF Inv, Collecting, Run!InRange, Run!Headroom, Run!StatusOfPhase, Run!Verified, Run!InTry,
        Run!InFinally, Run!Idle, Run!Tried
  <2>5. TruthOnDisk' /\ Collected' /\ HammerheadRan' /\ Lists'
    BY <1>1, <2>1 DEF Inv, TruthOnDisk, Collected, HammerheadRan, Lists, Eligible
  <2> QED
    BY <1>1, <2>1, <2>3, <2>4, <2>5, ScoresKept DEF Inv
<1> QED
  BY <1>1, NextTopologyStep, CollectTruthStep, TruthCollectedStep, RunBatfishStep,
     RunHammerheadStep, ComputeAgreementStep, RecordResultStep, EndStep, ReclaimStep
  DEF Next, Bench

(* The inductive invariant of the bench.                                    *)
THEOREM Invariance == Spec => []Inv
<1> QED
  BY InvInit, InvStep, PTL DEF Spec

-----------------------------------------------------------------------------
(* What it is for.                                                          *)

(* Every variable keeps its type, with run_topology's inside the bench loop *)
(* of pipeline.py:run_topology_frr_only_truth; free memory never goes       *)
(* negative although a Batfish container may keep what it took.             *)
THEOREM TypeCorrect == Spec => []TypeOK
<1>1. Inv => TypeOK
  BY DEF Inv
<1> QED
  BY <1>1, Invariance, PTL

(* The simulators of an eligible topology run after its lab is gone, unless *)
(* run_topology noted that the teardown may have failed.                    *)
THEOREM SimulatorsRunAlone == Spec => []LabGoneOrNoted
<1>1. Inv => LabGoneOrNoted
  BY DEF Inv, Collected, Simulation, LabGoneOrNoted
<1> QED
  BY <1>1, Invariance, PTL

(* A three-way agreement is computed from vendor truth that this bench's    *)
(* own run read from every node and passed on, whatever older files and     *)
(* half-collected ones lay in its directory.                                *)
THEOREM TruthIsThisBenchs == Spec => []TruthIsOwn
<1>1. Inv => TruthIsOwn
  BY DEF Inv
<1> QED
  BY <1>1, Invariance, PTL

(* The coverage verdict kept with a score is of the Hammerhead run that was *)
(* scored, or there is none because Hammerhead did not run.                 *)
THEOREM CoverageIsThisBenchs == Spec => []CoverageIsOwn
<1>1. Inv => CoverageIsOwn
  BY DEF Inv
<1> QED
  BY <1>1, Invariance, PTL

(* The counts bench_summary.json takes of the results add up, each topology *)
(* on the side its eligibility says, and the exit status follows failures.  *)
THEOREM SummaryIsHonest == Spec => []SummaryHonest
<1>1. ASSUME Inv, step = "done"
      PROVE  /\ threeWay \cup simOnly \cup failed = T /\ written = T
             /\ threeWay \cap failed = {} /\ simOnly \cap failed = {}
             /\ threeWay \subseteq bench.eligible /\ simOnly \cap bench.eligible = {}
             /\ exit = "ok" <=> failed = {}
  <2>1. written = T
    <3>1. cur = NumTopologies + 1 /\ written = {t \in T : t < cur} /\ NumTopologies \in Nat
      BY <1>1, Typed DEF Inv, Standing, Lists
    <3> QED
      BY <3>1 DEF T
  <2>2. \A t \in T : \/ scores[t].status = "failed" /\ scores[t].agreement = "none"
                     \/ /\ scores[t].status = "passed"
                        /\ scores[t].agreement =
                             IF t \in bench.eligible THEN "three_way" ELSE "sim_only"
    BY <1>1 DEF Inv, Scores, NoScore
  <2> QED
    BY <1>1, <2>1, <2>2 DEF Inv, Lists
<1>2. Inv => SummaryHonest
  BY <1>1 DEF SummaryHonest
<1> QED
  BY <1>2, Invariance, PTL
=============================================================================
