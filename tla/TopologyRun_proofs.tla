------------------------ MODULE TopologyRun_proofs -------------------------
(***************************************************************************)
(* Proofs about the with-truth bench, for any number of topologies, any    *)
(* memory caps and any host.                                               *)
(*                                                                         *)
(* Inv is the inductive invariant behind all of them.  TypeOK alone is not *)
(* inductive: that Deploy leaves avail in Nat rests on the headroom guard  *)
(* and on nobody having taken memory since the baseline was read           *)
(* (Headroom).  LeftoverReported is about the topologies the loop is       *)
(* through with; what the current and the coming ones look like is the     *)
(* rest of the invariant.                                                  *)
(***************************************************************************)
EXTENDS TopologyRun, TLAPS

Idle == {"bench", "done", "stopped"}

(* Outside the bench loop there is a current topology.                      *)
InRange == pc \notin Idle => cur \in T

(* From the guard to the deploy, the baseline still bounds what is free.    *)
Headroom ==
  /\ pc \in {"headroom", "render", "deploy"} => baseline[cur] <= avail
  /\ pc \in {"render", "deploy"} => baseline[cur] >= HeadroomMultiplier * Cap[cur]

(* Topologies still to come have no result, no containers and no entry.     *)
Untouched ==
  \A t \in T :
    t > cur \/ (t = cur /\ pc = "bench") => runs[t] = FreshRun /\ t \notin live

(* Nothing of the current topology is on the host before it is deployed.    *)
NotYetLive == pc \in {"headroom", "render", "deploy"} => cur \notin live

(* The status is "failed" up to the diff, and a run whose status is         *)
(* "passed" has a lab to tear down.                                         *)
StatusOfPhase ==
  /\ pc \in {"headroom", "render", "deploy"} => runs[cur].status = "failed"
  /\ pc \in {"post-deploy", "converge", "extract", "write", "batfish",
             "hammerhead", "diff"} => lab
  /\ pc = "finally" /\ runs[cur].status = "passed" => lab

(* Once the teardown has been verified or skipped, containers of the        *)
(* current topology that are still there are accounted for.                 *)
Verified ==
  pc \in {"recovery", "leave", "returned"} /\ cur \in live =>
    runs[cur].status = "failed" \/ runs[cur].notes # {}

Inv ==
  /\ TypeOK
  /\ InRange
  /\ Headroom
  /\ Untouched
  /\ NotYetLive
  /\ StatusOfPhase
  /\ Verified
  /\ LeftoverReported


(* The frame of a step of the try block.                                    *)
TryFrame == UNCHANGED <<benchVars, lab, baseline, polls, log, hostVars>>

-----------------------------------------------------------------------------
(* Adding a note, a sample or a sample and an error to the current result   *)
(* leaves it a result.                                                      *)
LEMMA NoteTyping ==
  ASSUME runs \in [T -> RunRecord], cur \in T, NEW note \in Notes
  PROVE  [runs EXCEPT ![cur].notes = @ \cup {note}] \in [T -> RunRecord]
<1>1. [runs[cur] EXCEPT !.notes = @ \cup {note}] \in RunRecord
  BY DEF RunRecord
<1> QED
  BY <1>1

LEMMA SampleTyping ==
  ASSUME runs \in [T -> RunRecord], cur \in T, NEW phase \in Phases,
         NEW logged \in BOOLEAN, RecordSample(phase, logged)
  PROVE  runs' \in [T -> RunRecord]
<1>1. [runs[cur] EXCEPT !.samples = @ \cup {phase}] \in RunRecord
  BY DEF RunRecord
<1> QED
  BY <1>1 DEF RecordSample

LEMMA SampleInTryTyping ==
  ASSUME runs \in [T -> RunRecord], cur \in T, NEW phase \in Phases,
         NEW logged \in BOOLEAN, NEW next,
         RecordSampleInTry(phase, logged, next)
  PROVE  runs' \in [T -> RunRecord]
<1> DEFINE r == [runs[cur] EXCEPT !.samples = @ \cup {phase},
                                  !.error = IF logged THEN @ ELSE "exception"]
<1>1. r \in RunRecord
  BY DEF RunRecord
<1>2. runs' = [runs EXCEPT ![cur] = r]
  BY DEF RecordSampleInTry
<1> QED
  BY <1>1, <1>2

(* So does what the diff step and the teardown verification put in it.      *)
LEMMA DiffTyping ==
  ASSUME runs \in [T -> RunRecord], cur \in T, ComputeDiff
  PROVE  runs' \in [T -> RunRecord]
<1> DEFINE steps == IF NoDiff THEN runs[cur].done ELSE runs[cur].done \cup {"diff"}
           r == [runs[cur] EXCEPT !.status = "passed", !.done = steps]
<1>1. steps \subseteq Steps
  BY DEF RunRecord, Steps
<1>2. r \in RunRecord
  <2> HIDE DEF steps
  <2> QED
    BY <1>1 DEF RunRecord
<1>3. runs' = [runs EXCEPT ![cur] = r]
  BY DEF ComputeDiff
<1> QED
  BY <1>2, <1>3

LEMMA VerifyTyping ==
  ASSUME runs \in [T -> RunRecord], cur \in T, VerifyTeardown
  PROVE  runs' \in [T -> RunRecord]
<1>1. \/ runs' = runs
      \/ runs' = [runs EXCEPT ![cur].notes = @]
      \/ \E note \in Notes : runs' = [runs EXCEPT ![cur].notes = @ \cup {note}]
  BY DEF VerifyTeardown, Notes
<1> QED
  BY <1>1, NoteTyping DEF RunRecord

(* Every step leaves well-formed results.                                   *)
LEMMA RunsTyping ==
  ASSUME TypeOK, InRange, Next
  PROVE  runs' \in [T -> RunRecord]
<1>0. runs \in [T -> RunRecord]
  BY DEF TypeOK
<1>1. CASE PreDeploySample
  <2>1. cur \in T
    BY <1>1 DEF PreDeploySample, InRange, Idle
  <2> QED
    BY <1>1, <1>0, <2>1, SampleInTryTyping DEF PreDeploySample, Phases
<1>2. CASE CheckHeadroom
  <2>1. cur \in T
    BY <1>2 DEF CheckHeadroom, InRange, Idle
  <2> QED
    BY <1>2, <1>0, <2>1 DEF CheckHeadroom, RunRecord
<1>3. CASE DeployFails
  <2>1. cur \in T
    BY <1>3 DEF DeployFails, InRange, Idle
  <2> QED
    BY <1>3, <1>0, <2>1 DEF DeployFails, RunRecord, Raise
<1>4. CASE PostDeploySample
  <2>1. cur \in T
    BY <1>4 DEF PostDeploySample, InRange, Idle
  <2> QED
    BY <1>4, <1>0, <2>1, SampleInTryTyping DEF PostDeploySample, Phases
<1>5. CASE WriteFibs /\ TryFrame
  <2>1. cur \in T
    BY <1>5 DEF WriteFibs, InRange, Idle
  <2> QED
    BY <1>5, <1>0, <2>1 DEF WriteFibs, RunRecord, Complete, Steps
<1>6. CASE RunHammerhead /\ TryFrame
  <2>1. cur \in T
    BY <1>6 DEF RunHammerhead, InRange, Idle
  <2> QED
    BY <1>6, <1>0, <2>1 DEF RunHammerhead, RunRecord, Complete, Steps
<1>7. CASE ComputeDiff /\ TryFrame
  <2>1. cur \in T
    BY <1>7 DEF ComputeDiff, InRange, Idle
  <2> QED
    BY <1>7, <1>0, <2>1, DiffTyping
<1>8. CASE StepRaises /\ TryFrame
  <2>1. cur \in T
    BY <1>8 DEF StepRaises, InRange, Idle
  <2> QED
    BY <1>8, <1>0, <2>1 DEF StepRaises, RunRecord, Raise
<1>9. CASE RunBatfish
  <2>1. cur \in T
    BY <1>9 DEF RunBatfish, InRange, Idle
  <2> QED
    BY <1>9, <1>0, <2>1 DEF RunBatfish, RunRecord, Complete, Raise, Steps
<1>10. CASE DestroyLab
  <2>1. cur \in T
    BY <1>10 DEF DestroyLab, InRange, Idle
  <2> QED
    BY <1>10, <1>0, <2>1, NoteTyping DEF DestroyLab, Notes
<1>11. CASE PostTeardownSample
  <2>1. cur \in T
    BY <1>11 DEF PostTeardownSample, InRange, Idle
  <2> QED
    BY <1>11, <1>0, <2>1, SampleTyping DEF PostTeardownSample, Phases
<1>12. CASE VerifyTeardown
  <2>1. cur \in T
    BY <1>12 DEF VerifyTeardown, InRange, Idle
  <2> QED
    BY <1>12, <1>0, <2>1, VerifyTyping
<1>13. CASE PollRecovery
  <2>1. cur \in T
    BY <1>13 DEF PollRecovery, InRange, Idle
  <2> QED
    BY <1>13, <1>0, <2>1, NoteTyping, SampleTyping
    DEF PollRecovery, Phases, Notes
<1>14. CASE UNCHANGED runs
  BY <1>0, <1>14
<1> QED
  BY <1>1, <1>2, <1>3, <1>4, <1>5, <1>6, <1>7, <1>8, <1>9, <1>10, <1>11, <1>12, <1>13, <1>14
  DEF Next, Harness, RunTopology, TryStep, TryFrame, Deploy, RenderTopology,
      WaitConvergence, ExtractFibs, SkipTeardown, LeaveFinally,
      RecordResult, CatchEscaped, Finish, Reclaim

(* A step changes the result and the containers of the current topology     *)
(* only, and moves on by one at most.                                       *)
LEMMA OnlyCurrent ==
  ASSUME TypeOK, InRange, Next
  PROVE  /\ cur' \in {cur, cur + 1}
         /\ \A t \in T : t # cur => /\ runs'[t] = runs[t]
                                  /\ (t \in live') = (t \in live)
                                  /\ (t \in failed') = (t \in failed)
<1> USE DEF TypeOK, benchVars, hostVars
<1>1. CASE PreDeploySample \/ CheckHeadroom \/ Deploy \/ DeployFails \/
        PostDeploySample
  BY <1>1
  DEF PreDeploySample, RecordSampleInTry, CheckHeadroom, Deploy,
      CreateContainers, DeployFails, Raise, PostDeploySample
<1>2. CASE TryStep
  BY <1>2
  DEF TryStep, RenderTopology, WaitConvergence, ExtractFibs, WriteFibs,
      Complete, RunHammerhead, ComputeDiff, StepRaises, Raise
<1>3. CASE DestroyLab
  <2>1. UNCHANGED <<cur, failed>>
    BY <1>3 DEF DestroyLab
  <2>2. \A t \in T : t # cur => runs'[t] = runs[t]
    BY <1>3 DEF DestroyLab
  <2>3. \A t \in T : t # cur => (t \in live') = (t \in live)
    <3>1. live' = live \ {cur} \/ live' = live
      BY <1>3 DEF DestroyLab, RemoveContainers
    <3> QED
      BY <3>1
  <2> QED
    BY <2>1, <2>2, <2>3
<1>4. CASE RunBatfish \/ SkipTeardown \/ PostTeardownSample
  BY <1>4
  DEF RunBatfish, Complete, Raise, SkipTeardown, PostTeardownSample,
      RecordSample
<1>5. CASE VerifyTeardown \/ PollRecovery \/ LeaveFinally
  BY <1>5 DEF VerifyTeardown, PollRecovery, RecordSample, LeaveFinally
<1>6. CASE RecordResult \/ CatchEscaped \/ Finish \/ Reclaim
  BY <1>6 DEF RecordResult, CatchEscaped, Finish, Reclaim
<1> QED BY <1>1, <1>2, <1>3, <1>4, <1>5, <1>6 DEF Next, Harness, RunTopology

(* Type correctness of one step.                                            *)
LEMMA Typing ==
  ASSUME TypeOK, InRange, Headroom, Next
  PROVE  TypeOK'
<1>0. runs' \in [T -> RunRecord]
  BY RunsTyping
<1>1. CASE PreDeploySample
  <2>1. cur \in T
    BY <1>1 DEF PreDeploySample, InRange, Idle
  <2>2. log' \subseteq T \X Phases
    <3>1. log' = log \/ log' = log \cup {<<cur, "pre-deploy">>}
      BY <1>1 DEF PreDeploySample, RecordSampleInTry
    <3> QED
      BY <2>1, <3>1 DEF TypeOK, Phases
  <2>3. pc' \in PCs
    BY <1>1 DEF PreDeploySample, RecordSampleInTry, PCs
  <2>4. baseline' \in [T -> Nat]
    BY <1>1 DEF TypeOK, PreDeploySample
  <2> QED
    BY <1>1, <1>0, <2>1, <2>2, <2>3, <2>4
    DEF TypeOK, benchVars, hostVars, PreDeploySample
<1>2. CASE CheckHeadroom
  BY <1>2, <1>0 DEF TypeOK, PCs, benchVars, hostVars, CheckHeadroom
<1>3. CASE Deploy
  <2>1. cur \in T
    BY <1>3 DEF Deploy, InRange, Idle
  <2>2. avail - Usage[cur] \in Nat
    <3>1. /\ Usage[cur] \in Nat /\ Cap[cur] \in Nat /\ Usage[cur] <= Cap[cur]
          /\ HeadroomMultiplier \in Nat \ {0}
      BY <2>1, ConstantsAssumption DEF ConstantsAssumption
    <3>2. baseline[cur] \in Nat /\ avail \in Nat
      BY <2>1 DEF TypeOK
    <3>3. HeadroomMultiplier * Cap[cur] <= baseline[cur] /\ baseline[cur] <= avail
      BY <1>3, <3>1, <3>2 DEF Headroom, Deploy
    <3>4. Cap[cur] <= HeadroomMultiplier * Cap[cur]
      BY <3>1
    <3> QED
      BY <3>1, <3>2, <3>3, <3>4
  <2>3. pc' \in PCs
    BY <1>3 DEF Deploy, PCs
  <2> QED
    BY <1>3, <1>0, <2>1, <2>2, <2>3
    DEF TypeOK, benchVars, hostVars, Deploy, CreateContainers
<1>4. CASE DeployFails
  <2>1. cur \in T
    BY <1>4 DEF DeployFails, InRange, Idle
  <2>2. avail - Usage[cur] \in Nat
    <3>1. /\ Usage[cur] \in Nat /\ Cap[cur] \in Nat /\ Usage[cur] <= Cap[cur]
          /\ HeadroomMultiplier \in Nat \ {0}
      BY <2>1, ConstantsAssumption DEF ConstantsAssumption
    <3>2. baseline[cur] \in Nat /\ avail \in Nat
      BY <2>1 DEF TypeOK
    <3>3. HeadroomMultiplier * Cap[cur] <= baseline[cur] /\ baseline[cur] <= avail
      BY <1>4, <3>1, <3>2 DEF Headroom, DeployFails
    <3>4. Cap[cur] <= HeadroomMultiplier * Cap[cur]
      BY <3>1
    <3> QED
      BY <3>1, <3>2, <3>3, <3>4
  <2>3. pc' \in PCs
    BY <1>4 DEF DeployFails, Raise, PCs
  <2>4. live' \subseteq T /\ avail' \in Nat
    BY <1>4, <2>1, <2>2 DEF TypeOK, DeployFails, CreateContainers
  <2>5. interrupted' \in BOOLEAN
    BY <1>4 DEF TypeOK, DeployFails, Raise
  <2> QED
    BY <1>4, <1>0, <2>1, <2>2, <2>3, <2>4, <2>5
    DEF TypeOK, benchVars, hostVars, DeployFails
<1>5. CASE PostDeploySample
  <2>1. cur \in T
    BY <1>5 DEF PostDeploySample, InRange, Idle
  <2>2. log' \subseteq T \X Phases
    <3>1. log' = log \/ log' = log \cup {<<cur, "post-deploy">>}
      BY <1>5 DEF PostDeploySample, RecordSampleInTry
    <3> QED
      BY <2>1, <3>1 DEF TypeOK, Phases
  <2>3. pc' \in PCs
    BY <1>5 DEF PostDeploySample, RecordSampleInTry, PCs
  <2> QED
    BY <1>5, <1>0, <2>1, <2>2, <2>3
    DEF TypeOK, benchVars, hostVars, PostDeploySample
<1>6. CASE RenderTopology /\ TryFrame
  BY <1>6, <1>0 DEF TypeOK, PCs, benchVars, hostVars, RenderTopology, TryFrame
<1>7. CASE WaitConvergence /\ TryFrame
  BY <1>7, <1>0 DEF TypeOK, PCs, benchVars, hostVars, WaitConvergence, TryFrame
<1>8. CASE ExtractFibs /\ TryFrame
  BY <1>8, <1>0 DEF TypeOK, PCs, benchVars, hostVars, ExtractFibs, TryFrame
<1>9. CASE WriteFibs /\ TryFrame
  BY <1>9, <1>0
  DEF TypeOK, PCs, benchVars, hostVars, WriteFibs, Complete, TryFrame
<1>10. CASE RunHammerhead /\ TryFrame
  BY <1>10, <1>0
  DEF TypeOK, PCs, benchVars, hostVars, RunHammerhead, Complete, TryFrame
<1>11. CASE ComputeDiff /\ TryFrame
  BY <1>11, <1>0 DEF TypeOK, PCs, benchVars, hostVars, ComputeDiff, TryFrame
<1>12. CASE StepRaises /\ TryFrame
  BY <1>12, <1>0
  DEF TypeOK, PCs, benchVars, hostVars, StepRaises, Raise, TryFrame
<1>13. CASE RunBatfish
  <2>1. pc' \in PCs
    BY <1>13 DEF RunBatfish, Complete, Raise, PCs
  <2>2. avail' \in Nat
    BY <1>13, ConstantsAssumption DEF TypeOK, RunBatfish, ConstantsAssumption
  <2>3. interrupted' \in BOOLEAN
    BY <1>13 DEF TypeOK, RunBatfish, Complete, Raise
  <2> QED
    BY <1>13, <1>0, <2>1, <2>2, <2>3 DEF TypeOK, benchVars, hostVars, RunBatfish
<1>14. CASE SkipTeardown
  BY <1>14, <1>0 DEF TypeOK, PCs, benchVars, hostVars, SkipTeardown
<1>15. CASE DestroyLab
  <2>1. cur \in T
    BY <1>15 DEF DestroyLab, InRange, Idle
  <2>2. pc' \in PCs
    BY <1>15 DEF DestroyLab, PCs
  <2>3. owed' \in Nat
    <3>1. Usage[cur] \in Nat
      BY <2>1, ConstantsAssumption DEF ConstantsAssumption
    <3>2. owed' = owed \/ owed' = owed + Usage[cur]
      BY <1>15 DEF DestroyLab, RemoveContainers
    <3> QED
      BY <3>1, <3>2 DEF TypeOK
  <2>4. live' \subseteq T
    <3>1. live' = live \ {cur} \/ live' = live
      BY <1>15 DEF DestroyLab, RemoveContainers
    <3> QED
      BY <3>1 DEF TypeOK
  <2> QED
    BY <1>15, <1>0, <2>1, <2>2, <2>3, <2>4
    DEF TypeOK, benchVars, hostVars, DestroyLab
<1>16. CASE PostTeardownSample
  <2>1. cur \in T
    BY <1>16 DEF PostTeardownSample, InRange, Idle
  <2>2. log' \subseteq T \X Phases
    <3>1. log' = log \/ log' = log \cup {<<cur, "post-teardown">>}
      BY <1>16 DEF PostTeardownSample, RecordSample
    <3> QED
      BY <2>1, <3>1 DEF TypeOK, Phases
  <2>3. pc' \in PCs
    BY <1>16 DEF PostTeardownSample, PCs
  <2> QED
    BY <1>16, <1>0, <2>1, <2>2, <2>3
    DEF TypeOK, benchVars, hostVars, PostTeardownSample
<1>17. CASE VerifyTeardown
  <2>1. pc' \in PCs
    BY <1>17 DEF VerifyTeardown, PCs
  <2>2. polls' \in Nat
    BY <1>17, ConstantsAssumption DEF VerifyTeardown, ConstantsAssumption
  <2> QED
    BY <1>17, <1>0, <2>1, <2>2 DEF TypeOK, benchVars, hostVars, VerifyTeardown
<1>18. CASE PollRecovery
  <2>1. cur \in T
    BY <1>18 DEF PollRecovery, InRange, Idle
  <2>2. log' \subseteq T \X Phases
    <3>1. log' = log \/ log' = log \cup {<<cur, "recovered">>}
      BY <1>18 DEF PollRecovery, RecordSample
    <3> QED
      BY <2>1, <3>1 DEF TypeOK, Phases
  <2>3. pc' \in PCs
    <3>1. pc' \in {"recovery", "leave", "escaped"}
      BY <1>18 DEF PollRecovery
    <3> QED
      BY <3>1 DEF PCs
  <2>4. polls' \in Nat
    <3>1. polls' = polls \/ (polls > 0 /\ polls' = polls - 1)
      BY <1>18 DEF PollRecovery
    <3> QED
      BY <3>1 DEF TypeOK
  <2> QED
    BY <1>18, <1>0, <2>1, <2>2, <2>3, <2>4
    DEF TypeOK, benchVars, hostVars, PollRecovery
<1>19. CASE LeaveFinally
  BY <1>19, <1>0 DEF TypeOK, PCs, benchVars, hostVars, LeaveFinally
<1>20. CASE RecordResult
  <2>1. cur \in T
    BY <1>20 DEF RecordResult, InRange, Idle
  <2>2. cur' \in 1..(NumTopologies + 1)
    BY <1>20, <2>1, ConstantsAssumption DEF TypeOK, T, ConstantsAssumption, RecordResult
  <2>3. pc' \in PCs
    BY <1>20 DEF RecordResult, PCs
  <2>4. written' \subseteq T /\ failed' \subseteq T
    BY <1>20, <2>1 DEF TypeOK, RecordResult
  <2>5. exit' \in {"running", "ok", "nonzero"}
    BY <1>20 DEF TypeOK, RecordResult
  <2> QED
    BY <1>20, <1>0, <2>1, <2>2, <2>3, <2>4, <2>5
    DEF TypeOK, benchVars, hostVars, RecordResult
<1>21. CASE CatchEscaped
  <2>1. cur \in T
    BY <1>21 DEF CatchEscaped, InRange, Idle
  <2>2. cur' \in 1..(NumTopologies + 1)
    BY <1>21, <2>1, ConstantsAssumption DEF TypeOK, T, ConstantsAssumption, CatchEscaped
  <2>3. pc' \in PCs
    BY <1>21 DEF CatchEscaped, PCs
  <2> QED
    BY <1>21, <1>0, <2>1, <2>2, <2>3 DEF TypeOK, benchVars, hostVars, CatchEscaped
<1>22. CASE Finish
  BY <1>22, <1>0 DEF TypeOK, PCs, benchVars, hostVars, Finish
<1>23. CASE Reclaim
  BY <1>23, <1>0 DEF TypeOK, PCs, benchVars, hostVars, Reclaim
<1> QED BY <1>1, <1>2, <1>3, <1>4, <1>5, <1>6, <1>7, <1>8, <1>9, <1>10,
        <1>11, <1>12, <1>13, <1>14, <1>15, <1>16, <1>17, <1>18, <1>19, <1>20,
        <1>21, <1>22, <1>23 DEF Next, Harness, RunTopology, TryStep, TryFrame

-----------------------------------------------------------------------------
(* The remaining conjuncts of Inv, one step each.                           *)
LEMMA InRangeStep ==
  ASSUME TypeOK, InRange, Next
  PROVE  InRange'
<1> USE DEF InRange, Idle, benchVars, hostVars
<1>1. CASE PreDeploySample \/ CheckHeadroom \/ Deploy \/ DeployFails \/
        PostDeploySample
  BY <1>1
  DEF PreDeploySample, RecordSampleInTry, CheckHeadroom, Deploy,
      CreateContainers, DeployFails, Raise, PostDeploySample
<1>2. CASE TryStep
  BY <1>2
  DEF TryStep, RenderTopology, WaitConvergence, ExtractFibs, WriteFibs,
      Complete, RunHammerhead, ComputeDiff, StepRaises, Raise
<1>3. CASE RunBatfish \/ SkipTeardown \/ DestroyLab \/ PostTeardownSample
  BY <1>3
  DEF RunBatfish, Complete, Raise, SkipTeardown, DestroyLab,
      RemoveContainers, PostTeardownSample, RecordSample
<1>4. CASE VerifyTeardown \/ PollRecovery \/ LeaveFinally
  BY <1>4 DEF VerifyTeardown, PollRecovery, RecordSample, LeaveFinally
<1>5. CASE RecordResult \/ CatchEscaped \/ Finish \/ Reclaim
  BY <1>5 DEF RecordResult, CatchEscaped, Finish, Reclaim
<1> QED BY <1>1, <1>2, <1>3, <1>4, <1>5 DEF Next, Harness, RunTopology

LEMMA HeadroomStep ==
  ASSUME TypeOK, InRange, Headroom, Next
  PROVE  Headroom'
<1> USE DEF Headroom, benchVars, hostVars
<1>1. CASE PreDeploySample
  <2>1. cur \in T /\ avail \in Nat /\ baseline \in [T -> Nat]
    BY <1>1 DEF PreDeploySample, TypeOK
  <2>2. UNCHANGED <<cur, avail>> /\ baseline' = [baseline EXCEPT ![cur] = avail]
    BY <1>1 DEF PreDeploySample
  <2>3. pc' \in {"headroom", "finally"}
    BY <1>1 DEF PreDeploySample, RecordSampleInTry
  <2> QED
    BY <2>1, <2>2, <2>3
<1>2. CASE CheckHeadroom \/ Deploy \/ DeployFails \/ PostDeploySample
  BY <1>2
  DEF CheckHeadroom, Deploy, CreateContainers, DeployFails, Raise,
      PostDeploySample, RecordSampleInTry
<1>3. CASE TryStep
  BY <1>3
  DEF TryStep, RenderTopology, WaitConvergence, ExtractFibs, WriteFibs,
      Complete, RunHammerhead, ComputeDiff, StepRaises, Raise
<1>4. CASE RunBatfish \/ SkipTeardown \/ DestroyLab \/ PostTeardownSample
  BY <1>4
  DEF RunBatfish, Complete, Raise, SkipTeardown, DestroyLab,
      RemoveContainers, PostTeardownSample, RecordSample
<1>5. CASE VerifyTeardown \/ PollRecovery \/ LeaveFinally
  BY <1>5 DEF VerifyTeardown, PollRecovery, RecordSample, LeaveFinally
<1>6. CASE Reclaim
  <2>1. avail \in Nat /\ avail' \in Nat /\ avail <= avail'
    BY <1>6 DEF Reclaim, TypeOK
  <2>2. UNCHANGED <<pc, cur, baseline>>
    BY <1>6 DEF Reclaim
  <2>3. pc \in {"headroom", "render", "deploy"} => baseline[cur] \in Nat
    BY DEF InRange, Idle, TypeOK
  <2> QED
    BY <2>1, <2>2, <2>3
<1>7. CASE RecordResult \/ CatchEscaped \/ Finish
  BY <1>7 DEF RecordResult, CatchEscaped, Finish
<1> QED BY <1>1, <1>2, <1>3, <1>4, <1>5, <1>6, <1>7 DEF Next, Harness, RunTopology

(* The loop is back at its head only with the next topology.                *)
LEMMA BackToBench ==
  ASSUME Next, pc' = "bench"
  PROVE  cur' = cur + 1 \/ (pc = "bench" /\ UNCHANGED <<cur, runs, live>>)
<1>1. CASE PreDeploySample \/ CheckHeadroom \/ Deploy \/ DeployFails \/
        PostDeploySample
  BY <1>1
  DEF benchVars, hostVars, PreDeploySample, RecordSampleInTry,
      CheckHeadroom, Deploy, CreateContainers, DeployFails, Raise,
      PostDeploySample
<1>2. CASE TryStep
  BY <1>2
  DEF benchVars, hostVars, TryStep, RenderTopology, WaitConvergence,
      ExtractFibs, WriteFibs, Complete, RunHammerhead, ComputeDiff,
      StepRaises, Raise
<1>3. CASE RunBatfish \/ SkipTeardown \/ DestroyLab \/ PostTeardownSample
  BY <1>3
  DEF benchVars, hostVars, RunBatfish, Complete, Raise, SkipTeardown,
      DestroyLab, RemoveContainers, PostTeardownSample, RecordSample
<1>4. CASE VerifyTeardown \/ PollRecovery \/ LeaveFinally
  BY <1>4
  DEF benchVars, hostVars, VerifyTeardown, PollRecovery, RecordSample,
      LeaveFinally
<1>5. CASE RecordResult \/ CatchEscaped \/ Finish \/ Reclaim
  BY <1>5 DEF benchVars, hostVars, RecordResult, CatchEscaped, Finish, Reclaim
<1> QED BY <1>1, <1>2, <1>3, <1>4, <1>5 DEF Next, Harness, RunTopology

LEMMA UntouchedStep ==
  ASSUME TypeOK, InRange, Untouched, Next
  PROVE  Untouched'
<1> SUFFICES ASSUME NEW t \in T,
                    t > cur' \/ (t = cur' /\ pc' = "bench")
             PROVE  runs'[t] = FreshRun /\ t \notin live'
  BY DEF Untouched
<1>1. /\ cur \in Nat /\ t \in Nat
      /\ cur' \in {cur, cur + 1}
  BY OnlyCurrent, ConstantsAssumption DEF TypeOK, T, ConstantsAssumption
<1>2. CASE t > cur
  BY <1>1, <1>2, OnlyCurrent DEF Untouched
<1>3. CASE ~(t > cur)
  <2>1. t = cur' /\ pc' = "bench" /\ cur' = cur
    BY <1>1, <1>3
  <2>2. pc = "bench" /\ UNCHANGED <<cur, runs, live>>
    BY <1>1, <2>1, BackToBench
  <2> QED
    BY <2>1, <2>2 DEF Untouched
<1> QED
  BY <1>2, <1>3

LEMMA NotYetLiveStep ==
  ASSUME TypeOK, Untouched, NotYetLive, Next
  PROVE  NotYetLive'
<1> USE DEF NotYetLive, benchVars, hostVars
<1>1. CASE PreDeploySample \/ CheckHeadroom \/ Deploy \/ DeployFails \/
        PostDeploySample
  BY <1>1
  DEF PreDeploySample, RecordSampleInTry, CheckHeadroom, Deploy,
      CreateContainers, DeployFails, Raise, PostDeploySample, Untouched
<1>2. CASE TryStep
  BY <1>2
  DEF TryStep, RenderTopology, WaitConvergence, ExtractFibs, WriteFibs,
      Complete, RunHammerhead, ComputeDiff, StepRaises, Raise
<1>3. CASE RunBatfish \/ SkipTeardown \/ DestroyLab \/ PostTeardownSample
  BY <1>3
  DEF RunBatfish, Complete, Raise, SkipTeardown, DestroyLab,
      RemoveContainers, PostTeardownSample, RecordSample
<1>4. CASE VerifyTeardown \/ PollRecovery \/ LeaveFinally
  BY <1>4 DEF VerifyTeardown, PollRecovery, RecordSample, LeaveFinally
<1>5. CASE RecordResult \/ CatchEscaped \/ Finish \/ Reclaim
  BY <1>5 DEF RecordResult, CatchEscaped, Finish, Reclaim
<1> QED BY <1>1, <1>2, <1>3, <1>4, <1>5 DEF Next, Harness, RunTopology

LEMMA StatusOfPhaseStep ==
  ASSUME TypeOK, InRange, Untouched, StatusOfPhase, Next
  PROVE  StatusOfPhase'
<1> USE DEF StatusOfPhase, TypeOK, benchVars, hostVars
<1>1. CASE CheckHeadroom
  <2>1. cur \in T
    BY <1>1 DEF CheckHeadroom, InRange, Idle
  <2>2. runs'[cur].status = runs[cur].status /\ cur' = cur
    BY <1>1, <2>1 DEF RunRecord, CheckHeadroom
  <2> QED
    BY <1>1, <2>2 DEF CheckHeadroom
<1>2. CASE DeployFails
  <2>1. cur \in T
    BY <1>2 DEF DeployFails, InRange, Idle
  <2>2. runs'[cur].status = runs[cur].status /\ cur' = cur
    BY <1>2, <2>1 DEF RunRecord, DeployFails, Raise
  <2> QED
    BY <1>2, <2>2 DEF DeployFails, Raise
<1>3. CASE PreDeploySample \/ Deploy \/ PostDeploySample
  BY <1>3
  DEF PreDeploySample, RecordSampleInTry, Deploy, CreateContainers,
      PostDeploySample, Untouched, FreshRun
<1>4. CASE StepRaises /\ TryFrame
  <2>1. cur \in T
    BY <1>4 DEF StepRaises, InRange, Idle
  <2>2. runs'[cur].status = runs[cur].status /\ cur' = cur
    BY <1>4, <2>1 DEF RunRecord, StepRaises, Raise, TryFrame
  <2> QED
    BY <1>4, <2>2 DEF StepRaises, Raise, TryFrame
<1>5. CASE (RenderTopology \/ WaitConvergence \/ ExtractFibs \/ WriteFibs \/
        RunHammerhead \/ ComputeDiff) /\ TryFrame
  BY <1>5
  DEF RenderTopology, TryFrame, WaitConvergence, ExtractFibs, WriteFibs,
      Complete, RunHammerhead, ComputeDiff
<1>6. CASE RunBatfish \/ SkipTeardown \/ DestroyLab \/ PostTeardownSample
  BY <1>6
  DEF RunBatfish, Complete, Raise, SkipTeardown, DestroyLab,
      RemoveContainers, PostTeardownSample, RecordSample
<1>7. CASE VerifyTeardown \/ PollRecovery \/ LeaveFinally
  BY <1>7 DEF VerifyTeardown, PollRecovery, RecordSample, LeaveFinally
<1>8. CASE RecordResult \/ CatchEscaped \/ Finish \/ Reclaim
  BY <1>8 DEF RecordResult, CatchEscaped, Finish, Reclaim
<1> QED BY <1>1, <1>2, <1>3, <1>4, <1>5, <1>6, <1>7, <1>8 DEF Next, Harness, RunTopology,
        TryStep, TryFrame

LEMMA VerifiedStep ==
  ASSUME TypeOK, InRange, StatusOfPhase, Verified, Next
  PROVE  Verified'
<1> USE DEF Verified, TypeOK, benchVars, hostVars
<1>1. CASE PreDeploySample \/ CheckHeadroom \/ Deploy \/ DeployFails \/
        PostDeploySample
  BY <1>1
  DEF PreDeploySample, RecordSampleInTry, CheckHeadroom, Deploy,
      CreateContainers, DeployFails, Raise, PostDeploySample
<1>2. CASE TryStep
  BY <1>2
  DEF TryStep, RenderTopology, WaitConvergence, ExtractFibs, WriteFibs,
      Complete, RunHammerhead, ComputeDiff, StepRaises, Raise
<1>3. CASE RunBatfish \/ SkipTeardown \/ DestroyLab \/ PostTeardownSample
  BY <1>3
  DEF RunBatfish, Complete, Raise, SkipTeardown, DestroyLab,
      RemoveContainers, PostTeardownSample, RecordSample, StatusOfPhase,
      TeardownDue, RunRecord, InRange, Idle
<1>4. CASE VerifyTeardown
  <2>1. cur \in T
    BY <1>4 DEF VerifyTeardown, InRange, Idle
  <2>2. UNCHANGED <<cur, live>>
    BY <1>4 DEF VerifyTeardown
  <2>3. ASSUME pc' = "recovery", cur \in live
        PROVE  runs'[cur].notes # {}
    <3>1. \E note \in Notes : runs' = [runs EXCEPT ![cur].notes = @ \cup {note}]
      BY <1>4, <2>3 DEF VerifyTeardown, Notes
    <3> QED
      BY <2>1, <3>1 DEF RunRecord
  <2>4. pc' \in {"recovery", "escaped"}
    BY <1>4 DEF VerifyTeardown
  <2> QED
    BY <2>2, <2>3, <2>4
<1>5. CASE PollRecovery
  <2>1. cur \in T /\ pc = "recovery" /\ UNCHANGED <<cur, live>>
    BY <1>5 DEF PollRecovery, InRange, Idle
  <2>2. runs'[cur].status = runs[cur].status
    BY <1>5, <2>1 DEF RunRecord, PollRecovery, RecordSample
  <2>3. runs[cur].notes # {} => runs'[cur].notes # {}
    <3>1. runs'[cur].notes \in {runs[cur].notes,
                               runs[cur].notes \cup {"memory did not recover"}}
      BY <1>5, <2>1 DEF RunRecord, PollRecovery, RecordSample
    <3> QED
      BY <3>1
  <2> QED
    BY <2>1, <2>2, <2>3
<1>6. CASE LeaveFinally
  BY <1>6 DEF LeaveFinally
<1>7. CASE RecordResult \/ CatchEscaped \/ Finish \/ Reclaim
  BY <1>7 DEF RecordResult, CatchEscaped, Finish, Reclaim
<1> QED BY <1>1, <1>2, <1>3, <1>4, <1>5, <1>6, <1>7 DEF Next, Harness, RunTopology

(* A topology is closed by RecordResult or by CatchEscaped, nothing else.   *)
LEMMA StepOn ==
  ASSUME TypeOK, Next, cur' # cur
  PROVE  RecordResult \/ CatchEscaped
<1>1. CASE PreDeploySample \/ CheckHeadroom \/ Deploy \/ DeployFails \/
        PostDeploySample
  BY <1>1
  DEF benchVars, hostVars, PreDeploySample, RecordSampleInTry,
      CheckHeadroom, Deploy, CreateContainers, DeployFails, Raise,
      PostDeploySample
<1>2. CASE TryStep
  BY <1>2
  DEF benchVars, hostVars, TryStep, RenderTopology, WaitConvergence,
      ExtractFibs, WriteFibs, Complete, RunHammerhead, ComputeDiff,
      StepRaises, Raise
<1>3. CASE RunBatfish \/ SkipTeardown \/ DestroyLab \/ PostTeardownSample
  BY <1>3
  DEF benchVars, hostVars, RunBatfish, Complete, Raise, SkipTeardown,
      DestroyLab, RemoveContainers, PostTeardownSample, RecordSample
<1>4. CASE VerifyTeardown \/ PollRecovery \/ LeaveFinally
  BY <1>4
  DEF benchVars, hostVars, VerifyTeardown, PollRecovery, RecordSample,
      LeaveFinally
<1>5. CASE RecordResult \/ CatchEscaped \/ Finish \/ Reclaim
  BY <1>5 DEF benchVars, hostVars, RecordResult, CatchEscaped, Finish, Reclaim
<1> QED BY <1>1, <1>2, <1>3, <1>4, <1>5 DEF Next, Harness, RunTopology

(* What is settled after a step was settled before or is being closed.      *)
LEMMA SettledStep ==
  ASSUME cur \in Nat, NumTopologies \in Nat, cur' \in {cur, cur + 1},
         cur' <= NumTopologies + 1, NEW t \in Settled'
  PROVE  t \in T /\ (t \in Settled \/ (t = cur /\ cur' = cur + 1))
<1>1. CASE cur' = cur
  <2>1. Settled' = Settled
    BY <1>1 DEF Settled
  <2> QED
    BY <1>1, <2>1 DEF T, Settled
<1>2. CASE cur' = cur + 1
  <2>1. Settled' = 1..cur
    BY <1>2 DEF Settled
  <2> QED
    BY <1>2, <2>1 DEF T, Settled
<1> QED
  BY <1>1, <1>2

(* Containers of a settled topology are accounted for when it is closed and *)
(* from then on.                                                            *)
LEMMA LeftoverStep ==
  ASSUME TypeOK, InRange, Headroom, Verified, LeftoverReported, Next
  PROVE  LeftoverReported'
<1>1. /\ cur \in Nat /\ cur' \in {cur, cur + 1}
      /\ cur' <= NumTopologies + 1
  BY OnlyCurrent, Typing, ConstantsAssumption DEF TypeOK, ConstantsAssumption
<1>2. ASSUME NEW t \in Settled, t \in live'
      PROVE  Reported(t)'
  <2>1. t \in T /\ t # cur
    BY <1>1, ConstantsAssumption DEF Settled, TypeOK, T, ConstantsAssumption
  <2> QED
    BY <1>2, <2>1, OnlyCurrent DEF LeftoverReported, Reported
<1>3. ASSUME NEW t \in T, t = cur, cur' = cur + 1, t \in live'
      PROVE  Reported(t)'
  <2>1. RecordResult \/ CatchEscaped
    BY <1>1, <1>3, StepOn
  <2>2. CASE RecordResult
    <3>1. /\ pc = "returned" /\ t \in live /\ runs' = runs
          /\ failed' = IF runs[t].status = "passed" THEN failed ELSE failed \cup {t}
      BY <1>1, <1>3, <2>2 DEF RecordResult, hostVars
    <3> QED
      BY <1>3, <3>1 DEF Verified, Reported
  <2>3. CASE CatchEscaped
    BY <1>3, <2>3 DEF CatchEscaped, Reported
  <2> QED
    BY <2>1, <2>2, <2>3
<1> QED
  <2> SUFFICES ASSUME NEW t \in Settled', t \in live'
               PROVE  Reported(t)'
    BY DEF LeftoverReported
  <2>1. t \in T /\ (t \in Settled \/ (t = cur /\ cur' = cur + 1))
    BY <1>1, SettledStep, ConstantsAssumption DEF ConstantsAssumption
  <2> QED
    BY <1>2, <1>3, <2>1

-----------------------------------------------------------------------------
(* Inv is inductive.                                                        *)
LEMMA InvInit == Init => Inv
<1> SUFFICES ASSUME Init
             PROVE  Inv
  OBVIOUS
<1> USE DEF Init
<1>1. TypeOK
  <2>1. /\ HostMb \in Nat /\ NumTopologies \in Nat
        /\ [t \in T |-> 0] \in [T -> Nat]
    BY ConstantsAssumption DEF ConstantsAssumption
  <2>2. FreshRun \in RunRecord
    BY DEF FreshRun, RunRecord
  <2>3. runs \in [T -> RunRecord] /\ baseline \in [T -> Nat]
    BY <2>1, <2>2
  <2>4. cur \in 1..(NumTopologies + 1) /\ avail \in Nat
    BY <2>1
  <2>5. pc \in PCs
    BY DEF PCs
  <2> QED
    BY <2>3, <2>4, <2>5 DEF TypeOK
<1>2. /\ InRange /\ Headroom /\ Untouched /\ NotYetLive
      /\ StatusOfPhase /\ Verified
  BY DEF InRange, Idle, Headroom, Untouched, NotYetLive, StatusOfPhase, Verified
<1>3. LeftoverReported
  BY DEF LeftoverReported
<1> QED
  BY <1>1, <1>2, <1>3 DEF Inv

LEMMA InvStep == Inv /\ [Next]_vars => Inv'
<1> SUFFICES ASSUME Inv, [Next]_vars
             PROVE  Inv'
  OBVIOUS
<1>1. CASE Next
  BY <1>1, Typing, InRangeStep, HeadroomStep, UntouchedStep, NotYetLiveStep,
     StatusOfPhaseStep, VerifiedStep, LeftoverStep DEF Inv
<1>2. CASE UNCHANGED vars
  <2>1. TypeOK' /\ InRange' /\ Headroom'
    BY <1>2 DEF Inv, vars, TypeOK, InRange, Headroom
  <2>2. Untouched' /\ NotYetLive' /\ StatusOfPhase' /\ Verified'
    BY <1>2 DEF Inv, vars, Untouched, NotYetLive, StatusOfPhase, Verified
  <2>3. LeftoverReported'
    BY <1>2 DEF Inv, vars, LeftoverReported, Settled, Reported
  <2> QED
    BY <2>1, <2>2, <2>3 DEF Inv
<1> QED
  BY <1>1, <1>2

THEOREM Invariance == Spec => []Inv
<1> QED
  BY InvInit, InvStep, PTL DEF Spec

-----------------------------------------------------------------------------
(* Type correctness of the bench: in particular the labs it deploys never   *)
(* take more memory than the host has available.                            *)
THEOREM TypeCorrect == Spec => []TypeOK
<1>1. Inv => TypeOK
  BY DEF Inv
<1> QED
  BY <1>1, Invariance, PTL

(* Containers that outlive their run are always accounted for, whatever     *)
(* deploy, destroy and docker ps did.                                       *)
THEOREM LeftoversAreReported == Spec => []LeftoverReported
<1>1. Inv => LeftoverReported
  BY DEF Inv
<1> QED
  BY <1>1, Invariance, PTL

-----------------------------------------------------------------------------
(* The bench implements the ledger of labs.                                 *)

(* The excuses of settled topologies are kept, and only the topology being  *)
(* closed can get one.                                                      *)
LEMMA ExcusedStep ==
  ASSUME Inv, Next
  PROVE  /\ cur' = cur => Excused' = Excused
         /\ cur' = cur + 1 => Excused' \in {Excused, Excused \cup {cur}}
<1>1. /\ cur \in Nat /\ 1 <= cur /\ cur' \in {cur, cur + 1}
      /\ cur' <= NumTopologies + 1 /\ NumTopologies \in Nat
  BY OnlyCurrent, Typing, ConstantsAssumption DEF Inv, TypeOK, ConstantsAssumption
<1>2. ASSUME NEW t \in Settled
      PROVE  Reported(t)' <=> Reported(t)
  <2>1. t \in T /\ t # cur
    BY <1>1 DEF Inv, TypeOK, Settled, T
  <2> QED
    BY <2>1, OnlyCurrent DEF Inv, Reported
<1>3. CASE cur' = cur
  <2>1. Settled' = Settled
    BY <1>3 DEF Settled
  <2> QED
    BY <1>1, <1>2, <1>3, <2>1 DEF Excused
<1>4. CASE cur' = cur + 1
  <2>1. Settled' = Settled \cup {cur}
    <3>1. Settled' = 1..cur
      BY <1>1, <1>4 DEF Settled
    <3> QED
      BY <1>1, <3>1 DEF Settled
  <2> QED
    BY <1>1, <1>2, <1>4, <2>1 DEF Excused
<1> QED
  BY <1>1, <1>3, <1>4

(* What is on the host changes only while a topology is current, and stays  *)
(* when the loop moves on.                                                  *)
LEMMA HostStep ==
  ASSUME Inv, Next
  PROVE  /\ live' \in {live, live \cup {cur}, live \ {cur}}
         /\ live' # live \/ cur' # cur => cur \in T
         /\ cur' # cur => live' = live
<1> USE DEF Inv, InRange, Idle, benchVars, hostVars
<1>1. CASE PreDeploySample \/ CheckHeadroom \/ Deploy \/ DeployFails \/
        PostDeploySample
  BY <1>1
  DEF PreDeploySample, RecordSampleInTry, CheckHeadroom, Deploy,
      CreateContainers, DeployFails, Raise, PostDeploySample
<1>2. CASE TryStep
  BY <1>2
  DEF TryStep, RenderTopology, WaitConvergence, ExtractFibs, WriteFibs,
      Complete, RunHammerhead, ComputeDiff, StepRaises, Raise
<1>3. CASE RunBatfish \/ SkipTeardown \/ DestroyLab \/ PostTeardownSample
  BY <1>3
  DEF RunBatfish, Complete, Raise, SkipTeardown, DestroyLab,
      RemoveContainers, PostTeardownSample, RecordSample
<1>4. CASE VerifyTeardown \/ PollRecovery \/ LeaveFinally
  BY <1>4 DEF VerifyTeardown, PollRecovery, RecordSample, LeaveFinally
<1>5. CASE RecordResult \/ CatchEscaped \/ Finish \/ Reclaim
  BY <1>5 DEF RecordResult, CatchEscaped, Finish, Reclaim
<1> QED BY <1>1, <1>2, <1>3, <1>4, <1>5 DEF Next, Harness, RunTopology

(* Every step of the bench is a step of the ledger or leaves it alone.      *)
LEMMA LedgerStep ==
  ASSUME Inv, Next
  PROVE  [Ledger!Next]_<<cur, live, Excused>>
<1>1. /\ cur \in Nat /\ cur' \in {cur, cur + 1} /\ NumTopologies \in Nat
      /\ cur' <= NumTopologies + 1
  BY OnlyCurrent, Typing, ConstantsAssumption DEF Inv, TypeOK, ConstantsAssumption
<1>2. cur \in T => cur <= NumTopologies
  BY <1>1 DEF T
<1>3. CASE cur' = cur
  <2>1. Excused' = Excused
    BY <1>3, ExcusedStep
  <2>2. CASE live' = live
    BY <1>3, <2>1, <2>2
  <2>3. CASE live' # live
    BY <1>2, <1>3, <2>1, <2>3, HostStep DEF Ledger!Next, Ledger!Touch
  <2> QED
    BY <2>2, <2>3
<1>4. CASE cur' = cur + 1
  <2>1. Excused' \in {Excused, Excused \cup {cur}}
    BY <1>4, ExcusedStep
  <2>2. cur \in T /\ live' = live
    BY <1>1, <1>4, HostStep
  <2>3. cur \in live => cur \in Excused'
    <3>1. \A t \in 1..cur : t \in live' => Reported(t)'
      BY <1>1, <1>4, LeftoverStep DEF Inv, LeftoverReported, Settled
    <3>2. \A t \in 1..cur : Reported(t)' => t \in Excused'
      BY <1>1, <1>4 DEF Excused, Settled
    <3>3. cur \in 1..cur
      BY <1>1, <2>2 DEF T
    <3> QED
      BY <2>2, <3>1, <3>2, <3>3
  <2> QED
    BY <1>2, <1>4, <2>1, <2>2, <2>3 DEF Ledger!Next, Ledger!Close
<1> QED
  BY <1>1, <1>3, <1>4

(* The bench implements the ledger of labs: it touches the current lab only *)
(* and never closes a topology with containers left behind and no excuse.   *)
THEOREM Refinement == Spec => LedgerSpec
<1>1. Init => Ledger!Init
  BY DEF Init, Ledger!Init, Excused, Settled
<1>2. Inv /\ [Next]_vars => [Ledger!Next]_<<cur, live, Excused>>
  <2>1. UNCHANGED vars => UNCHANGED <<cur, live, Excused>>
    BY DEF vars, Excused, Settled, Reported
  <2> QED
    BY <2>1, LedgerStep
<1> QED
  BY <1>1, <1>2, Invariance, PTL DEF Spec, LedgerSpec, Ledger!Spec, Ledger!vars

-----------------------------------------------------------------------------
(* The rest is about what the bench writes down: its results, its failed    *)
(* list, its exit status, and the labs it was told to keep.  Book adds to   *)
(* Inv where the current result stands at each pc, and what is on record of *)
(* the topologies the loop is through with.                                 *)

TryPCs == {"headroom", "render", "deploy", "post-deploy", "converge",
           "extract", "write", "batfish", "hammerhead", "diff"}
EndPCs == {"finally", "post-teardown", "verify", "recovery", "leave", "returned"}

(* What makes the memory recovery of a run known: a sample, or a note.      *)
Recovery(r) == "recovered" \in r.samples <=> "memory did not recover" \notin r.notes

NoRecovery(r) ==
  "recovered" \notin r.samples /\ "memory did not recover" \notin r.notes

(* Every sample of the result r of topology t is in the log l.              *)
Logged(t, r, l) == \A phase \in r.samples : <<t, phase>> \in l

(* In the try block, at p, with options o and log l: nothing has gone wrong *)
(* and the result r of t has all that the steps before p put in it.         *)
Tried(p, t, r, o, l) ==
  /\ r.status = "failed" /\ r.error = "none"
  /\ Logged(t, r, l)
  /\ NoRecovery(r)
  /\ "pre-deploy" \in r.samples
  /\ "post-deploy" \in r.samples <=> p \notin {"headroom", "render", "deploy", "post-deploy"}
  /\ p \in {"batfish", "hammerhead", "diff"} => "vendor_truth" \in r.done
  /\ p \in {"hammerhead", "diff"} /\ o.batfish => "batfish" \in r.done
  /\ p = "diff" /\ o.hammerhead => "hammerhead" \in r.done
  /\ "diff" \notin r.done

InTry == pc \in TryPCs => Tried(pc, cur, runs[cur], opts, log)

(* A passed run has done all its steps.                                     *)
Ran(t, r, o, l) ==
  /\ r.error = "none"
  /\ Logged(t, r, l)
  /\ {"pre-deploy", "post-deploy"} \subseteq r.samples
  /\ "vendor_truth" \in r.done
  /\ o.batfish => "batfish" \in r.done
  /\ o.hammerhead => "hammerhead" \in r.done
  /\ "diff" \in r.done <=> (o.batfish \/ o.hammerhead)

(* In the finally block, at p: it also has what the teardown left so far.   *)
Left(p, r) ==
  /\ p \in {"verify", "recovery", "leave", "returned"} => "post-teardown" \in r.samples
  /\ IF p \in {"leave", "returned"} THEN Recovery(r) ELSE NoRecovery(r)

InFinally ==
  pc \in EndPCs /\ runs[cur].status = "passed" =>
    Ran(cur, runs[cur], opts, log) /\ Left(pc, runs[cur])

(* A lab that came up stays up when its failed run is to be kept.           *)
LabUp ==
  /\ pc \in TryPCs \ {"headroom", "render", "deploy"} => cur \in live
  /\ /\ pc \in EndPCs /\ opts.keep /\ runs[cur].status = "failed"
     /\ "post-deploy" \in runs[cur].samples
     => cur \in live

(* What is free at the end of a run, and up to the start of the next one.   *)
MemoryBack ==
  /\ pc \in {"leave", "returned"} =>
       \/ runs[cur].status = "failed" \/ runs[cur].notes # {}
       \/ avail + Slack >= baseline[cur]
  /\ \A t \in T : pc = "bench" /\ t + 1 = cur =>
       Reported(t) \/ avail + Slack >= baseline[t]

(* What was free then bounds the baseline of the next run.                  *)
Drift ==
  \A t \in T : t + 1 \in T /\ (t + 1 < cur \/ (t + 1 = cur /\ pc # "bench")) =>
    Reported(t) \/ baseline[t + 1] + Slack >= baseline[t]

(* The loop is through with what it has written or listed, and has listed   *)
(* exactly what has no passed result.                                       *)
Accounts ==
  \A t \in T :
    /\ t \in written \/ t \in failed => t < cur
    /\ t < cur => (t \in failed <=> ~(t \in written /\ runs[t].status = "passed"))

(* The exit status and the failed list.                                     *)
ExitOfPhase ==
  /\ pc = "done" => cur = NumTopologies + 1 /\ exit = IF failed = {} THEN "ok" ELSE "nonzero"
  /\ exit = "ok" => pc = "done"

(* Written results stay complete.                                           *)
Written ==
  \A t \in written : runs[t].status = "passed" =>
    Ran(t, runs[t], opts, log) /\ Left("returned", runs[t])

Book ==
  /\ InTry
  /\ InFinally
  /\ LabUp
  /\ MemoryBack
  /\ Drift
  /\ Accounts
  /\ ExitOfPhase
  /\ Written
  /\ KeptLabSurvives

-----------------------------------------------------------------------------
(* What the steps of the code do to the current result, field by field.     *)

LEMMA Fields ==
  ASSUME TypeOK, NEW t \in T
  PROVE  /\ runs[t] = [status |-> runs[t].status, error |-> runs[t].error,
                       notes |-> runs[t].notes, samples |-> runs[t].samples,
                       done |-> runs[t].done]
         /\ runs[t].status \in {"failed", "passed"}
         /\ runs = [s \in T |-> runs[s]]
BY DEF TypeOK, RunRecord

LEMMA SampleFields ==
  ASSUME TypeOK, cur \in T, NEW phase, NEW logged \in BOOLEAN, RecordSample(phase, logged)
  PROVE  /\ runs'[cur].status = runs[cur].status
         /\ runs'[cur].error = runs[cur].error
         /\ runs'[cur].notes = runs[cur].notes
         /\ runs'[cur].done = runs[cur].done
         /\ runs'[cur].samples = runs[cur].samples \cup {phase}
         /\ log' = IF logged THEN log \cup {<<cur, phase>>} ELSE log
BY DEF RecordSample, TypeOK, RunRecord

LEMMA SampleInTryFields ==
  ASSUME TypeOK, cur \in T, NEW phase, NEW logged \in BOOLEAN, NEW next,
         RecordSampleInTry(phase, logged, next)
  PROVE  /\ runs'[cur].status = runs[cur].status
         /\ runs'[cur].error = IF logged THEN runs[cur].error ELSE "exception"
         /\ runs'[cur].notes = runs[cur].notes
         /\ runs'[cur].done = runs[cur].done
         /\ runs'[cur].samples = runs[cur].samples \cup {phase}
         /\ log' = IF logged THEN log \cup {<<cur, phase>>} ELSE log
         /\ pc' = IF logged THEN next ELSE "finally"
BY DEF RecordSampleInTry, TypeOK, RunRecord

LEMMA CompleteFields ==
  ASSUME TypeOK, cur \in T, NEW step, NEW next, Complete(step, next)
  PROVE  /\ runs'[cur].status = runs[cur].status
         /\ runs'[cur].error = runs[cur].error
         /\ runs'[cur].notes = runs[cur].notes
         /\ runs'[cur].samples = runs[cur].samples
         /\ runs'[cur].done = runs[cur].done \cup {step}
         /\ pc' = next
BY DEF Complete, TypeOK, RunRecord

LEMMA RaiseFields ==
  ASSUME TypeOK, cur \in T, Raise
  PROVE  /\ runs'[cur].status = runs[cur].status
         /\ runs'[cur].notes = runs[cur].notes
         /\ runs'[cur].samples = runs[cur].samples
         /\ runs'[cur].done = runs[cur].done
         /\ pc' = "finally"
BY DEF Raise, TypeOK, RunRecord

LEMMA NoteFields ==
  ASSUME TypeOK, cur \in T, NEW note,
         runs' = [runs EXCEPT ![cur].notes = @ \cup {note}]
  PROVE  /\ runs'[cur].status = runs[cur].status
         /\ runs'[cur].error = runs[cur].error
         /\ runs'[cur].notes = runs[cur].notes \cup {note}
         /\ runs'[cur].samples = runs[cur].samples
         /\ runs'[cur].done = runs[cur].done
BY DEF TypeOK, RunRecord

(* What no step takes back, and what a step leaves alone of topologies      *)
(* other than the current one.                                              *)
LEMMA Lasting ==
  ASSUME TypeOK, InRange, Next
  PROVE  /\ opts' = opts
         /\ \A line : line \in log => line \in log'
         /\ \A t \in T : t # cur => /\ baseline'[t] = baseline[t]
                                    /\ (t \in written') = (t \in written)
<1> USE DEF TypeOK, benchVars, hostVars
<1>1. CASE PreDeploySample \/ CheckHeadroom \/ Deploy \/ DeployFails \/
        PostDeploySample
  BY <1>1
  DEF PreDeploySample, RecordSampleInTry, CheckHeadroom, Deploy,
      CreateContainers, DeployFails, Raise, PostDeploySample
<1>2. CASE TryStep
  BY <1>2 DEF TryStep
<1>3. CASE RunBatfish \/ SkipTeardown \/ DestroyLab \/ PostTeardownSample
  BY <1>3 DEF RunBatfish, SkipTeardown, DestroyLab, PostTeardownSample, RecordSample
<1>4. CASE VerifyTeardown \/ PollRecovery \/ LeaveFinally
  BY <1>4 DEF VerifyTeardown, PollRecovery, RecordSample, LeaveFinally
<1>5. CASE RecordResult \/ CatchEscaped \/ Finish \/ Reclaim
  BY <1>5 DEF RecordResult, CatchEscaped, Finish, Reclaim
<1> QED
  BY <1>1, <1>2, <1>3, <1>4, <1>5 DEF Next, Harness, RunTopology

-----------------------------------------------------------------------------
(* The current result, up to the end of the try block.                      *)

(* Steps that record nothing lead on to a pc that asks for nothing more.    *)
LEMMA NothingMore ==
  ASSUME NEW p, NEW q, NEW t, NEW r, NEW o, NEW l, Tried(p, t, r, o, l),
         <<p, q>> \in {<<"headroom", "render">>, <<"render", "deploy">>,
                       <<"deploy", "post-deploy">>, <<"converge", "extract">>,
                       <<"extract", "write">>}
         \/ (p = "batfish" /\ q = "hammerhead" /\ ~o.batfish)
         \/ (p = "hammerhead" /\ q = "diff" /\ ~o.hammerhead)
  PROVE  Tried(q, t, r, o, l)
<1>1. CASE p = "batfish" /\ q = "hammerhead" /\ ~o.batfish
  BY <1>1 DEF Tried
<1>2. CASE p = "hammerhead" /\ q = "diff" /\ ~o.hammerhead
  BY <1>2 DEF Tried
<1> QED
  BY <1>1, <1>2 DEF Tried

LEMMA InTryStep ==
  ASSUME TypeOK, InRange, Untouched, InTry, Next
  PROVE  InTry'
<1>1. CASE PreDeploySample
  <2>1. cur \in T /\ runs[cur] = FreshRun /\ cur' = cur /\ opts' = opts
    BY <1>1 DEF PreDeploySample, Untouched, benchVars
  <2>2. PICK logged \in BOOLEAN : RecordSampleInTry("pre-deploy", logged, "headroom")
    BY <1>1 DEF PreDeploySample
  <2>3. pc' = IF logged THEN "headroom" ELSE "finally"
    BY <2>2 DEF RecordSampleInTry
  <2>4. ASSUME logged PROVE Tried("headroom", cur, runs'[cur], opts, log')
    <3> DEFINE q == runs[cur]
               r == runs'[cur]
    <3>1. /\ r.status = q.status /\ r.notes = q.notes /\ r.error = q.error
          /\ r.samples = q.samples \cup {"pre-deploy"} /\ r.done = q.done
          /\ log' = log \cup {<<cur, "pre-deploy">>}
      BY <2>1, <2>2, <2>4, SampleInTryFields
    <3>2. /\ q.status = "failed" /\ q.error = "none" /\ q.notes = {}
          /\ q.samples = {} /\ q.done = {}
      BY <2>1 DEF FreshRun
    <3> HIDE DEF q, r
    <3>3. Tried("headroom", cur, r, opts, log')
      BY <3>1, <3>2 DEF Tried, Logged, NoRecovery
    <3> QED
      BY <3>3 DEF r
  <2> QED
    BY <2>1, <2>3, <2>4 DEF InTry, TryPCs
<1>2. CASE CheckHeadroom \/ Deploy \/ DeployFails
  BY <1>2, NothingMore DEF CheckHeadroom, Deploy, DeployFails, Raise, benchVars, InTry, TryPCs
<1>3. CASE PostDeploySample
  <2>1. cur \in T /\ pc = "post-deploy" /\ cur' = cur /\ opts' = opts
    BY <1>3 DEF PostDeploySample, InRange, Idle, benchVars
  <2>2. PICK logged \in BOOLEAN : RecordSampleInTry("post-deploy", logged, "converge")
    BY <1>3 DEF PostDeploySample
  <2>3. pc' = IF logged THEN "converge" ELSE "finally"
    BY <2>2 DEF RecordSampleInTry
  <2>4. ASSUME logged PROVE Tried("converge", cur, runs'[cur], opts, log')
    <3> DEFINE q == runs[cur]
               r == runs'[cur]
    <3>1. /\ r.status = q.status /\ r.notes = q.notes /\ r.error = q.error
          /\ r.samples = q.samples \cup {"post-deploy"} /\ r.done = q.done
          /\ log' = log \cup {<<cur, "post-deploy">>}
      BY <2>1, <2>2, <2>4, SampleInTryFields
    <3>2. Tried("post-deploy", cur, q, opts, log)
      BY <2>1 DEF InTry, TryPCs
    <3> HIDE DEF q, r
    <3>3. Tried("converge", cur, r, opts, log')
      BY <3>1, <3>2 DEF Tried, Logged, NoRecovery
    <3> QED
      BY <3>3 DEF r
  <2> QED
    BY <2>1, <2>3, <2>4 DEF InTry, TryPCs
<1>4. CASE (RenderTopology \/ WaitConvergence \/ ExtractFibs) /\ TryFrame
  BY <1>4, NothingMore
  DEF RenderTopology, WaitConvergence, ExtractFibs, TryFrame, benchVars, InTry, TryPCs
<1>5. ASSUME NEW step, NEW next, Complete(step, next), UNCHANGED <<cur, opts, log>>,
             cur \in T,
             <<pc, step, next>> \in {<<"write", "vendor_truth", "batfish">>,
                                     <<"batfish", "batfish", "hammerhead">>,
                                     <<"hammerhead", "hammerhead", "diff">>}
      PROVE  InTry'
  <2> DEFINE q == runs[cur]
             r == runs'[cur]
  <2>1. /\ r.status = q.status /\ r.notes = q.notes /\ r.error = q.error
        /\ r.samples = q.samples /\ r.done = q.done \cup {step} /\ pc' = next
    BY <1>5, CompleteFields
  <2>2. Tried(pc, cur, q, opts, log)
    BY <1>5 DEF InTry, TryPCs
  <2> HIDE DEF q, r
  <2>3. Tried(next, cur, r, opts, log)
    BY <1>5, <2>1, <2>2 DEF Tried, Logged, NoRecovery
  <2> QED
    BY <1>5, <2>1, <2>3 DEF InTry, r
<1>6. CASE WriteFibs /\ TryFrame
  BY <1>5, <1>6 DEF WriteFibs, TryFrame, benchVars, InRange, Idle
<1>7. CASE RunBatfish
  <2>1. CASE Complete("batfish", "hammerhead")
    BY <1>5, <1>7, <2>1 DEF RunBatfish, benchVars, InRange, Idle
  <2>2. CASE Raise
    BY <2>2 DEF Raise, InTry, TryPCs
  <2>3. CASE ~opts.batfish /\ UNCHANGED runs /\ pc' = "hammerhead"
    BY <1>7, <2>3, NothingMore DEF RunBatfish, benchVars, InTry, TryPCs
  <2> QED
    BY <1>7, <2>1, <2>2, <2>3 DEF RunBatfish
<1>8. CASE RunHammerhead /\ TryFrame
  <2>1. CASE Complete("hammerhead", "diff")
    BY <1>5, <1>8, <2>1 DEF RunHammerhead, TryFrame, benchVars, InRange, Idle
  <2>2. CASE ~opts.hammerhead /\ UNCHANGED runs /\ pc' = "diff"
    BY <1>8, <2>2, NothingMore DEF RunHammerhead, TryFrame, benchVars, InTry, TryPCs
  <2> QED
    BY <1>8, <2>1, <2>2 DEF RunHammerhead
<1>9. CASE (ComputeDiff \/ StepRaises) /\ TryFrame
  BY <1>9 DEF ComputeDiff, StepRaises, Raise, InTry, TryPCs
<1>10. CASE SkipTeardown \/ DestroyLab \/ PostTeardownSample
  BY <1>10 DEF SkipTeardown, DestroyLab, PostTeardownSample, InTry, TryPCs
<1>11. CASE VerifyTeardown \/ PollRecovery \/ LeaveFinally
  BY <1>11 DEF VerifyTeardown, PollRecovery, LeaveFinally, InTry, TryPCs
<1>12. CASE RecordResult \/ CatchEscaped \/ Finish
  BY <1>12 DEF RecordResult, CatchEscaped, Finish, InTry, TryPCs
<1>13. CASE Reclaim
  BY <1>13 DEF Reclaim, benchVars, InTry
<1> QED
  BY <1>1, <1>2, <1>3, <1>4, <1>6, <1>7, <1>8, <1>9, <1>10, <1>11, <1>12, <1>13
  DEF Next, Harness, RunTopology, TryStep, TryFrame

-----------------------------------------------------------------------------
(* The current result, from the end of the try block on.                    *)

(* The diff ends a run in which everything else has been done.              *)
LEMMA DiffFields ==
  ASSUME TypeOK, cur \in T, ComputeDiff
  PROVE  /\ runs'[cur].error = runs[cur].error
         /\ runs'[cur].notes = runs[cur].notes
         /\ runs'[cur].samples = runs[cur].samples
         /\ runs'[cur].done = IF NoDiff THEN runs[cur].done ELSE runs[cur].done \cup {"diff"}
         /\ pc' = "finally"
BY DEF ComputeDiff, TypeOK, RunRecord

LEMMA DiffRan ==
  ASSUME NEW t, NEW q, NEW r, NEW o, NEW l, Tried("diff", t, q, o, l),
         r.error = q.error, r.notes = q.notes, r.samples = q.samples,
         r.done = IF ~o.batfish /\ ~o.hammerhead THEN q.done ELSE q.done \cup {"diff"}
  PROVE  Ran(t, r, o, l) /\ Left("finally", r)
<1>1. Left("finally", r)
  BY DEF Tried, Left, NoRecovery
<1>2. r.error = "none" /\ Logged(t, r, l) /\ {"pre-deploy", "post-deploy"} \subseteq r.samples
  BY DEF Tried, Logged
<1>3. /\ "vendor_truth" \in r.done
      /\ "diff" \in r.done <=> (o.batfish \/ o.hammerhead)
      /\ o.batfish => "batfish" \in r.done
      /\ o.hammerhead => "hammerhead" \in r.done
  BY DEF Tried
<1> QED
  BY <1>1, <1>2, <1>3 DEF Ran

(* A sample that is logged, and a note, keep what a passed run has.         *)
LEMMA SampleKeeps ==
  ASSUME NEW t, NEW q, NEW r, NEW o, NEW l, NEW k, NEW phase, Ran(t, q, o, l),
         r.error = q.error, r.done = q.done, r.samples = q.samples \cup {phase},
         k = l \cup {<<t, phase>>}
  PROVE  Ran(t, r, o, k)
BY DEF Ran, Logged

LEMMA NoteKeeps ==
  ASSUME NEW t, NEW q, NEW r, NEW o, NEW l, Ran(t, q, o, l),
         r.error = q.error, r.done = q.done, r.samples = q.samples
  PROVE  Ran(t, r, o, l)
BY DEF Ran, Logged

LEMMA InFinallyStep ==
  ASSUME TypeOK, InRange, Untouched, StatusOfPhase, InTry, InFinally, Next
  PROVE  InFinally'
<1>0. /\ pc \in TryPCs => cur \in T /\ runs[cur].status = "failed"
      /\ pc \in EndPCs => cur \in T
  BY DEF InTry, Tried, InRange, Idle, TryPCs, EndPCs
<1>1. ASSUME cur' = cur, runs'[cur].status = "failed"
      PROVE  InFinally'
  BY <1>1 DEF InFinally
<1>2. ASSUME Raise, pc \in TryPCs, cur' = cur
      PROVE  InFinally'
  BY <1>0, <1>1, <1>2, RaiseFields
<1>3. CASE PreDeploySample
  <2>1. cur \in T /\ runs[cur] = FreshRun /\ cur' = cur
    BY <1>3 DEF PreDeploySample, Untouched, benchVars
  <2>2. \E logged \in BOOLEAN : RecordSampleInTry("pre-deploy", logged, "headroom")
    BY <1>3 DEF PreDeploySample
  <2>3. runs'[cur].status = runs[cur].status
    BY <2>1, <2>2, SampleInTryFields
  <2> QED
    BY <1>1, <2>1, <2>3 DEF FreshRun
<1>4. CASE CheckHeadroom
  <2>1. pc \in TryPCs /\ cur' = cur
    BY <1>4 DEF CheckHeadroom, TryPCs, benchVars
  <2>2. runs'[cur].status = runs[cur].status
    BY <1>0, <1>4, <2>1 DEF CheckHeadroom, TypeOK, RunRecord
  <2> QED
    BY <1>0, <1>1, <2>1, <2>2
<1>5. CASE PostDeploySample
  <2>1. pc \in TryPCs /\ cur' = cur
    BY <1>5 DEF PostDeploySample, TryPCs, benchVars
  <2>2. \E logged \in BOOLEAN : RecordSampleInTry("post-deploy", logged, "converge")
    BY <1>5 DEF PostDeploySample
  <2>3. runs'[cur].status = runs[cur].status
    BY <1>0, <2>1, <2>2, SampleInTryFields
  <2> QED
    BY <1>0, <1>1, <2>1, <2>3
<1>6. CASE DeployFails \/ (StepRaises /\ TryFrame)
  BY <1>2, <1>6 DEF DeployFails, StepRaises, TryFrame, TryPCs, benchVars
<1>7. CASE Deploy
  BY <1>7 DEF Deploy, InFinally, EndPCs
<1>8. CASE (RenderTopology \/ WaitConvergence \/ ExtractFibs \/ WriteFibs \/
        RunHammerhead) /\ TryFrame
  BY <1>8
  DEF RenderTopology, WaitConvergence, ExtractFibs, WriteFibs, RunHammerhead,
      Complete, InFinally, EndPCs
<1>9. CASE RunBatfish
  <2>1. CASE Raise
    BY <1>2, <1>9, <2>1 DEF RunBatfish, TryPCs, benchVars
  <2>2. CASE pc' = "hammerhead"
    BY <2>2 DEF InFinally, EndPCs
  <2> QED
    BY <1>9, <2>1, <2>2 DEF RunBatfish, Complete
<1>10. CASE ComputeDiff /\ TryFrame
  <2>1. pc = "diff" /\ cur' = cur /\ opts' = opts /\ log' = log /\ cur \in T
    BY <1>0, <1>10 DEF ComputeDiff, TryFrame, TryPCs, benchVars
  <2>2. Tried("diff", cur, runs[cur], opts, log)
    BY <2>1 DEF InTry, TryPCs
  <2>3. Ran(cur, runs'[cur], opts, log) /\ Left("finally", runs'[cur])
    BY <1>10, <2>1, <2>2, DiffFields, DiffRan DEF NoDiff
  <2> QED
    BY <1>10, <2>1, <2>3 DEF InFinally, ComputeDiff
<1>11. CASE SkipTeardown
  <2>1. runs[cur].status = "failed" /\ runs' = runs /\ cur' = cur
    BY <1>0, <1>11, Fields DEF SkipTeardown, TeardownDue, StatusOfPhase, EndPCs, benchVars
  <2> QED
    BY <1>1, <2>1
<1>12. ASSUME NEW note, runs' = runs \/ runs' = [runs EXCEPT ![cur].notes = @ \cup {note}],
              UNCHANGED <<cur, opts, log>>, pc \in EndPCs,
              note # "memory did not recover" \/ pc' \in {"leave", "escaped"},
              \/ pc' = "escaped"
              \/ <<pc, pc'>> \in {<<"finally", "post-teardown">>, <<"verify", "recovery">>}
              \/ pc = "recovery" /\ pc' = "leave" /\ runs' # runs /\ note = "memory did not recover"
       PROVE  InFinally'
  <2> DEFINE q == runs[cur]
             r == runs'[cur]
  <2>1. /\ r.status = q.status /\ r.error = q.error /\ r.done = q.done
        /\ r.samples = q.samples
        /\ r.notes = q.notes \/ r.notes = q.notes \cup {note}
        /\ runs' # runs => r.notes = q.notes \cup {note}
    BY <1>0, <1>12, NoteFields
  <2> HIDE DEF q, r
  <2>2. ASSUME q.status = "passed", pc' # "escaped" 
        PROVE  Ran(cur, r, opts, log) /\ Left(pc', r)
    <3>1. Ran(cur, q, opts, log) /\ Left(pc, q)
      BY <1>12, <2>2 DEF InFinally, q
    <3>2. Left(pc', r)
      BY <1>12, <2>1, <2>2, <3>1 DEF Left, Recovery, NoRecovery
    <3> QED
      BY <2>1, <3>1, <3>2, NoteKeeps
  <2> QED
    BY <1>12, <2>1, <2>2 DEF InFinally, EndPCs, q, r
<1>13. ASSUME NEW phase, NEW logged \in BOOLEAN, RecordSample(phase, logged),
              UNCHANGED <<cur, opts>>,
              \/ ~logged /\ pc' = "escaped"
              \/ <<pc, phase, pc'>> \in {<<"post-teardown", "post-teardown", "verify">>,
                                        <<"recovery", "recovered", "leave">>} /\ logged
       PROVE  InFinally'
  <2> DEFINE q == runs[cur]
             r == runs'[cur]
  <2>1. CASE pc' = "escaped"
    BY <2>1 DEF InFinally, EndPCs
  <2>2. CASE logged /\ pc \in EndPCs
    <3>1. /\ r.status = q.status /\ r.error = q.error /\ r.done = q.done
          /\ r.notes = q.notes /\ r.samples = q.samples \cup {phase}
          /\ log' = log \cup {<<cur, phase>>}
      BY <1>0, <1>13, <2>2, SampleFields
    <3> HIDE DEF q, r
    <3>2. ASSUME q.status = "passed", pc' # "escaped"
          PROVE  Ran(cur, r, opts, log') /\ Left(pc', r)
      <4>1. Ran(cur, q, opts, log) /\ Left(pc, q)
        BY <2>2, <3>2 DEF InFinally, q
      <4>2. Left(pc', r)
        BY <1>13, <3>1, <3>2, <4>1 DEF Left, Recovery, NoRecovery
      <4> QED
        BY <3>1, <4>1, <4>2, SampleKeeps
    <3> QED
      BY <1>13, <3>1, <3>2 DEF InFinally, EndPCs, q, r
  <2> QED
    BY <1>13, <2>1, <2>2 DEF EndPCs
<1>14. CASE DestroyLab
  BY <1>12, <1>14 DEF DestroyLab, EndPCs, benchVars
<1>15. CASE PostTeardownSample
  BY <1>13, <1>15 DEF PostTeardownSample, benchVars
<1>16. CASE VerifyTeardown
  <2>1. UNCHANGED <<cur, opts, log>> /\ pc = "verify" /\ pc' \in {"recovery", "escaped"}
    BY <1>16 DEF VerifyTeardown, benchVars
  <2>2. \/ runs' = runs
        \/ runs' = [runs EXCEPT ![cur].notes = @]
        \/ runs' = [runs EXCEPT ![cur].notes = @ \cup {"dangling"}]
        \/ runs' = [runs EXCEPT ![cur].notes = @ \cup {"verification skipped"}]
    BY <1>16 DEF VerifyTeardown
  <2>3. runs' = [runs EXCEPT ![cur].notes = @] => runs' = runs
    BY <1>0, <2>1, Fields DEF EndPCs
  <2> QED
    BY <1>12, <2>1, <2>2, <2>3 DEF EndPCs
<1>17. CASE PollRecovery
  <2>1. UNCHANGED <<cur, opts>> /\ pc = "recovery"
    BY <1>17 DEF PollRecovery, benchVars
  <2>2. CASE \E logged \in BOOLEAN :
               /\ RecordSample("recovered", logged)
               /\ pc' = IF logged THEN "leave" ELSE "escaped"
    BY <1>13, <2>1, <2>2
  <2>3. CASE /\ runs' = [runs EXCEPT ![cur].notes = @ \cup {"memory did not recover"}]
             /\ pc' = "leave" /\ log' = log
    <3>1. CASE runs' # runs
      BY <1>12, <2>1, <2>3, <3>1 DEF EndPCs
    <3>2. CASE runs' = runs
      <4>1. "memory did not recover" \in runs[cur].notes
        BY <1>0, <2>1, <2>3, <3>2, NoteFields DEF EndPCs
      <4>2. runs[cur].status # "passed"
        BY <2>1, <4>1 DEF InFinally, EndPCs, Left, NoRecovery
      <4> QED
        BY <2>1, <3>2, <4>2 DEF InFinally
    <3> QED
      BY <3>1, <3>2
  <2>4. CASE UNCHANGED <<pc, runs, log>>
    BY <2>1, <2>4 DEF InFinally
  <2> QED
    BY <1>17, <2>2, <2>3, <2>4 DEF PollRecovery
<1>18. CASE LeaveFinally
  BY <1>18 DEF LeaveFinally, InFinally, EndPCs, Left
<1>19. CASE RecordResult \/ CatchEscaped \/ Finish
  BY <1>19 DEF RecordResult, CatchEscaped, Finish, InFinally, EndPCs
<1>20. CASE Reclaim
  BY <1>20 DEF Reclaim, benchVars, InFinally
<1> QED
  BY <1>3, <1>4, <1>5, <1>6, <1>7, <1>8, <1>9, <1>10, <1>11, <1>14, <1>15, <1>16,
     <1>17, <1>18, <1>19, <1>20
  DEF Next, Harness, RunTopology, TryStep, TryFrame

-----------------------------------------------------------------------------
(* The topologies the loop is through with.                                 *)

(* Only the bench loop moves on, writes and lists.                          *)
LEMMA LoopSteps ==
  ASSUME TypeOK, Next
  PROVE  \/ RecordResult \/ CatchEscaped \/ Finish
         \/ UNCHANGED <<cur, written, failed>> /\ (pc' = pc \/ pc' \notin {"bench", "done"})
<1> USE DEF benchVars
<1>1. CASE PreDeploySample \/ CheckHeadroom \/ Deploy \/ DeployFails \/
        PostDeploySample
  BY <1>1
  DEF PreDeploySample, RecordSampleInTry, CheckHeadroom, Deploy, DeployFails, Raise,
      PostDeploySample
<1>2. CASE TryStep
  BY <1>2
  DEF TryStep, RenderTopology, WaitConvergence, ExtractFibs, WriteFibs, Complete,
      RunHammerhead, ComputeDiff, StepRaises, Raise
<1>3. CASE RunBatfish \/ SkipTeardown \/ DestroyLab \/ PostTeardownSample
  BY <1>3
  DEF RunBatfish, Complete, Raise, SkipTeardown, DestroyLab, PostTeardownSample
<1>4. CASE VerifyTeardown \/ PollRecovery \/ LeaveFinally \/ Reclaim
  BY <1>4 DEF VerifyTeardown, PollRecovery, LeaveFinally, Reclaim
<1> QED
  BY <1>1, <1>2, <1>3, <1>4 DEF Next, Harness, RunTopology

LEMMA AccountsStep ==
  ASSUME TypeOK, InRange, Accounts, Next
  PROVE  Accounts'
<1> SUFFICES ASSUME NEW t \in T
             PROVE  /\ t \in written' \/ t \in failed' => t < cur'
                    /\ t < cur' => (t \in failed' <=>
                                      ~(t \in written' /\ runs'[t].status = "passed"))
  BY DEF Accounts
<1>1. cur \in Nat /\ t \in Nat
  BY ConstantsAssumption DEF TypeOK, T, ConstantsAssumption
<1>2. cur' \in {cur, cur + 1}
  BY OnlyCurrent
<1>3. CASE t # cur
  <2>1. runs'[t] = runs[t] /\ (t \in failed') = (t \in failed)
    BY <1>3, OnlyCurrent
  <2>2. (t \in written') = (t \in written)
    BY <1>3, Lasting
  <2>3. t < cur' <=> t < cur
    BY <1>1, <1>2, <1>3
  <2> QED
    BY <2>1, <2>2, <2>3 DEF Accounts
<1>4. CASE t = cur
  <2>1. t \notin written /\ t \notin failed
    BY <1>1, <1>4 DEF Accounts
  <2>2. CASE RecordResult
    BY <1>1, <1>4, <2>1, <2>2 DEF RecordResult
  <2>3. CASE CatchEscaped
    BY <1>1, <1>4, <2>1, <2>3 DEF CatchEscaped
  <2>4. CASE UNCHANGED <<cur, written, failed>>
    BY <1>1, <1>4, <2>1, <2>4
  <2> QED
    BY <2>2, <2>3, <2>4, LoopSteps DEF Finish
<1> QED
  BY <1>3, <1>4

LEMMA WrittenBefore ==
  ASSUME TypeOK, Accounts, NEW t \in written
  PROVE  t \in T /\ t # cur
BY ConstantsAssumption DEF Accounts, TypeOK, T, ConstantsAssumption

LEMMA ExitStep ==
  ASSUME TypeOK, ExitOfPhase, Next
  PROVE  ExitOfPhase'
<1>1. CASE Finish
  <2>1. cur = NumTopologies + 1
    BY <1>1, ConstantsAssumption DEF Finish, TypeOK, T, ConstantsAssumption
  <2> QED
    BY <1>1, <2>1 DEF Finish, ExitOfPhase
<1>2. CASE RecordResult \/ CatchEscaped
  BY <1>2 DEF RecordResult, CatchEscaped, ExitOfPhase
<1>3. CASE LeaveFinally
  BY <1>3 DEF LeaveFinally, ExitOfPhase
<1>4. CASE Reclaim
  BY <1>4 DEF Reclaim, benchVars, ExitOfPhase
<1>5. ASSUME pc # "done", pc' # "done", exit' = exit
      PROVE  ExitOfPhase'
  BY <1>5 DEF ExitOfPhase
<1>6. CASE RunTopology /\ ~LeaveFinally /\ ~Finish
  <2>1. pc # "done" /\ exit' = exit
    BY <1>6
    DEF RunTopology, PreDeploySample, CheckHeadroom, Deploy, DeployFails, PostDeploySample,
        TryStep, RenderTopology, WaitConvergence, ExtractFibs, WriteFibs, RunHammerhead,
        ComputeDiff, StepRaises, RunBatfish, SkipTeardown, DestroyLab, PostTeardownSample,
        VerifyTeardown, PollRecovery, benchVars
  <2>2. pc' = pc \/ pc' # "done"
    BY <1>6, LoopSteps DEF RecordResult, CatchEscaped
  <2> QED
    BY <1>5, <2>1, <2>2
<1> QED
  BY <1>1, <1>2, <1>3, <1>4, <1>6 DEF Next, Harness

LEMMA WrittenStep ==
  ASSUME TypeOK, InRange, InFinally, Accounts, Written, Next
  PROVE  Written'
<1> SUFFICES ASSUME NEW t \in written', runs'[t].status = "passed"
             PROVE  Ran(t, runs'[t], opts', log') /\ Left("returned", runs'[t])
  BY DEF Written
<1>1. opts' = opts /\ \A line : line \in log => line \in log'
  BY Lasting
<1>2. ASSUME NEW r, Ran(t, r, opts, log)
      PROVE  Ran(t, r, opts', log')
  BY <1>1, <1>2 DEF Ran, Logged
<1>3. CASE t \in written
  <2>1. t \in T /\ t # cur
    BY <1>3, WrittenBefore
  <2>2. runs'[t] = runs[t]
    BY <2>1, OnlyCurrent
  <2> QED
    BY <1>2, <1>3, <2>2 DEF Written
<1>4. CASE t \notin written
  <2>1. RecordResult /\ t = cur /\ pc = "returned" /\ runs' = runs
    BY <1>4, LoopSteps DEF RecordResult, CatchEscaped, Finish
  <2>2. Ran(t, runs[t], opts, log) /\ Left("returned", runs[t])
    BY <2>1 DEF InFinally, EndPCs
  <2> QED
    BY <1>2, <2>1, <2>2
<1> QED
  BY <1>3, <1>4

LEMMA KeptLabStep ==
  ASSUME TypeOK, InRange, LabUp, Accounts, KeptLabSurvives, Next
  PROVE  KeptLabSurvives'
<1> SUFFICES ASSUME NEW t \in written', opts'.keep, runs'[t].status = "failed",
                    "post-deploy" \in runs'[t].samples
             PROVE  t \in live'
  BY DEF KeptLabSurvives
<1>1. opts' = opts
  BY Lasting
<1>2. CASE t \in written
  <2>1. t \in T /\ t # cur
    BY <1>2, WrittenBefore
  <2>2. runs'[t] = runs[t] /\ (t \in live' <=> t \in live)
    BY <2>1, OnlyCurrent
  <2> QED
    BY <1>1, <1>2, <2>2 DEF KeptLabSurvives
<1>3. CASE t \notin written
  <2>1. /\ RecordResult /\ t = cur /\ pc = "returned" /\ runs' = runs
        /\ live' = live
    BY <1>3, LoopSteps DEF RecordResult, CatchEscaped, Finish, hostVars
  <2> QED
    BY <1>1, <2>1 DEF LabUp, EndPCs
<1> QED
  BY <1>2, <1>3

-----------------------------------------------------------------------------
(* Labs that are to be kept, and memory.                                    *)
LEMMA LabUpStep ==
  ASSUME TypeOK, InRange, Untouched, StatusOfPhase, InTry, LabUp, Next
  PROVE  LabUp'
<1>0. opts' = opts
  BY Lasting
<1>1. ASSUME cur' = cur, cur \in live' \/ (pc' \notin TryPCs \cup EndPCs)
      PROVE  LabUp'
  BY <1>1 DEF LabUp
<1>2. ASSUME cur' = cur, pc' \in EndPCs, "post-deploy" \notin runs'[cur].samples
      PROVE  LabUp'
  <2>1. pc' \notin TryPCs
    BY <1>2 DEF TryPCs, EndPCs
  <2> QED
    BY <1>2, <2>1 DEF LabUp
<1>3. CASE PreDeploySample
  <2>1. cur \in T /\ runs[cur] = FreshRun /\ cur' = cur
    BY <1>3 DEF PreDeploySample, Untouched, benchVars
  <2>2. PICK logged \in BOOLEAN : RecordSampleInTry("pre-deploy", logged, "headroom")
    BY <1>3 DEF PreDeploySample
  <2>3. runs'[cur].samples = runs[cur].samples \cup {"pre-deploy"}
    BY <2>1, <2>2, SampleInTryFields
  <2>4. "post-deploy" \notin runs'[cur].samples
    BY <2>1, <2>3 DEF FreshRun
  <2>5. pc' = "headroom" \/ pc' = "finally"
    BY <2>2 DEF RecordSampleInTry
  <2> QED
    BY <1>2, <2>1, <2>4, <2>5 DEF LabUp, EndPCs
<1>4. CASE CheckHeadroom \/ DeployFails \/ (RenderTopology /\ TryFrame)
           \/ (StepRaises /\ TryFrame /\ pc = "render")
  <2>1. /\ pc \in {"headroom", "render", "deploy"} /\ cur' = cur
        /\ pc' \in {"render", "deploy", "finally"}
    BY <1>4 DEF CheckHeadroom, DeployFails, RenderTopology, StepRaises, TryFrame, Raise, benchVars
  <2>2. cur \in T /\ "post-deploy" \notin runs[cur].samples
    BY <2>1 DEF InRange, Idle, InTry, TryPCs, Tried
  <2>3. runs'[cur].samples = runs[cur].samples
    <3>1. CASE CheckHeadroom
      BY <2>2, <3>1 DEF CheckHeadroom, TypeOK, RunRecord
    <3>2. CASE Raise
      BY <2>2, <3>2, RaiseFields
    <3>3. CASE RenderTopology
      BY <3>3 DEF RenderTopology
    <3> QED
      BY <1>4, <3>1, <3>2, <3>3 DEF DeployFails, StepRaises
  <2>4. pc' = "finally" => LabUp'
    BY <1>2, <2>1, <2>2, <2>3 DEF EndPCs
  <2>5. pc' # "finally" => LabUp'
    BY <2>1 DEF LabUp, EndPCs
  <2> QED
    BY <2>4, <2>5
<1>5. CASE Deploy
  BY <1>1, <1>5 DEF Deploy, CreateContainers, benchVars
<1>6. ASSUME pc \in TryPCs \ {"headroom", "render", "deploy"}, UNCHANGED <<cur, live>>
      PROVE  LabUp'
  BY <1>1, <1>6 DEF LabUp
<1>7. CASE PostDeploySample \/ RunBatfish \/
           (TryStep /\ pc \in TryPCs \ {"headroom", "render", "deploy"})
  BY <1>6, <1>7 DEF PostDeploySample, RunBatfish, TryStep, TryPCs, benchVars, hostVars
<1>8. CASE SkipTeardown
  BY <1>0, <1>8 DEF SkipTeardown, benchVars, hostVars, LabUp, EndPCs, TryPCs
<1>9. CASE DestroyLab
  <2>1. /\ pc' \in {"post-teardown", "escaped"} /\ cur' = cur /\ pc = "finally"
        /\ cur \in T
    BY <1>9 DEF DestroyLab, benchVars, InRange, Idle
  <2>2. opts.keep => runs[cur].status = "passed"
    BY <1>9 DEF DestroyLab, TeardownDue
  <2>3. runs'[cur].status = runs[cur].status
    BY <1>9, <2>1, NoteFields DEF DestroyLab
  <2> QED
    BY <1>0, <2>1, <2>2, <2>3 DEF LabUp, TryPCs
<1>10. ASSUME pc \in EndPCs, pc' \in EndPCs, UNCHANGED <<cur, live>>,
              runs'[cur].status = runs[cur].status,
              "post-deploy" \in runs'[cur].samples => "post-deploy" \in runs[cur].samples
       PROVE  LabUp'
  <2>1. pc' \notin TryPCs
    BY <1>10 DEF EndPCs, TryPCs
  <2> QED
    BY <1>0, <1>10, <2>1 DEF LabUp
<1>11. CASE PostTeardownSample \/ VerifyTeardown \/ PollRecovery
  <2>1. /\ pc \in EndPCs /\ UNCHANGED <<cur, live>> /\ cur \in T
        /\ pc' \in EndPCs \cup {"escaped"}
    BY <1>11 DEF PostTeardownSample, VerifyTeardown, PollRecovery, RecordSample, benchVars,
       hostVars, EndPCs, InRange, Idle
  <2>2. /\ runs'[cur].status = runs[cur].status
        /\ "post-deploy" \in runs'[cur].samples => "post-deploy" \in runs[cur].samples
    <3>1. ASSUME NEW phase \in {"post-teardown", "recovered"}, NEW logged \in BOOLEAN,
                 RecordSample(phase, logged)
          PROVE  /\ runs'[cur].status = runs[cur].status
                 /\ "post-deploy" \in runs'[cur].samples => "post-deploy" \in runs[cur].samples
      BY <2>1, <3>1, SampleFields
    <3>2. CASE \E note : runs' = [runs EXCEPT ![cur].notes = @ \cup {note}]
      BY <2>1, <3>2, NoteFields
    <3>3. CASE runs' = [runs EXCEPT ![cur].notes = @]
      BY <2>1, <3>3 DEF TypeOK, RunRecord
    <3>4. CASE PostTeardownSample
      BY <3>1, <3>4 DEF PostTeardownSample
    <3>5. CASE VerifyTeardown
      BY <3>2, <3>3, <3>5 DEF VerifyTeardown
    <3>6. CASE PollRecovery
      BY <3>1, <3>2, <3>6 DEF PollRecovery
    <3> QED
      BY <1>11, <3>4, <3>5, <3>6
  <2>3. CASE pc' = "escaped"
    BY <1>1, <2>1, <2>3 DEF EndPCs, TryPCs
  <2> QED
    BY <1>10, <2>1, <2>2, <2>3
<1>12. CASE LeaveFinally
  BY <1>0, <1>12 DEF LeaveFinally, hostVars, LabUp, EndPCs, TryPCs
<1>13. CASE RecordResult \/ CatchEscaped \/ Finish
  BY <1>13 DEF RecordResult, CatchEscaped, Finish, LabUp, EndPCs, TryPCs
<1>14. CASE Reclaim
  BY <1>0, <1>14 DEF Reclaim, benchVars, LabUp
<1>15. TryStep => \/ RenderTopology /\ TryFrame
                  \/ StepRaises /\ TryFrame /\ pc = "render"
                  \/ TryStep /\ pc \in TryPCs \ {"headroom", "render", "deploy"}
  BY DEF TryStep, TryFrame, RenderTopology, WaitConvergence, ExtractFibs, WriteFibs,
     RunHammerhead, ComputeDiff, StepRaises, TryPCs
<1> QED
  BY <1>3, <1>4, <1>5, <1>7, <1>8, <1>9, <1>11, <1>12, <1>13, <1>14, <1>15
  DEF Next, Harness, RunTopology

LEMMA MemoryStep ==
  ASSUME TypeOK, InRange, StatusOfPhase, MemoryBack, Next
  PROVE  MemoryBack'
<1>0. /\ Slack \in Nat /\ avail \in Nat /\ T \subseteq Nat /\ cur \in Nat
      /\ \A t \in T : baseline[t] \in Nat
  BY ConstantsAssumption DEF TypeOK, T, ConstantsAssumption
<1>1. ASSUME pc' \notin {"leave", "returned", "bench"}
      PROVE  MemoryBack'
  BY <1>1 DEF MemoryBack
<1>2. CASE SkipTeardown
  <2>1. /\ cur \in T /\ pc' = "leave" /\ cur' = cur /\ runs' = runs
    BY <1>2 DEF SkipTeardown, InRange, Idle, benchVars
  <2>2. runs[cur].status = "failed"
    BY <1>2, <2>1, Fields DEF SkipTeardown, TeardownDue, StatusOfPhase
  <2> QED
    BY <2>1, <2>2 DEF MemoryBack
<1>3. CASE PollRecovery
  <2>1. /\ cur \in T /\ pc' \in {"leave", "escaped", "recovery"} /\ pc = "recovery"
        /\ UNCHANGED <<cur, avail, baseline>>
    BY <1>3 DEF PollRecovery, InRange, Idle, benchVars, hostVars
  <2>2. CASE Recovered
    BY <2>1, <2>2 DEF MemoryBack, Recovered
  <2>3. CASE runs' = [runs EXCEPT ![cur].notes = @ \cup {"memory did not recover"}]
    <3>1. runs'[cur].notes # {}
      BY <2>1, <2>3, NoteFields
    <3> QED
      BY <2>1, <3>1 DEF MemoryBack
  <2>4. CASE pc' = pc
    BY <2>1, <2>4 DEF MemoryBack
  <2> QED
    BY <1>3, <2>2, <2>3, <2>4 DEF PollRecovery
<1>4. CASE LeaveFinally
  BY <1>4 DEF LeaveFinally, hostVars, MemoryBack
<1>5. CASE RecordResult
  <2>1. CASE pc' = "bench"
    <3>1. /\ UNCHANGED <<runs, avail, baseline>> /\ cur' = cur + 1 /\ pc = "returned"
          /\ failed' = IF runs[cur].status = "passed" THEN failed ELSE failed \cup {cur}
      BY <1>5, <2>1 DEF RecordResult, hostVars
    <3>2. ASSUME NEW t \in T, t + 1 = cur'
          PROVE  Reported(t)' \/ avail' + Slack >= baseline'[t]
      <4>1. t = cur
        BY <1>0, <3>1, <3>2
      <4> QED
        BY <3>1, <4>1 DEF MemoryBack, Reported
    <3> QED
      BY <2>1, <3>2 DEF MemoryBack
  <2> QED
    BY <1>1, <1>5, <2>1 DEF RecordResult
<1>6. CASE CatchEscaped
  <2>1. pc' = "bench" /\ cur' = cur + 1 /\ failed' = failed \cup {cur}
    BY <1>6 DEF CatchEscaped
  <2>2. ASSUME NEW t \in T, t + 1 = cur'
        PROVE  Reported(t)'
    <3>1. t = cur
      BY <1>0, <2>1, <2>2
    <3> QED
      BY <2>1, <3>1 DEF Reported
  <2> QED
    BY <2>1, <2>2 DEF MemoryBack
<1>7. CASE Reclaim
  <2>1. UNCHANGED <<pc, cur, runs, baseline, failed>>
    BY <1>7 DEF Reclaim, benchVars
  <2>2. avail' \in Nat /\ avail' >= avail
    BY <1>0, <1>7 DEF Reclaim, TypeOK
  <2>3. ASSUME NEW t \in T, avail + Slack >= baseline[t]
        PROVE  avail' + Slack >= baseline'[t]
    BY <1>0, <2>1, <2>2, <2>3
  <2>4. pc \in {"leave", "returned"} => cur \in T
    BY DEF InRange, Idle
  <2> QED
    BY <2>1, <2>3, <2>4 DEF MemoryBack, Reported
<1>8. CASE Finish
  BY <1>1, <1>8 DEF Finish
<1>9. CASE RunTopology /\ ~SkipTeardown /\ ~PollRecovery /\ ~LeaveFinally
  BY <1>1, <1>9
  DEF RunTopology, PreDeploySample, RecordSampleInTry, CheckHeadroom, Deploy, DeployFails,
      Raise, PostDeploySample, TryStep, RenderTopology, WaitConvergence, ExtractFibs,
      WriteFibs, Complete, RunHammerhead, ComputeDiff, StepRaises, RunBatfish,
      DestroyLab, PostTeardownSample, VerifyTeardown
<1> QED
  BY <1>2, <1>3, <1>4, <1>5, <1>6, <1>7, <1>8, <1>9 DEF Next, Harness

(* The baseline is read in the first step of a run, and never again.        *)
LEMMA BaselineStep ==
  ASSUME Next
  PROVE  \/ PreDeploySample
         \/ baseline' = baseline /\ (pc = "bench" /\ cur \in T => pc' = "bench" /\ cur' = cur)
<1>1. CASE Harness /\ ~PreDeploySample
  BY <1>1
  DEF Harness, RunTopology, CheckHeadroom, Deploy, DeployFails, PostDeploySample,
      TryStep, RenderTopology, WaitConvergence, ExtractFibs, WriteFibs, RunHammerhead,
      ComputeDiff, StepRaises, RunBatfish, SkipTeardown, DestroyLab, PostTeardownSample,
      VerifyTeardown, PollRecovery, LeaveFinally, RecordResult, CatchEscaped, Finish
<1>2. CASE Reclaim
  BY <1>2 DEF Reclaim, benchVars
<1> QED
  BY <1>1, <1>2 DEF Next, Harness, RunTopology

LEMMA DriftStep ==
  ASSUME TypeOK, InRange, MemoryBack, Drift, Next
  PROVE  Drift'
<1> SUFFICES ASSUME NEW t \in T, t + 1 \in T,
                    t + 1 < cur' \/ (t + 1 = cur' /\ pc' # "bench")
             PROVE  Reported(t)' \/ baseline'[t + 1] + Slack >= baseline'[t]
  BY DEF Drift
<1>1. /\ Slack \in Nat /\ avail \in Nat /\ t \in Nat /\ cur \in Nat
      /\ baseline[t] \in Nat /\ baseline[t + 1] \in Nat
  BY ConstantsAssumption DEF TypeOK, T, ConstantsAssumption
<1>2. cur' = cur \/ (cur' = cur + 1 /\ pc' = "bench")
  BY OnlyCurrent, StepOn DEF RecordResult, CatchEscaped
<1>3. t < cur
  BY <1>1, <1>2
<1>4. t # cur /\ baseline'[t] = baseline[t] /\ (Reported(t) => Reported(t)')
  <2>1. t # cur
    BY <1>1, <1>3
  <2>2. runs'[t] = runs[t] /\ (t \in failed') = (t \in failed)
    BY <2>1, OnlyCurrent
  <2>3. baseline'[t] = baseline[t]
    BY <2>1, Lasting
  <2> QED
    BY <2>1, <2>2, <2>3 DEF Reported
<1>5. CASE PreDeploySample
  <2>1. /\ pc = "bench" /\ cur' = cur /\ cur \in T
        /\ baseline' = [baseline EXCEPT ![cur] = avail]
    BY <1>5 DEF PreDeploySample, benchVars
  <2>2. CASE t + 1 = cur
    BY <1>1, <1>4, <2>1, <2>2 DEF MemoryBack, TypeOK
  <2>3. CASE t + 1 # cur
    BY <1>1, <1>4, <2>1, <2>3 DEF Drift, TypeOK
  <2> QED
    BY <2>2, <2>3
<1>6. CASE baseline' = baseline /\ (pc = "bench" /\ cur \in T => pc' = "bench" /\ cur' = cur)
  <2>1. t + 1 < cur \/ (t + 1 = cur /\ pc # "bench")
    <3>1. CASE cur' = cur
      BY <1>1, <1>6, <3>1
    <3>2. CASE cur' = cur + 1 /\ pc' = "bench"
      BY <1>1, <1>6, <3>2
    <3> QED
      BY <1>2, <3>1, <3>2
  <2> QED
    BY <1>4, <1>6, <2>1 DEF Drift
<1> QED
  BY <1>5, <1>6, BaselineStep

-----------------------------------------------------------------------------
(* Book is inductive, along with Inv.                                       *)
LEMMA BookInit == Init => Book
<1> SUFFICES ASSUME Init
             PROVE  Book
  OBVIOUS
<1>1. InTry /\ InFinally /\ LabUp /\ ExitOfPhase /\ Written /\ KeptLabSurvives
  BY DEF Init, InTry, TryPCs, InFinally, EndPCs, LabUp, ExitOfPhase, Written, KeptLabSurvives
<1>2. cur = 1 /\ \A t \in T : t \in Nat /\ t >= 1
  BY ConstantsAssumption DEF Init, T, ConstantsAssumption
<1>3. MemoryBack /\ Drift /\ Accounts
  BY <1>2 DEF Init, MemoryBack, Drift, Accounts
<1> QED
  BY <1>1, <1>3 DEF Book

LEMMA BookStep == Inv /\ Book /\ [Next]_vars => Book'
<1> SUFFICES ASSUME Inv, Book, [Next]_vars
             PROVE  Book'
  OBVIOUS
<1>1. CASE Next
  <2>1. TypeOK /\ InRange /\ Untouched /\ StatusOfPhase
    BY DEF Inv
  <2>2. InTry' /\ InFinally' /\ LabUp'
    BY <1>1, <2>1, InTryStep, InFinallyStep, LabUpStep DEF Book
  <2>3. MemoryBack' /\ Drift' /\ Accounts' /\ ExitOfPhase'
    BY <1>1, <2>1, MemoryStep, DriftStep, AccountsStep, ExitStep DEF Book
  <2>4. Written' /\ KeptLabSurvives'
    BY <1>1, <2>1, WrittenStep, KeptLabStep DEF Book
  <2> QED
    BY <2>2, <2>3, <2>4 DEF Book
<1>2. CASE UNCHANGED vars
  <2>1. InTry' /\ InFinally' /\ LabUp'
    BY <1>2 DEF Book, vars, InTry, InFinally, LabUp
  <2>2. MemoryBack' /\ Drift' /\ Accounts' /\ ExitOfPhase'
    BY <1>2 DEF Book, vars, MemoryBack, Drift, Accounts, ExitOfPhase, Reported
  <2>3. Written' /\ KeptLabSurvives'
    BY <1>2 DEF Book, vars, Written, KeptLabSurvives
  <2> QED
    BY <2>1, <2>2, <2>3 DEF Book
<1> QED
  BY <1>1, <1>2

LEMMA Booked == Spec => [](Inv /\ Book)
<1>1. Inv /\ Book /\ [Next]_vars => (Inv /\ Book)'
  BY InvStep, BookStep
<1> QED
  BY <1>1, InvInit, BookInit, PTL DEF Spec

(* The recovery check bounds the drift of free memory from one run to the   *)
(* next, or the result says that it does not.                               *)
THEOREM DriftIsReported == Spec => []DriftReported
<1>1. Inv /\ Book => DriftReported
  <2> SUFFICES ASSUME Inv, Book, NEW t \in Settled, t + 1 \in T,
                      "pre-deploy" \in runs[t + 1].samples,
                      baseline[t + 1] + Slack < baseline[t]
               PROVE  Reported(t)
    BY DEF DriftReported
  <2>1. /\ t \in T /\ t \in Nat /\ cur \in Nat /\ t < cur /\ Slack \in Nat
        /\ baseline[t] \in Nat /\ baseline[t + 1] \in Nat
    BY ConstantsAssumption DEF Inv, TypeOK, Settled, T, ConstantsAssumption
  <2>2. ~(t + 1 = cur /\ pc = "bench")
    BY DEF Inv, Untouched, FreshRun
  <2> QED
    <3>1. Drift
      BY DEF Book
    <3>2. t + 1 < cur \/ (t + 1 = cur /\ pc # "bench")
      BY <2>1, <2>2
    <3>3. ~(baseline[t + 1] + Slack >= baseline[t])
      BY <2>1
    <3> QED
      BY <2>1, <3>1, <3>2, <3>3 DEF Drift
<1> QED
  BY <1>1, Booked, PTL

(* A result written as passed is of a run in which everything happened.     *)
THEOREM PassedRunsAreComplete == Spec => []PassedRunIsComplete
<1>1. Inv /\ Book => PassedRunIsComplete
  <2> SUFFICES ASSUME Book, NEW t \in written, runs[t].status = "passed"
               PROVE  /\ runs[t].error = "none"
                      /\ "vendor_truth" \in runs[t].done
                      /\ opts.batfish => "batfish" \in runs[t].done
                      /\ opts.hammerhead => "hammerhead" \in runs[t].done
                      /\ ("diff" \in runs[t].done) = ~NoDiff
                      /\ Phases \ {"recovered"} \subseteq runs[t].samples
                      /\ ("recovered" \in runs[t].samples)
                            # ("memory did not recover" \in runs[t].notes)
                      /\ {t} \X runs[t].samples \subseteq log
    BY DEF PassedRunIsComplete
  <2>1. Ran(t, runs[t], opts, log) /\ Left("returned", runs[t])
    BY DEF Book, Written
  <2>2. /\ runs[t].error = "none" /\ "vendor_truth" \in runs[t].done
        /\ opts.batfish => "batfish" \in runs[t].done
        /\ opts.hammerhead => "hammerhead" \in runs[t].done
        /\ ("diff" \in runs[t].done) = ~NoDiff
    BY <2>1 DEF Ran, NoDiff
  <2>3. Phases \ {"recovered"} \subseteq runs[t].samples
    BY <2>1 DEF Ran, Left, Phases
  <2>4. ("recovered" \in runs[t].samples) # ("memory did not recover" \in runs[t].notes)
    BY <2>1 DEF Left, Recovery
  <2>5. {t} \X runs[t].samples \subseteq log
    BY <2>1 DEF Ran, Logged
  <2> QED
    BY <2>2, <2>3, <2>4, <2>5
<1> QED
  BY <1>1, Booked, PTL

(* Exit status zero if and only if every topology has a written passed      *)
(* result, for a bench that comes to its summary.                           *)
THEOREM ExitCodeIsHonest == Spec => []ExitCodeHonest
<1>1. Inv /\ Book => ExitCodeHonest
  <2> SUFFICES ASSUME Inv, Book, pc = "done"
               PROVE  failed = {} <=> {t \in written : runs[t].status = "passed"} = T
    BY DEF Book, ExitOfPhase, ExitCodeHonest
  <2>1. cur = NumTopologies + 1 /\ \A t \in T : t < cur
    BY ConstantsAssumption DEF Book, ExitOfPhase, T, ConstantsAssumption
  <2>2. \A t \in T : t \in failed <=> ~(t \in written /\ runs[t].status = "passed")
    BY <2>1 DEF Book, Accounts
  <2>3. failed \subseteq T /\ written \subseteq T
    BY DEF Inv, TypeOK
  <2> QED
    BY <2>2, <2>3
<1> QED
  BY <1>1, Booked, PTL

(* A lab kept for inspection stays untouched until the bench ends.          *)
THEOREM KeptLabsSurvive == Spec => []KeptLabSurvives
<1>1. Inv /\ Book => KeptLabSurvives
  BY DEF Book
<1> QED
  BY <1>1, Booked, PTL
=============================================================================
