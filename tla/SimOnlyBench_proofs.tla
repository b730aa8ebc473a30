------------------------ MODULE SimOnlyBench_proofs ------------------------
(***************************************************************************)
(* Proofs about `bench --sim-only`, for any number of topologies, trials,  *)
(* nodes and containers, and any command lines.                            *)
(*                                                                         *)
(* Every step of the bench is a step of BatfishService or leaves it alone, *)
(* so the invariant of the service holds in the bench.  With its help Inv  *)
(* is kept: who is to close the service, what a topology has gathered when *)
(* a trial stands at pc, and what an agreement is made of.                 *)
(***************************************************************************)
EXTENDS SimOnlyBench, FiniteSetTheorems, SequenceTheorems, TLAPS

(* Between two calls of the service.                                        *)
Between == {"bench", "batfish", "hammerhead", "agreement", "result"}

(* In a trial, up to the end of its Batfish call.                           *)
Before == {"batfish", "entering", "querying", "exiting"}

InTrial == Before \cup {"hammerhead", "agreement"}

(* A service that holds a container is closed by somebody: the bench, when  *)
(* it is attached, or the `with` of the trial.                              *)
Owned ==
  /\ pc \in Between \cup {"attach"} => attached \/ container = Batfish!None
  /\ pc \in {"attach", "attaching", "entering", "exiting"} => ~attached
  /\ pc = "closing" => attached \/ container = Batfish!None \/ phase = "interrupted"
  /\ pc = "ended" => container = Batfish!None \/ phase = "interrupted"

Loop ==
  /\ DOMAIN results = T /\ written \subseteq T
  /\ trial \in 1..Trials
  /\ pc \in InTrial \cup {"result"} => cur \in T
  /\ pc \in {"entering", "querying", "exiting"} => opts.batfish
  /\ pc = "agreement" => trial = Trials

(* n measurements, of the trials 1 to n; none of a simulator left out.      *)
Asked(flag, n) == IF flag THEN n ELSE 0

Numbered(s, n) == s \in Seq(Nat) /\ Len(s) = n /\ \A i \in 1..n : s[i] = i

Measurement == [trial : Nat, warm : BOOLEAN]

Measured(s, n) ==
  s \in Seq(Measurement) /\ Len(s) = n /\ \A i \in 1..n : s[i].trial = i

(* Every node's file, and its only one, is of trial k.                      *)
AllOf(dir, k) ==
  \A n \in Nodes : {f \in dir : f.node = n} = {[node |-> n, trial |-> k]}

HammerGathered ==
  /\ \A f \in hhDir : f.node \in Nodes
  /\ pc \in Before \cup {"hammerhead"} =>
       Numbered(hhTimes, Asked(opts.hammerhead, trial - 1))
  /\ pc = "agreement" =>
       /\ Numbered(hhTimes, Asked(opts.hammerhead, trial))
       /\ opts.hammerhead => AllOf(hhDir, trial)

BatfishGathered ==
  /\ pc = "exiting" /\ outcome = "ok" => bfSidecar = trial
  /\ pc \in Before => Measured(bfTimes, Asked(opts.batfish, trial - 1))
  /\ pc \in {"hammerhead", "agreement"} => Measured(bfTimes, Asked(opts.batfish, trial))

(* Only the first call that an attached service ever answered is cold.      *)
AllWarmBut(s) == \A i \in DOMAIN s : i > 1 => s[i].warm
SomeCold(s) == \E i \in DOMAIN s : ~s[i].warm
NoneWarm(s) == \A i \in DOMAIN s : ~s[i].warm
NoColdResult == \A t \in T : results[t].cold = 0

Warmth ==
  /\ pc \in InTrial /\ ~attached => NoneWarm(bfTimes)
  /\ pc \in InTrial /\ attached =>
       /\ AllWarmBut(bfTimes)
       /\ SomeCold(bfTimes) => NoColdResult
       /\ DOMAIN bfTimes # {} => calls > 0
  /\ pc \in Between \cup InTrial /\ attached /\ ~NoColdResult => calls > 0

(* What a scored topology's agreement is made of.                           *)
Scored(r, at) ==
  /\ Measured(r.bfTimes, Asked(opts.batfish, Trials))
  /\ Numbered(r.hhTimes, Asked(opts.hammerhead, Trials))
  /\ opts.hammerhead => AllOf(r.hh, Trials)
  /\ r.cold \in {0, 1}
  /\ opts.batfish => r.warm = IF at THEN (1..Trials) \ {r.cold} ELSE {}

Scores ==
  /\ \A t \in T : results[t].status = "passed" => Scored(results[t], attached)
  /\ attached => \A t, u \in T : results[t].cold # 0 /\ results[u].cold # 0 => t = u
  /\ pc \in {"attach", "attaching"} => \A t \in T : results[t] = FreshResult

Inv == Owned /\ Loop /\ HammerGathered /\ BatfishGathered /\ Warmth /\ Scores

-----------------------------------------------------------------------------
(* The bench keeps to the lifecycle of the service.                         *)

(* Every step of the bench is a step of the service or leaves it alone.     *)
LEMMA ServiceStep ==
  ASSUME [Next]_vars
  PROVE  [Batfish!Next]_serviceVars
<1>1. CASE Attach \/ Attaching \/ CallBatfish \/ Entering
  BY <1>1 DEF Attach, Attaching, CallBatfish, Entering, Batfish!Next
<1>2. CASE Querying \/ Exiting \/ Closing \/ ContainerExits
  BY <1>2 DEF Querying, Exiting, Closing, ContainerExits, Batfish!Next
<1>3. CASE NextTopology \/ SkipBatfish \/ RunHammerhead \/ ComputeAgreement
           \/ RecordResult \/ Finish \/ Interrupt
  BY <1>3
  DEF NextTopology, SkipBatfish, RunHammerhead, ComputeAgreement, RecordResult, Finish,
      Interrupt
<1>4. CASE UNCHANGED vars
  BY <1>4 DEF vars
<1> QED
  BY <1>1, <1>2, <1>3, <1>4 DEF Next, Bench

(* bench --sim-only, with its attach, one-shot and close paths, drives      *)
(* BatfishService only as the lifecycle of its docstring allows.            *)
THEOREM ServiceKept == Spec => ServiceSpec
<1>1. Init => Batfish!Init
  BY DEF Init
<1>2. [Next]_vars => [Batfish!Next]_(Batfish!vars)
  <2>1. UNCHANGED serviceVars => UNCHANGED Batfish!vars
    BY DEF serviceVars, Batfish!vars, Batfish!objectVars, Batfish!dockerVars, Batfish!historyVars
  <2> QED
    BY <2>1, ServiceStep
<1> QED
  BY <1>1, <1>2, PTL DEF Spec, ServiceSpec, Batfish!Spec

(* The proofs about BatfishService, for this bench's service.               *)
Service == INSTANCE BatfishService_proofs WITH MaxCalls <- NumTopologies * Trials

(* What is proved of any client of the service holds in the bench.          *)
LEMMA ServiceSafe == Spec => []Service!Inv
<1>1. {MaxContainers, NumTopologies * Trials} \subseteq Nat
  BY BenchAssumption DEF BenchAssumption
<1>2. Service!Spec => []Service!Inv
  BY <1>1, Service!Invariance DEF Service!ServiceAssumption
<1>3. Batfish!Init => Service!Init
  BY DEF Batfish!Init, Service!Init, Batfish!FreshObject, Service!FreshObject,
         Batfish!None, Service!None
<1>4. [Batfish!Next]_serviceVars => [Service!Next]_(Service!vars)
  <2> USE DEF serviceVars, Batfish!None, Service!None,
         Batfish!dockerVars, Batfish!historyVars, Batfish!objectVars,
         Service!dockerVars, Service!historyVars, Service!objectVars
  <2>1. Batfish!CreateContainer <=> Service!CreateContainer
    BY DEF Batfish!CreateContainer, Service!CreateContainer
  <2>2. Batfish!StopContainer <=> Service!StopContainer
    BY DEF Batfish!StopContainer, Service!StopContainer
  <2>3. Batfish!Warm <=> Service!Warm
    BY DEF Batfish!Warm, Service!Warm
  <2>4. Batfish!Start => Service!Start
    BY DEF Batfish!Start, Service!Start
  <2>5. Batfish!RunOne => Service!RunOne
    BY DEF Batfish!RunOne, Service!RunOne
  <2>6. Batfish!Close => Service!Close
    BY <2>2 DEF Batfish!Close, Service!Close
  <2>7. Batfish!DockerRun => Service!DockerRun
    BY <2>1 DEF Batfish!DockerRun, Service!DockerRun
  <2>8. Batfish!DockerRunFails => Service!DockerRunFails
    BY <2>1 DEF Batfish!DockerRunFails, Service!DockerRunFails
  <2>9. Batfish!BecomeReady => Service!BecomeReady
    BY DEF Batfish!BecomeReady, Service!BecomeReady
  <2>10. Batfish!NotReady => Service!NotReady
    BY DEF Batfish!NotReady, Service!NotReady
  <2>11. Batfish!Abort => Service!Abort
    BY <2>2 DEF Batfish!Abort, Service!Abort
  <2>12. Batfish!ReturnStats => Service!ReturnStats
    BY DEF Batfish!ReturnStats, Service!ReturnStats, Batfish!Warm, Service!Warm
  <2>13. Batfish!CallFails => Service!CallFails
    BY DEF Batfish!CallFails, Service!CallFails
  <2>14. Batfish!SidecarFails => Service!SidecarFails
    BY DEF Batfish!SidecarFails, Service!SidecarFails
  <2>15. Batfish!ContainerExits => Service!ContainerExits
    BY DEF Batfish!ContainerExits, Service!ContainerExits
  <2>16. UNCHANGED serviceVars => UNCHANGED Service!vars
    BY DEF Service!vars
  <2> QED
    BY <2>4, <2>5, <2>6, <2>7, <2>8, <2>9, <2>10, <2>11, <2>12, <2>13, <2>14, <2>15,
       <2>16 DEF Batfish!Next, Service!Next, Batfish!Call, Service!Call
<1>5. Init => Service!Init
  BY <1>3 DEF Init
<1>6. [Next]_vars => [Service!Next]_(Service!vars)
  BY <1>4, ServiceStep
<1> QED
  BY <1>2, <1>5, <1>6, PTL DEF Spec, Service!Spec

-----------------------------------------------------------------------------
(* Sequences of measurements, and FIB directories.                          *)

LEMMA NumberedNext ==
  ASSUME NEW n \in Nat, NEW s, Numbered(s, n)
  PROVE  Numbered(Append(s, n + 1), n + 1)
<1>1. s \in Seq(Nat) /\ Len(s) = n /\ n + 1 \in Nat /\ \A i \in 1..n : s[i] = i
  BY DEF Numbered
<1>2. Append(s, n + 1) \in Seq(Nat) /\ Len(Append(s, n + 1)) = n + 1
  BY <1>1
<1>3. \A i \in 1..(n + 1) : Append(s, n + 1)[i] = i
  BY <1>1
<1> QED
  BY <1>2, <1>3 DEF Numbered

LEMMA MeasuredNext ==
  ASSUME NEW n \in Nat, NEW s, Measured(s, n),
         NEW e \in Measurement, e.trial = n + 1
  PROVE  /\ Measured(Append(s, e), n + 1)
         /\ DOMAIN s = 1..n /\ DOMAIN Append(s, e) = 1..(n + 1)
         /\ Append(s, e)[n + 1] = e
         /\ \A i \in 1..n : Append(s, e)[i] = s[i]
<1>1. s \in Seq(Measurement) /\ Len(s) = n /\ \A i \in 1..n : s[i].trial = i
  BY DEF Measured
<1>2. Append(s, e) \in Seq(Measurement) /\ Len(Append(s, e)) = n + 1
  BY <1>1
<1>3. DOMAIN s = 1..n /\ DOMAIN Append(s, e) = 1..(n + 1)
  BY <1>1, <1>2
<1>4. Append(s, e)[n + 1] = e
  BY <1>1
<1>5. \A i \in 1..n : Append(s, e)[i] = s[i]
  BY <1>1
<1>6. \A i \in 1..(n + 1) : i = n + 1 \/ i \in 1..n
  OBVIOUS
<1>7. \A i \in 1..(n + 1) : Append(s, e)[i].trial = i
  BY <1>1, <1>4, <1>5, <1>6
<1> QED
  BY <1>2, <1>3, <1>4, <1>5, <1>7 DEF Measured

LEMMA NothingYet == Numbered(<<>>, 0) /\ Measured(<<>>, 0) /\ DOMAIN <<>> = {}
<1>1. <<>> \in Seq(Nat) /\ <<>> \in Seq(Measurement) /\ Len(<<>>) = 0
  OBVIOUS
<1>2. 1..0 = {} /\ DOMAIN <<>> = {}
  OBVIOUS
<1> QED
  BY <1>1, <1>2 DEF Numbered, Measured

(* The trials up to this one, of a simulator that was asked for or not.     *)
LEMMA TrialIsCounted ==
  ASSUME Loop
  PROVE  /\ trial \in Nat /\ trial - 1 \in Nat /\ (trial - 1) + 1 = trial
         /\ Trials \in Nat /\ Trials >= 1
<1>1. trial \in 1..Trials /\ Trials \in Nat \ {0}
  BY BenchAssumption DEF Loop, BenchAssumption
<1> QED
  BY <1>1

(* Overwriting every node's file leaves no other.                           *)
LEMMA Overwritten ==
  ASSUME NEW dir, \A f \in dir : f.node \in Nodes
  PROVE  /\ AllOf(Overwrite(dir, Nodes), trial)
         /\ \A nodes \in SUBSET Nodes : \A f \in Overwrite(dir, nodes) : f.node \in Nodes
<1>1. \A nodes \in SUBSET Nodes : \A f \in [node : nodes, trial : {trial}] :
        f.node \in nodes
  OBVIOUS
<1>2. \A nodes \in SUBSET Nodes : \A f \in Overwrite(dir, nodes) : f.node \in Nodes
  BY <1>1 DEF Overwrite
<1>3. Overwrite(dir, Nodes) = [node : Nodes, trial : {trial}]
  BY DEF Overwrite
<1>4. ASSUME NEW n \in Nodes
      PROVE  {f \in [node : Nodes, trial : {trial}] : f.node = n}
               = {[node |-> n, trial |-> trial]}
  <2>1. [node |-> n, trial |-> trial] \in [node : Nodes, trial : {trial}]
    BY <1>4
  <2>2. \A f \in [node : Nodes, trial : {trial}] :
          f.node = n => f = [node |-> n, trial |-> trial]
    BY <1>4
  <2> QED
    BY <2>1, <2>2
<1>5. AllOf(Overwrite(dir, Nodes), trial)
  BY <1>3, <1>4 DEF AllOf
<1> QED
  BY <1>2, <1>5

-----------------------------------------------------------------------------
(* What the bench needs to know of a step of the service.                   *)

LEMMA ServiceFacts ==
  ASSUME Service!Inv
  PROVE  /\ calls \in Nat
         /\ phase = "idle" /\ ~session => container = Batfish!None
         /\ container = Batfish!None => running \subseteq excused
<1>1. calls \in Nat /\ running \subseteq Service!Container
  BY DEF Service!Inv, Service!TypeOK
<1>2. phase = "idle" /\ container # Service!None => session
  BY DEF Service!Inv, Service!Held
<1>3. running \subseteq {container} \cup excused
  BY DEF Service!Inv, Service!NothingLeaks
<1>4. Service!None \notin Service!Container /\ Service!None = Batfish!None
  BY BenchAssumption DEF Service!Container, Service!None, Batfish!None, BenchAssumption
<1>5. container = Batfish!None => running \subseteq excused
  BY <1>1, <1>3, <1>4
<1> QED
  BY <1>1, <1>2, <1>4, <1>5

LEMMA CallFacts ==
  ASSUME Service!Inv, Batfish!Call
  PROVE  /\ calls' \in Nat /\ calls' >= calls
         /\ stats' # stats =>
              /\ calls' > 0
              /\ stats'[Len(stats')].warm = (calls > 0)
<1>1. calls \in Nat /\ stats \in Seq(Service!StatsRecord)
  BY DEF Service!Inv, Service!TypeOK
<1>2. CASE Batfish!ReturnStats
  <2>1. calls' = calls + 1
    BY <1>2 DEF Batfish!ReturnStats
  <2>2. PICK c \in running :
          stats' = Append(stats, [by |-> container, answered |-> c, warm |-> Batfish!Warm,
                                  charged |-> IF Batfish!Warm THEN Batfish!None
                                                              ELSE startCost])
    BY <1>2 DEF Batfish!ReturnStats
  <2> DEFINE e == [by |-> container, answered |-> c, warm |-> Batfish!Warm,
                   charged |-> IF Batfish!Warm THEN Batfish!None ELSE startCost]
  <2>3. e.warm = (calls > 0)
    BY DEF Batfish!Warm
  <2>4. stats' = Append(stats, e)
    BY <2>2
  <2> HIDE DEF e
  <2>5. stats'[Len(stats')] = e
    <3>1. stats \in Seq(Service!StatsRecord \cup {e})
      BY <1>1
    <3>2. Len(stats') = Len(stats) + 1 /\ stats'[Len(stats) + 1] = e
      BY <3>1, <2>4
    <3> QED
      BY <3>2
  <2>6. calls' \in Nat /\ calls' >= calls /\ calls' > 0
    BY <1>1, <2>1
  <2> QED
    BY <2>3, <2>5, <2>6
<1>3. CASE Batfish!SidecarFails
  <2>1. calls' = calls + 1 /\ stats' = stats
    BY <1>3 DEF Batfish!SidecarFails
  <2> QED
    BY <1>1, <2>1
<1>4. CASE ~Batfish!ReturnStats /\ ~Batfish!SidecarFails
  <2>1. calls' = calls /\ stats' = stats
    BY <1>4 DEF Batfish!Call, Batfish!DockerRun, Batfish!DockerRunFails,
       Batfish!BecomeReady, Batfish!NotReady, Batfish!Abort, Batfish!CallFails,
       Batfish!objectVars, Batfish!dockerVars, Batfish!historyVars
  <2> QED
    BY <1>1, <2>1
<1> QED
  BY <1>2, <1>3, <1>4

-----------------------------------------------------------------------------
(* Inv is kept, part by part.                                               *)

LEMMA InvInit == Init => Inv
<1> SUFFICES ASSUME Init
             PROVE  Inv
  OBVIOUS
<1>1. /\ pc = "attach" /\ attached = FALSE /\ container = Batfish!None
      /\ written = {} /\ trial = 1 /\ hhDir = {}
  BY DEF Init, Batfish!Init, Batfish!FreshObject
<1>2. DOMAIN results = T /\ \A t \in T : results[t] = FreshResult
  BY DEF Init
<1>3. \A t \in T : results[t].status = "failed" /\ results[t].cold = 0
  BY <1>2 DEF FreshResult
<1>4. Owned
  BY <1>1 DEF Owned, Between
<1>5. Loop
  <2>1. 1 \in 1..Trials
    BY BenchAssumption DEF BenchAssumption
  <2> QED
    BY <1>1, <1>2, <2>1 DEF Loop, InTrial, Before
<1>6. HammerGathered /\ BatfishGathered
  BY <1>1 DEF HammerGathered, BatfishGathered, Before
<1>7. Warmth
  BY <1>1 DEF Warmth, InTrial, Before, Between
<1>8. Scores
  BY <1>1, <1>2, <1>3 DEF Scores
<1> QED
  BY <1>4, <1>5, <1>6, <1>7, <1>8 DEF Inv

LEMMA OwnedStep ==
  ASSUME Owned, Service!Inv, Service!Inv', [Next]_vars
  PROVE  Owned'
<1> USE DEF Between
<1>1. phase' = "idle" /\ ~session' => container' = Batfish!None
  BY DEF Service!Inv, Service!Held, Service!None, Batfish!None
<1>2. CASE Attach
  BY <1>2 DEF Attach, Owned, serviceVars
<1>3. CASE Attaching
  BY <1>3, <1>1 DEF Attaching, Owned
<1>4. CASE Entering
  BY <1>4, <1>1 DEF Entering, Owned
<1>5. CASE Querying
  BY <1>5 DEF Querying, Owned
<1>6. CASE Exiting
  BY <1>6 DEF Exiting, Batfish!Close, Owned
<1>7. CASE Closing
  BY <1>7 DEF Closing, Batfish!Close, Owned, serviceVars
<1>8. CASE CallBatfish
  BY <1>8 DEF CallBatfish, Owned
<1>9. CASE ContainerExits
  BY <1>9 DEF ContainerExits, Batfish!ContainerExits, Batfish!objectVars, Owned
<1>10. CASE NextTopology \/ SkipBatfish \/ RunHammerhead \/ ComputeAgreement
            \/ RecordResult \/ Finish \/ Interrupt
  BY <1>10 DEF NextTopology, SkipBatfish, RunHammerhead, NextTrial, ComputeAgreement,
     RecordResult, Finish, Interrupt, serviceVars, Owned
<1>11. CASE UNCHANGED vars
  BY <1>11 DEF vars, serviceVars, Owned
<1> QED
  BY <1>2, <1>3, <1>4, <1>5, <1>6, <1>7, <1>8, <1>9, <1>10, <1>11 DEF Next, Bench

LEMMA LoopStep ==
  ASSUME Loop, [Next]_vars
  PROVE  Loop'
<1> USE DEF InTrial, Before
<1>0. trial \in Nat /\ Trials \in Nat /\ Trials >= 1 /\ trial \in 1..Trials
  BY TrialIsCounted DEF Loop
<1>1. CASE Attach \/ Attaching \/ Entering \/ CallBatfish \/ SkipBatfish
  BY <1>1 DEF Attach, Attaching, Entering, CallBatfish, SkipBatfish, trialVars,
     loopVars, Loop
<1>2. CASE Querying \/ Exiting \/ ContainerExits \/ Finish \/ Interrupt \/ Closing
  BY <1>2 DEF Querying, Exiting, ContainerExits, Finish, Interrupt, Closing, trialVars,
     loopVars, Loop
<1>3. CASE NextTopology
  <2>1. trial' \in 1..Trials
    BY <1>3, <1>0 DEF NextTopology
  <2> QED
    BY <1>3, <2>1 DEF NextTopology, loopVars, Loop
<1>4. CASE RunHammerhead
  <2>1. \/ NextTrial
        \/ pc' = "result" /\ UNCHANGED trial
    BY <1>4 DEF RunHammerhead
  <2>2. /\ trial' \in 1..Trials
        /\ pc' \in {"batfish", "agreement", "result"}
        /\ pc' = "agreement" => trial' = Trials
    BY <2>1, <1>0 DEF NextTrial
  <2>3. UNCHANGED <<cur, results, written>> /\ pc = "hammerhead"
    BY <1>4 DEF RunHammerhead, loopVars
  <2> QED
    BY <2>2, <2>3 DEF Loop
<1>5. CASE ComputeAgreement
  BY <1>5 DEF ComputeAgreement, trialVars, Loop
<1>6. CASE RecordResult
  BY <1>6 DEF RecordResult, trialVars, Loop
<1>7. CASE UNCHANGED vars
  BY <1>7 DEF vars, trialVars, loopVars, Loop
<1> QED
  BY <1>1, <1>2, <1>3, <1>4, <1>5, <1>6, <1>7 DEF Next, Bench

LEMMA HammerStep ==
  ASSUME Loop, HammerGathered, [Next]_vars
  PROVE  HammerGathered'
<1> USE DEF Before
<1>0. /\ trial \in Nat /\ trial - 1 \in Nat /\ (trial - 1) + 1 = trial
      /\ Trials \in Nat
  BY TrialIsCounted
<1>1. CASE Attach \/ Attaching \/ Entering \/ CallBatfish \/ SkipBatfish
           \/ Querying \/ Exiting
  BY <1>1 DEF Attach, Attaching, Entering, CallBatfish, SkipBatfish, Querying, Exiting,
     trialVars, hammerVars, HammerGathered
<1>2. CASE ContainerExits \/ Finish \/ Interrupt \/ Closing \/ ComputeAgreement
           \/ RecordResult
  BY <1>2 DEF ContainerExits, Finish, Interrupt, Closing, ComputeAgreement, RecordResult,
     trialVars, hammerVars, HammerGathered
<1>3. CASE NextTopology
  <2>1. /\ hhTimes' = <<>> /\ trial' = 1 /\ pc' \in {"batfish", "result"}
        /\ \E old \in SUBSET Nodes : hhDir' = [node : old, trial : {0}]
    BY <1>3 DEF NextTopology
  <2>2. Asked(opts'.hammerhead, trial' - 1) = 0
    BY <2>1 DEF Asked
  <2>3. \A f \in hhDir' : f.node \in Nodes
    BY <2>1
  <2> QED
    BY <2>1, <2>2, <2>3, NothingYet DEF HammerGathered
<1>4. CASE RunHammerhead
  <2>1. pc = "hammerhead" /\ opts' = opts /\ \A f \in hhDir : f.node \in Nodes
    BY <1>4 DEF RunHammerhead, HammerGathered
  <2>2. Numbered(hhTimes, Asked(opts.hammerhead, trial - 1))
    BY <2>1 DEF HammerGathered
  <2>3. CASE pc' = "result"
    <3>1. \/ hhDir' = hhDir
          \/ \E nodes \in SUBSET Nodes : hhDir' = Overwrite(hhDir, nodes)
      BY <1>4, <2>3 DEF RunHammerhead, NextTrial, hammerVars
    <3>2. \A f \in hhDir' : f.node \in Nodes
      BY <3>1, <2>1, Overwritten
    <3> QED
      BY <2>3, <3>2 DEF HammerGathered
  <2>4. CASE opts.hammerhead /\ pc' # "result"
    <3>1. hhTimes' = Append(hhTimes, trial) /\ hhDir' = Overwrite(hhDir, Nodes) /\ NextTrial
      BY <1>4, <2>4 DEF RunHammerhead
    <3>2. Numbered(hhTimes', trial)
      <4>1. Numbered(Append(hhTimes, (trial - 1) + 1), (trial - 1) + 1)
        BY <2>2, <2>4, <1>0, NumberedNext DEF Asked
      <4> QED
        BY <4>1, <3>1, <1>0
    <3>3. AllOf(hhDir', trial) /\ \A f \in hhDir' : f.node \in Nodes
      <4>1. Nodes \in SUBSET Nodes
        OBVIOUS
      <4> QED
        BY <3>1, <2>1, <4>1, Overwritten
    <3>4. CASE trial < Trials
      <4>1. trial' = trial + 1 /\ pc' = "batfish"
        BY <3>1, <3>4 DEF NextTrial
      <4>2. Asked(opts'.hammerhead, trial' - 1) = trial
        BY <4>1, <2>1, <2>4, <1>0 DEF Asked
      <4> QED
        BY <4>1, <4>2, <3>2, <3>3 DEF HammerGathered
    <3>5. CASE ~(trial < Trials)
      <4>1. trial' = trial /\ pc' = "agreement"
        BY <3>1, <3>5 DEF NextTrial
      <4>2. Asked(opts'.hammerhead, trial') = trial
        BY <4>1, <2>1, <2>4 DEF Asked
      <4> QED
        BY <4>1, <4>2, <3>2, <3>3 DEF HammerGathered
    <3> QED
      BY <3>4, <3>5
  <2>5. CASE ~opts.hammerhead
    <3>1. hhTimes' = hhTimes /\ hhDir' = hhDir /\ NextTrial
      BY <1>4, <2>5 DEF RunHammerhead, hammerVars
    <3>2. pc' \in {"batfish", "agreement"}
      BY <3>1 DEF NextTrial
    <3>3. \A k : Asked(opts.hammerhead, k) = 0
      BY <2>5 DEF Asked
    <3> QED
      BY <3>1, <3>2, <3>3, <2>1, <2>2, <2>5 DEF HammerGathered
  <2> QED
    BY <2>3, <2>4, <2>5
<1>5. CASE UNCHANGED vars
  BY <1>5 DEF vars, trialVars, hammerVars, HammerGathered
<1> QED
  BY <1>1, <1>2, <1>3, <1>4, <1>5 DEF Next, Bench

LEMMA BatfishStep ==
  ASSUME Loop, BatfishGathered, Owned, Service!Inv, [Next]_vars
  PROVE  BatfishGathered'
<1> USE DEF Before
<1>0. /\ trial \in Nat /\ trial - 1 \in Nat /\ (trial - 1) + 1 = trial
      /\ Trials \in Nat
  BY TrialIsCounted
<1>1. CASE Attach \/ Attaching \/ CallBatfish
  BY <1>1 DEF Attach, Attaching, CallBatfish, trialVars, batfishVars, BatfishGathered
<1>2. CASE ContainerExits \/ Finish \/ Interrupt \/ Closing \/ ComputeAgreement
           \/ RecordResult
  BY <1>2 DEF ContainerExits, Finish, Interrupt, Closing, ComputeAgreement, RecordResult,
     trialVars, batfishVars, BatfishGathered
<1>3. CASE NextTopology
  <2>1. /\ bfTimes' = <<>> /\ trial' = 1 /\ pc' \in {"batfish", "result"}
    BY <1>3 DEF NextTopology
  <2>2. Asked(opts'.batfish, trial' - 1) = 0
    BY <2>1 DEF Asked
  <2> QED
    BY <2>1, <2>2, NothingYet DEF BatfishGathered
<1>4. CASE SkipBatfish
  <2>1. /\ ~opts.batfish /\ pc = "batfish" /\ pc' = "hammerhead"
        /\ UNCHANGED <<opts, bfTimes, trial>>
    BY <1>4 DEF SkipBatfish, trialVars, batfishVars
  <2>2. Asked(opts.batfish, trial - 1) = Asked(opts.batfish, trial)
    BY <2>1 DEF Asked
  <2> QED
    BY <2>1, <2>2 DEF BatfishGathered
<1>5. CASE Entering
  <2>1. /\ pc = "entering" /\ pc' \in {"entering", "querying", "result", "closing"}
        /\ UNCHANGED <<opts, bfTimes, trial>>
    BY <1>5 DEF Entering, trialVars, batfishVars
  <2> QED
    BY <2>1 DEF BatfishGathered
<1>6. CASE Querying
  <2>1. /\ pc = "querying" /\ UNCHANGED <<opts, trial>> /\ opts.batfish
    BY <1>6 DEF Querying, Loop
  <2>2. Measured(bfTimes, trial - 1)
    BY <2>1 DEF BatfishGathered, Asked
  <2>3. CASE pc' = "querying"
    <3>1. bfTimes' = bfTimes
      BY <1>6, <2>3 DEF Querying, batfishVars
    <3> QED
      BY <2>1, <2>3, <3>1 DEF BatfishGathered
  <2>4. CASE pc' = "exiting"
    <3>1. bfTimes' = bfTimes /\ (outcome' = "ok" => bfSidecar' = trial)
      BY <1>6, <2>4 DEF Querying
    <3> QED
      BY <2>1, <2>4, <3>1 DEF BatfishGathered
  <2>5. CASE pc' = "hammerhead"
    <3>1. /\ stats' # stats /\ Batfish!Call
          /\ bfTimes' = Append(bfTimes, Measure(trial, stats'[Len(stats')].warm))
      BY <1>6, <2>5 DEF Querying
    <3>2. Measure(trial, stats'[Len(stats')].warm) \in Measurement
      <4>1. stats'[Len(stats')].warm = (calls > 0)
        BY <3>1, CallFacts
      <4> QED
        BY <4>1, <1>0 DEF Measure, Measurement
    <3>3. Measure(trial, stats'[Len(stats')].warm).trial = (trial - 1) + 1
      BY <1>0 DEF Measure
    <3>4. Measured(bfTimes', (trial - 1) + 1)
      BY <3>1, <3>2, <3>3, <2>2, <1>0, MeasuredNext
    <3>5. Asked(opts'.batfish, trial') = (trial - 1) + 1
      BY <2>1, <1>0 DEF Asked
    <3> QED
      BY <2>5, <3>4, <3>5 DEF BatfishGathered
  <2>6. CASE pc' \in {"result", "closing"}
    BY <2>6 DEF BatfishGathered
  <2>7. pc' \in {"querying", "exiting", "hammerhead", "result", "closing"}
    BY <1>6 DEF Querying
  <2> QED
    BY <2>3, <2>4, <2>5, <2>6, <2>7
<1>7. CASE Exiting
  <2>1. /\ pc = "exiting" /\ UNCHANGED <<opts, trial>> /\ opts.batfish
        /\ pc' \in {"hammerhead", "result", "closing"}
    BY <1>7 DEF Exiting, Loop
  <2>2. Measured(bfTimes, trial - 1)
    BY <2>1 DEF BatfishGathered, Asked
  <2>3. CASE pc' = "hammerhead"
    <3>1. bfTimes' = Append(bfTimes, Measure(trial, FALSE))
      BY <1>7, <2>1, <2>3 DEF Exiting, BatfishGathered
    <3>2. /\ Measure(trial, FALSE) \in Measurement
          /\ Measure(trial, FALSE).trial = (trial - 1) + 1
      BY <1>0 DEF Measure, Measurement
    <3>3. Measured(bfTimes', (trial - 1) + 1)
      BY <3>1, <3>2, <2>2, <1>0, MeasuredNext
    <3>4. Asked(opts'.batfish, trial') = (trial - 1) + 1
      BY <2>1, <1>0 DEF Asked
    <3> QED
      BY <2>3, <3>3, <3>4 DEF BatfishGathered
  <2> QED
    BY <2>1, <2>3 DEF BatfishGathered
<1>8. CASE RunHammerhead
  <2>1. /\ pc = "hammerhead" /\ UNCHANGED <<opts, bfTimes>>
        /\ \/ NextTrial
           \/ pc' = "result" /\ UNCHANGED trial
    BY <1>8 DEF RunHammerhead, batfishVars
  <2>2. Measured(bfTimes, Asked(opts.batfish, trial))
    BY <2>1 DEF BatfishGathered
  <2>3. CASE pc' = "batfish"
    <3>1. trial' - 1 = trial
      BY <2>1, <2>3, <1>0 DEF NextTrial
    <3> QED
      BY <2>1, <2>2, <2>3, <3>1 DEF BatfishGathered
  <2>4. CASE pc' = "agreement"
    <3>1. trial' = trial
      BY <2>1, <2>4 DEF NextTrial
    <3> QED
      BY <2>1, <2>2, <2>4, <3>1 DEF BatfishGathered
  <2>5. pc' \in {"batfish", "agreement", "result"}
    BY <2>1 DEF NextTrial
  <2> QED
    BY <2>3, <2>4, <2>5 DEF BatfishGathered
<1>9. CASE UNCHANGED vars
  BY <1>9 DEF vars, trialVars, batfishVars, BatfishGathered
<1> QED
  BY <1>1, <1>2, <1>3, <1>4, <1>5, <1>6, <1>7, <1>8, <1>9 DEF Next, Bench

(* The agreement of a topology that ran all its trials.                     *)
LEMMA AgreementMade ==
  ASSUME Loop, HammerGathered, BatfishGathered, Warmth, pc = "agreement"
  PROVE  /\ Scored(Agreement, attached)
         /\ Agreement.cold # 0 => DOMAIN bfTimes # {}
         /\ Agreement.cold # 0 => SomeCold(bfTimes)
<1> DEFINE warms == {i \in DOMAIN bfTimes : bfTimes[i].warm}
           colds == DOMAIN bfTimes \ warms
           first == CHOOSE i \in colds : \A j \in colds : i <= j
<1>0. trial = Trials /\ Trials \in Nat /\ Trials >= 1
  BY TrialIsCounted DEF Loop
<1>1. /\ Agreement.bfTimes = bfTimes /\ Agreement.hhTimes = hhTimes /\ Agreement.hh = hhDir
      /\ Agreement.cold = IF colds = {} THEN 0 ELSE bfTimes[first].trial
      /\ Agreement.warm = {bfTimes[i].trial : i \in warms}
  BY DEF Agreement
<1>2. Measured(bfTimes, Asked(opts.batfish, Trials))
  BY <1>0 DEF BatfishGathered
<1>3. /\ Numbered(hhTimes, Asked(opts.hammerhead, Trials))
      /\ opts.hammerhead => AllOf(hhDir, Trials)
  BY <1>0 DEF HammerGathered
<1>4. /\ ~attached => NoneWarm(bfTimes)
      /\ attached => AllWarmBut(bfTimes)
  BY DEF Warmth, InTrial
<1>5. Asked(opts.batfish, Trials) \in Nat
  BY <1>0 DEF Asked
<1>6. /\ DOMAIN bfTimes = 1..Asked(opts.batfish, Trials)
      /\ \A i \in DOMAIN bfTimes : bfTimes[i].trial = i
  BY <1>2, <1>5 DEF Measured
<1>7. colds # {} => DOMAIN bfTimes # {} /\ SomeCold(bfTimes)
  BY DEF SomeCold
<1>8. {bfTimes[i].trial : i \in warms} = warms
  BY <1>6
<1>9. Agreement.warm = warms
  BY <1>1, <1>8
<1>10. CASE ~opts.batfish
  <2>1. DOMAIN bfTimes = {}
    BY <1>6, <1>10 DEF Asked
  <2>2. Agreement.cold = 0
    BY <2>1, <1>1
  <2> QED
    BY <2>2, <1>1, <1>2, <1>3, <1>10 DEF Scored
<1>11. CASE opts.batfish /\ attached
  <2>1. DOMAIN bfTimes = 1..Trials
    BY <1>6, <1>11 DEF Asked
  <2>2. colds \subseteq {1} /\ warms = (1..Trials) \ colds
    <3>1. \A i \in colds : ~(i > 1) /\ i \in 1..Trials
      BY <1>4, <1>11, <2>1 DEF AllWarmBut
    <3>2. \A i \in 1..Trials : ~(i > 1) => i = 1
      BY <1>0
    <3>3. colds \subseteq {1}
      BY <3>1, <3>2
    <3> QED
      BY <3>3, <2>1
  <2>3. CASE colds = {}
    <3>1. Agreement.cold = 0 /\ Agreement.warm = 1..Trials
      BY <2>2, <2>3, <1>1, <1>9
    <3>2. (1..Trials) \ {0} = 1..Trials
      BY <1>0
    <3> QED
      BY <3>1, <3>2, <1>1, <1>2, <1>3, <1>11 DEF Scored
  <2>4. CASE colds = {1}
    <3> HIDE DEF colds, warms
    <3>1. \A j \in colds : 1 <= j
      BY <2>4
    <3>2. first = 1
      BY <3>1, <2>4
    <3>3. 1 \in DOMAIN bfTimes
      BY <2>1, <1>0
    <3>4. Agreement.cold = 1 /\ Agreement.warm = (1..Trials) \ {1}
      BY <3>2, <3>3, <2>2, <2>4, <1>1, <1>6, <1>9
    <3> QED
      BY <3>4, <2>4, <1>1, <1>2, <1>3, <1>7, <1>11 DEF Scored
  <2> QED
    BY <2>2, <2>3, <2>4
<1>12. CASE opts.batfish /\ ~attached
  <2>1. DOMAIN bfTimes = 1..Trials
    BY <1>6, <1>12 DEF Asked
  <2>2. warms = {} /\ colds = 1..Trials
    BY <1>4, <1>12, <2>1 DEF NoneWarm
  <2> HIDE DEF colds, warms
  <2>3. \E i \in colds : \A j \in colds : i <= j
    <3>1. 1 \in colds /\ \A j \in colds : 1 <= j
      BY <2>2, <1>0
    <3> QED
      BY <3>1
  <2>4. first \in colds /\ \A j \in colds : first <= j
    BY <2>3
  <2>5. first = 1
    <3>1. 1 \in colds
      BY <2>2, <1>0
    <3> HIDE DEF first
    <3>2. first <= 1 /\ first \in 1..Trials
      BY <3>1, <2>2, <2>4
    <3> QED
      BY <3>2, <1>0
  <2>6. Agreement.cold = 1 /\ Agreement.warm = {}
    <3>1. 1 \in DOMAIN bfTimes /\ colds # {}
      BY <2>1, <2>2, <1>0
    <3> QED
      BY <3>1, <2>2, <2>5, <1>1, <1>6, <1>9
  <2>7. colds # {}
    BY <2>2, <1>0
  <2> QED
    BY <2>6, <2>7, <1>1, <1>2, <1>3, <1>7, <1>12 DEF Scored
<1> QED
  BY <1>10, <1>11, <1>12

LEMMA WarmthStep ==
  ASSUME Inv, Service!Inv, [Next]_vars
  PROVE  Warmth'
<1> USE DEF Between, InTrial, Before
<1>0. Loop /\ HammerGathered /\ BatfishGathered /\ Owned /\ Warmth /\ Scores
  BY DEF Inv
<1>1. calls \in Nat
  BY ServiceFacts
<1>2. CASE Attach
  <2>1. ~attached' /\ pc' \in {"attaching", "bench"}
    BY <1>2, <1>0 DEF Attach, Owned
  <2> QED
    BY <2>1 DEF Warmth
<1>3. CASE Attaching
  <2>1. pc' \in {"attaching", "bench", "ended"} /\ results' = results
    BY <1>3 DEF Attaching, loopVars
  <2>2. NoColdResult
    BY <1>3, <1>0 DEF Attaching, Scores, NoColdResult, FreshResult
  <2>3. NoColdResult'
    BY <2>1, <2>2 DEF NoColdResult
  <2> QED
    BY <2>1, <2>3 DEF Warmth
<1>4. CASE NextTopology
  <2>1. /\ bfTimes' = <<>> /\ pc = "bench" /\ UNCHANGED <<calls, attached, results>>
    BY <1>4 DEF NextTopology, serviceVars, loopVars
  <2>2. DOMAIN bfTimes' = {}
    BY <2>1, NothingYet
  <2>3. NoneWarm(bfTimes') /\ AllWarmBut(bfTimes') /\ ~SomeCold(bfTimes')
    BY <2>2 DEF NoneWarm, AllWarmBut, SomeCold
  <2>4. NoColdResult' <=> NoColdResult
    BY <2>1 DEF NoColdResult
  <2> QED
    BY <2>1, <2>2, <2>3, <2>4, <1>0 DEF Warmth
<1>5. CASE CallBatfish \/ SkipBatfish
  <2>1. pc = "batfish" /\ UNCHANGED <<calls, attached, results, bfTimes>>
    BY <1>5 DEF CallBatfish, SkipBatfish, Batfish!Start, Batfish!RunOne, serviceVars,
       trialVars, batfishVars, loopVars
  <2>2. NoColdResult' <=> NoColdResult
    BY <2>1 DEF NoColdResult
  <2> QED
    BY <2>1, <2>2, <1>0 DEF Warmth
<1>6. CASE Entering
  <2>1. /\ pc = "entering" /\ ~attached /\ UNCHANGED <<attached, bfTimes>>
    BY <1>6, <1>0 DEF Entering, Owned, trialVars, batfishVars
  <2> QED
    BY <2>1, <1>0 DEF Warmth
<1>7. CASE Exiting
  <2>1. /\ pc = "exiting" /\ ~attached /\ attached' = attached
        /\ pc' \in {"hammerhead", "result", "closing"}
    BY <1>7, <1>0 DEF Exiting, Owned
  <2>2. CASE pc' = "hammerhead"
    <3> DEFINE e == Measure(trial, FALSE)
    <3>1. bfTimes' = Append(bfTimes, e)
      BY <1>7, <1>0, <2>1, <2>2 DEF Exiting, BatfishGathered
    <3>2. trial - 1 \in Nat /\ (trial - 1) + 1 = trial /\ trial \in Nat
      BY <1>0, TrialIsCounted
    <3>3. e \in Measurement /\ e.trial = (trial - 1) + 1 /\ ~e.warm
      BY <3>2 DEF Measure, Measurement
    <3>4. Measured(bfTimes, trial - 1)
      BY <2>1, <1>0 DEF BatfishGathered, Loop, Asked
    <3> HIDE DEF e
    <3>5. /\ DOMAIN bfTimes = 1..(trial - 1)
          /\ DOMAIN bfTimes' = 1..((trial - 1) + 1)
          /\ bfTimes'[(trial - 1) + 1] = e
          /\ \A i \in 1..(trial - 1) : bfTimes'[i] = bfTimes[i]
      BY <3>1, <3>2, <3>3, <3>4, MeasuredNext
    <3>6. \A i \in 1..((trial - 1) + 1) : i = (trial - 1) + 1 \/ i \in 1..(trial - 1)
      BY <3>2
    <3>7. NoneWarm(bfTimes)
      BY <2>1, <1>0 DEF Warmth
    <3>8. NoneWarm(bfTimes')
      BY <3>3, <3>5, <3>6, <3>7 DEF NoneWarm
    <3> QED
      BY <2>1, <3>8 DEF Warmth
  <2> QED
    BY <2>1, <2>2 DEF Warmth
<1>8. CASE Querying
  <2>1. /\ pc = "querying" /\ UNCHANGED <<attached, results>> /\ Batfish!Call
        /\ bfTimes' # bfTimes => stats' # stats /\ attached
                /\ bfTimes' = Append(bfTimes, Measure(trial, stats'[Len(stats')].warm))
    BY <1>8 DEF Querying, loopVars, batfishVars
  <2>2. NoColdResult' <=> NoColdResult
    BY <2>1 DEF NoColdResult
  <2>3. calls' \in Nat /\ calls' >= calls
    BY <2>1, CallFacts
  <2>4. calls > 0 => calls' > 0
    BY <1>1, <2>3
  <2>5. CASE bfTimes' = bfTimes
    BY <2>1, <2>2, <2>4, <2>5, <1>0 DEF Warmth
  <2>6. CASE bfTimes' # bfTimes
    <3> DEFINE warm == stats'[Len(stats')].warm
               e == Measure(trial, warm)
    <3>1. warm = (calls > 0) /\ calls' > 0
      BY <2>1, <2>6, CallFacts
    <3>2. trial - 1 \in Nat /\ (trial - 1) + 1 = trial /\ trial \in Nat
      BY <1>0, TrialIsCounted
    <3>3. e \in Measurement /\ e.trial = (trial - 1) + 1 /\ e.warm = (calls > 0)
      <4>1. warm \in BOOLEAN
        BY <3>1
      <4> QED
        BY <4>1, <3>1, <3>2 DEF Measure, Measurement
    <3>4. Measured(bfTimes, trial - 1)
      BY <2>1, <1>0 DEF BatfishGathered, Loop, Asked
    <3>5. bfTimes' = Append(bfTimes, e)
      BY <2>1, <2>6
    <3> HIDE DEF e, warm
    <3>6. /\ DOMAIN bfTimes = 1..(trial - 1)
          /\ DOMAIN bfTimes' = 1..((trial - 1) + 1)
          /\ bfTimes'[(trial - 1) + 1] = e
          /\ \A i \in 1..(trial - 1) : bfTimes'[i] = bfTimes[i]
      BY <3>2, <3>3, <3>4, <3>5, MeasuredNext
    <3>7. \A i \in 1..((trial - 1) + 1) : i = (trial - 1) + 1 \/ i \in 1..(trial - 1)
      BY <3>2
    <3>8. attached /\ AllWarmBut(bfTimes) /\ (SomeCold(bfTimes) => NoColdResult)
          /\ (DOMAIN bfTimes # {} => calls > 0) /\ (~NoColdResult => calls > 0)
      BY <2>1, <2>6, <1>0 DEF Warmth
    <3>9. trial > 1 => e.warm
      <4>1. trial > 1 => 1 \in 1..(trial - 1)
        BY <3>2
      <4> QED
        BY <4>1, <3>3, <3>6, <3>8
    <3>10. AllWarmBut(bfTimes')
      <4>1. ASSUME NEW i \in DOMAIN bfTimes', i > 1
            PROVE  bfTimes'[i].warm
        <5>1. CASE i = trial
          BY <5>1, <4>1, <3>2, <3>6, <3>9
        <5>2. CASE i \in 1..(trial - 1)
          BY <5>2, <4>1, <3>6, <3>8 DEF AllWarmBut
        <5> QED
          BY <5>1, <5>2, <3>2, <3>6, <3>7
      <4> QED
        BY <4>1 DEF AllWarmBut
    <3>11. SomeCold(bfTimes') => NoColdResult
      <4>1. ASSUME NEW i \in DOMAIN bfTimes', ~bfTimes'[i].warm
            PROVE  NoColdResult
        <5>1. CASE i = trial
          <6>1. ~e.warm
            BY <5>1, <4>1, <3>2, <3>6
          <6> QED
            BY <6>1, <3>3, <3>8
        <5>2. CASE i \in 1..(trial - 1)
          <6>1. ~bfTimes[i].warm
            BY <5>2, <4>1, <3>6
          <6> QED
            BY <6>1, <5>2, <3>6, <3>8 DEF SomeCold
        <5> QED
          BY <5>1, <5>2, <3>2, <3>6, <3>7
      <4> QED
        BY <4>1 DEF SomeCold
    <3> QED
      BY <2>1, <2>2, <3>1, <3>8, <3>10, <3>11 DEF Warmth
  <2> QED
    BY <2>5, <2>6
<1>9. CASE RunHammerhead
  <2>1. pc = "hammerhead" /\ UNCHANGED <<calls, attached, results, bfTimes>>
    BY <1>9 DEF RunHammerhead, serviceVars, batfishVars, loopVars
  <2>2. NoColdResult' <=> NoColdResult
    BY <2>1 DEF NoColdResult
  <2> QED
    BY <2>1, <2>2, <1>0 DEF Warmth
<1>10. CASE ComputeAgreement
  <2>1. /\ pc = "agreement" /\ pc' = "result" /\ UNCHANGED <<calls, attached, bfTimes>>
        /\ results' \in {[results EXCEPT ![cur] = Agreement], results}
    BY <1>10 DEF ComputeAgreement, serviceVars, trialVars, batfishVars
  <2>2. Agreement.cold # 0 => DOMAIN bfTimes # {}
    BY <2>1, <1>0, AgreementMade
  <2>3. attached /\ ~NoColdResult' => calls > 0
    <3>1. CASE NoColdResult /\ ~NoColdResult' /\ attached
      <4>1. PICK t \in T : results'[t].cold # 0
        BY <3>1 DEF NoColdResult
      <4>2. results[t].cold = 0 /\ DOMAIN results = T
        BY <3>1, <1>0 DEF NoColdResult, Loop
      <4>3. results'[t] = Agreement
        BY <2>1, <4>1, <4>2
      <4> QED
        BY <4>1, <4>3, <2>1, <2>2, <3>1, <1>0 DEF Warmth
    <3>2. CASE ~NoColdResult /\ attached
      BY <3>2, <2>1, <1>0 DEF Warmth
    <3> QED
      BY <3>1, <3>2
  <2> QED
    BY <2>1, <2>3 DEF Warmth
<1>11. CASE RecordResult \/ Finish \/ Interrupt
  <2>1. /\ pc' \in {"bench", "closing"} /\ pc \in Between
        /\ UNCHANGED <<calls, attached, results>>
    BY <1>11 DEF RecordResult, Finish, Interrupt, serviceVars, loopVars
  <2>2. NoColdResult' <=> NoColdResult
    BY <2>1 DEF NoColdResult
  <2> QED
    BY <2>1, <2>2, <1>0 DEF Warmth
<1>12. CASE Closing
  BY <1>12 DEF Closing, Warmth
<1>13. CASE ContainerExits \/ UNCHANGED vars
  <2>1. UNCHANGED <<pc, calls, attached, results, bfTimes>>
    BY <1>13 DEF ContainerExits, Batfish!ContainerExits, Batfish!objectVars, vars,
       serviceVars, trialVars, batfishVars, loopVars
  <2>2. NoColdResult' <=> NoColdResult
    BY <2>1 DEF NoColdResult
  <2> QED
    BY <2>1, <2>2, <1>0 DEF Warmth
<1> QED
  BY <1>2, <1>3, <1>4, <1>5, <1>6, <1>7, <1>8, <1>9, <1>10, <1>11, <1>12, <1>13
  DEF Next, Bench

LEMMA ScoresStep ==
  ASSUME Inv, [Next]_vars
  PROVE  Scores'
<1> USE DEF Between
<1>0. Loop /\ HammerGathered /\ BatfishGathered /\ Owned /\ Warmth /\ Scores
  BY DEF Inv
<1>1. opts' = opts
  BY DEF Next, Bench, vars, Attach, Attaching, NextTopology, SkipBatfish, CallBatfish,
     Entering, Querying, Exiting, RunHammerhead, ComputeAgreement, RecordResult, Finish,
     Interrupt, Closing, ContainerExits
<1>2. CASE Attach \/ Attaching
  <2>1. results' = results /\ pc \in {"attach", "attaching"}
    BY <1>2 DEF Attach, Attaching, loopVars
  <2>2. \A t \in T : results[t] = FreshResult
    BY <2>1, <1>0 DEF Scores
  <2>3. \A t \in T : results[t].status = "failed" /\ results[t].cold = 0
    BY <2>2 DEF FreshResult
  <2> QED
    BY <2>1, <2>2, <2>3 DEF Scores
<1>3. CASE ComputeAgreement
  <2>1. /\ pc = "agreement" /\ pc' = "result" /\ attached' = attached
        /\ results' \in {[results EXCEPT ![cur] = Agreement], results}
        /\ DOMAIN results = T /\ pc \in InTrial
    BY <1>3, <1>0 DEF ComputeAgreement, Loop, InTrial
  <2>2. /\ Scored(Agreement, attached)
        /\ Agreement.cold # 0 => SomeCold(bfTimes)
    BY <2>1, <1>0, AgreementMade
  <2>3. \A t \in T : results'[t] = results[t] \/ (t = cur /\ results'[t] = Agreement)
    BY <2>1
  <2>4. \A t \in T : results'[t].status = "passed" => Scored(results'[t], attached)
    BY <2>2, <2>3, <1>0 DEF Scores
  <2>5. \A t \in T : results'[t].status = "passed" => Scored(results[t], attached)'
    BY <2>1, <2>4, <1>1 DEF Scored
  <2>6. ASSUME attached, NEW t \in T, NEW u \in T,
               results'[t].cold # 0, results'[u].cold # 0
        PROVE  t = u
    <3>1. CASE results'[t] = results[t] /\ results'[u] = results[u]
      BY <3>1, <2>6, <1>0 DEF Scores
    <3>2. CASE Agreement.cold # 0
      <4>1. NoColdResult
        BY <3>2, <2>1, <2>2, <2>6, <1>0 DEF Warmth
      <4> QED
        BY <4>1, <2>3, <2>6 DEF NoColdResult
    <3>3. CASE Agreement.cold = 0
      BY <3>1, <3>3, <2>3, <2>6
    <3> QED
      BY <3>2, <3>3
  <2> QED
    BY <2>1, <2>5, <2>6 DEF Scores
<1>4. CASE UNCHANGED <<results, attached>> /\ pc' \notin {"attach", "attaching"}
  <2>1. \A t \in T : results'[t].status = "passed" => Scored(results[t], attached)'
    BY <1>4, <1>0, <1>1 DEF Scores, Scored
  <2>2. attached' => \A t, u \in T : results'[t].cold # 0 /\ results'[u].cold # 0 => t = u
    BY <1>4, <1>0 DEF Scores
  <2> QED
    BY <1>4, <2>1, <2>2 DEF Scores
<1>5. CASE UNCHANGED <<results, attached, pc>>
  <2>1. \A t \in T : results'[t].status = "passed" => Scored(results[t], attached)'
    BY <1>5, <1>0, <1>1 DEF Scores, Scored
  <2> QED
    BY <1>5, <2>1, <1>0 DEF Scores
<1>6. CASE NextTopology \/ SkipBatfish \/ CallBatfish \/ Entering
  BY <1>6, <1>4 DEF NextTopology, SkipBatfish, CallBatfish, Entering, loopVars
<1>7. CASE Querying \/ Exiting
  BY <1>7, <1>4 DEF Querying, Exiting, loopVars
<1>8. CASE RunHammerhead
  BY <1>8, <1>4 DEF RunHammerhead, NextTrial, loopVars
<1>9. CASE RecordResult \/ Finish \/ Interrupt \/ Closing
  BY <1>9, <1>4 DEF RecordResult, Finish, Interrupt, Closing, loopVars
<1>10. CASE ContainerExits \/ UNCHANGED vars
  BY <1>10, <1>5 DEF ContainerExits, vars, loopVars
<1> QED
  BY <1>2, <1>3, <1>6, <1>7, <1>8, <1>9, <1>10 DEF Next, Bench

(* The invariant holds of every bench.                                      *)
THEOREM Invariance == Spec => []Inv
<1>1. Inv /\ Service!Inv /\ Service!Inv' /\ [Next]_vars => Inv'
  BY OwnedStep, LoopStep, HammerStep, BatfishStep, WarmthStep, ScoresStep DEF Inv
<1> QED
  BY <1>1, InvInit, ServiceSafe, PTL DEF Spec

-----------------------------------------------------------------------------
(* What follows from it.                                                    *)

(* bench --sim-only leaves no Batfish container behind: not after a failed  *)
(* topology, an OSError or a Ctrl-C, unless docker rm fails or the Ctrl-C   *)
(* comes in the middle of start().                                          *)
THEOREM ContainerIsStopped == Spec => []NoContainerLeft
<1>1. Inv /\ Service!Inv => NoContainerLeft
  <2> SUFFICES ASSUME Inv, Service!Inv, pc = "ended", phase # "interrupted"
               PROVE  running \subseteq excused
    BY DEF NoContainerLeft
  <2>1. container = Batfish!None
    BY DEF Inv, Owned
  <2> QED
    BY <2>1, ServiceFacts
<1> QED
  BY <1>1, Invariance, ServiceSafe, PTL

(* What is in the agreement of a topology the bench wrote out.              *)
LEMMA PassedScored ==
  ASSUME Inv, NEW t \in Passed
  PROVE  t \in T /\ Scored(results[t], attached)
<1> QED
  BY DEF Inv, Loop, Scores, Passed

(* _compute_sim_only_agreement averages one measurement per trial and       *)
(* simulator, the i-th of trial i.                                          *)
THEOREM MeasuredOncePerTrial == Spec => []OneMeasurementPerTrial
<1>1. Inv => OneMeasurementPerTrial
  <2> SUFFICES ASSUME Inv, NEW t \in Passed
               PROVE  LET bf == results[t].bfTimes  hh == results[t].hhTimes
                      IN /\ Len(bf) = IF opts.batfish THEN Trials ELSE 0
                         /\ Len(hh) = IF opts.hammerhead THEN Trials ELSE 0
                         /\ \A i \in DOMAIN bf : bf[i].trial = i
                         /\ \A i \in DOMAIN hh : hh[i] = i
    BY DEF OneMeasurementPerTrial
  <2> DEFINE bf == results[t].bfTimes  hh == results[t].hhTimes
             n == Asked(opts.batfish, Trials)  m == Asked(opts.hammerhead, Trials)
  <2>1. Measured(bf, n) /\ Numbered(hh, m)
    BY PassedScored DEF Scored
  <2>2. n = (IF opts.batfish THEN Trials ELSE 0) /\ m = (IF opts.hammerhead THEN Trials ELSE 0)
    BY DEF Asked
  <2> HIDE DEF bf, hh, n, m
  <2>3. Len(bf) = n /\ DOMAIN bf = 1..n /\ \A i \in 1..n : bf[i].trial = i
    BY <2>1 DEF Measured
  <2>4. Len(hh) = m /\ DOMAIN hh = 1..m /\ \A i \in 1..m : hh[i] = i
    BY <2>1 DEF Numbered
  <2> QED
    BY <2>2, <2>3, <2>4 DEF bf, hh
<1> QED
  BY <1>1, Invariance, PTL

(* The agreement is computed on the Hammerhead FIBs of the last trial, one  *)
(* for each node, though results/hammerhead/<topology> is never emptied.    *)
THEOREM HammerheadFibsAreFresh == Spec => []HammerheadIsFresh
<1>1. Inv => HammerheadIsFresh
  BY PassedScored DEF HammerheadIsFresh, Scored, AllOf
<1> QED
  BY <1>1, Invariance, PTL

(* The warm mean of a topology is of warm calls only, and at most one       *)
(* topology of a persistent bench reports the cold call.                    *)
THEOREM ColdAndWarmAreSplit == Spec => []ColdWarmSplit
<1>1. Inv => ColdWarmSplit
  <2> SUFFICES ASSUME Inv
               PROVE  ColdWarmSplit
    OBVIOUS
  <2>1. ASSUME NEW t \in Passed
        PROVE  /\ results[t].cold \in {0, 1}
               /\ opts.batfish =>
                    results[t].warm = IF attached THEN (1..Trials) \ {results[t].cold} ELSE {}
    BY PassedScored DEF Scored
  <2>2. ASSUME attached
        PROVE  Cardinality({t \in Passed : results[t].cold # 0}) <= 1
    <3> DEFINE C == {t \in Passed : results[t].cold # 0}
    <3>1. \A t, u \in C : t = u
      BY <2>2, PassedScored DEF Inv, Scores
    <3>2. CASE C = {}
      BY <3>2, FS_EmptySet
    <3>3. CASE C # {}
      <4>1. PICK t \in C : TRUE
        BY <3>3
      <4>2. C = {t}
        BY <3>1, <4>1
      <4> HIDE DEF C
      <4>3. Cardinality(C) = 1
        BY <4>2, FS_Singleton
      <4> QED
        BY <4>3 DEF C
    <3> QED
      BY <3>2, <3>3
  <2> QED
    BY <2>1, <2>2 DEF ColdWarmSplit
<1> QED
  BY <1>1, Invariance, PTL
=============================================================================
