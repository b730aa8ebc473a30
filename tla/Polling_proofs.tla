------------------------- MODULE Polling_proofs -------------------------
(***************************************************************************)
(* Proofs about the two loops that ask a running container again and again *)
(* until something tells them to stop: the convergence wait, which polls a *)
(* node until its routes have settled, and the peak memory sampler, which  *)
(* polls a simulator until its call is over.  They share nothing; for each *)
(* the question is what its answer says of the polls it has really made.   *)
(*                                                                         *)
(* The wait is proved for any intervals, timeouts and route counts, the    *)
(* sampler for any number of calls and polls and any sizes of a container. *)
(***************************************************************************)
EXTENDS ConvergenceWait, PeakSampler, TLAPS

-----------------------------------------------------------------------------
(* The convergence wait.                                                    *)


(* prev_count and stable_since agree with the polls really made.            *)
SamplesTracked ==
  /\ prevCount = NoValue => streak = 0 /\ stableSince = NoValue
  /\ prevCount # NoValue => /\ streak >= 1 /\ streakCount = prevCount
                         /\ streakFrom <= now
  /\ prevCount # NoValue /\ stableSince = NoValue => now - streakFrom >= SampleInterval
  /\ stableSince # NoValue => /\ streak >= 2
                           /\ stableSince <= now
                           /\ stableSince - streakFrom >= SampleInterval

Ended ==
  /\ result = "pending" <=> pc # "done"
  /\ ConvergedIsStable

(* How late each point of the loop can be reached.                          *)
Schedule ==
  /\ pc = "summary" => now < Timeout
  /\ pc = "routes" => now < Timeout + CallTimeout
  /\ WaitBounded

(* Ready to converge: the next poll that sees the same count will do it.    *)
Ripe == stableSince # NoValue /\ now - stableSince >= SampleInterval

(* Either the last restless poll is recent or the wait is ripe.             *)
Restless ==
  /\ pc \in {"loop", "summary"} =>
       \/ now - unrest <= SampleInterval
       \/ Ripe /\ now - unrest <= 2 * SampleInterval + 2 * CallTimeout
  /\ pc = "routes" => now - unrest <= SampleInterval + CallTimeout \/ Ripe
  /\ TimeoutMeansUnrest

Inv == WaitTypeOK /\ SamplesTracked /\ Ended /\ Schedule /\ Restless

LEMMA Constants ==
  /\ Timeout \in Nat /\ CallTimeout \in Nat
  /\ SampleInterval \in Nat /\ SampleInterval > 0
  /\ RetryDelay \in Nat /\ RetryDelay > 0 /\ RetryDelay <= SampleInterval
  /\ DownDelay \in Nat /\ DownDelay > 0 /\ DownDelay <= SampleInterval
  /\ NoValue \notin Nat /\ \A n \in Counts : n \in Nat
<1>1. /\ Timeout \in Nat /\ CallTimeout \in Nat
      /\ SampleInterval \in Nat /\ SampleInterval > 0
  BY ConstantsAssumption DEF ConstantsAssumption
<1>2. /\ RetryDelay \in Nat /\ RetryDelay > 0 /\ RetryDelay <= SampleInterval
      /\ DownDelay \in Nat /\ DownDelay > 0 /\ DownDelay <= SampleInterval
  BY ConstantsAssumption DEF ConstantsAssumption
<1>3. NoValue \notin Nat /\ \A n \in Counts : n \in Nat
  BY ConstantsAssumption DEF ConstantsAssumption, NoValue
<1> QED
  BY <1>1, <1>2, <1>3

LEMMA InvInit == WaitInit => Inv
<1> SUFFICES ASSUME WaitInit
             PROVE  Inv
  OBVIOUS
<1> USE Constants DEF WaitInit, NoValue
<1>1. WaitTypeOK
  BY DEF WaitTypeOK
<1>2. SamplesTracked /\ Ended
  BY DEF SamplesTracked, Ended, ConvergedIsStable
<1>3. Schedule /\ Restless
  BY DEF Schedule, WaitBounded, Restless, Ripe, TimeoutMeansUnrest
<1> QED
  BY <1>1, <1>2, <1>3 DEF Inv

(* All counts and times are integers.                                       *)
LEMMA Integral ==
  ASSUME WaitTypeOK
  PROVE  /\ now \in Nat /\ streak \in Nat /\ streakFrom \in Nat /\ unrest \in Nat
         /\ count \in Nat /\ prevCount \in Int /\ stableSince \in Int
         /\ streakCount \in Int
<1>1. /\ now \in Nat /\ streak \in Nat /\ streakFrom \in Nat /\ unrest \in Nat
      /\ count \in Counts /\ prevCount \in Counts \cup {NoValue}
      /\ stableSince \in Nat \cup {NoValue} /\ streakCount \in Counts \cup {NoValue}
  BY DEF WaitTypeOK
<1> QED
  BY <1>1, Constants DEF NoValue

(* The three calls that take time, each ending at some time t.              *)
LEMMA CallEnds ==
  ASSUME WaitTypeOK, NEW d \in 0..CallTimeout
  PROVE  now + d \in Nat /\ now <= now + d /\ now + d <= now + CallTimeout
<1>1. now \in Nat
  BY DEF WaitTypeOK
<1> QED
  BY <1>1, Constants

EndsAt(t) == t \in Nat /\ now <= t /\ t <= now + CallTimeout

LEMMA CallFailsAt ==
  ASSUME WaitTypeOK, CliCallFails
  PROVE  \E t \in Nat : /\ EndsAt(t) /\ pc \in {"summary", "routes"}
                        /\ now' = t + RetryDelay /\ unrest' = t /\ pc' = "loop"
BY CallEnds DEF CliCallFails, EndsAt

LEMMA ReadSummaryAt ==
  ASSUME WaitTypeOK, ReadSummary
  PROVE  \E t \in Nat : EndsAt(t) /\ now' = t
BY CallEnds DEF ReadSummary, EndsAt

LEMMA ReadRoutesAt ==
  ASSUME WaitTypeOK, ReadRoutes
  PROVE  \E t \in Nat : EndsAt(t) /\ \/ RouteCountBgpDown(t)
                                     \/ RouteCountStable(t)
                                     \/ RouteCountMoved(t)
BY CallEnds DEF ReadRoutes, EndsAt

-----------------------------------------------------------------------------
(* A step of the loop, one lemma per conjunct of Inv.                       *)

(* Type correctness.                                                        *)
LEMMA TypeStep ==
  ASSUME WaitTypeOK, WaitNext
  PROVE  WaitTypeOK'
<1> USE Constants DEF nodeVars, loopVars, histVars
<1>1. CASE NodeChanges
  BY <1>1 DEF NodeChanges, WaitTypeOK
<1>2. CASE CheckDeadline
  BY <1>2 DEF CheckDeadline, WaitTypeOK
<1>3. CASE CliCallFails
  <2>1. now' \in Nat /\ unrest' \in Nat
    BY <1>3, CallFailsAt
  <2> QED
    BY <1>3, <2>1 DEF CliCallFails, WaitTypeOK
<1>4. CASE ReadSummary
  <2>1. now' \in Nat
    BY <1>4, ReadSummaryAt
  <2> QED
    BY <1>4, <2>1 DEF ReadSummary, WaitTypeOK
<1>5. CASE ReadRoutes
  <2>1. PICK t \in Nat : EndsAt(t) /\ \/ RouteCountBgpDown(t)
                                      \/ RouteCountStable(t)
                                      \/ RouteCountMoved(t)
    BY <1>5, ReadRoutesAt
  <2>2. pc = "routes" /\ UNCHANGED <<established, count, bgpOk>>
    BY <1>5 DEF ReadRoutes
  <2>3. now' \in Nat /\ streak' \in Nat /\ unrest' \in Nat /\ streakFrom' \in Nat
    BY <2>1, Integral
    DEF RouteCountBgpDown, RecordDown, RouteCountStable, RouteCountMoved, RecordCount
  <2>4. streakCount' \in {streakCount, count} /\ prevCount' \in {prevCount, count, NoValue}
    BY <2>1 DEF RouteCountBgpDown, RecordDown, RouteCountStable, RouteCountMoved, RecordCount
  <2>5. /\ stableSince' \in {stableSince, t, NoValue} /\ pc' \in {"loop", "done"}
        /\ result' \in {result, "converged"}
    BY <2>1 DEF RouteCountBgpDown, RouteCountStable, RouteCountMoved
  <2> QED
    BY <2>2, <2>3, <2>4, <2>5 DEF WaitTypeOK
<1> QED
  BY <1>1, <1>2, <1>3, <1>4, <1>5 DEF WaitNext, Loop

(* The book-keeping of the samples is right after every poll.               *)
LEMMA SamplesStep ==
  ASSUME WaitTypeOK, SamplesTracked, WaitNext
  PROVE  SamplesTracked'
<1> USE Constants, Integral DEF NoValue, nodeVars, loopVars, histVars
<1>1. CASE NodeChanges
  BY <1>1 DEF NodeChanges, SamplesTracked
<1>2. CASE CheckDeadline
  BY <1>2 DEF CheckDeadline, SamplesTracked
<1>3. CASE CliCallFails
  <2>1. PICK t \in Nat : /\ EndsAt(t) /\ pc \in {"summary", "routes"}
                        /\ now' = t + RetryDelay /\ unrest' = t /\ pc' = "loop"
    BY <1>3, CallFailsAt
  <2>2. UNCHANGED <<nodeVars, loopVars, result, streak, streakFrom, streakCount>>
    BY <1>3 DEF CliCallFails
  <2> QED
    BY <2>1, <2>2 DEF EndsAt, SamplesTracked
<1>4. CASE ReadSummary
  <2>1. PICK t \in Nat : EndsAt(t) /\ now' = t
    BY <1>4, ReadSummaryAt
  <2>2. /\ pc = "summary" /\ pc' = "routes" /\ bgpOk' = established
        /\ UNCHANGED <<nodeVars, prevCount, stableSince, result, histVars>>
    BY <1>4 DEF ReadSummary
  <2> QED
    BY <2>1, <2>2 DEF EndsAt, SamplesTracked
<1>5. CASE ReadRoutes
  <2>1. PICK t \in Nat : EndsAt(t) /\ \/ RouteCountBgpDown(t)
                                      \/ RouteCountStable(t)
                                      \/ RouteCountMoved(t)
    BY <1>5, ReadRoutesAt
  <2>2. pc = "routes" /\ UNCHANGED <<established, count, bgpOk>>
    BY <1>5 DEF ReadRoutes
  <2>3. CASE RouteCountBgpDown(t)
    BY <2>1, <2>2, <2>3 DEF EndsAt, RouteCountBgpDown, RecordDown,
       SamplesTracked
  <2>4. CASE RouteCountStable(t)
    BY <2>1, <2>2, <2>4 DEF EndsAt, RouteCountStable, RecordCount,
       SamplesTracked
  <2>5. CASE RouteCountMoved(t)
    BY <2>1, <2>2, <2>5 DEF EndsAt, RouteCountMoved, RecordCount,
       SamplesTracked
  <2> QED
    BY <2>1, <2>3, <2>4, <2>5
<1> QED
  BY <1>1, <1>2, <1>3, <1>4, <1>5 DEF WaitNext, Loop

(* A verdict is only reached on stable samples.                             *)
LEMMA EndedStep ==
  ASSUME WaitTypeOK, SamplesTracked, Ended, WaitNext
  PROVE  Ended'
<1> USE Constants, Integral DEF NoValue, nodeVars, loopVars, histVars
<1>1. CASE NodeChanges
  BY <1>1 DEF NodeChanges, SamplesTracked, Ended, ConvergedIsStable
<1>2. CASE CheckDeadline
  BY <1>2 DEF CheckDeadline, SamplesTracked, Ended, ConvergedIsStable
<1>3. CASE CliCallFails
  <2>1. PICK t \in Nat : /\ EndsAt(t) /\ pc \in {"summary", "routes"}
                        /\ now' = t + RetryDelay /\ unrest' = t /\ pc' = "loop"
    BY <1>3, CallFailsAt
  <2>2. UNCHANGED <<nodeVars, loopVars, result, streak, streakFrom, streakCount>>
    BY <1>3 DEF CliCallFails
  <2> QED
    BY <2>1, <2>2 DEF EndsAt, SamplesTracked, Ended, ConvergedIsStable
<1>4. CASE ReadSummary
  <2>1. PICK t \in Nat : EndsAt(t) /\ now' = t
    BY <1>4, ReadSummaryAt
  <2>2. /\ pc = "summary" /\ pc' = "routes" /\ bgpOk' = established
        /\ UNCHANGED <<nodeVars, prevCount, stableSince, result, histVars>>
    BY <1>4 DEF ReadSummary
  <2> QED
    BY <2>1, <2>2 DEF EndsAt, SamplesTracked, Ended, ConvergedIsStable
<1>5. CASE ReadRoutes
  <2>1. PICK t \in Nat : EndsAt(t) /\ \/ RouteCountBgpDown(t)
                                      \/ RouteCountStable(t)
                                      \/ RouteCountMoved(t)
    BY <1>5, ReadRoutesAt
  <2>2. pc = "routes" /\ UNCHANGED <<established, count, bgpOk>>
    BY <1>5 DEF ReadRoutes
  <2>3. CASE RouteCountBgpDown(t)
    BY <2>1, <2>2, <2>3 DEF EndsAt, RouteCountBgpDown, RecordDown,
       SamplesTracked, Ended, ConvergedIsStable
  <2>4. CASE RouteCountStable(t)
    BY <2>1, <2>2, <2>4 DEF EndsAt, RouteCountStable, RecordCount,
       SamplesTracked, Ended, ConvergedIsStable
  <2>5. CASE RouteCountMoved(t)
    BY <2>1, <2>2, <2>5 DEF EndsAt, RouteCountMoved, RecordCount,
       SamplesTracked, Ended, ConvergedIsStable
  <2> QED
    BY <2>1, <2>3, <2>4, <2>5
<1> QED
  BY <1>1, <1>2, <1>3, <1>4, <1>5 DEF WaitNext, Loop

(* The deadline bounds every point of the loop.                             *)
LEMMA ScheduleStep ==
  ASSUME WaitTypeOK, Schedule, WaitNext
  PROVE  Schedule'
<1> USE Constants, Integral DEF NoValue, nodeVars, loopVars, histVars
<1>1. CASE NodeChanges
  BY <1>1 DEF NodeChanges, Schedule, WaitBounded
<1>2. CASE CheckDeadline
  BY <1>2 DEF CheckDeadline, Schedule, WaitBounded
<1>3. CASE CliCallFails
  <2>1. PICK t \in Nat : /\ EndsAt(t) /\ pc \in {"summary", "routes"}
                        /\ now' = t + RetryDelay /\ unrest' = t /\ pc' = "loop"
    BY <1>3, CallFailsAt
  <2>2. UNCHANGED <<nodeVars, loopVars, result, streak, streakFrom, streakCount>>
    BY <1>3 DEF CliCallFails
  <2> QED
    BY <2>1, <2>2 DEF EndsAt, Schedule, WaitBounded
<1>4. CASE ReadSummary
  <2>1. PICK t \in Nat : EndsAt(t) /\ now' = t
    BY <1>4, ReadSummaryAt
  <2>2. /\ pc = "summary" /\ pc' = "routes" /\ bgpOk' = established
        /\ UNCHANGED <<nodeVars, prevCount, stableSince, result, histVars>>
    BY <1>4 DEF ReadSummary
  <2> QED
    BY <2>1, <2>2 DEF EndsAt, Schedule, WaitBounded
<1>5. CASE ReadRoutes
  <2>1. PICK t \in Nat : EndsAt(t) /\ \/ RouteCountBgpDown(t)
                                      \/ RouteCountStable(t)
                                      \/ RouteCountMoved(t)
    BY <1>5, ReadRoutesAt
  <2>2. pc = "routes" /\ UNCHANGED <<established, count, bgpOk>>
    BY <1>5 DEF ReadRoutes
  <2>3. CASE RouteCountBgpDown(t)
    BY <2>1, <2>2, <2>3 DEF EndsAt, RouteCountBgpDown, RecordDown,
       Schedule, WaitBounded
  <2>4. CASE RouteCountStable(t)
    BY <2>1, <2>2, <2>4 DEF EndsAt, RouteCountStable, RecordCount,
       Schedule, WaitBounded
  <2>5. CASE RouteCountMoved(t)
    BY <2>1, <2>2, <2>5 DEF EndsAt, RouteCountMoved, RecordCount,
       Schedule, WaitBounded
  <2> QED
    BY <2>1, <2>3, <2>4, <2>5
<1> QED
  BY <1>1, <1>2, <1>3, <1>4, <1>5 DEF WaitNext, Loop

(* Two quiet polls in a row ripen the wait.                                 *)
LEMMA RestlessStep ==
  ASSUME WaitTypeOK, SamplesTracked, Ended, Restless, WaitNext
  PROVE  Restless'
<1> USE Constants, Integral DEF NoValue, nodeVars, loopVars, histVars
<1>1. CASE NodeChanges
  BY <1>1 DEF NodeChanges, Restless, Ripe, TimeoutMeansUnrest
<1>2. CASE CheckDeadline
  <2>1. /\ UNCHANGED <<now, unrest, stableSince>>
        /\ pc = "loop" /\ pc' \in {"summary", "done"}
    BY <1>2 DEF CheckDeadline
  <2>2. \/ now - unrest <= SampleInterval
        \/ Ripe /\ now - unrest <= 2 * SampleInterval + 2 * CallTimeout
    BY <2>1 DEF Restless
  <2>3. now - unrest <= 2 * SampleInterval + 2 * CallTimeout
    BY <2>2
  <2>4. Ripe' <=> Ripe
    BY <2>1 DEF Ripe
  <2> QED
    BY <2>1, <2>2, <2>3, <2>4 DEF Restless, TimeoutMeansUnrest
<1>3. CASE CliCallFails
  <2>1. PICK t \in Nat : /\ EndsAt(t) /\ pc \in {"summary", "routes"}
                         /\ now' = t + RetryDelay /\ unrest' = t /\ pc' = "loop"
    BY <1>3, CallFailsAt
  <2>2. result' = "pending"
    BY <1>3 DEF CliCallFails, Ended
  <2>3. now' - unrest' <= SampleInterval
    BY <2>1 DEF EndsAt
  <2> QED
    BY <2>1, <2>2, <2>3 DEF Restless, TimeoutMeansUnrest
<1>4. CASE ReadSummary
  <2>1. PICK t \in Nat : EndsAt(t) /\ now' = t
    BY <1>4, ReadSummaryAt
  <2>2. /\ pc = "summary" /\ pc' = "routes" /\ result' = "pending"
        /\ UNCHANGED <<stableSince, unrest>>
    BY <1>4 DEF ReadSummary, Ended
  <2>3. now - unrest <= SampleInterval \/ Ripe
    BY <2>2 DEF Restless
  <2>4. now - unrest <= SampleInterval => now' - unrest' <= SampleInterval + CallTimeout
    BY <2>1, <2>2 DEF EndsAt
  <2>5. Ripe => Ripe'
    BY <2>1, <2>2 DEF EndsAt, Ripe
  <2> QED
    BY <2>2, <2>3, <2>4, <2>5 DEF Restless, TimeoutMeansUnrest
<1>5. CASE ReadRoutes
  <2>1. PICK t \in Nat : EndsAt(t) /\ \/ RouteCountBgpDown(t)
                                      \/ RouteCountStable(t)
                                      \/ RouteCountMoved(t)
    BY <1>5, ReadRoutesAt
  <2>2. /\ pc = "routes" /\ result = "pending"
        /\ now - unrest <= SampleInterval + CallTimeout \/ Ripe
    BY <1>5 DEF ReadRoutes, Restless, Ended
  <2>3. CASE RouteCountBgpDown(t) \/ RouteCountMoved(t)
    <3>1. unrest' = t
      <4>1. CASE RouteCountBgpDown(t)
        BY <4>1 DEF RouteCountBgpDown, RecordDown
      <4>2. CASE RouteCountMoved(t)
        <5>1. ~(streak > 0 /\ streakCount = count)
          BY <4>2 DEF RouteCountMoved, SamplesTracked
        <5> QED
          BY <4>2, <5>1 DEF RouteCountMoved, RecordCount
      <4> QED
        BY <2>3, <4>1, <4>2
    <3>2. /\ now' = t + DownDelay \/ now' = t + SampleInterval
          /\ pc' = "loop" /\ result' = "pending"
      BY <2>2, <2>3 DEF RouteCountBgpDown, RouteCountMoved
    <3>3. now' - unrest' <= SampleInterval
      BY <3>1, <3>2
    <3> QED
      BY <3>2, <3>3 DEF Restless, TimeoutMeansUnrest
  <2>4. CASE RouteCountStable(t) /\ pc' = "loop"
    <3>1. stableSince # NoValue => t - stableSince < SampleInterval
      BY <2>4 DEF RouteCountStable
    <3>2. /\ stableSince' = IF stableSince = NoValue THEN t ELSE stableSince
          /\ now' = t + SampleInterval /\ result' = "pending"
      BY <2>2, <2>4 DEF RouteCountStable
    <3>3. ~Ripe
      BY <2>1, <3>1 DEF Ripe, EndsAt
    <3>4. unrest' \in {unrest, t}
      BY <2>4 DEF RouteCountStable, RecordCount
    <3>5. now' - unrest' <= 2 * SampleInterval + 2 * CallTimeout
      <4>1. t - unrest <= SampleInterval + 2 * CallTimeout
        BY <2>1, <2>2, <3>3 DEF EndsAt
      <4>2. now' - t = SampleInterval
        BY <3>2
      <4>3. CASE unrest' = unrest
        <5>1. now' = t + SampleInterval
          BY <3>2
        <5> QED
          BY <4>1, <4>3, <5>1
      <4>4. CASE unrest' = t
        BY <4>2, <4>4
      <4> QED
        BY <3>4, <4>3, <4>4
    <3>6. Ripe'
      <4>1. CASE stableSince = NoValue
        BY <2>1, <3>2, <4>1 DEF Ripe
      <4>2. CASE stableSince # NoValue
        <5>1. stableSince <= t
          BY <2>1, <4>2 DEF SamplesTracked, EndsAt
        <5> QED
          BY <3>2, <4>2, <5>1 DEF Ripe
      <4> QED
        BY <4>1, <4>2
    <3> QED
      BY <2>4, <3>2, <3>5, <3>6 DEF Restless, TimeoutMeansUnrest
  <2>5. CASE RouteCountStable(t) /\ pc' # "loop"
    BY <2>5 DEF RouteCountStable, Restless, TimeoutMeansUnrest
  <2> QED
    BY <2>1, <2>3, <2>4, <2>5
<1> QED
  BY <1>1, <1>2, <1>3, <1>4, <1>5 DEF WaitNext, Loop

LEMMA InvStep == Inv /\ [WaitNext]_waitVars => Inv'
<1> SUFFICES ASSUME Inv, [WaitNext]_waitVars
             PROVE  Inv'
  OBVIOUS
<1>1. CASE WaitNext
  BY <1>1, TypeStep, SamplesStep, EndedStep, ScheduleStep, RestlessStep DEF Inv
<1>2. CASE UNCHANGED waitVars
  BY <1>2 DEF Inv, waitVars, nodeVars, loopVars, histVars, WaitTypeOK, SamplesTracked,
     Ended, ConvergedIsStable, Schedule, WaitBounded, Restless, Ripe,
     TimeoutMeansUnrest
<1> QED
  BY <1>1, <1>2

THEOREM Invariance == WaitSpec => []Inv
<1> QED
  BY InvInit, InvStep, PTL DEF WaitSpec

-----------------------------------------------------------------------------
(* The variables of the wait keep their types.                              *)
THEOREM TypeCorrect == WaitSpec => []WaitTypeOK
<1>1. Inv => WaitTypeOK
  BY DEF Inv
<1> QED
  BY <1>1, Invariance, PTL

(* A node is declared converged only after three good polls with one route  *)
(* count over two whole sampling intervals.                                 *)
THEOREM ConvergedNodesAreStable == WaitSpec => []ConvergedIsStable
<1>1. Inv => ConvergedIsStable
  BY DEF Inv, Ended
<1> QED
  BY <1>1, Invariance, PTL

(* A node that is given up was restless within the last two intervals and   *)
(* one poll.                                                                *)
THEOREM GivenUpNodesAreRestless == WaitSpec => []TimeoutMeansUnrest
<1>1. Inv => TimeoutMeansUnrest
  BY DEF Inv, Restless
<1> QED
  BY <1>1, Invariance, PTL

(* The wait overruns the hard cap by less than one poll and one sleep.      *)
THEOREM WaitIsBounded == WaitSpec => []WaitBounded
<1>1. Inv => WaitBounded
  BY DEF Inv, Schedule
<1> QED
  BY <1>1, Invariance, PTL

-----------------------------------------------------------------------------
(* The peak memory sampler.  Why a reading is right: the lock is held       *)
(* exactly while a thread has raised the peak and not counted yet, so       *)
(* outside of it the peak and the count are of the same polls; and a thread *)
(* that outlives its call only writes into its own sampler, after the       *)
(* reading was taken.                                                       *)

Measured == {"work", "join", "read"}

(* Calls k has not been made yet.                                            *)
Coming(k) == k > cur \/ (k = cur /\ callPc = "between")

SamplerTypes ==
  /\ callPc \in {"between", "next"} \cup Measured /\ cur \in Nat
  /\ usage \in Nat
  /\ thread = [k \in Calls |-> thread[k]] /\ answer \in [Calls -> Nat]
  /\ peak \in [Calls -> Nat] /\ samples \in [Calls -> Nat]
  /\ locked \in [Calls -> BOOLEAN]
  /\ reading = [k \in Calls |-> reading[k]]
  /\ window = [k \in Calls |-> window[k]]
  /\ seen \in [Calls -> Seq(Nat)]

(* A call to come has left nothing.                                         *)
Blank ==
  \A k \in Calls :
    /\ Coming(k) => thread[k] = "unstarted"
    /\ thread[k] = "unstarted" => seen[k] = <<>> /\ samples[k] = 0 /\ ~locked[k]

(* A reading is there only once it was taken.                               *)
Unread ==
  \A k \in Calls :
    Coming(k) \/ (k = cur /\ callPc \in Measured) => reading[k] = NoReading

(* What the lock protects: the count is that of the polls the peak has seen.*)
Locked ==
  \A k \in Calls :
    /\ locked[k] <=> thread[k] = "count"
    /\ Len(seen[k]) = IF thread[k] = "count" THEN samples[k] + 1 ELSE samples[k]

(* p is the highest of the polls s, or 0.                                   *)
Highest(p, s) ==
  /\ \A i \in 1..Len(s) : s[i] <= p
  /\ Len(s) > 0 => \E i \in 1..Len(s) : s[i] = p
  /\ Len(s) = 0 => p = 0

Peaks == \A k \in Calls : Highest(peak[k], seen[k])

(* As long as the call is made, its thread sees sizes of its own window.    *)
OwnWindow ==
  \A k \in Calls :
    k = cur /\ callPc \in Measured /\ thread[k] # "unstarted" =>
      /\ usage \in window[k]
      /\ \A i \in 1..Len(seen[k]) : seen[k][i] \in window[k]
      /\ thread[k] = "answer" => answer[k] \in window[k]

(* What ReadingIsRight says of one call: its reading r, its window w and    *)
(* the polls s of its thread.                                               *)
Right(r, w, s) ==
  /\ r.count \in Nat /\ r.count <= Len(s)
  /\ r.mb = {} <=> r.count = 0
  /\ \A mb \in r.mb :
       /\ mb \in w
       /\ \E i \in 1..r.count : s[i] = mb
       /\ \A i \in 1..r.count : s[i] <= mb

Readings == \A k \in Calls : Right(reading[k], window[k], seen[k])

SamplerInv ==
  /\ SamplerTypes
  /\ Blank
  /\ Unread
  /\ Locked
  /\ Peaks
  /\ OwnWindow
  /\ Readings

-----------------------------------------------------------------------------
(* A poll appended leaves the polls before it.                              *)
LEMMA Appended ==
  ASSUME NEW s \in Seq(Nat), NEW e \in Nat
  PROVE  /\ Append(s, e) \in Seq(Nat) /\ Len(Append(s, e)) = Len(s) + 1 /\ Len(s) \in Nat
         /\ \A i \in 1..Len(s) : Append(s, e)[i] = s[i]
         /\ Append(s, e)[Len(s) + 1] = e
OBVIOUS

LEMMA RightLasts ==
  ASSUME NEW s \in Seq(Nat), NEW e \in Nat, NEW r, NEW w, Right(r, w, s)
  PROVE  Right(r, w, Append(s, e))
<1> DEFINE z == Append(s, e)
<1>1. /\ Len(z) = Len(s) + 1 /\ Len(s) \in Nat
      /\ \A i \in 1..Len(s) : z[i] = s[i]
  BY Appended
<1> HIDE DEF z
<1>2. r.count \in Nat /\ \A i \in 1..r.count : i \in 1..Len(s)
  BY <1>1 DEF Right
<1>3. ASSUME NEW mb \in r.mb
      PROVE  /\ mb \in w
             /\ \E i \in 1..r.count : z[i] = mb
             /\ \A i \in 1..r.count : z[i] <= mb
  BY <1>1, <1>2 DEF Right
<1>4. r.count <= Len(z) /\ (r.mb = {} <=> r.count = 0)
  BY <1>1 DEF Right
<1>5. Right(r, w, z)
  BY <1>2, <1>3, <1>4 DEF Right
<1> QED
  BY <1>5 DEF z

LEMMA RightWider ==
  ASSUME NEW s, NEW r, NEW w, NEW v, w \subseteq v, Right(r, w, s)
  PROVE  Right(r, v, s)
BY DEF Right

(* The reading taken under the lock is right.                               *)
LEMMA RightWhenRead ==
  ASSUME NEW s \in Seq(Nat), NEW w, NEW p \in Nat, Highest(p, s),
         \A i \in 1..Len(s) : s[i] \in w
  PROVE  Right([mb |-> IF Len(s) > 0 THEN {p} ELSE {}, count |-> Len(s)], w, s)
<1>1. Len(s) \in Nat
  OBVIOUS
<1>2. CASE Len(s) = 0
  BY <1>1, <1>2 DEF Right
<1>3. CASE Len(s) > 0
  BY <1>1, <1>3 DEF Right, Highest
<1> QED
  BY <1>1, <1>2, <1>3

(* The peak is raised with every poll.                                      *)
LEMMA PeakRaised ==
  ASSUME NEW s \in Seq(Nat), NEW e \in Nat, NEW old \in Nat, Highest(old, s)
  PROVE  Highest(IF e > old THEN e ELSE old, Append(s, e))
<1> DEFINE new == IF e > old THEN e ELSE old
<1> DEFINE z == Append(s, e)
<1>1. /\ Len(z) = Len(s) + 1 /\ Len(s) \in Nat /\ z[Len(s) + 1] = e
      /\ \A i \in 1..Len(s) : z[i] = s[i] /\ s[i] \in Nat
  BY Appended
<1>2. new \in Nat /\ new >= old /\ new >= e /\ new \in {old, e}
  OBVIOUS
<1>3. (e > old \/ old = 0) => new = e
  OBVIOUS
<1>4. e > old \/ new = old
  OBVIOUS
<1> HIDE DEF z, new
<1>5. ASSUME NEW i \in 1..Len(z)
      PROVE  z[i] <= new
  <2>1. CASE i = Len(s) + 1
    BY <1>1, <1>2, <2>1
  <2>2. CASE i \in 1..Len(s)
    <3>1. z[i] = s[i] /\ s[i] \in Nat
      BY <1>1, <2>2
    <3>2. s[i] <= old
      BY <2>2 DEF Highest
    <3> QED
      BY <1>2, <3>1, <3>2
  <2> QED
    BY <1>1, <2>1, <2>2
<1>6. \E i \in 1..Len(z) : z[i] = new
  <2>1. CASE new = e
    BY <1>1, <2>1
  <2>2. CASE new # e
    <3>1. new = old /\ Len(s) > 0
      BY <1>1, <1>3, <1>4, <2>2 DEF Highest
    <3> QED
      BY <1>1, <3>1 DEF Highest
  <2> QED
    BY <2>1, <2>2
<1>7. Highest(new, z)
  BY <1>1, <1>5, <1>6 DEF Highest
<1> QED
  BY <1>7 DEF z, new

-----------------------------------------------------------------------------
(* The steps of run_one.                                                    *)
LEMMA StartInv == SamplerInv /\ StartSampler => SamplerInv'
<1> SUFFICES ASSUME SamplerInv, StartSampler
             PROVE  SamplerInv'
  OBVIOUS
<1>1. /\ callPc = "between" /\ callPc' = "work" /\ cur' = cur /\ cur \in Calls
      /\ UNCHANGED <<usage, stop, answer, peak, samples, locked, reading, seen>>
      /\ \/ thread' = [thread EXCEPT ![cur] = "head"] /\ window' = [window EXCEPT ![cur] = {usage}]
         \/ thread' = thread /\ window' = window
  BY DEF StartSampler
<1>2. thread[cur] = "unstarted" /\ seen[cur] = <<>> /\ samples[cur] = 0 /\ ~locked[cur]
      /\ reading[cur] = NoReading
  BY <1>1 DEF SamplerInv, Blank, Unread, Coming
<1>3. SamplerTypes'
  BY <1>1 DEF SamplerInv, SamplerTypes, Measured
<1>4. \A k \in Calls : thread'[k] = thread[k] \/ (k = cur /\ thread'[k] = "head")
  BY <1>1 DEF SamplerInv, SamplerTypes
<1>5. Blank'
  BY <1>1, <1>2, <1>4 DEF SamplerInv, SamplerTypes, Blank, Coming
<1>6. Unread'
  BY <1>1 DEF SamplerInv, Unread, Coming, Measured
<1>7. Locked' /\ Peaks'
  BY <1>1, <1>2, <1>4 DEF SamplerInv, Locked, Peaks
<1>8. OwnWindow'
  BY <1>1, <1>2, <1>4 DEF SamplerInv, SamplerTypes, OwnWindow
<1>9. Readings'
  <2> SUFFICES ASSUME NEW k \in Calls
               PROVE  Right(reading'[k], window'[k], seen'[k])
    BY DEF Readings
  <2>1. CASE k = cur
    <3>1. reading'[k] = NoReading /\ seen'[k] = <<>>
      BY <1>1, <1>2, <2>1
    <3> QED
      BY <3>1 DEF Right, NoReading
  <2>2. CASE k # cur
    <3>1. window'[k] = window[k]
      BY <1>1, <2>2 DEF SamplerInv, SamplerTypes
    <3> QED
      BY <1>1, <3>1 DEF SamplerInv, Readings
  <2> QED
    BY <2>1, <2>2
<1> QED
  BY <1>3, <1>5, <1>6, <1>7, <1>8, <1>9 DEF SamplerInv

LEMMA StopInv == SamplerInv /\ (SetStop \/ Join) => SamplerInv'
<1> SUFFICES ASSUME SamplerInv, SetStop \/ Join
             PROVE  SamplerInv'
  OBVIOUS
<1>1. /\ callPc \in Measured /\ callPc' \in {"join", "read", "next"} /\ cur' = cur
      /\ UNCHANGED <<usage, thread, answer, peak, samples, locked, reading, window, seen>>
  BY DEF SetStop, Join, Measured, threadVars, samplerHistory
<1>2. SamplerTypes' /\ Locked' /\ Peaks' /\ Readings'
  BY <1>1 DEF SamplerInv, SamplerTypes, Measured, Locked, Peaks, Readings
<1>3. Blank' /\ Unread'
  BY <1>1 DEF SamplerInv, Blank, Unread, Coming, Measured
<1>4. OwnWindow'
  BY <1>1 DEF SamplerInv, OwnWindow
<1> QED
  BY <1>2, <1>3, <1>4 DEF SamplerInv

LEMMA ReadInv == SamplerInv /\ Read => SamplerInv'
<1> SUFFICES ASSUME SamplerInv, Read
             PROVE  SamplerInv'
  OBVIOUS
<1> DEFINE r == [mb |-> IF samples[cur] > 0 THEN {peak[cur]} ELSE {}, count |-> samples[cur]]
<1>1. /\ callPc = "read" /\ callPc' = "next" /\ cur' = cur /\ ~locked[cur]
      /\ UNCHANGED <<usage, thread, answer, peak, samples, locked, window, seen>>
      /\ reading' = [reading EXCEPT ![cur] = r]
  BY DEF Read, threadVars, samplerHistory
<1>2. cur \in Calls => Right(r, window[cur], seen[cur])
  <2> SUFFICES ASSUME cur \in Calls
               PROVE  Right(r, window[cur], seen[cur])
    OBVIOUS
  <2>1. Len(seen[cur]) = samples[cur] /\ seen[cur] \in Seq(Nat) /\ peak[cur] \in Nat
    BY <1>1 DEF SamplerInv, Locked, SamplerTypes
  <2>2. Highest(peak[cur], seen[cur])
    BY DEF SamplerInv, Peaks
  <2>3. \A i \in 1..Len(seen[cur]) : seen[cur][i] \in window[cur]
    <3>1. CASE thread[cur] = "unstarted"
      BY <3>1 DEF SamplerInv, Blank
    <3>2. CASE thread[cur] # "unstarted"
      BY <1>1, <3>2 DEF SamplerInv, OwnWindow, Measured
    <3> QED
      BY <3>1, <3>2
  <2> QED
    BY <2>1, <2>2, <2>3, RightWhenRead
<1> HIDE DEF r
<1>3. SamplerTypes' /\ Locked' /\ Peaks'
  BY <1>1 DEF SamplerInv, SamplerTypes, Measured, Locked, Peaks
<1>4. Blank' /\ OwnWindow'
  BY <1>1 DEF SamplerInv, Blank, Coming, OwnWindow, Measured
<1>5. Unread'
  BY <1>1 DEF SamplerInv, SamplerTypes, Unread, Coming, Measured
<1>6. Readings'
  BY <1>1, <1>2 DEF SamplerInv, SamplerTypes, Readings
<1> QED
  BY <1>3, <1>4, <1>5, <1>6 DEF SamplerInv

LEMMA LeaveInv == SamplerInv /\ Leave => SamplerInv'
<1> SUFFICES ASSUME SamplerInv, Leave
             PROVE  SamplerInv'
  OBVIOUS
<1>1. /\ callPc = "next" /\ callPc' = "between" /\ cur' = cur + 1
      /\ UNCHANGED <<usage, thread, answer, peak, samples, locked, reading, window, seen>>
  BY DEF Leave, threadVars, samplerHistory
<1>2. cur \in Nat /\ \A k \in Calls : k \in Nat
  BY DEF SamplerInv, SamplerTypes, Calls
<1>3. SamplerTypes' /\ Locked' /\ Peaks' /\ Readings'
  BY <1>1, <1>2 DEF SamplerInv, SamplerTypes, Measured, Locked, Peaks, Readings
<1>4. \A k \in Calls : Coming(k)' => Coming(k)
  BY <1>1, <1>2 DEF Coming
<1>5. Blank' /\ Unread'
  BY <1>1, <1>4 DEF SamplerInv, Blank, Unread, Measured
<1>6. OwnWindow'
  BY <1>1 DEF OwnWindow, Measured
<1> QED
  BY <1>3, <1>5, <1>6 DEF SamplerInv

-----------------------------------------------------------------------------
(* The steps of a sampler thread, and of the container.                     *)
LEMMA QuietInv ==
  ASSUME SamplerInv, NEW k \in Calls,
         \/ CheckStop(k) \/ Poll(k)
         \/ PollFails(k) \/ Wait(k)
  PROVE  SamplerInv'
<1>1. /\ UNCHANGED <<callPc, cur, usage, stop, peak, samples, locked, reading, window, seen>>
      /\ thread[k] \in {"head", "poll", "answer", "wait"}
      /\ \E s \in {"head", "poll", "answer", "wait", "done"} : thread' = [thread EXCEPT ![k] = s]
      /\ \/ answer' = answer
         \/ answer' = [answer EXCEPT ![k] = usage]
         \/ answer' = [answer EXCEPT ![k] = 0] /\ thread'[k] = "wait"
  BY DEF CheckStop, Poll, PollFails, Wait, samplerHistory,
         SamplerInv, SamplerTypes
<1>2. /\ \A j \in Calls : j # k => thread'[j] = thread[j] /\ answer'[j] = answer[j]
      /\ thread'[k] \in {"head", "poll", "answer", "wait", "done"}
      /\ thread'[k] = "answer" => answer'[k] = usage
  BY DEF CheckStop, Poll, PollFails, Wait,
         SamplerInv, SamplerTypes
<1>3. SamplerTypes'
  <2>1. answer' \in [Calls -> Nat]
    <3>1. answer \in [Calls -> Nat] /\ usage \in Nat
      BY DEF SamplerInv, SamplerTypes
    <3> QED
      BY <1>1, <3>1
  <2>2. thread' = [j \in Calls |-> thread'[j]]
    BY <1>1 DEF SamplerInv, SamplerTypes
  <2> QED
    BY <1>1, <2>1, <2>2 DEF SamplerInv, SamplerTypes
<1>4. Blank' /\ Unread'
  BY <1>1, <1>2 DEF SamplerInv, Blank, Unread, Coming
<1>5. Locked'
  BY <1>1, <1>2 DEF SamplerInv, Locked
<1>6. Peaks' /\ Readings'
  BY <1>1 DEF SamplerInv, Peaks, Readings
<1>7. OwnWindow'
  BY <1>1, <1>2 DEF SamplerInv, OwnWindow
<1> QED
  BY <1>3, <1>4, <1>5, <1>6, <1>7 DEF SamplerInv

LEMMA KeepInv ==
  ASSUME SamplerInv, NEW k \in Calls, KeepPeak(k)
  PROVE  SamplerInv'
<1> DEFINE e == answer[k]
           s == seen[k]
           p == IF e > peak[k] THEN e ELSE peak[k]
<1>1. /\ UNCHANGED <<callPc, cur, usage, answer, samples, reading, window>>
      /\ thread[k] = "answer" /\ ~locked[k]
      /\ peak' = [peak EXCEPT ![k] = p]
      /\ seen' = [seen EXCEPT ![k] = Append(s, e)]
      /\ locked' = [locked EXCEPT ![k] = TRUE]
      /\ thread' = [thread EXCEPT ![k] = "count"]
  BY DEF KeepPeak
<1>2. e \in Nat /\ s \in Seq(Nat) /\ peak[k] \in Nat /\ p \in Nat
  BY DEF SamplerInv, SamplerTypes
<1>3. /\ Append(s, e) \in Seq(Nat) /\ Len(Append(s, e)) = Len(s) + 1 /\ Len(s) \in Nat
      /\ \A i \in 1..Len(s) : Append(s, e)[i] = s[i]
      /\ Append(s, e)[Len(s) + 1] = e
  BY <1>2, Appended
<1>4. Highest(p, Append(s, e))
  <2>1. Highest(peak[k], s)
    BY DEF SamplerInv, Peaks
  <2> HIDE DEF s, e
  <2> QED
    BY <1>2, <2>1, PeakRaised
<1>5. Right(reading[k], window[k], Append(s, e))
  BY <1>2, RightLasts DEF SamplerInv, Readings
<1> DEFINE z == Append(s, e)
<1> HIDE DEF z, p, e
<1>6. /\ \A j \in Calls : j # k => /\ thread'[j] = thread[j] /\ seen'[j] = seen[j]
                                  /\ peak'[j] = peak[j] /\ locked'[j] = locked[j]
      /\ seen'[k] = z /\ peak'[k] = p /\ locked'[k] = TRUE /\ thread'[k] = "count"
  BY <1>1 DEF SamplerInv, SamplerTypes, z, e
<1>7. SamplerTypes'
  BY <1>1, <1>2, <1>3 DEF SamplerInv, SamplerTypes, e
<1>8. Blank' /\ Unread'
  BY <1>1, <1>6 DEF SamplerInv, Blank, Unread, Coming
<1>9. Locked'
  BY <1>1, <1>3, <1>6 DEF SamplerInv, Locked, z
<1>10. Peaks'
  BY <1>4, <1>6 DEF SamplerInv, Peaks, z
<1>11. OwnWindow'
  <2>1. k = cur /\ callPc \in Measured => \A i \in 1..Len(z) : z[i] \in window[k]
    BY <1>1, <1>3 DEF SamplerInv, OwnWindow, z, e
  <2> QED
    BY <1>1, <1>6, <2>1 DEF SamplerInv, OwnWindow
<1>12. Readings'
  BY <1>1, <1>5, <1>6 DEF SamplerInv, Readings, z
<1> QED
  BY <1>7, <1>8, <1>9, <1>10, <1>11, <1>12 DEF SamplerInv

LEMMA CountInv ==
  ASSUME SamplerInv, NEW k \in Calls, CountSample(k)
  PROVE  SamplerInv'
<1>1. /\ UNCHANGED <<callPc, cur, usage, peak, reading, window, seen>>
      /\ thread[k] = "count"
      /\ samples' = [samples EXCEPT ![k] = @ + 1]
      /\ locked' = [locked EXCEPT ![k] = FALSE]
      /\ answer' = [answer EXCEPT ![k] = 0]
      /\ thread' = [thread EXCEPT ![k] = "wait"]
  BY DEF CountSample, samplerHistory
<1>2. /\ \A j \in Calls : j # k => /\ thread'[j] = thread[j] /\ samples'[j] = samples[j]
                                  /\ answer'[j] = answer[j] /\ locked'[j] = locked[j]
      /\ samples'[k] = samples[k] + 1 /\ locked'[k] = FALSE /\ thread'[k] = "wait"
  BY <1>1 DEF SamplerInv, SamplerTypes
<1>3. SamplerTypes'
  <2>1. samples' \in [Calls -> Nat] /\ answer' \in [Calls -> Nat]
    <3>1. samples \in [Calls -> Nat] /\ answer \in [Calls -> Nat]
      BY DEF SamplerInv, SamplerTypes
    <3> QED
      BY <1>1, <3>1
  <2>2. /\ thread' = [j \in Calls |-> thread'[j]] /\ locked' \in [Calls -> BOOLEAN]
    BY <1>1 DEF SamplerInv, SamplerTypes
  <2> QED
    BY <1>1, <2>1, <2>2 DEF SamplerInv, SamplerTypes
<1>4. Blank' /\ Unread'
  BY <1>1, <1>2 DEF SamplerInv, Blank, Unread, Coming
<1>5. Locked'
  BY <1>1, <1>2 DEF SamplerInv, Locked
<1>6. Peaks' /\ Readings'
  BY <1>1 DEF SamplerInv, Peaks, Readings
<1>7. OwnWindow'
  BY <1>1, <1>2 DEF SamplerInv, OwnWindow
<1> QED
  BY <1>3, <1>4, <1>5, <1>6, <1>7 DEF SamplerInv

LEMMA MovesInv ==
  ASSUME SamplerInv, MemoryMoves
  PROVE  SamplerInv'
<1>1. /\ UNCHANGED <<callPc, cur, thread, answer, peak, samples, locked, reading, seen>>
      /\ usage' \in Nat
      /\ window' = [k \in Calls |->
                      IF callPc # "between" /\ cur = k /\ window[k] # {}
                      THEN window[k] \cup {usage'} ELSE window[k]]
  BY SamplerAssumption DEF MemoryMoves, threadVars
<1>2. \A k \in Calls : window[k] \subseteq window'[k]
  BY <1>1
<1>3. SamplerTypes'
  BY <1>1 DEF SamplerInv, SamplerTypes
<1>4. Blank' /\ Unread' /\ Locked' /\ Peaks'
  BY <1>1 DEF SamplerInv, Blank, Unread, Coming, Locked, Peaks
<1>5. OwnWindow'
  <2>1. ASSUME NEW k \in Calls, k = cur, callPc \in Measured, thread[k] # "unstarted"
        PROVE  usage' \in window'[k]
    BY <1>1, <2>1 DEF SamplerInv, OwnWindow, Measured
  <2> QED
    BY <1>1, <1>2, <2>1 DEF SamplerInv, OwnWindow
<1>6. Readings'
  BY <1>1, <1>2, RightWider DEF SamplerInv, Readings
<1> QED
  BY <1>3, <1>4, <1>5, <1>6 DEF SamplerInv

-----------------------------------------------------------------------------
LEMMA SamplerStarts ==
  ASSUME SamplerInit
  PROVE  SamplerInv
<1>1. /\ <<>> \in Seq(Nat) /\ Len(<<>>) = 0 /\ usage \in Nat
  BY SamplerAssumption DEF SamplerInit
<1>2. SamplerTypes
  BY <1>1 DEF SamplerInit, SamplerTypes
<1>3. Blank /\ Unread
  BY DEF SamplerInit, Blank, Unread
<1>4. Locked /\ Peaks
  BY <1>1 DEF SamplerInit, Locked, Peaks, Highest
<1>5. OwnWindow
  BY DEF SamplerInit, OwnWindow, Measured
<1>6. Readings
  BY <1>1 DEF SamplerInit, Readings, Right, NoReading
<1> QED
  BY <1>2, <1>3, <1>4, <1>5, <1>6 DEF SamplerInv

LEMMA SamplerStep ==
  ASSUME SamplerInv, [SamplerNext]_samplerVars
  PROVE  SamplerInv'
<1>1. CASE HarnessThread
  BY <1>1, StartInv, StopInv, ReadInv, LeaveInv DEF HarnessThread
<1>2. CASE \E k \in Calls : Run(k)
  BY <1>2, QuietInv, KeepInv, CountInv DEF Run
<1>3. CASE MemoryMoves
  BY <1>3, MovesInv
<1>4. CASE UNCHANGED samplerVars
  BY <1>4
  DEF samplerVars, threadVars, samplerHistory, SamplerInv, SamplerTypes, Blank,
      Unread, Coming, Locked, Peaks, OwnWindow, Readings
<1> QED
  BY <1>1, <1>2, <1>3, <1>4 DEF SamplerNext

(* The inductive invariant of the sampler.                                  *)
THEOREM SamplerInvariance == SamplerSpec => []SamplerInv
<1>1. SamplerInit => SamplerInv
  BY SamplerStarts
<1>2. SamplerInv /\ [SamplerNext]_samplerVars => SamplerInv'
  BY SamplerStep
<1> QED
  BY <1>1, <1>2, PTL DEF SamplerSpec

(* A reading is the highest of exactly the polls it says it counted, and of *)
(* the container during this very call.                                     *)
THEOREM ReadingsAreRight == SamplerSpec => []ReadingIsRight
<1>1. SamplerInv => ReadingIsRight
  BY DEF SamplerInv, Readings, Right, ReadingIsRight
<1> QED
  BY <1>1, SamplerInvariance, PTL
=============================================================================
