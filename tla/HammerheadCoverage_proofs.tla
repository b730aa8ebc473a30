---------------------- MODULE HammerheadCoverage_proofs ----------------------
(***************************************************************************)
(* Proofs about HammerheadCoverage, for any number of topologies and of    *)
(* trials, and for any set of replies.                                     *)
(*                                                                         *)
(* Why the properties hold: between two trials hammer_coverages is, verdict *)
(* by verdict, what the replies of this topology said, and the sidecar is  *)
(* read only after this trial wrote it.                                    *)
(***************************************************************************)
EXTENDS HammerheadCoverage, FiniteSetTheorems, SequenceTheorems, TLAPS

Agreement ==
  [degraded : Verdict, degradedTrials : Nat, trials : Nat, covered : BOOLEAN,
   scored : BOOLEAN]

Types ==
  /\ hook \in BOOLEAN
  /\ step \in {"bench", "trial", "write", "read", "agreement", "result", "ended", "done"}
  /\ topo \in Nat
  /\ step \notin {"bench", "ended", "done"} => topo \in T
  /\ trial \in 1..Trials
  /\ sidecar \in Verdict
  /\ verdicts \in Seq(Verdict)
  /\ agreements \in [T -> Agreement]
  /\ heard \in [T -> Seq(Replies)]

(* The verdicts of a sequence of replies.                                   *)
Said(h) == [i \in 1..Len(h) |-> Recorded(h[i])]

AllAccepted(h) == \A i \in 1..Len(h) : Accepted(h[i])

(* Topologies whose turn has not come have neither replies nor a score, and *)
(* the one whose turn it is has no score.                                   *)
Ahead ==
  /\ \A t \in T : t > topo \/ (t = topo /\ step = "bench") =>
       heard[t] = <<>> /\ ~agreements[t].scored
  /\ step \in {"trial", "write", "read", "agreement"} => ~agreements[topo].scored
  /\ ~hook => \A t \in T : heard[t] = <<>>

(* Between two trials the verdicts are those of the replies.                *)
BetweenTrials ==
  step \in {"trial", "agreement"} =>
    /\ verdicts = Said(heard[topo]) /\ AllAccepted(heard[topo])
    /\ hook => Len(heard[topo]) = IF step = "trial" THEN trial - 1 ELSE Trials

(* In a trial they are, but for the last reply.                             *)
InTrial ==
  step \in {"write", "read"} =>
    /\ hook /\ Len(heard[topo]) = trial /\ heard[topo][trial] = reply
    /\ AllAccepted(heard[topo])
    /\ Len(verdicts) = trial - 1
    /\ \A i \in 1..(trial - 1) : verdicts[i] = Recorded(heard[topo][i])
    /\ step = "read" => sidecar = Recorded(reply)

(* A score is the roll-up of the verdicts.                                  *)
Settled ==
  \A t \in T : agreements[t].scored =>
    /\ hook => Len(heard[t]) = Trials
    /\ AllAccepted(heard[t])
    /\ agreements[t].degraded = Rollup(Said(heard[t]))
    /\ agreements[t].trials = Len(heard[t])
    /\ agreements[t].degradedTrials = Cardinality(DegradedTrials(Said(heard[t])))

Of(v) == {t \in Scored : agreements[t].degraded = v}

Summarized ==
  step = "done" =>
    /\ summary.complete = Of("false")
    /\ summary.degraded = Of("true")
    /\ summary.unknown = Of("none")
    /\ summary.coveredComplete \subseteq Of("false")

Inv == Types /\ Ahead /\ BetweenTrials /\ InTrial /\ Settled /\ Summarized

-----------------------------------------------------------------------------
LEMMA Constants == NumTopologies \in Nat /\ Trials \in Nat /\ Trials >= 1
BY CoverageAssumption DEF CoverageAssumption

LEMMA RecordedType ==
  ASSUME NEW r \in Replies PROVE Recorded(r) \in Verdict
BY CoverageAssumption DEF CoverageAssumption, Reply, Value, Recorded, Verdict

LEMMA SaidType ==
  ASSUME NEW h \in Seq(Replies)
  PROVE  Said(h) \in Seq(Verdict) /\ Len(Said(h)) = Len(h) /\ DOMAIN Said(h) = 1..Len(h)
<1>1. \A i \in 1..Len(h) : Recorded(h[i]) \in Verdict
  BY RecordedType
<1>2. Said(h) \in [1..Len(h) -> Verdict]
  BY <1>1 DEF Said
<1> QED
  BY <1>2

LEMMA RollupType ==
  ASSUME NEW vs PROVE Rollup(vs) \in Verdict
BY DEF Rollup, Verdict

LEMMA DegradedFinite ==
  ASSUME NEW vs \in Seq(Verdict)
  PROVE  IsFiniteSet(DegradedTrials(vs)) /\ Cardinality(DegradedTrials(vs)) \in Nat
<1>1. DegradedTrials(vs) \subseteq 1..Len(vs)
  BY DEF DegradedTrials
<1>2. IsFiniteSet(1..Len(vs))
  BY FS_Interval
<1>3. IsFiniteSet(DegradedTrials(vs))
  BY <1>1, <1>2, FS_Subset
<1> QED
  BY <1>3, FS_CardinalityType

(* One more reply.                                                          *)
LEMMA AcceptedAppend ==
  ASSUME NEW h \in Seq(Replies), AllAccepted(h), NEW r \in Replies, Accepted(r)
  PROVE  AllAccepted(Append(h, r))
BY DEF AllAccepted

(* What a trial appends makes the verdicts those of the replies again.      *)
LEMMA SaidAppend ==
  ASSUME NEW h \in Seq(Replies), NEW vs \in Seq(Verdict), Len(h) = Len(vs) + 1,
         \A i \in 1..Len(vs) : vs[i] = Recorded(h[i]),
         NEW v \in Verdict, v = Recorded(h[Len(h)])
  PROVE  Append(vs, v) = Said(h)
<1>1. Append(vs, v) \in Seq(Verdict) /\ Len(Append(vs, v)) = Len(h)
  OBVIOUS
<1>2. Said(h) \in Seq(Verdict) /\ Len(Said(h)) = Len(h)
  BY SaidType
<1>3. \A i \in 1..Len(h) : Append(vs, v)[i] = Recorded(h[i])
  OBVIOUS
<1>4. \A i \in 1..Len(h) : Append(vs, v)[i] = Said(h)[i]
  BY <1>3 DEF Said
<1> QED
  BY <1>1, <1>2, <1>4, SeqEqual

LEMMA SaidEmpty == Said(<<>>) = <<>>
<1>1. <<>> \in Seq(Replies) /\ <<>> \in Seq(Verdict) /\ Len(<<>>) = 0
  OBVIOUS
<1>2. Said(<<>>) \in Seq(Verdict) /\ Len(Said(<<>>)) = 0
  BY <1>1, SaidType
<1> QED
  BY <1>1, <1>2, SeqEqual

-----------------------------------------------------------------------------
LEMMA InitInv == CoverageInit => Inv
<1> SUFFICES ASSUME CoverageInit PROVE Inv
  OBVIOUS
<1> USE Constants
<1>1. Types
  <2>1. agreements \in [T -> Agreement]
    BY DEF CoverageInit, NotScored, Agreement, Verdict
  <2>2. topo \in Nat /\ (step \notin {"bench", "ended", "done"} => topo \in T)
    BY DEF CoverageInit
  <2>3. trial \in 1..Trials /\ verdicts \in Seq(Verdict) /\ heard \in [T -> Seq(Replies)]
    BY DEF CoverageInit
  <2> QED
    BY <2>1, <2>2, <2>3 DEF CoverageInit, Types, Verdict
<1>2. Ahead
  BY DEF CoverageInit, Ahead, NotScored
<1>3. BetweenTrials /\ InTrial /\ Summarized
  BY DEF CoverageInit, BetweenTrials, InTrial, Summarized
<1>4. Settled
  BY DEF CoverageInit, Settled, NotScored
<1> QED
  BY <1>1, <1>2, <1>3, <1>4 DEF Inv

(* The scores and the replies they rest on are left alone.                  *)
LEMMA SettledStutter ==
  ASSUME Settled, UNCHANGED <<hook, agreements, heard>>
  PROVE  Settled'
BY DEF Settled

LEMMA NextTopologyInv == Inv /\ NextTopology => Inv'
<1> SUFFICES ASSUME Inv, NextTopology PROVE Inv'
  OBVIOUS
<1> USE Constants DEF Inv
<1>1. Types'
  BY DEF Types, NextTopology
<1>2. Ahead'
  BY DEF Ahead, NextTopology, Types
<1>3. heard[topo] = <<>> /\ topo \in T
  BY DEF Ahead, NextTopology, Types
<1>4. BetweenTrials'
  <2>1. heard'[topo'] = <<>> /\ verdicts' = <<>> /\ trial' = 1 /\ step' = "trial"
    BY <1>3 DEF NextTopology
  <2>2. AllAccepted(<<>>)
    BY DEF AllAccepted
  <2> QED
    BY <2>1, <2>2, SaidEmpty DEF BetweenTrials
<1>5. InTrial' /\ Summarized'
  BY DEF InTrial, Summarized, NextTopology
<1>6. Settled'
  BY SettledStutter DEF NextTopology
<1> QED
  BY <1>1, <1>2, <1>4, <1>5, <1>6

LEMMA SimulateInv ==
  ASSUME Inv, NEW r \in Replies, step = "trial", hook,
         reply' = r, heard' = [heard EXCEPT ![topo] = Append(@, r)],
         step' = IF Accepted(r) THEN "write" ELSE "result",
         UNCHANGED <<hook, topo, sidecar, verdicts, trial, agreements, summary>>
  PROVE  Inv'
<1> USE Constants DEF Inv
<1> DEFINE h == heard[topo]
<1>1. r \in Replies /\ topo \in T /\ h \in Seq(Replies)
  BY DEF Types
<1>2. heard' \in [T -> Seq(Replies)] /\ heard'[topo] = Append(h, r)
  BY <1>1 DEF Types
<1>3. \A t \in T \ {topo} : heard'[t] = heard[t]
  BY DEF Types
<1>4. Types'
  <2>1. step' \in {"write", "result"}
    OBVIOUS
  <2> QED
    BY <1>1, <1>2, <2>1 DEF Types
<1>5. ~agreements[topo].scored
  BY DEF Ahead
<1>6. Ahead'
  <2>1. topo \in Nat /\ step' # "bench"
    BY DEF Types
  <2>2. \A t \in T : t > topo => t # topo
    BY <2>1 DEF T
  <2> QED
    BY <1>3, <1>5, <2>1, <2>2 DEF Ahead
<1>7. BetweenTrials' /\ Summarized'
  BY DEF BetweenTrials, Summarized
<1>8. InTrial'
  <2> SUFFICES ASSUME Accepted(r) PROVE InTrial'
    BY DEF InTrial
  <2>1. step' = "write"
    OBVIOUS
  <2>2. verdicts = Said(h) /\ AllAccepted(h) /\ Len(h) = trial - 1
    BY DEF BetweenTrials
  <2>3. Len(Append(h, r)) = trial /\ Append(h, r)[trial] = r
    BY <1>1, <2>2 DEF Types
  <2>4. AllAccepted(Append(h, r))
    BY <1>1, <2>2, AcceptedAppend
  <2>5. Len(verdicts) = trial - 1
    BY <1>1, <2>2, SaidType
  <2>6. \A i \in 1..(trial - 1) : verdicts[i] = Recorded(Append(h, r)[i])
    BY <1>1, <2>2 DEF Said
  <2> QED
    BY <1>2, <2>1, <2>3, <2>4, <2>5, <2>6 DEF InTrial
<1>9. Settled'
  BY <1>3, <1>5 DEF Settled
<1> QED
  BY <1>4, <1>6, <1>7, <1>8, <1>9

LEMMA WriteSidecarInv == Inv /\ WriteSidecar => Inv'
<1> SUFFICES ASSUME Inv, WriteSidecar PROVE Inv'
  OBVIOUS
<1> USE Constants DEF Inv
<1>1. topo \in T /\ heard[topo] \in Seq(Replies) /\ Len(heard[topo]) = trial /\ trial >= 1
      /\ heard[topo][trial] = reply
  BY DEF WriteSidecar, Types, InTrial
<1>2. Recorded(reply) \in Verdict
  BY <1>1, RecordedType
<1>3. Types'
  BY <1>2 DEF Types, WriteSidecar
<1>4. Ahead'
  BY DEF Ahead, WriteSidecar
<1>5. BetweenTrials' /\ Summarized'
  BY DEF BetweenTrials, Summarized, WriteSidecar
<1>6. InTrial'
  BY DEF InTrial, WriteSidecar
<1>7. Settled'
  BY SettledStutter DEF WriteSidecar
<1> QED
  BY <1>3, <1>4, <1>5, <1>6, <1>7

LEMMA ReadVerdictInv == Inv /\ ReadVerdict => Inv'
<1> SUFFICES ASSUME Inv, ReadVerdict PROVE Inv'
  OBVIOUS
<1> USE Constants DEF Inv
<1> DEFINE h == heard[topo]
<1>1. topo \in T /\ h \in Seq(Replies) /\ trial \in 1..Trials /\ verdicts \in Seq(Verdict)
      /\ sidecar \in Verdict
  BY DEF ReadVerdict, Types
<1>2. hook /\ Len(h) = trial /\ AllAccepted(h) /\ Len(verdicts) = trial - 1
      /\ (\A i \in 1..(trial - 1) : verdicts[i] = Recorded(h[i]))
      /\ sidecar = Recorded(h[trial])
  BY DEF ReadVerdict, InTrial
<1>3. Types'
  <2>1. verdicts' \in Seq(Verdict)
    BY <1>1 DEF ReadVerdict
  <2>2. trial' \in 1..Trials /\ step' \in {"trial", "agreement", "result"}
    BY <1>1 DEF ReadVerdict, NextTrial
  <2> QED
    BY <1>1, <2>1, <2>2 DEF Types, ReadVerdict
<1>4. Ahead'
  BY DEF Ahead, ReadVerdict, NextTrial
<1>5. BetweenTrials'
  <2> SUFFICES ASSUME step' \in {"trial", "agreement"} PROVE BetweenTrials'
    BY DEF BetweenTrials
  <2>1. verdicts' = Append(verdicts, sidecar) /\ NextTrial /\ heard'[topo'] = h /\ hook'
    BY <1>2 DEF ReadVerdict
  <2>2. Len(h) = Len(verdicts) + 1
    BY <1>1, <1>2
  <2>3. Append(verdicts, sidecar) = Said(h)
    BY <1>1, <1>2, <2>2, SaidAppend
  <2>4. Len(h) = IF step' = "trial" THEN trial' - 1 ELSE Trials
    BY <1>1, <1>2, <2>1 DEF NextTrial
  <2> QED
    BY <1>2, <2>1, <2>3, <2>4 DEF BetweenTrials
<1>6. InTrial' /\ Summarized'
  BY DEF InTrial, Summarized, ReadVerdict, NextTrial
<1>7. Settled'
  BY SettledStutter DEF ReadVerdict
<1> QED
  BY <1>3, <1>4, <1>5, <1>6, <1>7

LEMMA SkipHammerheadInv == Inv /\ SkipHammerhead => Inv'
<1> SUFFICES ASSUME Inv, SkipHammerhead PROVE Inv'
  OBVIOUS
<1> USE Constants DEF Inv
<1>1. step' \in {"trial", "agreement"} /\ trial' \in 1..Trials
  BY DEF SkipHammerhead, NextTrial, Types
<1>2. Types'
  BY <1>1 DEF Types, SkipHammerhead
<1>3. Ahead'
  BY <1>1 DEF Ahead, SkipHammerhead
<1>4. BetweenTrials' /\ InTrial' /\ Summarized'
  BY <1>1 DEF BetweenTrials, InTrial, Summarized, SkipHammerhead
<1>5. Settled'
  BY SettledStutter DEF SkipHammerhead
<1> QED
  BY <1>2, <1>3, <1>4, <1>5

(* The fields of the score are those of the replies.                        *)
LEMMA ScoreInv ==
  ASSUME Inv, step = "agreement", NEW covered \in BOOLEAN, NEW a,
         a = [degraded |-> Rollup(verdicts), trials |-> Len(verdicts),
              degradedTrials |-> Cardinality(DegradedTrials(verdicts)),
              covered |-> covered, scored |-> TRUE],
         agreements' = [agreements EXCEPT ![topo] = a], step' = "result",
         UNCHANGED <<hook, topo, trialVars, summary, heard>>
  PROVE  Inv'
<1> USE Constants DEF Inv
<1> DEFINE h == heard[topo]
<1>1. topo \in T /\ h \in Seq(Replies) /\ verdicts \in Seq(Verdict)
  BY DEF Types
<1>2. verdicts = Said(h) /\ AllAccepted(h) /\ (hook => Len(h) = Trials)
  BY DEF BetweenTrials
<1>3. a \in Agreement
  <2>1. Rollup(verdicts) \in Verdict
    BY RollupType
  <2>2. Cardinality(DegradedTrials(verdicts)) \in Nat
    BY <1>1, DegradedFinite
  <2>3. Len(verdicts) \in Nat
    BY <1>1
  <2> QED
    BY <2>1, <2>2, <2>3 DEF Agreement
<1>4. agreements' \in [T -> Agreement] /\ agreements'[topo] = a
      /\ \A t \in T \ {topo} : agreements'[t] = agreements[t]
  BY <1>1, <1>3 DEF Types
<1>5. Types'
  BY <1>4 DEF Types, trialVars
<1>6. Ahead'
  <2>1. topo \in Nat /\ step' # "bench"
    BY DEF Types
  <2>2. \A t \in T : t > topo => t # topo
    BY <2>1 DEF T
  <2> QED
    BY <1>4, <2>1, <2>2 DEF Ahead
<1>7. BetweenTrials' /\ InTrial' /\ Summarized'
  BY DEF BetweenTrials, InTrial, Summarized
<1>8. Settled'
  <2>1. a.degraded = Rollup(Said(h))
        /\ a.degradedTrials = Cardinality(DegradedTrials(Said(h)))
    BY <1>2
  <2>2. a.trials = Len(h)
    BY <1>1, <1>2, SaidType
  <2>3. heard' = heard /\ hook' = hook
    OBVIOUS
  <2>4. CASE hook
    BY <1>2, <1>4, <2>1, <2>2, <2>3, <2>4 DEF Settled
  <2>5. CASE ~hook
    BY <1>2, <1>4, <2>1, <2>2, <2>3, <2>5 DEF Settled
  <2> QED
    BY <2>4, <2>5
<1> QED
  BY <1>5, <1>6, <1>7, <1>8

(* Nothing is scored, and the topology is over.                             *)
LEMMA NoScoreInv ==
  ASSUME Inv, step' = "result", step \in {"trial", "agreement"},
         UNCHANGED <<hook, topo, trialVars, agreements, summary, heard>>
  PROVE  Inv'
<1> USE DEF Inv, trialVars
<1>1. Types'
  BY DEF Types
<1>2. Ahead'
  BY DEF Ahead
<1>3. BetweenTrials' /\ InTrial' /\ Summarized'
  BY DEF BetweenTrials, InTrial, Summarized
<1>4. Settled'
  BY SettledStutter
<1> QED
  BY <1>1, <1>2, <1>3, <1>4

LEMMA RecordResultInv == Inv /\ RecordResult => Inv'
<1> SUFFICES ASSUME Inv, RecordResult PROVE Inv'
  OBVIOUS
<1> USE DEF Inv
<1>1. step' \in {"bench", "ended"} /\ topo \in Nat /\ topo' \in {topo, topo + 1}
      /\ (step' = "bench" => topo' = topo + 1)
  BY DEF RecordResult, Types
<1>2. Types'
  BY <1>1 DEF Types, RecordResult, trialVars
<1>3. Ahead'
  <2>1. T \subseteq Nat
    BY DEF T
  <2>2. \A t \in T : t > topo' \/ (t = topo' /\ step' = "bench") => t > topo
    BY <1>1, <2>1
  <2>3. UNCHANGED <<hook, agreements, heard>>
    BY DEF RecordResult
  <2> QED
    BY <1>1, <2>2, <2>3 DEF Ahead
<1>4. BetweenTrials' /\ InTrial' /\ Summarized'
  BY <1>1 DEF BetweenTrials, InTrial, Summarized
<1>5. Settled'
  BY SettledStutter DEF RecordResult
<1> QED
  BY <1>2, <1>3, <1>4, <1>5

LEMMA SummarizeInv == Inv /\ Summarize => Inv'
<1> SUFFICES ASSUME Inv, Summarize PROVE Inv'
  OBVIOUS
<1> USE DEF Inv
<1>1. Types'
  BY DEF Types, Summarize, trialVars
<1>2. Ahead'
  BY DEF Ahead, Summarize
<1>3. BetweenTrials' /\ InTrial'
  BY DEF BetweenTrials, InTrial, Summarize
<1>4. Settled'
  BY SettledStutter DEF Summarize
<1>5. Summarized'
  <2>1. summary'.complete = Of("false") /\ summary'.degraded = Of("true")
        /\ summary'.unknown = Of("none")
        /\ summary'.coveredComplete \subseteq Of("false")
    BY DEF Summarize, Of
  <2>2. UNCHANGED agreements
    BY DEF Summarize
  <2>3. \A v : Of(v)' = Of(v)
    BY <2>2 DEF Of, Scored
  <2> QED
    BY <2>1, <2>3 DEF Summarized
<1> QED
  BY <1>1, <1>2, <1>3, <1>4, <1>5

LEMMA NextInv == Inv /\ [CoverageNext]_coverageVars => Inv'
<1> SUFFICES ASSUME Inv, [CoverageNext]_coverageVars PROVE Inv'
  OBVIOUS
<1>1. CASE NextTopology
  BY <1>1, NextTopologyInv
<1>2. CASE Simulate
  BY <1>2, SimulateInv DEF Simulate
<1>3. CASE WriteSidecar
  BY <1>3, WriteSidecarInv
<1>4. CASE ReadVerdict
  BY <1>4, ReadVerdictInv
<1>5. CASE SkipHammerhead
  BY <1>5, SkipHammerheadInv
<1>6. CASE ComputeAgreement
  <2>1. CASE UNCHANGED agreements
    BY <1>6, <2>1, NoScoreInv DEF ComputeAgreement
  <2>2. CASE agreements' # agreements
    BY <1>6, <2>2, ScoreInv DEF ComputeAgreement
  <2> QED
    BY <2>1, <2>2
<1>7. CASE RecordResult
  BY <1>7, RecordResultInv
<1>8. CASE StepRaises
  BY <1>8, NoScoreInv DEF StepRaises
<1>9. CASE Summarize
  BY <1>9, SummarizeInv
<1>10. CASE UNCHANGED coverageVars
  <2>1. UNCHANGED <<hook, step, topo, trial, sidecar, verdicts, agreements, summary>>
        /\ UNCHANGED <<heard, reply>>
    BY <1>10 DEF coverageVars, trialVars
  <2>2. Types' /\ Ahead'
    BY <2>1 DEF Inv, Types, Ahead
  <2>3. BetweenTrials' /\ InTrial' /\ Settled'
    BY <2>1 DEF Inv, BetweenTrials, InTrial, Settled
  <2>4. Summarized'
    BY <2>1 DEF Inv, Summarized, Of, Scored
  <2> QED
    BY <2>2, <2>3, <2>4 DEF Inv
<1> QED
  BY <1>1, <1>2, <1>3, <1>4, <1>5, <1>6, <1>7, <1>8, <1>9, <1>10 DEF CoverageNext

(* The inductive invariant holds.                                           *)
THEOREM InvHolds == CoverageSpec => []Inv
<1>1. CoverageInit => Inv
  BY InitInv
<1>2. Inv /\ [CoverageNext]_coverageVars => Inv'
  BY NextInv
<1> QED
  BY <1>1, <1>2, PTL DEF CoverageSpec

-----------------------------------------------------------------------------
LEMMA InvScored == Inv => ScoredWasAnswered
<1> SUFFICES ASSUME Inv, NEW t \in Scored, hook
             PROVE  /\ Len(heard[t]) = Trials
                    /\ \A i \in 1..Trials : Accepted(heard[t][i])
  BY DEF ScoredWasAnswered, Accepted
<1> QED
  BY DEF Inv, Settled, Scored, AllAccepted

(* A topology is scored only if every one of its Hammerhead processes       *)
(* ended with 0, or with 3 and a JSON that says degraded                    *)
(* (simulate_emit_rib_all and the trial loop of run_topology_sim_only).     *)
THEOREM ScoredHolds == CoverageSpec => []ScoredWasAnswered
<1>1. Inv => ScoredWasAnswered
  BY InvScored
<1> QED
  BY <1>1, InvHolds, PTL

-----------------------------------------------------------------------------
(* CoverageHonest, topology by topology.                                    *)

LEMMA SaidRecorded ==
  ASSUME Inv, NEW t \in T
  PROVE  /\ heard[t] \in Seq(Replies)
         /\ Said(heard[t]) \in Seq(Verdict)
         /\ DOMAIN Said(heard[t]) = 1..Len(heard[t])
         /\ DOMAIN heard[t] = 1..Len(heard[t])
         /\ \A i \in 1..Len(heard[t]) : Said(heard[t])[i] = Recorded(heard[t][i])
<1>1. heard[t] \in Seq(Replies)
  BY DEF Inv, Types
<1> QED
  BY <1>1, SaidType DEF Said

(* A verdict is "true" exactly if the process said so in some way.          *)
LEMMA RecordedTrue ==
  ASSUME NEW r \in Replies
  PROVE  Recorded(r) = "true" <=> r.degraded \in {"true", "truthy"}
BY CoverageAssumption DEF CoverageAssumption, Recorded, Reply, Value

(* And so "false".                                                          *)
LEMMA RecordedFalse ==
  ASSUME NEW r \in Replies
  PROVE  Recorded(r) = "false" <=> r.degraded \in {"false", "falsy"}
BY CoverageAssumption DEF CoverageAssumption, Recorded, Reply, Value

LEMMA DegradedSaid ==
  ASSUME Inv, NEW t \in T
  PROVE  DegradedTrials(Said(heard[t])) = Saying(t, {"true", "truthy"})
<1>1. \A i \in 1..Len(heard[t]) : heard[t][i] \in Replies
  BY SaidRecorded
<1>2. \A i \in 1..Len(heard[t]) :
        Said(heard[t])[i] = "true" <=> heard[t][i].degraded \in {"true", "truthy"}
  BY <1>1, SaidRecorded, RecordedTrue
<1> QED
  BY <1>2, SaidRecorded DEF DegradedTrials, Saying

(* The roll-up is degraded exactly if a trial is, and complete exactly if   *)
(* there are trials and all are.                                            *)
LEMMA RollupTrue ==
  ASSUME NEW vs \in Seq(Verdict)
  PROVE  Rollup(vs) = "true" <=> DegradedTrials(vs) # {}
BY DEF Rollup, DegradedTrials

LEMMA RollupFalse ==
  ASSUME NEW vs \in Seq(Verdict)
  PROVE  Rollup(vs) = "false" <=> vs # <<>> /\ \A i \in DOMAIN vs : vs[i] = "false"
BY DEF Rollup, DegradedTrials

(* The three verdicts of a scored topology, in terms of what was heard.     *)
LEMMA ScoredDegraded ==
  ASSUME Inv, NEW t \in Scored
  PROVE  /\ agreements[t].degraded = "true" <=> Saying(t, {"true", "truthy"}) # {}
         /\ agreements[t].degradedTrials = Cardinality(Saying(t, {"true", "truthy"}))
<1>1. t \in T /\ agreements[t].scored
  BY DEF Scored
<1>2. agreements[t].degraded = Rollup(Said(heard[t]))
      /\ agreements[t].degradedTrials = Cardinality(DegradedTrials(Said(heard[t])))
  BY <1>1 DEF Inv, Settled
<1> QED
  BY <1>1, <1>2, SaidRecorded, DegradedSaid, RollupTrue

LEMMA ScoredComplete ==
  ASSUME Inv, NEW t \in Scored
  PROVE  agreements[t].degraded = "false" <=>
           hook /\ Saying(t, {"false", "falsy"}) = 1..Trials
<1> DEFINE h == heard[t]
<1>1. t \in T /\ agreements[t].scored
  BY DEF Scored
<1>2. h \in Seq(Replies) /\ Said(h) \in Seq(Verdict) /\ DOMAIN Said(h) = 1..Len(h)
      /\ DOMAIN h = 1..Len(h)
  BY <1>1, SaidRecorded
<1>3. \A i \in 1..Len(h) : Said(h)[i] = "false" <=> h[i].degraded \in {"false", "falsy"}
  BY <1>1, <1>2, SaidRecorded, RecordedFalse
<1>4. agreements[t].degraded = Rollup(Said(h))
  BY <1>1 DEF Inv, Settled
<1>5. agreements[t].degraded = "false" <=>
        Said(h) # <<>> /\ \A i \in 1..Len(h) : h[i].degraded \in {"false", "falsy"}
  BY <1>2, <1>3, <1>4, RollupFalse
<1>6. CASE hook
  <2>1. Len(h) = Trials
    BY <1>1, <1>6 DEF Inv, Settled
  <2>2. Said(h) # <<>>
    BY <1>2, <2>1, SaidType, Constants
  <2>3. Saying(t, {"false", "falsy"}) = 1..Trials <=>
          \A i \in 1..Len(h) : h[i].degraded \in {"false", "falsy"}
    BY <1>2, <2>1 DEF Saying
  <2> QED
    BY <1>5, <1>6, <2>2, <2>3
<1>7. CASE ~hook
  <2>1. h = <<>>
    BY <1>1, <1>7 DEF Inv, Ahead
  <2> QED
    BY <1>5, <1>7, <2>1, SaidEmpty
<1> QED
  BY <1>6, <1>7

(* Where no reply is malformed, a value counts for what it is.              *)
LEMMA SayingWellFormed ==
  ASSUME NEW t \in WellFormed
  PROVE  /\ Saying(t, {"true", "truthy"}) = Saying(t, {"true"})
         /\ Saying(t, {"false", "falsy"}) = Saying(t, {"false"})
<1>1. \A i \in DOMAIN heard[t] : heard[t][i].degraded \notin {"truthy", "falsy"}
  BY DEF WellFormed, Saying
<1> QED
  BY <1>1 DEF Saying

LEMMA InvHonest ==
  ASSUME Inv
  PROVE  CoverageHonest
<1> DEFINE complete == {t \in Scored : hook /\ Saying(t, {"false"}) = 1..Trials}
           degraded == {t \in Scored : Saying(t, {"true"}) # {}}
           unknown == Scored \ (complete \cup degraded)
<1> SUFFICES ASSUME step = "done"
             PROVE
    /\ summary.complete \cup summary.degraded \cup summary.unknown = Scored
    /\ summary.complete \cap summary.degraded = {}
    /\ (summary.complete \cup summary.degraded) \cap summary.unknown = {}
    /\ summary.coveredComplete \subseteq summary.complete
    /\ summary.complete \cap WellFormed = complete \cap WellFormed
    /\ summary.degraded \cap WellFormed = degraded \cap WellFormed
    /\ summary.unknown \cap WellFormed = unknown \cap WellFormed
    /\ \A t \in degraded \cap WellFormed :
         /\ agreements[t].degradedTrials = Cardinality(Saying(t, {"true"}))
         /\ agreements[t].trials = Trials
  BY DEF CoverageHonest
<1>1. /\ summary.complete = Of("false") /\ summary.degraded = Of("true")
      /\ summary.unknown = Of("none") /\ summary.coveredComplete \subseteq Of("false")
  BY DEF Inv, Summarized
<1>2. \A t \in Scored : agreements[t].degraded \in {"true", "false", "none"}
  BY DEF Inv, Types, Agreement, Verdict, Scored
<1>3. Of("false") \cup Of("true") \cup Of("none") = Scored
  BY <1>2 DEF Of
<1>4. /\ Of("false") \cap Of("true") = {}
      /\ (Of("false") \cup Of("true")) \cap Of("none") = {}
  BY DEF Of
<1>5. Of("false") \cap WellFormed = complete \cap WellFormed
  BY ScoredComplete, SayingWellFormed DEF Of
<1>6. Of("true") \cap WellFormed = degraded \cap WellFormed
  BY ScoredDegraded, SayingWellFormed DEF Of
<1>7. Of("none") \cap WellFormed = unknown \cap WellFormed
  BY <1>3, <1>4, <1>5, <1>6
<1>8. ASSUME NEW t \in degraded \cap WellFormed
      PROVE  /\ agreements[t].degradedTrials = Cardinality(Saying(t, {"true"}))
             /\ agreements[t].trials = Trials
  <2>1. t \in T /\ agreements[t].scored /\ t \in Scored /\ t \in WellFormed
    BY DEF Scored
  <2>2. agreements[t].degradedTrials = Cardinality(Saying(t, {"true"}))
    BY <2>1, ScoredDegraded, SayingWellFormed
  <2>3. hook
    <3>1. SUFFICES ASSUME ~hook PROVE FALSE
      OBVIOUS
    <3>2. heard[t] = <<>>
      BY <2>1, <3>1 DEF Inv, Ahead
    <3> QED
      BY <3>2 DEF Saying
  <2>4. agreements[t].trials = Trials
    BY <2>1, <2>3 DEF Inv, Settled
  <2> QED
    BY <2>2, <2>4
<1> QED
  BY <1>1, <1>3, <1>4, <1>5, <1>6, <1>7, <1>8

(* Whatever the processes end with, bench_summary.json gives every scored   *)
(* topology one verdict, and each of them whose replies were well formed    *)
(* the one its processes gave (_read_hammerhead_coverage,                   *)
(* _rollup_hammerhead_coverage, summarize_hammerhead_coverage).             *)
THEOREM HonestHolds == CoverageSpec => []CoverageHonest
<1>1. Inv => CoverageHonest
  BY InvHonest
<1> QED
  BY <1>1, InvHolds, PTL
=============================================================================
