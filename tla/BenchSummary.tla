---------------------------- MODULE BenchSummary ----------------------------
(***************************************************************************)
(* How the agreements of one sim-only bench become bench_summary.json:     *)
(* aggregate_sim_only (harness/pipeline.py) and the reductions of ratios   *)
(* (harness/aggregate.py).  The state is the list of agreements, which     *)
(* grows topology by topology, and what was made of it.                    *)
(*                                                                         *)
(* Numbers are exact here: a rate is a percentage, a ratio a number of     *)
(* Units, a mean the pair of a sum and a count.  One rate stands for the   *)
(* three (next hop, protocol, BGP), which are reduced alike.  The lists    *)
(* that the code filters are sets of positions here: xs at T.              *)
(***************************************************************************)
EXTENDS Integers, Sequences, FiniteSets

CONSTANTS
  Agreements,     \* what one topology may have measured
  Unit,           \* a ratio of one, in a unit that makes every ratio whole
  MaxTopologies   \* bound: topologies that are scored

VARIABLES
  agreements,  \* of the topologies scored so far, in order
  summary      \* bench_summary.json

vars == <<agreements, summary>>

None == -1  \* Python's None: no number here is negative

-----------------------------------------------------------------------------
(* One topology: SimOnlyAgreement.                                          *)

(* hammerhead_simulate_plus_rib_s: a sidecar of an older version lacks the  *)
(* second number.                                                           *)
SimulatePlusRib(a) ==
  IF a.hhSim # None /\ a.hhRib # None THEN a.hhSim + a.hhRib ELSE a.hhSim

Over(bf, hh) == IF None \in {bf, hh} \/ hh <= 0 THEN None ELSE (Unit * bf) \div hh

Quantities == {"fair", "wall", "asym"}

(* solve_plus_materialize_ratio, wall_ratio, solve_ratio.                   *)
RatioOf(quantity, a) ==
  CASE quantity = "fair" -> Over(a.bfSim, SimulatePlusRib(a))
    [] quantity = "wall" -> Over(a.bfWall, a.hhWall)
    [] quantity = "asym" -> Over(a.bfSim, a.hhSim)

(* coverage: nothing on either side is full overlap.                        *)
Presence(a) == IF a.union = 0 THEN 100 ELSE (100 * a.both) \div a.union

(* What the scoring of a topology may give: times that were measured or not *)
(* and that the unit suits; of rows that never meet, full agreement.        *)
Time == Nat \cup {None}

Agreement ==
  [bfSim : Time, hhSim : Time, hhRib : Time, bfWall : Time, hhWall : Time,
   both : Nat, union : Nat, rate : 0..100, bfRoutes : Nat, degraded : {"no", "yes", "unknown"}]

WellScored(a) ==
  /\ a \in Agreement /\ (a.both = 0 => a.rate = 100)
  /\ \A hh \in {a.hhSim, SimulatePlusRib(a), a.hhWall} : hh > 0 => Unit % hh = 0

-----------------------------------------------------------------------------
(* harness/aggregate.py.                                                    *)

SumOf(T, xs) ==
  LET upTo[i \in 0..Len(xs)] ==
        IF i = 0 THEN 0 ELSE upTo[i - 1] + (IF i \in T THEN xs[i] ELSE 0)
  IN upTo[Len(xs)]

ProductOf(T, xs) ==
  LET upTo[i \in 0..Len(xs)] ==
        IF i = 0 THEN 1 ELSE upTo[i - 1] * (IF i \in T THEN xs[i] ELSE 1)
  IN upTo[Len(xs)]

(* sorted, of xs at T: a value with fewer than k below it and at least k up *)
(* to it has rank k.                                                        *)
Sorted(T, xs) ==
  [k \in 1..Cardinality(T) |->
     CHOOSE x \in {xs[i] : i \in T} :
       /\ Cardinality({i \in T : xs[i] < x}) < k
       /\ k <= Cardinality({i \in T : xs[i] <= x})]

(* _quantile at k quarters: in quarters of the unit of xs.                  *)
Quantile(xs, k) ==
  LET pos == k * (Len(xs) - 1)
      lo == pos \div 4 + 1
  IN IF pos % 4 = 0 THEN 4 * xs[lo] ELSE 4 * xs[lo] + (pos % 4) * (xs[lo + 1] - xs[lo])

(* _mk_samples: a ratio that is missing becomes zero, and so does the       *)
(* weight of no routes become one.                                          *)
Ratios(quantity, as) ==
  [i \in DOMAIN as |->
     IF RatioOf(quantity, as[i]) = None THEN 0 ELSE RatioOf(quantity, as[i])]

Weights(as) == [i \in DOMAIN as |-> IF as[i].bfRoutes > 0 THEN as[i].bfRoutes ELSE 1]

MutExcluded(ratio) == ratio < 0  \* zero passes for a measurement

(* _exclusion_reason.                                                       *)
Excluded(ratio) == ratio <= 0

(* The reductions of the ratios that are used.  The logarithm of the        *)
(* geometric mean is that of the product, over the count.                   *)
Reductions(used, ratios, weights) ==
  LET sorted == Sorted(used, ratios)
      n == Cardinality(used)
  IN [arithmetic |-> <<SumOf(used, ratios), n>>,
      geometric |-> <<ProductOf(used, ratios), n>>,
      weighted |-> <<SumOf(used, [i \in DOMAIN ratios |-> weights[i] * ratios[i]]),
                     SumOf(used, weights)>>,
      p25 |-> Quantile(sorted, 1), median |-> Quantile(sorted, 2),
      p75 |-> Quantile(sorted, 3), min |-> sorted[1], max |-> sorted[n]]

(* summarize_ratios: of no ratio every reduction is None.                   *)
SummarizeRatios(ratios, weights) ==
  LET used == {i \in DOMAIN ratios : ~Excluded(ratios[i])}
  IN [total |-> Len(ratios), used |-> Cardinality(used),
      excluded |-> {i \in DOMAIN ratios : Excluded(ratios[i])},
      means |-> IF used = {} THEN None ELSE Reductions(used, ratios, weights)]

-----------------------------------------------------------------------------
(* aggregate_sim_only.                                                      *)

(* _mean of xs at T: of nothing it is one.                                  *)
Mean(T, xs) == IF T = {} THEN <<100, 1>> ELSE <<SumOf(T, xs), Cardinality(T)>>

NoMean == <<>>

(* _mean_or_none.                                                           *)
MeanOrNone(T, xs) == IF T = {} THEN NoMean ELSE Mean(T, xs)

MutCovered(as) == {i \in DOMAIN as : as[i].union > 0}  \* a row on one side is enough

Covered(as) == {i \in DOMAIN as : as[i].both > 0}

Saying(verdict, as) == {i \in DOMAIN as : as[i].degraded = verdict}

Rates(as) == [i \in DOMAIN as |-> as[i].rate]

(* summarize_hammerhead_coverage, and what aggregate_sim_only adds to it.   *)
CoverageBlock(as) ==
  LET complete == Covered(as) \cap Saying("no", as)
  IN [complete |-> Cardinality(Saying("no", as)), degraded |-> Cardinality(Saying("yes", as)),
      unknown |-> Cardinality(Saying("unknown", as)),
      coveredComplete |-> Cardinality(complete), rate |-> MeanOrNone(complete, Rates(as))]

(* Where no topology was scored there is the verdicts' block only.          *)
Scoring(as) ==
  [covered |-> Cardinality(Covered(as)),
   presence |-> Mean(DOMAIN as, [i \in DOMAIN as |-> Presence(as[i])]),
   naive |-> Mean(DOMAIN as, Rates(as)), rate |-> Mean(Covered(as), Rates(as)),
   bfRoutes |-> SumOf(DOMAIN as, [i \in DOMAIN as |-> as[i].bfRoutes]),
   ratios |-> [q \in Quantities |-> SummarizeRatios(Ratios(q, as), Weights(as))]]

AggregateSimOnly(as) ==
  [topologies |-> Len(as), verdicts |-> CoverageBlock(as),
   scoring |-> IF as = <<>> THEN None ELSE Scoring(as)]

-----------------------------------------------------------------------------
(* _run_bench_sim_only, of which SimOnlyBench has the rest.                 *)

NoSummary == [topologies |-> None]

Init == agreements = <<>> /\ summary = NoSummary

(* A topology passes.                                                       *)
TopologyScored ==
  /\ summary = NoSummary /\ Len(agreements) < MaxTopologies
  /\ \E a \in Agreements : agreements' = Append(agreements, a)
  /\ UNCHANGED summary

WriteSummary ==
  /\ summary = NoSummary
  /\ summary' = AggregateSimOnly(agreements)
  /\ UNCHANGED agreements

Next == TopologyScored \/ WriteSummary

Spec == Init /\ [][Next]_vars

-----------------------------------------------------------------------------
(* Correctness.                                                             *)

Scored == summary # NoSummary /\ agreements # <<>>

(* pair is a mean of numbers from lo to hi.                                 *)
Between(lo, pair, hi) == lo * pair[2] <= pair[1] /\ pair[1] <= hi * pair[2]

(* The list of the agreements at T alone.                                   *)
Those(T, as) ==
  LET upTo[i \in 0..Len(as)] ==
        IF i = 0 THEN <<>>
        ELSE IF i \in T THEN Append(upTo[i - 1], as[i]) ELSE upTo[i - 1]
  IN upTo[Len(as)]

Power(x, n) == ProductOf(1..n, [i \in 1..n |-> x])

(* Each published speedup is a mean of its own numbers: in order, within    *)
(* their range, the geometric mean not above the arithmetic one.            *)
InOrder(s) ==
  LET m == s.means
  IN s.used > 0 =>
       /\ 0 < m.min /\ 4 * m.min <= m.p25 /\ m.p25 <= m.median
       /\ m.median <= m.p75 /\ m.p75 <= 4 * m.max
       /\ Between(m.min, m.arithmetic, m.max) /\ Between(m.min, m.weighted, m.max)
       /\ m.geometric[1] * Power(s.used, s.used) <= Power(m.arithmetic[1], s.used)

(* No reduction of a is above the one of b.                                 *)
NeverAbove(a, b) ==
  /\ a.arithmetic[1] <= b.arithmetic[1] /\ a.weighted[1] <= b.weighted[1]
  /\ a.geometric[1] <= b.geometric[1]
  /\ \A f \in {"p25", "median", "p75", "min", "max"} : a[f] <= b[f]

(* The topologies where one of two times was not measured.                  *)
Lacking(bf, hh, as) == {i \in DOMAIN as : ~(as[i][bf] > 0 /\ as[i][hh] > 0)}

(* The published speedups are those of the topologies where both sides were *)
(* measured, whether or not they have a route, and of no other; each        *)
(* reduction is one of these numbers; and the ratio said to favour          *)
(* Hammerhead is never the lower one.                                       *)
SpeedupOfTheMeasured ==
  Scored =>
    LET fair == summary.scoring.ratios["fair"]
        wall == summary.scoring.ratios["wall"]
        asym == summary.scoring.ratios["asym"]
    IN /\ wall.excluded = Lacking("bfWall", "hhWall", agreements)
       /\ asym.excluded = Lacking("bfSim", "hhSim", agreements)
       /\ fair.excluded \subseteq asym.excluded
       /\ fair.excluded = asym.excluded /\ fair.used > 0 => NeverAbove(fair.means, asym.means)
       /\ \A s \in {fair, wall, asym} :
            InOrder(s) /\ s.used = Len(agreements) - Cardinality(s.excluded)

(* The means called covered rest on the topologies where the simulators     *)
(* were compared at all: the others change neither these nor the means for  *)
(* complete coverage, and only ever flatter the naive one.  A verdict of    *)
(* Hammerhead about itself moves nothing outside the block of the verdicts, *)
(* and that block counts every topology once.                               *)
HonestMeans ==
  Scored =>
    LET compared == Those({i \in DOMAIN agreements : agreements[i].both > 0}, agreements)
        alone == AggregateSimOnly(compared)
        blind == AggregateSimOnly(
                   [i \in DOMAIN agreements |-> [agreements[i] EXCEPT !.degraded = "unknown"]])
        v == summary.verdicts
        mean == summary.scoring
        rates == {compared[i].rate : i \in DOMAIN compared}
    IN /\ compared # <<>> =>
            /\ alone.scoring.naive = mean.rate /\ alone.verdicts.rate = v.rate
            /\ mean.rate[1] * mean.naive[2] <= mean.naive[1] * mean.rate[2]
            /\ \A lo \in rates : (\A x \in rates : lo <= x) => Between(lo, mean.rate, 100)
       /\ [blind EXCEPT !.verdicts = v] = summary
       /\ v.complete + v.degraded + v.unknown = Len(agreements)
       /\ v.coveredComplete <= v.complete /\ v.coveredComplete <= mean.covered
       /\ (v.rate = NoMean) <=> ~\E i \in DOMAIN compared : compared[i].degraded = "no"

-----------------------------------------------------------------------------
(* What the documentation says and the code does not do.                    *)

(* pipeline.py:2147: "A zero-route topology (e.g. Batfish parser crash)     *)
(* still appears in samples via excluded with the exclusion reason": no     *)
(* speedup is of a topology where Batfish computed no route.                *)
ZeroRoutesExcluded ==
  Scored => \A q \in Quantities :
    {i \in DOMAIN agreements : agreements[i].bfRoutes = 0}
      \subseteq summary.scoring.ratios[q].excluded
=============================================================================
