------------------------------- MODULE Scores -------------------------------
(***************************************************************************)
(* The way of a route into the published numbers, in three machines: a     *)
(* source's routes become rows (FibExtract), files become counts           *)
(* (FibDiff), agreements become the summary (BenchSummary).  What one of   *)
(* them leaves on disk is an input of the next, which takes whatever it    *)
(* may find there; so a behaviour runs one of the three.                   *)
(***************************************************************************)
EXTENDS FibDiff

CONSTANTS
  Paths, Ribs,                     \* of FibExtract; its cells are those of FibDiff
  Agreements, Unit, MaxTopologies  \* of BenchSummary

VARIABLES
  machine,                                                   \* which one runs
  source, rib, phase, routesDoc, bgpDoc, extracted, ribRead, \* of FibExtract
  agreements, summary                                        \* of BenchSummary

extraction == <<source, rib, phase, routesDoc, bgpDoc, extracted, ribRead>>
bench == <<agreements, summary>>

Fx == INSTANCE FibExtract WITH fib <- extracted

Bench == INSTANCE BenchSummary

(* The unit is there only to keep ratios whole: of finitely many times, any *)
(* common multiple will do.                                                 *)
ASSUME AgreementsAssumption == Unit \in Nat \ {0} /\ \A a \in Agreements : Bench!WellScored(a)

ScoresInit ==
  /\ Init /\ Fx!Init /\ Bench!Init
  /\ machine \in {"extract", "diff", "summary"}

ScoresNext ==
  /\ UNCHANGED machine
  /\ \/ machine = "extract" /\ Fx!Next /\ UNCHANGED <<vars, bench>>
     \/ machine = "diff" /\ Next /\ UNCHANGED <<extraction, bench>>
     \/ machine = "summary" /\ Bench!Next /\ UNCHANGED <<vars, extraction>>

ScoresSpec == ScoresInit /\ [][ScoresNext]_<<machine, vars, extraction, bench>>

(* FibExtract's: the files of a source say what it held, whatever its format. *)
SameRoutes == Fx!SameRoutes

(* FibExtract's: a row has the attributes of its own best path.             *)
OwnAttributes == Fx!OwnAttributes

(* BenchSummary's: the speedups are of the topologies that were measured.   *)
SpeedupOfTheMeasured == Bench!SpeedupOfTheMeasured

(* BenchSummary's: the means are of the topologies that were compared.      *)
HonestMeans == Bench!HonestMeans

-----------------------------------------------------------------------------
(* What the documentation says and the code does not do.                    *)

(* BenchSummary's: a topology without routes has no speedup.                *)
ZeroRoutesExcluded == Bench!ZeroRoutesExcluded

(* README.md:106: "Canonicalization collapses the Batfish sentinels [...]   *)
(* null_interface [...] so a syntactic difference between the two tools'    *)
(* descriptors of [...] null interface does not manufacture a               *)
(* disagreement": Hammerhead's rows of a discard route agree with what      *)
(* Batfish's of the same one are, whichever descriptors the two print.      *)
NullInterfacesAgree ==
  phase = "done" /\ source = "hammerhead" =>
    \A r \in ribRead, row \in extracted :
      Fx!InScope(r) /\ r.hops = {} /\ row.cell = r.cell =>
        \A z \in Fx!NoAddress("batfish"), n \in Fx!NoInterface("batfish") :
          NextHopsAgree(row, [hops |-> Fx!NextHops("batfish", {Fx!DiscardHop(z, n)})])
=============================================================================
