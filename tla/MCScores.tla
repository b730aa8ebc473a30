------------------------------ MODULE MCScores ------------------------------
(* The three machines of Scores; the scoring has the values of MCFibDiff.   *)
EXTENDS MCFibDiff, Scores, Integers, TLC

(* Two cells and at most two routes at a time, of every kind, with every    *)
(* form of next hop; those that are not installed may stand beside one of   *)
(* the same cell that is.                                                   *)
R(kind, hops, path) == [kind |-> kind, hops |-> hops, path |-> path]

Shapes ==
  {R("connected", {"out"}, "p1"), R("local", {"out"}, "p1"), R("static", {}, "p1"),
   R("ospf", {"gw1", "gw2"}, "p1"), R("bgp", {"gw1"}, "p1"), R("bgp", {"gw1", "gw2"}, "p2"),
   R("isis", {"gw1"}, "p1"), R("kernel", {"out"}, "p1"), R("eigrp", {"gw1"}, "p1"),
   R("new", {"gw1"}, "p1"), R("new", {}, "p1")}

Spares == {s \in Shapes : s.kind \in {"bgp", "new"} /\ s.hops # {}}

At(cell, s, installed) ==
  [cell |-> cell, kind |-> s.kind, hops |-> s.hops, path |-> s.path, installed |-> installed]

RibRoutes ==
  {At(c, s, TRUE) : c \in Cells, s \in Shapes} \cup {At(c, s, FALSE) : c \in Cells, s \in Spares}

MCRibs == {{}} \cup {{r, s} : r \in RibRoutes, s \in RibRoutes}

(* For the runs where the routes make no difference, and where one discard  *)
(* route is enough.                                                         *)
MCDiscardRibs == {{}, {At(c, R("static", {}, "p1"), TRUE) : c \in Cells}}

MCPaths == {"p1", "p2"}

(* Times whose ratios are whole twelfths, missing or zero on either side,   *)
(* and with a sidecar that lacks one of them; a comparison of no rows, of   *)
(* rows that never meet and of rows that do, with each verdict.             *)
Unmeasured == -1

Timed(bfSim, hhSim, hhRib, bfWall, hhWall) ==
  [bfSim |-> bfSim, hhSim |-> hhSim, hhRib |-> hhRib, bfWall |-> bfWall, hhWall |-> hhWall]

MCTimes ==
  {Timed(6, 1, 2, 8, 4), Timed(2, 2, 2, 6, 3), Timed(4, 3, Unmeasured, 9, 3),
   Timed(3, 0, 1, 4, 2), Timed(0, 1, 1, 1, 2), Timed(Unmeasured, 1, 1, 5, 0),
   Timed(5, Unmeasured, Unmeasured, 3, Unmeasured)}

Compared(both, union, rate, bfRoutes, degraded) ==
  [both |-> both, union |-> union, rate |-> rate, bfRoutes |-> bfRoutes, degraded |-> degraded]

MCComparisons ==
  {Compared(0, 0, 100, 0, "unknown"), Compared(0, 4, 100, 0, "no"), Compared(2, 4, 50, 2, "no"),
   Compared(4, 4, 75, 6, "yes"), Compared(1, 4, 0, 4, "unknown")}

MCAgreements == {c @@ t : c \in MCComparisons, t \in MCTimes}

(* What the machines that do not run start with makes no difference.        *)
MCInit ==
  /\ ScoresInit
  /\ machine # "diff" => policy = "strip"
  /\ machine # "extract" => source = "frr" /\ rib = {}

MCSpec == MCInit /\ [][ScoresNext]_<<machine, vars, extraction, bench>>
=============================================================================
