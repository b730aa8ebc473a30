--------------------------- MODULE MCFrrOnlyTruth ---------------------------
(* The host of MCTopologyRun: its guard refuses once a Batfish container    *)
(* has leaked, which here happens between two collections.                  *)
EXTENDS FrrOnlyTruth

MCCap == <<1, 1>>
MCUsage == <<1, 1>>

(* Two eligible topologies with both simulators, and one behind a fallback  *)
(* without Hammerhead.                                                      *)
MCBenches ==
  {[hooks |-> {"batfish", "hammerhead"}, eligible |-> {1, 2}],
   [hooks |-> {"batfish"}, eligible |-> {2}]}

(* An earlier bench ran all three, or this is the first.                    *)
MCLeftBehind == {{}, Sources}
=============================================================================
