--------------------------- MODULE MCTopologyRun ---------------------------
(* A host of 3 units of memory and two labs of cap 1, so that the guard     *)
(* passes on a clean host and with one lab left behind, and refuses once a  *)
(* Batfish container of 2 has leaked.                                       *)
EXTENDS TopologyRun

MCCap == <<1, 1>>
MCUsage == <<1, 1>>

(* Both simulators without --keep-lab-on-failure, and the vendor-only bench *)
(* (--no-batfish --no-hammerhead) with it.                                  *)
MCCommandLines ==
  {[keep |-> FALSE, batfish |-> TRUE,  hammerhead |-> TRUE],
   [keep |-> TRUE,  batfish |-> FALSE, hammerhead |-> FALSE]}
=============================================================================
