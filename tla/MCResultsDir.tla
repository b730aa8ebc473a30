---------------------------- MODULE MCResultsDir ----------------------------
(* Two topologies, so that a bench may take one of them and so that both    *)
(* verdicts and both layouts of --frr-only-truth meet; two writing          *)
(* processes, the fewest that leave one's files beside the other's.         *)
EXTENDS ResultsDir

MCTopologies == {1, 2}
MCModes == {"smoke", "with_truth", "sim_only", "frr_only_truth"}
MCHookSets == {{"batfish"}, Simulators}
MCVerdict == [t \in MCTopologies |-> IF t = 1 THEN "complete" ELSE "degraded"]
MCEligible == {1}
=============================================================================
