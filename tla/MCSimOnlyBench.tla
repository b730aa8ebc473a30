-------------------------- MODULE MCSimOnlyBench --------------------------
(* Two topologies of two trials each, so that a call can follow a failed    *)
(* one on the same service; a container for each of the four one-shot       *)
(* calls, so that an attempt to attach may also use one up; one node, whose *)
(* FIB files of an earlier bench may be there.                              *)
EXTENDS SimOnlyBench

(* The default bench, and the one-shot bench; a bench that skips Batfish.   *)
MCCommandLines ==
  {[persistent |-> TRUE,  batfish |-> TRUE,  hammerhead |-> TRUE],
   [persistent |-> FALSE, batfish |-> TRUE,  hammerhead |-> FALSE],
   [persistent |-> TRUE,  batfish |-> FALSE, hammerhead |-> TRUE]}
=============================================================================
