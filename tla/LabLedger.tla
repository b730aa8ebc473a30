----------------------------- MODULE LabLedger -----------------------------
(***************************************************************************)
(* What the bench promises about labs, without saying how: topologies are  *)
(* taken in order, only the current one's lab changes, and a topology is   *)
(* closed with containers left on the host only when it is excused, which  *)
(* is to say that the bench tells its operator about it.                   *)
(***************************************************************************)
EXTENDS Naturals

CONSTANT NumTopologies

VARIABLES
  next,     \* the topology being run; NumTopologies + 1 after the last
  live,     \* topologies with containers on the host
  excused   \* closed topologies the operator has been told about

vars == <<next, live, excused>>

Init == next = 1 /\ live = {} /\ excused = {}

(* The current topology's lab comes up or goes away.                        *)
Touch ==
  /\ next <= NumTopologies
  /\ live' \in {live \cup {next}, live \ {next}}
  /\ UNCHANGED <<next, excused>>

(* The current topology is closed, with an excuse if its lab is still up.   *)
Close ==
  /\ next <= NumTopologies
  /\ excused' \in {excused, excused \cup {next}}
  /\ next \in live => next \in excused'
  /\ next' = next + 1
  /\ UNCHANGED live

Next == Touch \/ Close

Spec == Init /\ [][Next]_vars
=============================================================================
