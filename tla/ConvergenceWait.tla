-------------------------- MODULE ConvergenceWait --------------------------
(***************************************************************************)
(* wait_for_convergence of the FRR and cEOS adapters, which run the same   *)
(* loop against vtysh and Cli: poll one node until all BGP sessions are    *)
(* Established and the route count has been stable for long enough, or     *)
(* until the hard cap.                                                     *)
(*                                                                         *)
(* A poll is two CLI calls, the BGP summary and then the route table, each *)
(* of which takes up to CallTimeout and may fail.  The node keeps changing *)
(* between any two calls: it is the environment, and so is the time that a *)
(* call takes.  time.sleep is taken as exact.                              *)
(***************************************************************************)
EXTENDS Integers

CONSTANTS
  SampleInterval,  \* CONVERGENCE_SAMPLE_INTERVAL_S
  Timeout,         \* CONVERGENCE_TIMEOUT_S, the hard cap
  RetryDelay,      \* the sleep after a failed poll
  DownDelay,       \* the sleep after a poll that saw a session down
  CallTimeout,     \* VTYSH_TIMEOUT_S / CLI_TIMEOUT_S
  Counts           \* route counts the node may show

ASSUME ConstantsAssumption ==
  /\ {Timeout, CallTimeout} \subseteq Nat
  /\ {SampleInterval, RetryDelay, DownDelay} \subseteq Nat \ {0}
  /\ RetryDelay <= SampleInterval /\ DownDelay <= SampleInterval
  /\ Counts \subseteq Nat

NoValue == -1  \* Python's None: neither a count nor a time

VARIABLES
  established,   \* the node: every BGP session is Established
  count,         \* the node: routes in its table
  now,           \* time since the wait began
  pc,            \* where the loop stands
  bgpOk,         \* bgp_ok
  prevCount,     \* prev_count
  stableSince,   \* stable_since
  result,        \* what wait_for_convergence returned
  streak,        \* history: successful polls in a row, failed ones aside,
                 \* that saw BGP up and one and the same count
  streakFrom,    \* history: when the first of them was taken
  streakCount,   \* history: the count they saw
  unrest         \* history: when the last poll failed, saw a session down
                 \* or saw another count than the poll before it

nodeVars == <<established, count>>
loopVars == <<bgpOk, prevCount, stableSince>>
histVars == <<streak, streakFrom, streakCount, unrest>>
waitVars == <<nodeVars, now, pc, loopVars, result, histVars>>

WaitInit ==
  /\ established \in BOOLEAN /\ count \in Counts
  /\ now = 0 /\ pc = "loop"
  /\ bgpOk = FALSE /\ prevCount = NoValue /\ stableSince = NoValue
  /\ result = "pending"
  /\ streak = 0 /\ streakFrom = 0 /\ streakCount = NoValue /\ unrest = 0

(* Sessions come and go and routes with them.                               *)
NodeChanges ==
  /\ pc # "done"
  /\ established' \in BOOLEAN /\ count' \in Counts
  /\ UNCHANGED <<now, pc, loopVars, result, histVars>>

(* `while time.monotonic() < deadline`.                                     *)
CheckDeadline ==
  /\ pc = "loop"
  /\ IF now < Timeout
       THEN pc' = "summary" /\ UNCHANGED result
       ELSE pc' = "done" /\ result' = "gave up"
  /\ UNCHANGED <<nodeVars, now, loopVars, histVars>>

MutRetryInPoll ==  \* a failed call is retried at once, inside the poll
  /\ pc \in {"summary", "routes"}
  /\ \E d \in 0..CallTimeout : now' = now + d + RetryDelay /\ unrest' = now + d
  /\ pc' = "summary"
  /\ UNCHANGED <<nodeVars, loopVars, result, streak, streakFrom, streakCount>>

MutNoRetryDelay ==  \* no sleep before the next poll
  /\ pc \in {"summary", "routes"}
  /\ \E d \in 0..CallTimeout : now' = now + d /\ unrest' = now + d
  /\ pc' = "loop"
  /\ UNCHANGED <<nodeVars, loopVars, result, streak, streakFrom, streakCount>>

(* Either call exits non-zero, times out or prints no JSON: `continue` after *)
(* a sleep, with prev_count and stable_since as they were.                  *)
CliCallFails ==
  /\ pc \in {"summary", "routes"}
  /\ \E d \in 0..CallTimeout :
       /\ now' = now + d + RetryDelay
       /\ unrest' = now + d
  /\ pc' = "loop"
  /\ UNCHANGED <<nodeVars, loopVars, result, streak, streakFrom, streakCount>>

(* `show bgp summary`, all_bgp_sessions_established.                        *)
ReadSummary ==
  /\ pc = "summary"
  /\ \E d \in 0..CallTimeout : now' = now + d
  /\ bgpOk' = established
  /\ pc' = "routes"
  /\ UNCHANGED <<nodeVars, prevCount, stableSince, result, histVars>>

(* What the poll that ends at time t adds to the history.                   *)
RecordDown(t) ==
  /\ streak' = 0 /\ unrest' = t
  /\ UNCHANGED <<streakFrom, streakCount>>

RecordCount(t) ==
  IF streak > 0 /\ streakCount = count
    THEN streak' = streak + 1 /\ UNCHANGED <<streakFrom, streakCount, unrest>>
    ELSE streak' = 1 /\ streakFrom' = t /\ streakCount' = count /\ unrest' = t

(* The poll saw a session down: start over.                                 *)
RouteCountBgpDown(t) ==
  /\ ~bgpOk
  /\ prevCount' = NoValue /\ stableSince' = NoValue
  /\ now' = t + DownDelay /\ pc' = "loop"
  /\ RecordDown(t)
  /\ UNCHANGED result

MutStableNoReturn(t) ==  \* stable_since is set again on every equal sample
  /\ bgpOk /\ prevCount = count
  /\ RecordCount(t)
  /\ stableSince' = t /\ now' = t + SampleInterval /\ pc' = "loop"
  /\ UNCHANGED <<prevCount, result>>

(* The same count again: converged once that has lasted SampleInterval.     *)
RouteCountStable(t) ==
  /\ bgpOk /\ prevCount = count
  /\ RecordCount(t)
  /\ \/ /\ stableSince # NoValue /\ t - stableSince >= SampleInterval
        /\ pc' = "done" /\ result' = "converged" /\ now' = t
        /\ UNCHANGED stableSince
     \/ /\ stableSince # NoValue => t - stableSince < SampleInterval
        /\ stableSince' = IF stableSince = NoValue THEN t ELSE stableSince
        /\ pc' = "loop" /\ now' = t + SampleInterval
        /\ UNCHANGED result
  /\ UNCHANGED prevCount

MutRouteCountMoved(t) ==  \* stable_since survives a changed count
  /\ bgpOk /\ prevCount # count
  /\ RecordCount(t)
  /\ prevCount' = count
  /\ pc' = "loop" /\ now' = t + SampleInterval
  /\ UNCHANGED <<stableSince, result>>

(* Another count than last time, or the first one.                          *)
RouteCountMoved(t) ==
  /\ bgpOk /\ prevCount # count
  /\ RecordCount(t)
  /\ prevCount' = count /\ stableSince' = NoValue
  /\ pc' = "loop" /\ now' = t + SampleInterval
  /\ UNCHANGED result

(* `show ip route vrf all`, total_route_count, and the rest of the loop.    *)
ReadRoutes ==
  /\ pc = "routes"
  /\ \E d \in 0..CallTimeout :
       \/ RouteCountBgpDown(now + d)
       \/ RouteCountStable(now + d)
       \/ RouteCountMoved(now + d)
  /\ UNCHANGED <<nodeVars, bgpOk>>

Loop == CheckDeadline \/ CliCallFails \/ ReadSummary \/ ReadRoutes

WaitNext == NodeChanges \/ Loop

(* Every CLI call returns within its timeout, so the loop keeps stepping.   *)
WaitFairness == WF_waitVars(Loop)

WaitSpec == WaitInit /\ [][WaitNext]_waitVars /\ WaitFairness

-----------------------------------------------------------------------------
(* Correctness.                                                             *)

(* Every variable keeps its type.                                           *)
WaitTypeOK ==
  /\ established \in BOOLEAN /\ count \in Counts
  /\ now \in Nat /\ pc \in {"loop", "summary", "routes", "done"}
  /\ bgpOk \in BOOLEAN
  /\ prevCount \in Counts \cup {NoValue}
  /\ stableSince \in Nat \cup {NoValue}
  /\ result \in {"pending", "converged", "gave up"}
  /\ streak \in Nat /\ streakFrom \in Nat
  /\ streakCount \in Counts \cup {NoValue} /\ unrest \in Nat

(* The contract of convergence.py: a node is only declared converged after  *)
(* polls that saw every session up and the same route count over two whole  *)
(* sampling intervals, which takes three of them.                           *)
ConvergedIsStable ==
  result = "converged" =>
    /\ bgpOk
    /\ streak >= 3
    /\ now - streakFrom >= 2 * SampleInterval

(* A node is only given up while it is restless: had the last failed, down  *)
(* or different poll been two intervals and one poll before the end, it     *)
(* would have been declared converged.                                      *)
TimeoutMeansUnrest ==
  result = "gave up" => now - unrest <= 2 * SampleInterval + 2 * CallTimeout

(* The wait ends at most one poll and one sleep after the hard cap.         *)
WaitBounded == now < Timeout + 2 * CallTimeout + SampleInterval

(* Whatever the node does, the wait comes to an end.                        *)
WaitEnds == <>(pc = "done")
=============================================================================
