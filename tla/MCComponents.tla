---------------------------- MODULE MCComponents ----------------------------
(* Four small parts of the harness, which share no state: a behaviour runs  *)
(* one of them and leaves the others where they rest, so that each is       *)
(* checked as if it were alone.                                             *)
EXTENDS ConvergenceWait, PeakSampler, BatfishService, HammerheadCoverage

VARIABLE component  \* which one runs

(* Memory that can go down as well as up, and every exit status of          *)
(* Hammerhead with every value of the key.                                  *)
MCMb == {1, 2}
MCReplies == Reply

(* A bench without routers has no wait to make, and one without containers  *)
(* no call to measure; the other two may rest where they begin.             *)
WaitRests ==
  /\ established = FALSE /\ count = 0 /\ now = 0 /\ pc = "done" /\ result = "pending"
  /\ bgpOk = FALSE /\ prevCount = NoValue /\ stableSince = NoValue
  /\ streak = 0 /\ streakFrom = 0 /\ streakCount = NoValue /\ unrest = 0

SamplerRests ==
  /\ callPc = "between" /\ cur = NumCalls + 1 /\ usage = 1
  /\ stop = [k \in Calls |-> FALSE] /\ thread = [k \in Calls |-> "unstarted"]
  /\ answer = [k \in Calls |-> 0] /\ locked = [k \in Calls |-> FALSE]
  /\ peak = [k \in Calls |-> 0] /\ samples = [k \in Calls |-> 0]
  /\ reading = [k \in Calls |-> NoReading]
  /\ window = [k \in Calls |-> {}] /\ seen = [k \in Calls |-> <<>>]

MCInit ==
  /\ component \in {"wait", "sampler", "service", "coverage"}
  /\ IF component = "wait" THEN WaitInit ELSE WaitRests
  /\ IF component = "sampler" THEN SamplerInit ELSE SamplerRests
  /\ Init
  /\ CoverageInit /\ (component # "coverage" => hook)

MCNext ==
  /\ UNCHANGED component
  /\ \/ component = "wait" /\ WaitNext
        /\ UNCHANGED <<samplerVars, vars, coverageVars>>
     \/ component = "sampler" /\ SamplerNext
        /\ UNCHANGED <<waitVars, vars, coverageVars>>
     \/ component = "service" /\ Next
        /\ UNCHANGED <<waitVars, samplerVars, coverageVars>>
     \/ component = "coverage" /\ CoverageNext
        /\ UNCHANGED <<waitVars, samplerVars, vars>>

MCSpec ==
  /\ MCInit /\ [][MCNext]_<<component, waitVars, samplerVars, vars, coverageVars>>
  /\ WaitFairness /\ SamplerFairness
=============================================================================
