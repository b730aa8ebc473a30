---------------------------- MODULE PeakSampler ----------------------------
(***************************************************************************)
(* harness/peak_rss.py:DockerStatsSampler, the only second thread of the   *)
(* harness, as BatfishService.run_one uses it: every call has a sampler of *)
(* its own, started before the work and stopped in a `finally`.            *)
(*                                                                         *)
(* No step has a duration here.  `docker stats` may take as long as it     *)
(* likes, so a join may time out on a poll in flight, and the thread of    *)
(* one call may still run during the next ones.                            *)
(*                                                                         *)
(* Its names are none of ConvergenceWait's: some modules extend both.      *)
(***************************************************************************)
EXTENDS Naturals, Sequences

CONSTANTS
  NumCalls,  \* run_one calls of the service
  Mb,        \* memory sizes the container may have
  MaxPolls   \* bound: polls of one thread that are answered

Calls == 1..NumCalls

ASSUME SamplerAssumption ==
  {NumCalls, MaxPolls} \subseteq Nat /\ Mb \subseteq Nat /\ Mb # {}

VARIABLES
  callPc,    \* where run_one stands
  cur,       \* the call being made
  usage,     \* the memory the container takes
  stop,      \* stop[k]: _stop of call k's sampler is set
  thread,    \* thread[k]: where _run of call k's sampler stands
  answer,    \* answer[k]: what `docker stats` read for the poll in flight
  peak,      \* peak[k]: _peak_mb
  samples,   \* samples[k]: _samples
  locked,    \* locked[k]: thread k holds _lock
  reading,   \* reading[k]: the PeakRssReading of call k; its mb is a set of
             \* one number, or of none for Python's None
  window,    \* history: sizes the container had while call k was measured
  seen       \* history: the polls call k's thread has counted

threadVars == <<stop, thread, answer, peak, samples, locked>>
samplerHistory == <<window, seen>>
samplerVars == <<callPc, cur, usage, threadVars, reading, samplerHistory>>

NoReading == [mb |-> {}, count |-> 0]

SamplerInit ==
  /\ callPc = "between" /\ cur = 1
  /\ usage \in Mb
  /\ stop = [k \in Calls |-> FALSE]
  /\ thread = [k \in Calls |-> "unstarted"]
  /\ answer = [k \in Calls |-> 0]
  /\ peak = [k \in Calls |-> 0] /\ samples = [k \in Calls |-> 0]
  /\ locked = [k \in Calls |-> FALSE]
  /\ reading = [k \in Calls |-> NoReading]
  /\ window = [k \in Calls |-> {}]
  /\ seen = [k \in Calls |-> <<>>]

-----------------------------------------------------------------------------
(* The harness's thread: run_one.                                           *)

(* DockerStatsSampler(...) and its start(); the work of the call begins.    *)
(* When no thread can be started the call goes on without a sampler.        *)
StartSampler ==
  /\ callPc = "between" /\ cur \in Calls
  /\ \/ /\ thread' = [thread EXCEPT ![cur] = "head"]
        /\ window' = [window EXCEPT ![cur] = {usage}]
     \/ UNCHANGED <<thread, window>>
  /\ callPc' = "work"
  /\ UNCHANGED <<cur, usage, stop, answer, peak, samples, locked, reading, seen>>

(* The work returns or raises: the `finally` block calls stop().            *)
SetStop ==
  /\ callPc = "work"
  /\ IF thread[cur] = "unstarted" THEN callPc' = "next" /\ UNCHANGED stop
     ELSE callPc' = "join" /\ stop' = [stop EXCEPT ![cur] = TRUE]
  /\ UNCHANGED <<cur, usage, thread, answer, peak, samples, locked, reading,
                 samplerHistory>>

MutJoin ==  \* join() without a timeout
  /\ callPc = "join"
  /\ thread[cur] = "done"
  /\ callPc' = "read"
  /\ UNCHANGED <<cur, usage, threadVars, reading, samplerHistory>>

(* join(timeout): the thread is done, or it is not and the wait is over.    *)
Join ==
  /\ callPc = "join"
  /\ callPc' = "read"
  /\ UNCHANGED <<cur, usage, threadVars, reading, samplerHistory>>

MutRead ==  \* the reading is taken without the lock
  /\ callPc = "read"
  /\ reading' = [reading EXCEPT ![cur] =
       [mb |-> IF samples[cur] > 0 THEN {peak[cur]} ELSE {}, count |-> samples[cur]]]
  /\ callPc' = "next"
  /\ UNCHANGED <<cur, usage, threadVars, samplerHistory>>

(* The reading, under the lock.                                             *)
Read ==
  /\ callPc = "read" /\ ~locked[cur]
  /\ reading' = [reading EXCEPT ![cur] =
       [mb |-> IF samples[cur] > 0 THEN {peak[cur]} ELSE {}, count |-> samples[cur]]]
  /\ callPc' = "next"
  /\ UNCHANGED <<cur, usage, threadVars, samplerHistory>>

(* run_one is left, by its return or by the exception.                      *)
Leave ==
  /\ callPc = "next"
  /\ callPc' = "between" /\ cur' = cur + 1
  /\ UNCHANGED <<usage, threadVars, reading, samplerHistory>>

HarnessThread == StartSampler \/ SetStop \/ Join \/ Read \/ Leave

-----------------------------------------------------------------------------
(* The thread of call k: _run.                                              *)

(* `while not self._stop.is_set()`                                          *)
CheckStop(k) ==
  /\ thread[k] = "head"
  /\ thread' = [thread EXCEPT ![k] = IF stop[k] THEN "done" ELSE "poll"]
  /\ UNCHANGED <<callPc, cur, usage, stop, answer, peak, samples, locked, reading,
                 samplerHistory>>

(* The subprocess is started; `docker stats` looks at the container.        *)
Poll(k) ==
  /\ thread[k] = "poll"
  /\ answer' = [answer EXCEPT ![k] = usage]
  /\ thread' = [thread EXCEPT ![k] = "answer"]
  /\ UNCHANGED <<callPc, cur, usage, stop, peak, samples, locked, reading, samplerHistory>>

(* Exit status, timeout, missing binary, OSError or an answer that does not *)
(* parse: the poll is not counted.                                          *)
PollFails(k) ==
  /\ thread[k] = "answer"
  /\ answer' = [answer EXCEPT ![k] = 0]
  /\ thread' = [thread EXCEPT ![k] = "wait"]
  /\ UNCHANGED <<callPc, cur, usage, stop, peak, samples, locked, reading, samplerHistory>>

(* With the lock: _peak_mb is raised ...                                    *)
KeepPeak(k) ==
  /\ thread[k] = "answer" /\ ~locked[k] /\ samples[k] < MaxPolls
  /\ peak' = [peak EXCEPT ![k] = IF answer[k] > @ THEN answer[k] ELSE @]
  /\ seen' = [seen EXCEPT ![k] = Append(@, answer[k])]
  /\ locked' = [locked EXCEPT ![k] = TRUE]
  /\ thread' = [thread EXCEPT ![k] = "count"]
  /\ UNCHANGED <<callPc, cur, usage, stop, answer, samples, reading, window>>

(* ... and _samples goes up.                                                *)
CountSample(k) ==
  /\ thread[k] = "count"
  /\ samples' = [samples EXCEPT ![k] = @ + 1]
  /\ locked' = [locked EXCEPT ![k] = FALSE]
  /\ answer' = [answer EXCEPT ![k] = 0]
  /\ thread' = [thread EXCEPT ![k] = "wait"]
  /\ UNCHANGED <<callPc, cur, usage, stop, peak, reading, samplerHistory>>

(* _stop.wait(interval) ends: after the interval, or because _stop is set.  *)
Wait(k) ==
  /\ thread[k] = "wait"
  /\ thread' = [thread EXCEPT ![k] = "head"]
  /\ UNCHANGED <<callPc, cur, usage, stop, answer, peak, samples, locked, reading,
                 samplerHistory>>

Run(k) == CheckStop(k) \/ Poll(k) \/ PollFails(k) \/ KeepPeak(k) \/ CountSample(k) \/ Wait(k)

(* The container takes more or less memory; calls being measured see it.    *)
MemoryMoves ==
  /\ usage' \in Mb \ {usage}
  /\ window' = [k \in Calls |-> IF callPc # "between" /\ cur = k /\ window[k] # {}
                                 THEN window[k] \cup {usage'} ELSE window[k]]
  /\ UNCHANGED <<callPc, cur, threadVars, reading, seen>>

SamplerNext == HarnessThread \/ (\E k \in Calls : Run(k)) \/ MemoryMoves

(* Every thread keeps going, except that a poll may never come back.        *)
SamplerFairness ==
  /\ WF_samplerVars(HarnessThread)
  /\ \A k \in Calls : WF_samplerVars(CheckStop(k) \/ Poll(k) \/ CountSample(k) \/ Wait(k))

SamplerSpec == SamplerInit /\ [][SamplerNext]_samplerVars /\ SamplerFairness

-----------------------------------------------------------------------------
(* Correctness.                                                             *)

(* "Max over every successful poll": a reading's number is the highest of   *)
(* exactly as many polls as it says it counted, there is one if and only if *)
(* it counted any, and the container had that size while this very call was *)
(* made, whatever threads of earlier calls were still polling.              *)
ReadingIsRight ==
  \A k \in Calls :
    LET n == reading[k].count
    IN /\ n <= Len(seen[k])
       /\ (reading[k].mb = {}) = (n = 0)
       /\ \A mb \in reading[k].mb :
            /\ mb \in window[k]
            /\ \E i \in 1..n : seen[k][i] = mb
            /\ \A i \in 1..n : seen[k][i] <= mb

(* A poll that never comes back holds up nothing but its own thread: every  *)
(* call is left, and every other thread ends.                               *)
NothingHangs ==
  /\ <>(cur = NumCalls + 1)
  /\ \A k \in Calls : <>[](thread[k] \in {"unstarted", "answer", "done"})
=============================================================================
