----------------------- MODULE BatfishService_proofs -----------------------
(***************************************************************************)
(* Proofs about BatfishService, for any number of containers and calls.    *)
(*                                                                         *)
(* Why the properties hold: container ids are never used twice, the object *)
(* is fresh (calls = 0) whenever it holds no container, and, the ports     *)
(* being fixed, nothing else runs while it holds one.                      *)
(***************************************************************************)
EXTENDS BatfishService, SequenceTheorems, TLAPS

(* Ids are handed out in order; what is on record was handed out before.    *)
OldIds ==
  /\ container <= created /\ startCost <= created
  /\ \A c \in running \cup lost : c <= created
  /\ \A i \in DOMAIN stats : stats[i].by <= created

(* Without a container the object is as good as new.                        *)
Fresh ==
  /\ container = None => ~session /\ calls = 0
  /\ phase = "docker run" => container = None
  /\ phase \in {"wait ready", "abort"} => ~session /\ calls = 0

(* With one, that container alone can be running; and a session stands on   *)
(* the container whose start was timed.                                     *)
Held ==
  /\ container # None => running \subseteq {container}
  /\ phase \in {"wait ready", "abort", "query"} => container # None
  /\ phase = "query" => session
  /\ phase = "idle" /\ container # None => session
  /\ session => startCost = container

(* The call counter tells whether the container answered before.            *)
Counted ==
  /\ container # None /\ calls = 0 =>
       container \notin lost /\ \A i \in DOMAIN stats : stats[i].by # container
  /\ calls > 0 =>
       container \in lost \/ \E i \in DOMAIN stats : stats[i].by = container

(* StartChargedOnce, call by call.                                          *)
Charges ==
  /\ \A i \in DOMAIN stats : stats[i].charged \in {None, stats[i].by}
  /\ \A i, j \in DOMAIN stats :
       stats[i].charged # None /\ stats[i].charged = stats[j].charged => i = j
  /\ \A i \in DOMAIN stats : stats[i].by \notin lost =>
       \E j \in DOMAIN stats : stats[j].charged = stats[i].by

Inv ==
  /\ TypeOK /\ OldIds /\ Fresh /\ Held /\ Counted /\ Charges
  /\ NothingLeaks /\ OwnAnswers /\ WarmIsWarm

-----------------------------------------------------------------------------
LEMMA Constants ==
  /\ MaxContainers \in Nat /\ MaxCalls \in Nat
  /\ \A c \in Container : c \in Nat /\ c # None
<1> QED
  BY ServiceAssumption DEF ServiceAssumption, Container, None

(* TypeOK, in the form that arithmetic needs.                               *)
LEMMA Numbers ==
  ASSUME TypeOK
  PROVE  /\ created \in Nat /\ created <= MaxContainers
         /\ container \in Nat /\ startCost \in Nat /\ calls \in Nat
         /\ issued \in Nat /\ issued <= MaxCalls
         /\ running \subseteq Nat /\ lost \subseteq Nat
         /\ \A i \in DOMAIN stats : stats[i].by \in Nat
<1>1. created \in 0..MaxContainers /\ issued \in 0..MaxCalls
  BY DEF TypeOK
<1>2. created \in Nat /\ created <= MaxContainers /\ issued \in Nat /\ issued <= MaxCalls
  BY <1>1, Constants
<1>3. container \in Container \cup {None} /\ startCost \in Container \cup {None}
  BY DEF TypeOK
<1>4. container \in Nat /\ startCost \in Nat
  BY <1>3, Constants DEF None
<1>5. calls \in Nat
  BY DEF TypeOK
<1>6. running \subseteq Container /\ lost \subseteq Container
  BY DEF TypeOK
<1>7. running \subseteq Nat /\ lost \subseteq Nat
  BY <1>6, Constants
<1>8. stats \in Seq(StatsRecord)
  BY DEF TypeOK
<1>9. \A i \in DOMAIN stats : stats[i] \in StatsRecord
  BY <1>8
<1>10. \A i \in DOMAIN stats : stats[i].by \in Container
  BY <1>9 DEF StatsRecord
<1>11. \A i \in DOMAIN stats : stats[i].by \in Nat
  BY <1>10, Constants
<1> QED
  BY <1>2, <1>4, <1>5, <1>7, <1>11

LEMMA InvInit == Init => Inv
<1> SUFFICES ASSUME Init
             PROVE  Inv
  OBVIOUS
<1> USE Constants DEF Init, FreshObject
<1>1. stats \in Seq(StatsRecord) /\ DOMAIN stats = {}
  OBVIOUS
<1>2. TypeOK
  <2>1. created \in 0..MaxContainers /\ issued \in 0..MaxCalls
    OBVIOUS
  <2>2. calls \in Nat
    OBVIOUS
  <2> QED
    BY <1>1, <2>1, <2>2 DEF TypeOK
<1>3. OldIds /\ Fresh /\ Held
  BY <1>1 DEF OldIds, Fresh, Held, None
<1>4. Counted /\ Charges
  BY <1>1 DEF Counted, Charges
<1>5. NothingLeaks /\ OwnAnswers /\ WarmIsWarm
  BY <1>1 DEF NothingLeaks, OwnAnswers, WarmIsWarm
<1> QED
  BY <1>2, <1>3, <1>4, <1>5 DEF Inv

(* The part of the invariant that is about the record of the calls depends  *)
(* on these four variables alone.                                           *)
Recorded == Counted /\ Charges /\ OwnAnswers /\ WarmIsWarm

LEMMA RecordedUnchanged ==
  ASSUME Recorded, UNCHANGED <<container, calls, stats, lost>>
  PROVE  Recorded'
<1> QED
  BY DEF Recorded, Counted, Charges, OwnAnswers, WarmIsWarm

(* CreateContainer hands out an id that is not on record yet.               *)
LEMMA NewContainer ==
  ASSUME TypeOK, OldIds, CreateContainer
  PROVE  /\ created' \in Container /\ created' # None
         /\ created' = created + 1 /\ created' \in 0..MaxContainers
         /\ running' = {created'}
         /\ created' \notin lost
         /\ \A i \in DOMAIN stats : stats[i].by # created'
<1> USE Constants
<1>1. created \in 0..MaxContainers /\ created < MaxContainers
  BY DEF TypeOK, CreateContainer
<1>2. created' = created + 1 /\ running' = {created'}
  BY DEF CreateContainer
<1>3. created' \in Container /\ created' # None /\ created' \in 0..MaxContainers
  BY <1>1, <1>2 DEF Container, None
<1>4. created' \notin lost
  BY <1>1, <1>2 DEF OldIds
<1>5. \A i \in DOMAIN stats : stats[i].by # created'
  BY <1>1, <1>2 DEF OldIds
<1> QED
  BY <1>2, <1>3, <1>4, <1>5

LEMMA StartInv == Inv /\ Start => Inv'
<1> SUFFICES ASSUME Inv, Start
             PROVE  Inv'
  OBVIOUS
<1> USE DEF Start, dockerVars, historyVars
<1>1. TypeOK'
  BY DEF Inv, TypeOK
<1>2. OldIds' /\ Fresh' /\ Held' /\ NothingLeaks'
  BY DEF Inv, OldIds, Fresh, Held, NothingLeaks
<1>3. Recorded'
  BY RecordedUnchanged DEF Inv, Recorded
<1> QED
  BY <1>1, <1>2, <1>3 DEF Inv, Recorded

LEMMA DockerRunInv == Inv /\ DockerRun => Inv'
<1> SUFFICES ASSUME Inv, DockerRun
             PROVE  Inv'
  OBVIOUS
<1> USE Constants
<1>0. TypeOK /\ OldIds /\ Fresh
  BY DEF Inv
<1>1. CreateContainer /\ container' = created' /\ phase' = "wait ready"
  BY DEF DockerRun
<1>2. UNCHANGED <<inCall, session, calls, startCost, issued, stats, lost, excused>>
  BY DEF DockerRun
<1>3. /\ created' \in Container /\ created' # None
      /\ created' = created + 1 /\ created' \in 0..MaxContainers
      /\ running' = {created'}
      /\ created' \notin lost
      /\ \A i \in DOMAIN stats : stats[i].by # created'
  BY <1>0, <1>1, NewContainer
<1>4. ~session /\ calls = 0
  BY <1>0 DEF DockerRun, Fresh
<1>5. TypeOK'
  BY <1>0, <1>1, <1>2, <1>3 DEF TypeOK
<1>6. OldIds'
  <2>1. created \in Nat /\ lost \subseteq Nat
    BY <1>0, Numbers
  <2>2. startCost \in Nat /\ startCost <= created
    BY <1>0, Numbers DEF OldIds
  <2>3. container' <= created' /\ startCost' <= created'
    <3>1. container' = created' /\ startCost' = startCost
      BY <1>1, <1>2
    <3>2. created' = created + 1
      BY <1>3
    <3> QED
      BY <3>1, <3>2, <2>1, <2>2
  <2>4. \A c \in running' \cup lost' : c <= created'
    BY <1>0, <1>2, <1>3, <2>1 DEF OldIds
  <2>5. \A i \in DOMAIN stats : stats[i].by \in Nat /\ stats[i].by <= created
    BY <1>0, Numbers DEF OldIds
  <2>6. \A i \in DOMAIN stats' : stats'[i].by <= created'
    BY <1>2, <1>3, <2>1, <2>5
  <2> QED
    BY <2>3, <2>4, <2>6 DEF OldIds
<1>7. Fresh' /\ Held' /\ NothingLeaks'
  BY <1>1, <1>2, <1>3, <1>4 DEF Fresh, Held, NothingLeaks
<1>8. Recorded'
  <2>1. Counted'
    <3>1. calls' = 0 /\ container' = created'
      BY <1>1, <1>2, <1>4
    <3>2. created' \notin lost' /\ \A i \in DOMAIN stats' : stats'[i].by # created'
      BY <1>2, <1>3
    <3> QED
      BY <3>1, <3>2 DEF Counted
  <2>2. Charges' /\ OwnAnswers' /\ WarmIsWarm'
    BY <1>2 DEF Inv, Charges, OwnAnswers, WarmIsWarm
  <2> QED
    BY <2>1, <2>2 DEF Recorded
<1> QED
  BY <1>5, <1>6, <1>7, <1>8 DEF Inv, Recorded

LEMMA DockerRunFailsInv == Inv /\ DockerRunFails => Inv'
<1> SUFFICES ASSUME Inv, DockerRunFails
             PROVE  Inv'
  OBVIOUS
<1> USE Constants
<1>0. TypeOK /\ OldIds /\ Fresh
  BY DEF Inv
<1>1. phase' \in {"idle", "interrupted"} /\ container = None
  BY <1>0 DEF DockerRunFails, Fresh
<1>2. UNCHANGED <<inCall, container, session, calls, startCost, issued,
                  stats, lost>>
  BY DEF DockerRunFails, objectVars
<1>3. Recorded'
  BY <1>2, RecordedUnchanged DEF Inv, Recorded
<1>4. Fresh' /\ Held'
  BY <1>1, <1>2 DEF Inv, Fresh, Held
<1>5. CASE UNCHANGED <<running, created, excused>>
  <2>1. TypeOK' /\ OldIds' /\ NothingLeaks'
    BY <1>1, <1>2, <1>5 DEF Inv, TypeOK, OldIds, NothingLeaks
  <2> QED
    BY <2>1, <1>3, <1>4 DEF Inv, Recorded
<1>6. CASE CreateContainer /\ excused' = excused \cup running'
  <2>1. /\ created' \in Container
        /\ created' = created + 1 /\ created' \in 0..MaxContainers
        /\ running' = {created'}
    BY <1>0, <1>6, NewContainer
  <2>2. TypeOK'
    BY <1>0, <1>1, <1>2, <1>6, <2>1 DEF TypeOK
  <2>3. NothingLeaks'
    BY <1>6 DEF NothingLeaks
  <2>4. created \in Nat /\ container \in Nat /\ startCost \in Nat /\ lost \subseteq Nat
    BY <1>0, Numbers
  <2>5. container' <= created' /\ startCost' <= created'
    BY <1>0, <1>2, <2>1, <2>4 DEF OldIds
  <2>6. \A c \in running' \cup lost' : c <= created'
    BY <1>0, <1>2, <2>1, <2>4 DEF OldIds
  <2>7. \A i \in DOMAIN stats : stats[i].by \in Nat /\ stats[i].by <= created
    BY <1>0, Numbers DEF OldIds
  <2>8. \A i \in DOMAIN stats' : stats'[i].by <= created'
    BY <1>2, <2>1, <2>4, <2>7
  <2> QED
    BY <2>2, <2>3, <2>5, <2>6, <2>8, <1>3, <1>4 DEF Inv, OldIds, Recorded
<1> QED
  BY <1>5, <1>6 DEF DockerRunFails, dockerVars

LEMMA ReadinessInv == Inv /\ (BecomeReady \/ NotReady) => Inv'
<1> SUFFICES ASSUME Inv, BecomeReady \/ NotReady
             PROVE  Inv'
  OBVIOUS
<1>1. UNCHANGED <<container, calls, stats, lost, running, created, excused,
                  inCall, issued>>
  BY DEF BecomeReady, NotReady, objectVars, dockerVars, historyVars
<1>2. /\ container # None /\ calls = 0
      /\ phase' \in {"query", "idle", "abort", "interrupted"}
  BY DEF BecomeReady, NotReady, Inv, Held, Fresh
<1>3. session' \in BOOLEAN /\ startCost' \in {startCost, container}
  BY DEF BecomeReady, NotReady, Inv, TypeOK, objectVars
<1>4. TypeOK'
  BY <1>1, <1>2, <1>3 DEF Inv, TypeOK
<1>5. OldIds' /\ NothingLeaks'
  BY <1>1, <1>3 DEF Inv, OldIds, NothingLeaks
<1>6. Fresh'
  <2>1. phase' = "abort" => ~session'
    BY DEF BecomeReady, NotReady, objectVars, Inv, Fresh
  <2> QED
    BY <1>1, <1>2, <2>1 DEF Fresh
<1>7. Held'
  <2>1. session' => startCost' = container
    BY DEF BecomeReady, NotReady, objectVars, Inv, Held
  <2>2. phase' \in {"query", "idle"} => session'
    BY DEF BecomeReady, NotReady
  <2> QED
    BY <1>1, <1>2, <2>1, <2>2 DEF Inv, Held
<1>8. Recorded'
  BY <1>1, RecordedUnchanged DEF Inv, Recorded
<1> QED
  BY <1>4, <1>5, <1>6, <1>7, <1>8 DEF Inv, Recorded

(* docker rm takes away the container held, or else it is excused.          *)
LEMMA Stopped ==
  ASSUME Inv, container # None, StopContainer
  PROVE  /\ running' \subseteq running
         /\ running' \subseteq excused'
         /\ excused' \subseteq Container
<1>1. running \subseteq {container} /\ container \in Container
  BY DEF Inv, Held, TypeOK
<1>2. excused \subseteq Container
  BY DEF Inv, TypeOK
<1> QED
  BY <1>1, <1>2 DEF StopContainer

(* Close and Abort leave an object that holds nothing.                      *)
LEMMA Released ==
  ASSUME Inv,
         container' = None, session' = FALSE, calls' = 0,
         startCost' \in {startCost, None},
         inCall' = inCall,
         UNCHANGED <<created, issued, stats, lost>>,
         phase' \in {"idle", "ended"},
         running' \subseteq running, running' \subseteq excused',
         excused' \subseteq Container
  PROVE  Inv'
<1> USE Constants
<1>1. TypeOK'
  <2>1. /\ startCost' \in Container \cup {None} /\ created' \in 0..MaxContainers
        /\ running' \subseteq Container /\ calls' \in Nat
    BY DEF Inv, TypeOK
  <2>2. /\ inCall' \in BOOLEAN /\ issued' \in 0..MaxCalls
        /\ stats' \in Seq(StatsRecord) /\ lost' \subseteq Container
    BY DEF Inv, TypeOK
  <2> QED
    BY <2>1, <2>2 DEF TypeOK
<1>2. OldIds'
  <2>1. created \in Nat
    BY Numbers DEF Inv
  <2> QED
    BY <2>1 DEF Inv, OldIds, None
<1>3. Fresh' /\ Held' /\ NothingLeaks'
  BY DEF Fresh, Held, NothingLeaks
<1>4. Counted' /\ Charges' /\ OwnAnswers' /\ WarmIsWarm'
  BY DEF Inv, Counted, Charges, OwnAnswers, WarmIsWarm
<1> QED
  BY <1>1, <1>2, <1>3, <1>4 DEF Inv

LEMMA AbortInv == Inv /\ Abort => Inv'
<1> SUFFICES ASSUME Inv, Abort
             PROVE  Inv'
  OBVIOUS
<1>1. container # None /\ calls = 0
  BY DEF Inv, Held, Fresh, Abort
<1>2. running' \subseteq running /\ running' \subseteq excused' /\ excused' \subseteq Container
  BY <1>1, Stopped DEF Abort
<1>3. calls' = 0
  BY <1>1 DEF Abort, Inv, TypeOK
<1> QED
  BY <1>2, <1>3, Released DEF Abort

LEMMA CloseInv == Inv /\ Close => Inv'
<1> SUFFICES ASSUME Inv, Close
             PROVE  Inv'
  OBVIOUS
<1>1. running' \subseteq running /\ running' \subseteq excused' /\ excused' \subseteq Container
  <2>1. CASE container = None
    <3>1. running' = running /\ excused' = excused
      BY <2>1 DEF Close
    <3>2. running \subseteq {None} \cup excused /\ excused \subseteq Container
      BY <2>1 DEF Inv, NothingLeaks, TypeOK
    <3>3. None \notin running
      BY Constants DEF Inv, TypeOK
    <3> QED
      BY <3>1, <3>2, <3>3
  <2>2. CASE container # None
    BY <2>2, Stopped DEF Close
  <2> QED
    BY <2>1, <2>2
<1>2. phase' \in {"idle", "ended"}
  BY DEF Close
<1> QED
  BY <1>1, <1>2, Released DEF Close

LEMMA RunOneInv == Inv /\ RunOne => Inv'
<1> SUFFICES ASSUME Inv, RunOne
             PROVE  Inv'
  OBVIOUS
<1>1. UNCHANGED <<container, session, calls, startCost, running, created, stats,
                  lost, excused>>
  BY DEF RunOne, dockerVars
<1>2. TypeOK'
  <2>1. issued' \in 0..MaxCalls
    <3>1. issued \in Nat /\ issued < MaxCalls /\ issued' = issued + 1
      BY Numbers, Constants DEF RunOne, Inv
    <3> QED
      BY <3>1, Constants
  <2>2. inCall' = TRUE
    BY DEF RunOne
  <2>3. phase' \in {"docker run", "query"}
    BY DEF RunOne
  <2> QED
    BY <1>1, <2>1, <2>2, <2>3 DEF Inv, TypeOK
<1>3. OldIds' /\ NothingLeaks'
  BY <1>1 DEF Inv, OldIds, NothingLeaks
<1>4. Fresh' /\ Held'
  <2>1. phase = "idle"
    BY DEF RunOne
  <2>2. \/ container = None /\ phase' = "docker run"
        \/ container # None /\ phase' = "query"
    BY DEF RunOne
  <2> QED
    BY <1>1, <2>1, <2>2 DEF Inv, Fresh, Held
<1>5. Recorded'
  BY <1>1, RecordedUnchanged DEF Inv, Recorded
<1> QED
  BY <1>2, <1>3, <1>4, <1>5 DEF Inv, Recorded

LEMMA ReturnStatsInv == Inv /\ ReturnStats => Inv'
<1> SUFFICES ASSUME Inv, ReturnStats
             PROVE  Inv'
  OBVIOUS
<1> USE Constants
<1>0. TypeOK /\ OldIds /\ Held /\ Counted /\ Charges
  BY DEF Inv
<1>1. /\ phase' = "idle" /\ calls' = calls + 1
      /\ UNCHANGED <<inCall, container, session, startCost, running, created,
                     issued, lost, excused>>
  BY DEF ReturnStats, dockerVars
<1>2. /\ container \in Container /\ container # None
      /\ session /\ startCost = container /\ running \subseteq {container}
  BY <1>0 DEF ReturnStats, Held, TypeOK
<1>3. calls \in Nat /\ calls' \in Nat /\ calls' > 0
  <2>1. calls \in Nat
    BY <1>0, Numbers
  <2> QED
    BY <1>1, <2>1
<1> DEFINE cost == IF Warm THEN None ELSE container
           call == [by |-> container, answered |-> container, warm |-> Warm, charged |-> cost]
           n == Len(stats) + 1
<1>4. stats' = Append(stats, call)
  BY <1>2 DEF ReturnStats
<1>5. call \in StatsRecord
  BY <1>2, <1>3 DEF StatsRecord, Warm
<1>6. /\ stats \in Seq(StatsRecord) /\ stats' \in Seq(StatsRecord)
      /\ DOMAIN stats = 1..Len(stats) /\ Len(stats) \in Nat
      /\ DOMAIN stats' = 1..n /\ stats'[n] = call
      /\ \A i \in 1..Len(stats) : stats'[i] = stats[i]
  <2> HIDE DEF call
  <2>1. stats \in Seq(StatsRecord)
    BY <1>0 DEF TypeOK
  <2>2. DOMAIN stats = 1..Len(stats) /\ Len(stats) \in Nat
    BY <2>1
  <2>3. stats' \in Seq(StatsRecord) /\ DOMAIN stats' = 1..n
    BY <2>1, <2>2, <1>4, <1>5
  <2>4. stats'[n] = call
    BY <2>1, <2>2, <1>4, <1>5
  <2>5. \A i \in 1..Len(stats) : stats'[i] = stats[i]
    BY <2>1, <2>2, <1>4, <1>5
  <2> QED
    BY <2>1, <2>2, <2>3, <2>4, <2>5
<1> HIDE DEF call, cost, n
<1>7. call.by = container /\ call.answered = container /\ call.warm = Warm
  BY DEF call
<1>8. call.charged = cost /\ cost = IF Warm THEN None ELSE container
  BY DEF call, cost
<1>9. /\ n \in DOMAIN stats' /\ n = Len(stats) + 1
      /\ \A i \in DOMAIN stats' : i = n \/ (i \in DOMAIN stats /\ stats'[i] = stats[i])
      /\ \A i \in DOMAIN stats : i \in DOMAIN stats' /\ i \in 1..(n - 1)
  <2>1. Len(stats) \in Nat /\ n = Len(stats) + 1 /\ DOMAIN stats' = 1..n
    BY <1>6 DEF n
  <2>2. \A i \in 1..n : i = n \/ i \in 1..Len(stats)
    BY <2>1
  <2>3. \A i \in 1..Len(stats) : i \in 1..n /\ i \in 1..(n - 1)
    BY <2>1
  <2>4. n \in 1..n
    BY <2>1
  <2>5. DOMAIN stats = 1..Len(stats) /\ \A i \in 1..Len(stats) : stats'[i] = stats[i]
    BY <1>6
  <2> HIDE DEF n
  <2>6. \A i \in DOMAIN stats' : i = n \/ (i \in DOMAIN stats /\ stats'[i] = stats[i])
    BY <2>1, <2>2, <2>5
  <2>7. \A i \in DOMAIN stats : i \in DOMAIN stats' /\ i \in 1..(n - 1)
    BY <2>1, <2>3, <2>5
  <2> QED
    BY <2>1, <2>4, <2>6, <2>7
<1>10. TypeOK'
  BY <1>0, <1>1, <1>3, <1>6 DEF TypeOK
<1>11. OldIds'
  <2>1. \A i \in DOMAIN stats' : stats'[i].by <= created
    BY <1>0, <1>6, <1>7, <1>9 DEF OldIds
  <2> QED
    BY <1>0, <1>1, <2>1 DEF OldIds
<1>12. Fresh' /\ Held' /\ NothingLeaks'
  BY <1>0, <1>1, <1>2 DEF Inv, Fresh, Held, NothingLeaks
<1>13. Counted'
  <2>1. stats'[n].by = container'
    BY <1>1, <1>6, <1>7
  <2> QED
    BY <1>3, <1>9, <2>1 DEF Counted
<1>14. OwnAnswers'
  BY <1>6, <1>7, <1>9 DEF Inv, OwnAnswers
<1>15. WarmIsWarm'
  <2> SUFFICES ASSUME NEW i \in DOMAIN stats', stats'[i].warm
               PROVE  \/ \E j \in 1..(i - 1) : stats'[j].by = stats'[i].by
                      \/ stats'[i].by \in lost
    BY <1>1 DEF WarmIsWarm
  <2>1. CASE i = n
    <3>1. calls > 0
      BY <2>1, <1>6, <1>7 DEF Warm
    <3>2. container \in lost \/ \E j \in DOMAIN stats : stats[j].by = container
      BY <1>0, <3>1 DEF Counted
    <3> QED
      BY <2>1, <3>2, <1>6, <1>7, <1>9
  <2>2. CASE i # n
    <3>1. i \in DOMAIN stats /\ stats'[i] = stats[i] /\ i \in 1..Len(stats)
      BY <2>2, <1>6, <1>9
    <3>2. \/ \E j \in 1..(i - 1) : stats[j].by = stats[i].by
          \/ stats[i].by \in lost
      BY <3>1 DEF Inv, WarmIsWarm
    <3>3. \A j \in 1..(i - 1) : stats'[j] = stats[j]
      BY <3>1, <1>6
    <3> QED
      BY <3>1, <3>2, <3>3
  <2> QED
    BY <2>1, <2>2
<1>16. Charges'
  <2>1. \A i \in DOMAIN stats' : stats'[i].charged \in {None, stats'[i].by}
    BY <1>0, <1>6, <1>7, <1>8, <1>9 DEF Charges
  <2>2. ASSUME NEW i \in DOMAIN stats', NEW j \in DOMAIN stats',
               stats'[i].charged # None, stats'[i].charged = stats'[j].charged
        PROVE  i = j
    <3>1. ASSUME NEW k \in DOMAIN stats, cost # None, stats[k].charged = cost
          PROVE  FALSE
      <4>1. calls = 0 /\ cost = container
        BY <3>1, <1>3, <1>8 DEF Warm
      <4>2. stats[k].by = container
        BY <3>1, <4>1, <1>0, <1>2 DEF Charges
      <4> QED
        BY <4>1, <4>2, <1>0, <1>2 DEF Counted
    <3>2. CASE i \in DOMAIN stats /\ j \in DOMAIN stats
      BY <3>2, <2>2, <1>0, <1>6 DEF Charges
    <3>3. CASE i = n /\ j # n
      BY <3>3, <3>1, <2>2, <1>6, <1>8, <1>9
    <3>4. CASE i # n /\ j = n
      BY <3>4, <3>1, <2>2, <1>6, <1>8, <1>9
    <3> QED
      BY <3>2, <3>3, <3>4, <1>9
  <2>3. ASSUME NEW i \in DOMAIN stats', stats'[i].by \notin lost
        PROVE  \E j \in DOMAIN stats' : stats'[j].charged = stats'[i].by
    <3>1. ASSUME NEW k \in DOMAIN stats, stats[k].by = stats'[i].by
          PROVE  \E j \in DOMAIN stats' : stats'[j].charged = stats'[i].by
      <4>1. PICK j \in DOMAIN stats : stats[j].charged = stats[k].by
        BY <3>1, <2>3, <1>0 DEF Charges
      <4> QED
        BY <4>1, <3>1, <1>6, <1>9
    <3>2. CASE i \in DOMAIN stats
      BY <3>2, <3>1, <1>6
    <3>3. CASE i = n /\ calls = 0
      <4>1. stats'[n].charged = stats'[n].by
        BY <3>3, <1>6, <1>7, <1>8 DEF Warm
      <4> QED
        BY <3>3, <4>1, <1>9
    <3>4. CASE i = n /\ calls # 0
      <4>1. stats'[i].by = container
        BY <3>4, <1>6, <1>7
      <4>2. \E k \in DOMAIN stats : stats[k].by = container
        BY <3>4, <4>1, <2>3, <1>0, <1>3 DEF Counted
      <4> QED
        BY <3>1, <4>1, <4>2
    <3> QED
      BY <3>2, <3>3, <3>4, <1>9
  <2> QED
    BY <1>1, <2>1, <2>2, <2>3 DEF Charges
<1> QED
  BY <1>10, <1>11, <1>12, <1>13, <1>14, <1>15, <1>16 DEF Inv

LEMMA CallFailsInv == Inv /\ CallFails => Inv'
<1> SUFFICES ASSUME Inv, CallFails
             PROVE  Inv'
  OBVIOUS
<1> USE DEF CallFails, objectVars, dockerVars, historyVars
<1>1. TypeOK'
  BY DEF Inv, TypeOK
<1>2. OldIds' /\ NothingLeaks'
  BY DEF Inv, OldIds, NothingLeaks
<1>3. Fresh' /\ Held'
  BY DEF Inv, Fresh, Held
<1>4. Recorded'
  BY RecordedUnchanged DEF Inv, Recorded
<1> QED
  BY <1>1, <1>2, <1>3, <1>4 DEF Inv, Recorded

LEMMA SidecarFailsInv == Inv /\ SidecarFails => Inv'
<1> SUFFICES ASSUME Inv, SidecarFails
             PROVE  Inv'
  OBVIOUS
<1>1. /\ phase' \in {"idle", "interrupted"} /\ calls' = calls + 1
      /\ lost' = lost \cup {container}
      /\ UNCHANGED <<inCall, container, session, startCost, running, created,
                     issued, stats, excused>>
  BY DEF SidecarFails, dockerVars
<1>2. container \in Container /\ container # None /\ session
  BY DEF SidecarFails, Inv, Held, TypeOK
<1>3. calls' \in Nat /\ calls' > 0
  <2>1. calls \in Nat
    BY Numbers DEF Inv
  <2> QED
    BY <1>1, <2>1
<1>4. TypeOK'
  BY <1>1, <1>2, <1>3 DEF Inv, TypeOK
<1>5. OldIds'
  BY <1>1 DEF Inv, OldIds
<1>6. Fresh' /\ Held' /\ NothingLeaks'
  <2>1. Fresh'
    BY <1>1, <1>2 DEF Fresh
  <2>2. Held' /\ NothingLeaks'
    BY <1>1, <1>2 DEF Inv, Held, NothingLeaks
  <2> QED
    BY <2>1, <2>2
<1>7. Counted'
  BY <1>1, <1>2, <1>3 DEF Counted
<1>8. Charges' /\ OwnAnswers' /\ WarmIsWarm'
  BY <1>1 DEF Inv, Charges, OwnAnswers, WarmIsWarm
<1> QED
  BY <1>4, <1>5, <1>6, <1>7, <1>8 DEF Inv

LEMMA ContainerExitsInv == Inv /\ ContainerExits => Inv'
<1> SUFFICES ASSUME Inv, ContainerExits
             PROVE  Inv'
  OBVIOUS
<1>1. /\ running' \subseteq running
      /\ UNCHANGED <<phase, inCall, container, session, calls, startCost, created,
                     issued, stats, lost, excused>>
  BY DEF ContainerExits, objectVars, historyVars
<1>2. TypeOK'
  BY <1>1 DEF Inv, TypeOK
<1>3. OldIds' /\ Fresh' /\ Held' /\ NothingLeaks'
  BY <1>1 DEF Inv, OldIds, Fresh, Held, NothingLeaks
<1>4. Recorded'
  BY <1>1, RecordedUnchanged DEF Inv, Recorded
<1> QED
  BY <1>2, <1>3, <1>4 DEF Inv, Recorded

LEMMA InvStutter == Inv /\ UNCHANGED vars => Inv'
<1> SUFFICES ASSUME Inv, UNCHANGED vars
             PROVE  Inv'
  OBVIOUS
<1> USE DEF vars, objectVars, dockerVars, historyVars
<1>1. TypeOK'
  BY DEF Inv, TypeOK
<1>2. OldIds' /\ Fresh' /\ Held' /\ NothingLeaks'
  BY DEF Inv, OldIds, Fresh, Held, NothingLeaks
<1>3. Recorded'
  BY RecordedUnchanged DEF Inv, Recorded
<1> QED
  BY <1>1, <1>2, <1>3 DEF Inv, Recorded

-----------------------------------------------------------------------------
(* The invariant holds of every behaviour of the service, whatever its      *)
(* client and docker do.                                                    *)
THEOREM Invariance == Spec => []Inv
<1>1. Inv /\ [Next]_vars => Inv'
  BY StartInv, RunOneInv, CloseInv, DockerRunInv, DockerRunFailsInv, ReadinessInv,
     AbortInv, ReturnStatsInv, CallFailsInv, SidecarFailsInv, ContainerExitsInv,
     InvStutter DEF Next, Call
<1> QED
  BY <1>1, InvInit, PTL DEF Spec

(* BatfishService keeps its fields typed through every call.                *)
THEOREM TypeCorrect == Spec => []TypeOK
<1>1. Inv => TypeOK
  BY DEF Inv
<1> QED
  BY <1>1, Invariance, PTL

(* start, run_one and close never lose a running container: one that runs   *)
(* is held by the service or docker was at fault.                           *)
THEOREM NothingIsLeaked == Spec => []NothingLeaks
<1>1. Inv => NothingLeaks
  BY DEF Inv
<1> QED
  BY <1>1, Invariance, PTL

(* Every BatfishStats of run_one comes from the service's own container.    *)
THEOREM AnswersAreOwn == Spec => []OwnAnswers
<1>1. Inv => OwnAnswers
  BY DEF Inv
<1> QED
  BY <1>1, Invariance, PTL

(* container_start_s is charged to one call of a container, and to one at   *)
(* least when no counted call was lost.                                     *)
THEOREM StartIsChargedOnce == Spec => []StartChargedOnce
<1>1. Inv => StartChargedOnce
  <2> SUFFICES ASSUME Inv, NEW c \in Container
               PROVE  LET Of == {i \in DOMAIN stats : stats[i].by = c}
                          Charged == {i \in DOMAIN stats : stats[i].charged = c}
                      IN /\ \A i, j \in Charged : i = j
                         /\ Of # {} /\ c \notin lost => Charged # {}
                         /\ Charged \subseteq Of
    BY DEF StartChargedOnce
  <2>1. Charges /\ c # None
    BY Constants DEF Inv
  <2>2. \A i, j \in {k \in DOMAIN stats : stats[k].charged = c} : i = j
    BY <2>1 DEF Charges
  <2>3. {i \in DOMAIN stats : stats[i].by = c} # {} /\ c \notin lost
          => {i \in DOMAIN stats : stats[i].charged = c} # {}
    BY <2>1 DEF Charges
  <2>4. \A i \in DOMAIN stats : stats[i].charged = c => stats[i].by = c
    BY <2>1 DEF Charges
  <2> QED
    BY <2>2, <2>3, <2>4
<1> QED
  BY <1>1, Invariance, PTL

(* A call is tagged warm only after another got through on its container.   *)
THEOREM WarmCallsAreWarm == Spec => []WarmIsWarm
<1>1. Inv => WarmIsWarm
  BY DEF Inv
<1> QED
  BY <1>1, Invariance, PTL
=============================================================================
