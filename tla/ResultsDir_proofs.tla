------------------------- MODULE ResultsDir_proofs -------------------------
(***************************************************************************)
(* Proofs about ResultsDir, for any number of topologies and of processes, *)
(* any hooks and any verdicts.                                             *)
(*                                                                         *)
(* Why the properties hold: files are only replaced, so that what is once  *)
(* of process n or later stays so, or is torn, which a report does not     *)
(* survive.  Process n writes metrics.json before <t>.json, and its last   *)
(* <t>.json before the summary; a report reads them in the other order.    *)
(* What a process scored, what its summary counted and what its results    *)
(* say is of the same topologies, so two ways to count them agree.         *)
(***************************************************************************)
EXTENDS ResultsDir, TLAPS

(* A file is torn, or of process n or a later one.                          *)
Fresh(f, n) == f = Torn \/ (f.file = "whole" /\ f.by >= n)

(* By the history a, a result d has rates.                                  *)
Rated(a, d) ==
  d.status = "passed" /\ a[d.by].mode = "with_truth" /\ a[d.by].hooks # {}

(* A result d of a process up to no, whose rates are in f.                  *)
Known(no, a, f, d) == d.by \in 1..no /\ (Rated(a, d) => Fresh(f, d.by))

(* Process n has written all it will write.                                 *)
Over(b, n) == n \in 1..b.no /\ (b.pc = "off" \/ n < b.no)

(* What the summary of process n takes for passed.                          *)
Passed(a, n) == a[n].selected \ a[n].failed

FileOf(f) == f = NoFile \/ f = Torn \/ (f.file = "whole" /\ f.by \in Nat)

Shapes ==
  /\ bench = [pc |-> bench.pc, no |-> bench.no, mode |-> bench.mode, hooks |-> bench.hooks,
              todo |-> bench.todo, failed |-> bench.failed, scored |-> bench.scored,
              cur |-> bench.cur, doc |-> bench.doc]
  /\ report = [pc |-> report.pc, since |-> report.since, summary |-> report.summary,
               todo |-> report.todo, cur |-> report.cur, doc |-> report.doc,
               rows |-> report.rows]
  /\ metrics = [t \in Topologies |-> metrics[t]]
  /\ docs = [t \in Topologies |-> docs[t]]
  /\ asked = [n \in 1..MaxRuns |-> asked[n]]
  /\ \A n \in 1..MaxRuns :
       asked[n] = [mode |-> asked[n].mode, hooks |-> asked[n].hooks,
                   selected |-> asked[n].selected, failed |-> asked[n].failed]

Types ==
  /\ bench.pc \in {"off", "next", "diff", "metrics", "result", "doc", "summary"}
  /\ bench.no \in 0..MaxRuns
  /\ bench.todo \subseteq Topologies
  /\ report.pc \in {"idle", "list", "docs", "metrics"}
  /\ report.todo \subseteq Topologies
  /\ \A t \in Topologies : FileOf(metrics[t]) /\ FileOf(docs[t])
  /\ \A n \in 1..MaxRuns : asked[n].selected \subseteq Topologies
  /\ FileOf(summary)
  /\ report.summary = NoFile \/ report.summary.file = "whole"

(* The results have their rates.                                            *)
DocsKnown ==
  \A t \in Topologies :
    docs[t].file = "whole" => Known(bench.no, asked, metrics[t], docs[t])

(* The results that the summary takes for passed are there.                 *)
SummaryKnown ==
  summary.file = "whole" =>
    /\ Over(bench, summary.by)
    /\ \A t \in Passed(asked, summary.by) : Fresh(docs[t], summary.by)

(* So are those of the process that writes, as far as it came.              *)
BenchKnown ==
  bench.pc # "off" =>
    /\ bench.no \in 1..MaxRuns
    /\ asked[bench.no].mode = bench.mode /\ asked[bench.no].hooks = bench.hooks
    /\ \A t \in asked[bench.no].selected \ bench.todo :
         t \in bench.failed \/ Fresh(docs[t], bench.no)
    /\ bench.pc = "summary" => bench.todo = {}
    /\ bench.pc \in {"diff", "metrics", "result", "doc"} => bench.cur \in bench.todo
    /\ bench.pc \in {"result", "doc"} =>
         /\ bench.doc.file = "whole" /\ bench.doc.by = bench.no
         /\ Known(bench.no, asked, metrics[bench.cur], bench.doc)

(* What the report has loaded.                                              *)
RowsKnown ==
  \A t \in DOMAIN report.rows :
    LET run == report.rows[t].run
        rates == report.rows[t].metrics
    IN /\ run.file = "whole" /\ run.by \in 1..bench.no
       /\ Rated(asked, run) => rates.file = "whole" /\ rates.by >= run.by

(* What it is about to load, each topology once.                            *)
ReadsKnown ==
  /\ \A t \in DOMAIN report.rows : report.pc # "list" /\ t \notin report.todo
  /\ report.pc \in {"docs", "metrics"} => \A t \in report.todo : docs[t] # NoFile
  /\ report.pc = "metrics" =>
       /\ report.cur \in report.todo /\ report.doc.file = "whole"
       /\ Known(bench.no, asked, metrics[report.cur], report.doc)

(* The topologies of the summary it has read are loaded, or will be.        *)
PassedKnown ==
  LET n == report.summary.by
      unread == IF report.pc = "metrics" THEN report.todo \ {report.cur} ELSE report.todo
  IN report.summary.file = "whole" =>
       /\ Over(bench, n)
       /\ \A t \in Passed(asked, n) :
            \/ (report.pc = "list" \/ t \in unread) /\ Fresh(docs[t], n)
            \/ report.pc = "metrics" /\ t = report.cur /\ report.doc.by >= n
            \/ t \in DOMAIN report.rows /\ report.rows[t].run.by >= n

Inv ==
  /\ Shapes /\ Types
  /\ DocsKnown /\ SummaryKnown /\ BenchKnown
  /\ RowsKnown /\ ReadsKnown /\ PassedKnown

-----------------------------------------------------------------------------
LEMMA Runs == MaxRuns \in Nat
BY DirAssumption DEF DirAssumption

LEMMA InitInv == Init => Inv
<1> SUFFICES ASSUME Init PROVE Inv
  OBVIOUS
<1> USE DEF Init, Off, NoReport, NoFile, Torn
<1>1. Shapes
  BY DEF Shapes
<1>2. Types
  BY Runs DEF Types, FileOf
<1>3. DocsKnown /\ SummaryKnown /\ BenchKnown
  BY DEF DocsKnown, SummaryKnown, BenchKnown
<1>4. RowsKnown /\ ReadsKnown /\ PassedKnown
  BY DEF RowsKnown, ReadsKnown, PassedKnown
<1> QED
  BY <1>1, <1>2, <1>3, <1>4 DEF Inv

-----------------------------------------------------------------------------
(* What a process that writes never takes back.                             *)
Grows ==
  /\ \A n : Over(bench, n) => Over(bench', n) /\ asked'[n] = asked[n]
  /\ \A n \in 1..bench.no :
       n \in 1..bench'.no /\ asked'[n].mode = asked[n].mode /\ asked'[n].hooks = asked[n].hooks
  /\ \A t \in Topologies, n \in 1..bench.no :
       /\ Fresh(metrics[t], n) => Fresh(metrics'[t], n)
       /\ Fresh(docs[t], n) => Fresh(docs'[t], n)
  /\ \A t \in Topologies : docs[t] # NoFile => docs'[t] # NoFile

LEMMA KnownStays ==
  ASSUME Grows, NEW d, NEW t \in Topologies, Known(bench.no, asked, metrics[t], d)
  PROVE  Known(bench'.no, asked', metrics'[t], d)
<1>1. d.by \in 1..bench.no
  BY DEF Known
<1>2. d.by \in 1..bench'.no /\ asked'[d.by].mode = asked[d.by].mode
      /\ asked'[d.by].hooks = asked[d.by].hooks
  BY <1>1 DEF Grows
<1>3. Rated(asked', d) => Rated(asked, d)
  BY <1>2 DEF Rated
<1>4. Fresh(metrics[t], d.by) => Fresh(metrics'[t], d.by)
  BY <1>1 DEF Grows
<1> QED
  BY <1>2, <1>3, <1>4 DEF Known

LEMMA PassedType ==
  ASSUME Types, NEW n, Over(bench, n)
  PROVE  n \in 1..bench.no /\ Passed(asked, n) \subseteq Topologies
<1>1. n \in 1..bench.no /\ n \in 1..MaxRuns
  BY Runs DEF Over, Types
<1> QED
  BY <1>1 DEF Types, Passed

LEMMA DocsStay ==
  ASSUME DocsKnown, Grows, docs' = docs
  PROVE  DocsKnown'
BY KnownStays DEF DocsKnown

LEMMA SummaryStays ==
  ASSUME Types, SummaryKnown, Grows, summary' = summary
  PROVE  SummaryKnown'
<1> SUFFICES ASSUME summary.file = "whole"
             PROVE  /\ Over(bench', summary.by)
                    /\ \A t \in Passed(asked', summary.by) : Fresh(docs'[t], summary.by)
  BY DEF SummaryKnown
<1>1. Over(bench, summary.by)
  BY DEF SummaryKnown
<1>2. summary.by \in 1..bench.no /\ Passed(asked, summary.by) \subseteq Topologies
  BY <1>1, PassedType
<1>3. Over(bench', summary.by) /\ Passed(asked', summary.by) = Passed(asked, summary.by)
  BY <1>1 DEF Grows, Passed
<1> QED
  BY <1>2, <1>3 DEF Grows, SummaryKnown

LEMMA ReportStays ==
  ASSUME Types, RowsKnown, ReadsKnown, PassedKnown, Grows, report' = report
  PROVE  RowsKnown' /\ ReadsKnown' /\ PassedKnown'
<1>1. RowsKnown'
  <2> SUFFICES ASSUME NEW t \in DOMAIN report.rows
               PROVE  LET run == report.rows[t].run
                          rates == report.rows[t].metrics
                      IN /\ run.file = "whole" /\ run.by \in 1..bench'.no
                         /\ Rated(asked', run) => rates.file = "whole" /\ rates.by >= run.by
    BY DEF RowsKnown
  <2> DEFINE run == report.rows[t].run
             rates == report.rows[t].metrics
  <2>1. run.file = "whole" /\ run.by \in 1..bench.no
        /\ (Rated(asked, run) => rates.file = "whole" /\ rates.by >= run.by)
    BY DEF RowsKnown
  <2>2. run.by \in 1..bench'.no /\ asked'[run.by].mode = asked[run.by].mode
        /\ asked'[run.by].hooks = asked[run.by].hooks
    BY <2>1 DEF Grows
  <2>3. Rated(asked', run) => Rated(asked, run)
    BY <2>2 DEF Rated
  <2> QED
    BY <2>1, <2>2, <2>3
<1>2. ReadsKnown'
  <2>1. /\ \A t \in DOMAIN report.rows : report.pc # "list" /\ t \notin report.todo
        /\ report.pc \in {"docs", "metrics"} => \A t \in report.todo : docs'[t] # NoFile
    BY DEF ReadsKnown, Grows, Types
  <2>2. report.pc = "metrics" => report.cur \in report.todo /\ report.doc.file = "whole"
          /\ Known(bench'.no, asked', metrics'[report.cur], report.doc)
    BY KnownStays DEF ReadsKnown, Types
  <2> QED
    BY <2>1, <2>2 DEF ReadsKnown
<1>3. PassedKnown'
  <2> DEFINE n == report.summary.by
             unread == IF report.pc = "metrics" THEN report.todo \ {report.cur} ELSE report.todo
  <2> SUFFICES ASSUME report.summary.file = "whole"
               PROVE  /\ Over(bench', n)
                      /\ \A t \in Passed(asked', n) :
                           \/ (report.pc = "list" \/ t \in unread) /\ Fresh(docs'[t], n)
                           \/ report.pc = "metrics" /\ t = report.cur /\ report.doc.by >= n
                           \/ t \in DOMAIN report.rows /\ report.rows[t].run.by >= n
    BY DEF PassedKnown
  <2>1. Over(bench, n)
    BY DEF PassedKnown
  <2>2. n \in 1..bench.no /\ Passed(asked, n) \subseteq Topologies
    BY <2>1, PassedType
  <2>3. Over(bench', n) /\ Passed(asked', n) = Passed(asked, n)
    BY <2>1 DEF Grows, Passed
  <2>4. \A t \in Passed(asked, n) : Fresh(docs[t], n) => Fresh(docs'[t], n)
    BY <2>2 DEF Grows
  <2> HIDE DEF n
  <2> QED
    BY <2>3, <2>4 DEF PassedKnown, n
<1> QED
  BY <1>1, <1>2, <1>3

-----------------------------------------------------------------------------
(* The steps of a process that writes.                                      *)

LEMMA WriterInv ==
  ASSUME Inv, Shapes', Types', Grows, UNCHANGED report, DocsKnown', SummaryKnown', BenchKnown'
  PROVE  Inv'
BY ReportStays DEF Inv

(* Most steps touch no file, and know no less of the results.               *)
LEMMA QuietInv ==
  ASSUME Inv, Shapes', Types', UNCHANGED <<files, report, asked>>, bench.pc # "off",
         bench'.no = bench.no, BenchKnown'
  PROVE  Inv'
<1>1. Grows
  BY DEF Grows, Over, files
<1> QED
  BY <1>1, WriterInv, DocsStay, SummaryStays DEF Inv, files

LEMMA PayloadFacts ==
  ASSUME NEW t, NEW status, NEW verdict
  PROVE  /\ Payload(t, status, verdict).file = "whole"
         /\ Payload(t, status, verdict).by = bench.no
         /\ Payload(t, status, verdict).status = status
BY DEF Payload

(* A result that failed has no rates, nor has one without a diff.           *)
LEMMA PayloadKnown ==
  ASSUME BenchKnown, bench.pc # "off", NEW t, NEW status, NEW verdict, NEW f,
         status = "failed" \/ ~Diffs \/ Fresh(f, bench.no)
  PROVE  Known(bench.no, asked, f, Payload(t, status, verdict))
<1> DEFINE d == Payload(t, status, verdict)
<1>1. bench.no \in 1..bench.no /\ asked[bench.no].mode = bench.mode
      /\ asked[bench.no].hooks = bench.hooks
  BY Runs DEF BenchKnown
<1>2. d.by = bench.no /\ d.status = status
  BY PayloadFacts
<1> HIDE DEF d
<1>3. Rated(asked, d) => status = "passed" /\ Diffs
  BY <1>1, <1>2 DEF Rated, Diffs
<1> QED
  BY <1>1, <1>2, <1>3 DEF Known, d

LEMMA StartInv == Inv /\ Start => Inv'
<1> SUFFICES ASSUME Inv, Start PROVE Inv'
  OBVIOUS
<1> DEFINE n == bench.no + 1
<1>1. PICK mode \in Modes, selected \in (SUBSET Topologies) \ {{}}, hooks \in HookSets \cup {{}} :
        /\ bench' = [Off(n) EXCEPT !.pc = "next", !.mode = mode, !.hooks = hooks,
                                   !.todo = selected]
        /\ asked' = [asked EXCEPT ![n] = [mode |-> mode, hooks |-> hooks,
                                          selected |-> selected, failed |-> {}]]
  BY DEF Start
<1>2. bench.pc = "off" /\ bench.no < MaxRuns /\ UNCHANGED <<files, report>>
  BY DEF Start
<1>3. bench.no \in Nat /\ n \in 1..MaxRuns /\ n \in 1..n
  BY <1>2, Runs DEF Inv, Types
<1>4. /\ bench' = [pc |-> "next", no |-> n, mode |-> mode, hooks |-> hooks, todo |-> selected,
                   failed |-> {}, scored |-> {}, cur |-> 0, doc |-> NoFile]
      /\ \A i \in 1..MaxRuns :
           asked'[i] = IF i = n THEN [mode |-> mode, hooks |-> hooks, selected |-> selected,
                                      failed |-> {}]
                                ELSE asked[i]
      /\ asked' = [i \in 1..MaxRuns |-> asked'[i]]
  BY <1>1, <1>3 DEF Off, Inv, Shapes
<1> HIDE DEF n
<1>5. Shapes'
  BY <1>2, <1>4 DEF Inv, Shapes, files
<1>6. Types'
  BY <1>2, <1>3, <1>4, Runs DEF Inv, Types, files
<1>7. Grows
  <2>1. \A i \in 1..bench.no : i \in 1..n /\ i < n /\ i \in 1..MaxRuns
    BY <1>2, <1>3, Runs DEF n
  <2>2. \A i \in 1..bench.no : asked'[i] = asked[i] /\ i \in 1..bench'.no /\ Over(bench', i)
    BY <1>4, <2>1 DEF Over
  <2> QED
    BY <1>2, <2>2 DEF Grows, Over, files
<1>8. DocsKnown' /\ SummaryKnown'
  BY <1>2, <1>7, DocsStay, SummaryStays DEF Inv, files
<1>9. BenchKnown'
  BY <1>3, <1>4 DEF BenchKnown
<1> QED
  BY <1>2, <1>5, <1>6, <1>7, <1>8, <1>9, WriterInv

LEMMA SimulateInv == Inv /\ Simulate => Inv'
<1> SUFFICES ASSUME Inv, Simulate PROVE Inv'
  OBVIOUS
<1>1. UNCHANGED <<files, report, asked>> /\ bench.pc = "next" /\ BenchKnown
  BY DEF Simulate, Inv
<1>2. PICK t \in bench.todo :
        \/ bench' = [bench EXCEPT !.cur = t, !.pc = "result",
                                  !.doc = Payload(t, "failed", Unknown)]
        \/ bench' = [bench EXCEPT !.cur = t, !.pc = "diff"]
        \/ ~Diffs /\ bench' = [bench EXCEPT !.cur = t, !.pc = "result",
                                            !.doc = Payload(t, "passed", VerdictOf(t))]
  BY DEF Simulate
<1>3. PICK pc \in {"diff", "result"} : \E doc :
        /\ bench' = [bench EXCEPT !.cur = t, !.pc = pc, !.doc = doc]
        /\ pc = "result" => /\ doc.file = "whole" /\ doc.by = bench.no
                            /\ Known(bench.no, asked, metrics[t], doc)
  <2>1. CASE bench' = [bench EXCEPT !.cur = t, !.pc = "diff"]
    <3>1. bench' = [bench EXCEPT !.cur = t, !.pc = "diff", !.doc = bench.doc]
      BY <2>1 DEF Inv, Shapes
    <3> QED
      BY <3>1
  <2>2. ASSUME NEW status, NEW v, status = "failed" \/ ~Diffs,
               bench' = [bench EXCEPT !.cur = t, !.pc = "result", !.doc = Payload(t, status, v)]
        PROVE  \E pc \in {"diff", "result"} : \E doc :
                 /\ bench' = [bench EXCEPT !.cur = t, !.pc = pc, !.doc = doc]
                 /\ pc = "result" => /\ doc.file = "whole" /\ doc.by = bench.no
                                     /\ Known(bench.no, asked, metrics[t], doc)
    <3> DEFINE d == Payload(t, status, v)
    <3>1. d.file = "whole" /\ d.by = bench.no /\ Known(bench.no, asked, metrics[t], d)
      BY <1>1, <2>2, PayloadFacts, PayloadKnown
    <3> HIDE DEF d
    <3>2. bench' = [bench EXCEPT !.cur = t, !.pc = "result", !.doc = d]
      BY <2>2 DEF d
    <3> QED
      BY <3>1, <3>2
  <2> QED
    BY <1>2, <2>1, <2>2
<1>4. PICK d :
        /\ bench' = [bench EXCEPT !.cur = t, !.pc = pc, !.doc = d]
        /\ pc = "result" => /\ d.file = "whole" /\ d.by = bench.no
                            /\ Known(bench.no, asked, metrics[t], d)
  BY <1>3
<1>5. bench' = [pc |-> pc, no |-> bench.no, mode |-> bench.mode, hooks |-> bench.hooks,
                todo |-> bench.todo, failed |-> bench.failed, scored |-> bench.scored,
                cur |-> t, doc |-> d]
  BY <1>4 DEF Inv, Shapes
<1>6. Shapes'
  BY <1>1, <1>5 DEF Inv, Shapes, files
<1>7. Types'
  BY <1>1, <1>5 DEF Inv, Types, files
<1>8. BenchKnown'
  BY <1>1, <1>4, <1>5 DEF BenchKnown, files
<1> QED
  BY <1>1, <1>5, <1>6, <1>7, <1>8, QuietInv

LEMMA DiffFailsInv == Inv /\ DiffFails => Inv'
<1> SUFFICES ASSUME Inv, DiffFails PROVE Inv'
  OBVIOUS
<1> DEFINE d == Payload(bench.cur, "failed", VerdictOf(bench.cur))
<1>1. UNCHANGED <<files, report, asked>> /\ bench.pc \in {"diff", "metrics"} /\ BenchKnown
  BY DEF DiffFails, Inv
<1>2. bench' = [bench EXCEPT !.pc = "result", !.doc = d]
  BY DEF DiffFails
<1>3. d.file = "whole" /\ d.by = bench.no /\ Known(bench.no, asked, metrics[bench.cur], d)
  BY <1>1, PayloadFacts, PayloadKnown
<1> HIDE DEF d
<1>4. bench' = [pc |-> "result", no |-> bench.no, mode |-> bench.mode, hooks |-> bench.hooks,
                todo |-> bench.todo, failed |-> bench.failed, scored |-> bench.scored,
                cur |-> bench.cur, doc |-> d]
  BY <1>2 DEF Inv, Shapes
<1>5. bench.cur \in bench.todo
  BY <1>1 DEF BenchKnown
<1>6. Shapes' /\ Types'
  BY <1>1, <1>4 DEF Inv, Shapes, Types, files
<1>7. BenchKnown'
  BY <1>1, <1>3, <1>4, <1>5 DEF BenchKnown, files
<1> QED
  BY <1>1, <1>4, <1>6, <1>7, QuietInv

LEMMA TopologyRaisesInv == Inv /\ TopologyRaises => Inv'
<1> SUFFICES ASSUME Inv, TopologyRaises PROVE Inv'
  OBVIOUS
<1>1. UNCHANGED <<files, report, asked>> /\ bench.pc = "result" /\ BenchKnown
  BY DEF TopologyRaises, Inv
<1>2. bench' = [pc |-> "next", no |-> bench.no, mode |-> bench.mode, hooks |-> bench.hooks,
                todo |-> bench.todo \ {bench.cur}, failed |-> bench.failed \cup {bench.cur},
                scored |-> bench.scored, cur |-> 0, doc |-> NoFile]
  BY DEF TopologyRaises, Inv, Shapes
<1>3. Shapes' /\ Types'
  BY <1>1, <1>2 DEF Inv, Shapes, Types, files
<1>4. BenchKnown'
  BY <1>1, <1>2 DEF BenchKnown, files
<1> QED
  BY <1>1, <1>2, <1>3, <1>4, QuietInv

LEMMA StopInv == Inv /\ Stop => Inv'
<1> SUFFICES ASSUME Inv, Stop PROVE Inv'
  OBVIOUS
<1>1. UNCHANGED <<files, report, asked>> /\ bench.pc # "off" /\ bench' = Off(bench.no)
  BY DEF Stop
<1>2. Shapes' /\ Types'
  BY <1>1 DEF Off, Inv, Shapes, Types, files
<1>3. BenchKnown'
  BY <1>1 DEF Off, BenchKnown
<1> QED
  BY <1>1, <1>2, <1>3, QuietInv DEF Off

(* metrics.json of the current topology is opened or written.               *)
LEMMA MetricsGrow ==
  ASSUME Inv, bench.pc # "off", bench'.no = bench.no, UNCHANGED <<docs, asked>>,
         NEW f, f = Torn \/ (f.file = "whole" /\ f.by = bench.no),
         metrics' = [metrics EXCEPT ![bench.cur] = f]
  PROVE  Grows
<1>1. bench.no \in Nat
  BY Runs DEF Inv, Types
<1>2. \A t \in Topologies : metrics'[t] = IF t = bench.cur THEN f ELSE metrics[t]
  BY DEF Inv, Shapes
<1>3. \A n \in 1..bench.no : Fresh(f, n)
  BY <1>1 DEF Fresh
<1> QED
  BY <1>2, <1>3 DEF Grows, Over

(* So is <t>.json.                                                          *)
LEMMA DocsGrow ==
  ASSUME Inv, bench.pc # "off", bench'.no = bench.no, UNCHANGED <<metrics, asked>>,
         NEW f, f = Torn \/ (f.file = "whole" /\ f.by = bench.no),
         docs' = [docs EXCEPT ![bench.cur] = f]
  PROVE  Grows
<1>1. bench.no \in Nat
  BY Runs DEF Inv, Types
<1>2. \A t \in Topologies : docs'[t] = IF t = bench.cur THEN f ELSE docs[t]
  BY DEF Inv, Shapes
<1>3. (\A n \in 1..bench.no : Fresh(f, n)) /\ f # NoFile
  BY <1>1 DEF Fresh, Torn, NoFile
<1> QED
  BY <1>2, <1>3 DEF Grows, Over

LEMMA OpenMetricsInv == Inv /\ OpenMetrics => Inv'
<1> SUFFICES ASSUME Inv, OpenMetrics PROVE Inv'
  OBVIOUS
<1>1. UNCHANGED <<docs, summary, report, asked>> /\ bench.pc = "diff" /\ BenchKnown
  BY DEF OpenMetrics, Inv
<1>2. metrics' = [metrics EXCEPT ![bench.cur] = Torn]
  BY DEF OpenMetrics
<1>3. bench' = [pc |-> "metrics", no |-> bench.no, mode |-> bench.mode, hooks |-> bench.hooks,
                todo |-> bench.todo, failed |-> bench.failed, scored |-> bench.scored,
                cur |-> bench.cur, doc |-> bench.doc]
  BY DEF OpenMetrics, Inv, Shapes
<1>4. bench.cur \in Topologies /\ bench.cur \in bench.todo
  BY <1>1 DEF BenchKnown, Inv, Types
<1>5. Shapes'
  BY <1>1, <1>2, <1>3 DEF Inv, Shapes
<1>6. Types'
  BY <1>1, <1>2, <1>3, <1>4 DEF Inv, Types, Shapes, FileOf
<1>7. Grows
  BY <1>1, <1>2, <1>3, MetricsGrow
<1>8. DocsKnown' /\ SummaryKnown'
  BY <1>1, <1>7, DocsStay, SummaryStays DEF Inv
<1>9. BenchKnown'
  BY <1>1, <1>3, <1>4 DEF BenchKnown
<1> QED
  BY <1>1, <1>5, <1>6, <1>7, <1>8, <1>9, WriterInv

LEMMA WriteMetricsInv == Inv /\ WriteMetrics => Inv'
<1> SUFFICES ASSUME Inv, WriteMetrics PROVE Inv'
  OBVIOUS
<1> DEFINE f == [file |-> "whole", by |-> bench.no]
           d == Payload(bench.cur, "passed", VerdictOf(bench.cur))
<1>1. UNCHANGED <<docs, summary, report, asked>> /\ bench.pc = "metrics" /\ BenchKnown
  BY DEF WriteMetrics, Inv
<1>2. metrics' = [metrics EXCEPT ![bench.cur] = f]
      /\ bench' = [bench EXCEPT !.pc = "result", !.doc = d]
  BY DEF WriteMetrics
<1>3. d.file = "whole" /\ d.by = bench.no
  BY PayloadFacts
<1>4. f.file = "whole" /\ f.by = bench.no /\ bench.no \in Nat
  BY Runs DEF Inv, Types
<1>5. Known(bench.no, asked, f, d)
  BY <1>1, <1>4, PayloadKnown DEF Fresh
<1> HIDE DEF d, f
<1>6. bench' = [pc |-> "result", no |-> bench.no, mode |-> bench.mode, hooks |-> bench.hooks,
                todo |-> bench.todo, failed |-> bench.failed, scored |-> bench.scored,
                cur |-> bench.cur, doc |-> d]
  BY <1>2 DEF Inv, Shapes
<1>7. bench.cur \in Topologies /\ bench.cur \in bench.todo
  BY <1>1 DEF BenchKnown, Inv, Types
<1>8. Shapes'
  BY <1>1, <1>2, <1>6 DEF Inv, Shapes
<1>9. Types'
  BY <1>1, <1>2, <1>4, <1>6, <1>7 DEF Inv, Types, Shapes, FileOf
<1>10. Grows
  BY <1>1, <1>2, <1>4, <1>6, MetricsGrow
<1>11. DocsKnown' /\ SummaryKnown'
  BY <1>1, <1>10, DocsStay, SummaryStays DEF Inv
<1>12. metrics'[bench.cur] = f
  BY <1>2, <1>7 DEF Inv, Shapes
<1>13. BenchKnown'
  BY <1>1, <1>3, <1>5, <1>6, <1>7, <1>12 DEF BenchKnown
<1> QED
  BY <1>1, <1>8, <1>9, <1>10, <1>11, <1>13, WriterInv

LEMMA OpenDocInv == Inv /\ OpenDoc => Inv'
<1> SUFFICES ASSUME Inv, OpenDoc PROVE Inv'
  OBVIOUS
<1>1. UNCHANGED <<metrics, summary, report, asked>> /\ bench.pc = "result" /\ BenchKnown
  BY DEF OpenDoc, Inv
<1>2. docs' = [docs EXCEPT ![bench.cur] = Torn]
  BY DEF OpenDoc
<1>3. bench' = [pc |-> "doc", no |-> bench.no, mode |-> bench.mode, hooks |-> bench.hooks,
                todo |-> bench.todo, failed |-> bench.failed, scored |-> bench.scored,
                cur |-> bench.cur, doc |-> bench.doc]
  BY DEF OpenDoc, Inv, Shapes
<1>4. bench.cur \in Topologies /\ bench.cur \in bench.todo
  BY <1>1 DEF BenchKnown, Inv, Types
<1>5. Shapes'
  BY <1>1, <1>2, <1>3 DEF Inv, Shapes
<1>6. Types'
  BY <1>1, <1>2, <1>3, <1>4 DEF Inv, Types, Shapes, FileOf
<1>7. Grows
  BY <1>1, <1>2, <1>3, DocsGrow
<1>8. \A t \in Topologies : docs'[t] = IF t = bench.cur THEN Torn ELSE docs[t]
  BY <1>2 DEF Inv, Shapes
<1>9. DocsKnown'
  BY <1>1, <1>3, <1>8 DEF Inv, DocsKnown, Torn
<1>10. SummaryKnown'
  BY <1>1, <1>7, SummaryStays DEF Inv
<1>11. BenchKnown'
  <2>1. \A t \in asked[bench.no].selected \ bench.todo :
          t \in bench.failed \/ Fresh(docs'[t], bench.no)
    BY <1>1, <1>4, <1>8, Runs DEF BenchKnown, Inv, Types
  <2> QED
    BY <1>1, <1>3, <1>4, <2>1 DEF BenchKnown
<1> QED
  BY <1>1, <1>5, <1>6, <1>7, <1>9, <1>10, <1>11, WriterInv

LEMMA WriteDocInv == Inv /\ WriteDoc => Inv'
<1> SUFFICES ASSUME Inv, WriteDoc PROVE Inv'
  OBVIOUS
<1> DEFINE passed == IF bench.doc.status = "passed" THEN {bench.cur} ELSE {}
           scored == IF bench.mode = "with_truth" => Diffs THEN passed ELSE {}
           failed == bench.failed \cup ({bench.cur} \ passed)
           measured == bench.scored \cup scored
<1>1. UNCHANGED <<metrics, summary, report, asked>> /\ bench.pc = "doc" /\ BenchKnown
  BY DEF WriteDoc, Inv
<1>2. docs' = [docs EXCEPT ![bench.cur] = bench.doc]
      /\ bench' = [bench EXCEPT !.pc = "next", !.cur = 0, !.doc = NoFile,
                     !.todo = @ \ {bench.cur}, !.failed = failed, !.scored = measured]
  BY DEF WriteDoc
<1>3. bench.failed \subseteq failed
  OBVIOUS
<1> HIDE DEF passed, scored, failed, measured
<1>4. bench' = [pc |-> "next", no |-> bench.no, mode |-> bench.mode, hooks |-> bench.hooks,
                todo |-> bench.todo \ {bench.cur}, failed |-> failed, scored |-> measured,
                cur |-> 0, doc |-> NoFile]
  BY <1>2 DEF Inv, Shapes
<1>5. bench.cur \in Topologies /\ bench.no \in Nat
  BY <1>1, Runs DEF BenchKnown, Inv, Types
<1>6. bench.doc.file = "whole" /\ bench.doc.by = bench.no
      /\ Known(bench.no, asked, metrics[bench.cur], bench.doc)
  BY <1>1 DEF BenchKnown
<1>7. \A t \in Topologies : docs'[t] = IF t = bench.cur THEN bench.doc ELSE docs[t]
  BY <1>2 DEF Inv, Shapes
<1>8. Shapes'
  BY <1>1, <1>2, <1>4 DEF Inv, Shapes
<1>9. Types'
  BY <1>1, <1>4, <1>5, <1>6, <1>7 DEF Inv, Types, FileOf
<1>10. Grows
  BY <1>1, <1>2, <1>4, <1>6, DocsGrow
<1>11. DocsKnown'
  BY <1>1, <1>4, <1>6, <1>7 DEF Inv, DocsKnown
<1>12. SummaryKnown'
  BY <1>1, <1>10, SummaryStays DEF Inv
<1>13. BenchKnown'
  <2>1. Fresh(docs'[bench.cur], bench.no)
    BY <1>5, <1>6, <1>7 DEF Fresh
  <2>2. \A t \in asked[bench.no].selected \ (bench.todo \ {bench.cur}) :
          t \in failed \/ Fresh(docs'[t], bench.no)
    BY <1>1, <1>3, <1>7, <2>1, Runs DEF BenchKnown, Inv, Types
  <2> QED
    BY <1>1, <1>4, <2>2 DEF BenchKnown
<1> QED
  BY <1>1, <1>8, <1>9, <1>10, <1>11, <1>12, <1>13, WriterInv

LEMMA OpenSummaryInv == Inv /\ OpenSummary => Inv'
<1> SUFFICES ASSUME Inv, OpenSummary PROVE Inv'
  OBVIOUS
<1>1. UNCHANGED <<metrics, docs, report, asked>> /\ bench.pc = "next" /\ bench.todo = {}
      /\ BenchKnown /\ summary' = Torn
  BY DEF OpenSummary, Inv
<1>2. bench' = [pc |-> "summary", no |-> bench.no, mode |-> bench.mode, hooks |-> bench.hooks,
                todo |-> bench.todo, failed |-> bench.failed, scored |-> bench.scored,
                cur |-> bench.cur, doc |-> bench.doc]
  BY DEF OpenSummary, Inv, Shapes
<1>3. Shapes' /\ Types'
  BY <1>1, <1>2 DEF Inv, Shapes, Types, FileOf
<1>4. Grows
  BY <1>1, <1>2 DEF Grows, Over
<1>5. DocsKnown'
  BY <1>1, <1>4, DocsStay DEF Inv
<1>6. SummaryKnown'
  BY <1>1 DEF SummaryKnown, Torn
<1>7. BenchKnown'
  BY <1>1, <1>2 DEF BenchKnown
<1> QED
  BY <1>1, <1>3, <1>4, <1>5, <1>6, <1>7, WriterInv

LEMMA WriteSummaryInv == Inv /\ WriteSummary => Inv'
<1> SUFFICES ASSUME Inv, WriteSummary PROVE Inv'
  OBVIOUS
<1> DEFINE mode == IF bench.mode = "with_truth" THEN Absent ELSE bench.mode
<1>1. UNCHANGED <<metrics, docs, report>> /\ bench.pc = "summary" /\ BenchKnown
      /\ bench' = Off(bench.no)
  BY DEF WriteSummary, Inv
<1>2. summary' = [file |-> "whole", by |-> bench.no, coverage |-> CoverageSummary,
                  mode |-> mode]
      /\ asked' = [asked EXCEPT ![bench.no].failed = bench.failed]
  BY DEF WriteSummary
<1>3. bench.no \in 1..MaxRuns /\ bench.no \in Nat /\ bench.no \in 1..bench.no
  BY <1>1, Runs DEF BenchKnown
<1>4. summary'.file = "whole" /\ summary'.by = bench.no
  BY <1>2
<1>5. /\ asked' = [n \in 1..MaxRuns |-> asked'[n]]
      /\ \A n \in 1..MaxRuns :
           asked'[n] = [mode |-> asked[n].mode, hooks |-> asked[n].hooks,
                        selected |-> asked[n].selected,
                        failed |-> IF n = bench.no THEN bench.failed ELSE asked[n].failed]
  <2>1. /\ asked = [n \in 1..MaxRuns |-> asked[n]]
        /\ \A n \in 1..MaxRuns :
             asked[n] = [mode |-> asked[n].mode, hooks |-> asked[n].hooks,
                         selected |-> asked[n].selected, failed |-> asked[n].failed]
    BY DEF Inv, Shapes
  <2>2. asked' = [n \in 1..MaxRuns |->
                    IF n = bench.no THEN [asked[n] EXCEPT !.failed = bench.failed]
                                    ELSE asked[n]]
    BY <1>2, <1>3, <2>1
  <2>3. \A n \in 1..MaxRuns :
          [asked[n] EXCEPT !.failed = bench.failed] =
            [mode |-> asked[n].mode, hooks |-> asked[n].hooks,
             selected |-> asked[n].selected, failed |-> bench.failed]
    BY <2>1
  <2> QED
    BY <2>1, <2>2, <2>3
<1>6. Shapes'
  BY <1>1, <1>5 DEF Off, Inv, Shapes
<1>7. Types'
  BY <1>1, <1>3, <1>4, <1>5 DEF Off, Inv, Types, FileOf
<1>8. Grows
  <2>1. \A n \in 1..bench.no : n \in 1..MaxRuns
    BY <1>3, Runs
  <2>2. \A n \in 1..bench.no :
          n # bench.no => asked'[n] = asked[n]
    BY <1>5, <2>1 DEF Inv, Shapes
  <2>3. \A n : Over(bench, n) => Over(bench', n) /\ asked'[n] = asked[n]
    BY <1>1, <2>2 DEF Over, Off
  <2>4. bench'.no = bench.no
    BY <1>1 DEF Off
  <2>5. \A n \in 1..bench.no :
          n \in 1..bench'.no /\ asked'[n].mode = asked[n].mode /\ asked'[n].hooks = asked[n].hooks
    BY <1>5, <2>1, <2>4
  <2> QED
    BY <1>1, <2>3, <2>5 DEF Grows
<1>9. DocsKnown'
  BY <1>1, <1>8, DocsStay DEF Inv
<1>10. SummaryKnown'
  <2>1. Over(bench', bench.no)
    BY <1>1, <1>3 DEF Over, Off
  <2>2. Passed(asked', bench.no) = asked[bench.no].selected \ bench.failed
    BY <1>3, <1>5 DEF Passed
  <2>3. \A t \in Passed(asked', bench.no) : Fresh(docs'[t], bench.no)
    BY <1>1, <2>2 DEF BenchKnown
  <2> QED
    BY <1>4, <2>1, <2>3 DEF SummaryKnown
<1>11. BenchKnown'
  BY <1>1 DEF Off, BenchKnown
<1> QED
  BY <1>1, <1>6, <1>7, <1>8, <1>9, <1>10, <1>11, WriterInv

-----------------------------------------------------------------------------
(* The steps of a report.                                                   *)

LEMMA ReaderInv ==
  ASSUME Inv, UNCHANGED <<files, bench, asked>>, Shapes', Types',
         RowsKnown', ReadsKnown', PassedKnown'
  PROVE  Inv'
BY DEF Inv, files, DocsKnown, SummaryKnown, BenchKnown

(* It ends, or could not parse a file.                                      *)
LEMMA EndInv ==
  ASSUME Inv, UNCHANGED <<files, bench, asked>>, report' = NoReport
  PROVE  Inv'
<1> USE DEF NoReport, NoFile
<1>1. Shapes'
  BY DEF Inv, Shapes, files
<1>2. Types'
  BY DEF Inv, Types, files
<1>3. RowsKnown' /\ ReadsKnown' /\ PassedKnown'
  BY DEF RowsKnown, ReadsKnown, PassedKnown
<1> QED
  BY <1>1, <1>2, <1>3, ReaderInv

LEMMA ReadSummaryInv == Inv /\ ReadSummary => Inv'
<1> SUFFICES ASSUME Inv, ReadSummary, ~Fails(summary) PROVE Inv'
  BY EndInv DEF ReadSummary, Fails
<1>1. UNCHANGED <<files, bench, asked>> /\ summary # Torn
  BY DEF ReadSummary
<1>2. PICK since : report' = [pc |-> "list", since |-> since, summary |-> summary, todo |-> {},
                              cur |-> 0, doc |-> NoFile, rows |-> <<>>]
  BY DEF ReadSummary, NoReport
<1>3. Shapes'
  BY <1>1, <1>2 DEF Inv, Shapes, files
<1>4. Types'
  BY <1>1, <1>2 DEF Inv, Types, FileOf, files
<1>5. RowsKnown' /\ ReadsKnown'
  BY <1>2 DEF RowsKnown, ReadsKnown
<1>6. PassedKnown'
  BY <1>1, <1>2 DEF Inv, SummaryKnown, PassedKnown, files
<1> QED
  BY <1>1, <1>3, <1>4, <1>5, <1>6, ReaderInv

LEMMA ListDocsInv == Inv /\ ListDocs => Inv'
<1> SUFFICES ASSUME Inv, ListDocs PROVE Inv'
  OBVIOUS
<1> DEFINE todo == {t \in Topologies : Present(docs[t])}
<1>1. UNCHANGED <<files, bench, asked>> /\ report.pc = "list" /\ PassedKnown /\ RowsKnown
  BY DEF ListDocs, Inv
<1>2. report' = [pc |-> "docs", since |-> report.since, summary |-> report.summary,
                 todo |-> todo, cur |-> report.cur, doc |-> report.doc, rows |-> report.rows]
  BY DEF ListDocs, Inv, Shapes
<1>3. todo \subseteq Topologies /\ \A t \in todo : docs[t] # NoFile
  BY DEF Present, NoFile
<1>4. \A t \in Topologies : \A n : Fresh(docs[t], n) => t \in todo
  BY DEF Present, Fresh, Torn
<1> HIDE DEF todo
<1>5. Shapes'
  BY <1>1, <1>2 DEF Inv, Shapes, files
<1>6. Types'
  BY <1>1, <1>2, <1>3 DEF Inv, Types, files
<1>7. RowsKnown'
  BY <1>1, <1>2 DEF RowsKnown
<1>8. ReadsKnown'
  <2>1. DOMAIN report.rows = {}
    BY <1>1 DEF Inv, ReadsKnown
  <2> QED
    BY <1>1, <1>2, <1>3, <2>1 DEF ReadsKnown, files
<1>9. PassedKnown'
  <2> DEFINE n == report.summary.by
  <2> SUFFICES ASSUME report.summary.file = "whole"
               PROVE  /\ Over(bench, n)
                      /\ \A t \in Passed(asked, n) :
                           \/ t \in todo /\ Fresh(docs[t], n)
                           \/ t \in DOMAIN report.rows /\ report.rows[t].run.by >= n
    BY <1>1, <1>2 DEF PassedKnown, files
  <2>1. Over(bench, n) /\ Passed(asked, n) \subseteq Topologies
    BY <1>1, PassedType DEF PassedKnown, Inv
  <2>2. \A t \in Passed(asked, n) :
          Fresh(docs[t], n) \/ (t \in DOMAIN report.rows /\ report.rows[t].run.by >= n)
    BY <1>1 DEF PassedKnown
  <2> QED
    BY <1>4, <2>1, <2>2
<1> QED
  BY <1>1, <1>5, <1>6, <1>7, <1>8, <1>9, ReaderInv

LEMMA ReadDocInv == Inv /\ ReadDoc => Inv'
<1> SUFFICES ASSUME Inv, ReadDoc, report' # NoReport PROVE Inv'
  BY EndInv DEF ReadDoc
<1>1. UNCHANGED <<files, bench, asked>> /\ report.pc = "docs" /\ PassedKnown /\ RowsKnown
      /\ ReadsKnown /\ DocsKnown
  BY DEF ReadDoc, Inv
<1>2. PICK t \in report.todo :
        docs[t] # Torn /\ report' = [report EXCEPT !.pc = "metrics", !.cur = t, !.doc = docs[t]]
  BY DEF ReadDoc, Fails
<1>3. t \in Topologies /\ docs[t].file = "whole"
  BY <1>1, <1>2 DEF ReadsKnown, Inv, Types, FileOf
<1>4. report' = [pc |-> "metrics", since |-> report.since, summary |-> report.summary,
                 todo |-> report.todo, cur |-> t, doc |-> docs[t], rows |-> report.rows]
  BY <1>2 DEF Inv, Shapes
<1>5. Shapes'
  BY <1>1, <1>4 DEF Inv, Shapes, files
<1>6. Types'
  BY <1>1, <1>4 DEF Inv, Types, files
<1>7. RowsKnown'
  BY <1>1, <1>4 DEF RowsKnown
<1>8. ReadsKnown'
  BY <1>1, <1>2, <1>3, <1>4 DEF ReadsKnown, DocsKnown, files
<1>9. PassedKnown'
  <2> DEFINE n == report.summary.by
  <2> SUFFICES ASSUME report.summary.file = "whole"
               PROVE  /\ Over(bench, n)
                      /\ \A u \in Passed(asked, n) :
                           \/ u \in report.todo \ {t} /\ Fresh(docs[u], n)
                           \/ u = t /\ docs[t].by >= n
                           \/ u \in DOMAIN report.rows /\ report.rows[u].run.by >= n
    BY <1>1, <1>4 DEF PassedKnown, files
  <2>1. Over(bench, n)
    BY <1>1 DEF PassedKnown
  <2>2. \A u \in Passed(asked, n) :
          \/ u \in report.todo /\ Fresh(docs[u], n)
          \/ u \in DOMAIN report.rows /\ report.rows[u].run.by >= n
    BY <1>1 DEF PassedKnown
  <2>3. Fresh(docs[t], n) => docs[t].by >= n
    BY <1>2 DEF Fresh
  <2> HIDE DEF n
  <2> QED
    BY <2>1, <2>2, <2>3
<1> QED
  BY <1>1, <1>5, <1>6, <1>7, <1>8, <1>9, ReaderInv

LEMMA ReadMetricsInv == Inv /\ ReadMetrics => Inv'
<1> SUFFICES ASSUME Inv, ReadMetrics, report' # NoReport PROVE Inv'
  BY EndInv DEF ReadMetrics
<1> DEFINE t == report.cur
           row == Row(metrics[t])
           rows == [u \in DOMAIN report.rows \cup {t} |-> IF u = t THEN row ELSE report.rows[u]]
<1>1. UNCHANGED <<files, bench, asked>> /\ report.pc = "metrics" /\ PassedKnown /\ RowsKnown
      /\ ReadsKnown
  BY DEF ReadMetrics, Inv
<1>2. metrics[t] # Torn
      /\ report' = [report EXCEPT !.pc = "docs", !.cur = 0, !.doc = NoFile,
                                  !.todo = @ \ {t}, !.rows = rows]
  BY DEF ReadMetrics, Fails
<1>3. row.run = report.doc /\ row.metrics = metrics[t]
  BY DEF Row
<1>4. DOMAIN rows = DOMAIN report.rows \cup {t} /\ rows[t] = row
      /\ \A u \in DOMAIN report.rows : u # t => rows[u] = report.rows[u]
  OBVIOUS
<1> HIDE DEF row, rows
<1>5. report' = [pc |-> "docs", since |-> report.since, summary |-> report.summary,
                 todo |-> report.todo \ {t}, cur |-> 0, doc |-> NoFile, rows |-> rows]
  BY <1>2 DEF Inv, Shapes
<1>6. Shapes'
  BY <1>1, <1>5 DEF Inv, Shapes, files
<1>7. Types'
  BY <1>1, <1>5 DEF Inv, Types, files
<1>8. RowsKnown'
  <2>1. row.run.file = "whole" /\ row.run.by \in 1..bench.no
        /\ (Rated(asked, row.run) => row.metrics.file = "whole" /\ row.metrics.by >= row.run.by)
    BY <1>1, <1>2, <1>3 DEF ReadsKnown, Known, Fresh
  <2> QED
    BY <1>1, <1>4, <1>5, <2>1 DEF RowsKnown
<1>9. ReadsKnown' /\ t \notin DOMAIN report.rows
  BY <1>1, <1>4, <1>5 DEF ReadsKnown, files
<1>10. PassedKnown'
  <2> DEFINE n == report.summary.by
  <2> SUFFICES ASSUME report.summary.file = "whole"
               PROVE  /\ Over(bench, n)
                      /\ \A u \in Passed(asked, n) :
                           \/ u \in report.todo \ {t} /\ Fresh(docs[u], n)
                           \/ u \in DOMAIN rows /\ rows[u].run.by >= n
    BY <1>1, <1>5 DEF PassedKnown, files
  <2>1. Over(bench, n)
    BY <1>1 DEF PassedKnown
  <2>2. \A u \in Passed(asked, n) :
          \/ u \in report.todo \ {t} /\ Fresh(docs[u], n)
          \/ u = t /\ report.doc.by >= n
          \/ u \in DOMAIN report.rows /\ report.rows[u].run.by >= n
    BY <1>1 DEF PassedKnown
  <2> HIDE DEF n
  <2> QED
    BY <1>3, <1>4, <1>9, <2>1, <2>2
<1> QED
  BY <1>1, <1>6, <1>7, <1>8, <1>9, <1>10, ReaderInv

-----------------------------------------------------------------------------
LEMMA NextInv == Inv /\ [Next]_vars => Inv'
<1> SUFFICES ASSUME Inv, [Next]_vars PROVE Inv'
  OBVIOUS
<1>1. CASE UNCHANGED vars
  BY <1>1 DEF vars, files, Inv, Shapes, Types, DocsKnown, SummaryKnown, BenchKnown, RowsKnown,
              ReadsKnown, PassedKnown
<1>2. CASE Close
  BY <1>2, EndInv DEF Close
<1>3. CASE Start \/ Simulate \/ OpenMetrics \/ WriteMetrics \/ DiffFails \/ TopologyRaises
  BY <1>3, StartInv, SimulateInv, OpenMetricsInv, WriteMetricsInv, DiffFailsInv,
     TopologyRaisesInv
<1>4. CASE OpenDoc \/ WriteDoc \/ OpenSummary \/ WriteSummary \/ Stop
  BY <1>4, OpenDocInv, WriteDocInv, OpenSummaryInv, WriteSummaryInv, StopInv
<1>5. CASE ReadSummary \/ ListDocs \/ ReadDoc \/ ReadMetrics
  BY <1>5, ReadSummaryInv, ListDocsInv, ReadDocInv, ReadMetricsInv
<1> QED
  BY <1>1, <1>2, <1>3, <1>4, <1>5 DEF Next

(* The inductive invariant holds.                                           *)
THEOREM InvHolds == Spec => []Inv
<1>1. Init => Inv
  BY InitInv
<1>2. Inv /\ [Next]_vars => Inv'
  BY NextInv
<1> QED
  BY <1>1, <1>2, PTL DEF Spec

(* A report never shows a passed with-truth run with rates that are missing *)
(* or older than it (_compute_diff before _write_run_result, load_results   *)
(* in the other order), whatever was written meanwhile.                     *)
THEOREM MetricsHold == Spec => []MetricsNotOlder
<1>1. Inv => MetricsNotOlder
  BY DEF Inv, RowsKnown, MetricsNotOlder, Rows, Run, Rates, Rated, Present
<1> QED
  BY <1>1, InvHolds, PTL

(* Every topology that the summary shown takes for passed is on the page,   *)
(* with a result of that bench or a later process (bench writes its summary *)
(* last, load_results reads it first).                                      *)
THEOREM PassedRowsHold == Spec => []PassedRowsAreCurrent
<1>1. Inv => PassedRowsAreCurrent
  BY DEF Inv, Types, NoFile, PassedKnown, PassedRowsAreCurrent, Loaded, Rows, Run, Present,
         Passed
<1> QED
  BY <1>1, InvHolds, PTL

-----------------------------------------------------------------------------
(* Whose results the page of a clean bench shows.  Says is what Inv lacks   *)
(* for that: which results a bench has failed, and the mode of a summary.   *)

(* A result d of process n that did not pass is one that n has failed.      *)
Told(a, n, t, d) ==
  d.file = "whole" /\ d.by = n => d.status = "passed" \/ t \in a[n].failed

Labelled(a, s) == s.mode = Absent => a[s.by].mode = "with_truth"

Selecting ==
  /\ bench.mode # Absent
  /\ \A n \in 1..bench.no : asked[n].selected # {}

Until(no, f) == f.by \in Nat /\ f.by <= no

Dated ==
  /\ \A t \in Topologies : metrics[t].file = "whole" => Until(bench.no, metrics[t])
  /\ DOMAIN report.rows \subseteq Topologies
  /\ \A t \in DOMAIN report.rows :
       report.rows[t].metrics.file = "whole" => Until(bench.no, report.rows[t].metrics)

BenchSays ==
  bench.pc # "off" =>
    \A t \in Topologies : docs[t].file = "whole" /\ docs[t].by = bench.no =>
      docs[t].status = "passed" \/ t \in bench.failed

SummarySays ==
  summary.file = "whole" =>
    /\ Labelled(asked, summary)
    /\ \A t \in Topologies : Told(asked, summary.by, t, docs[t])

ReportSays ==
  report.summary.file = "whole" =>
    /\ Labelled(asked, report.summary)
    /\ \A t \in Topologies : Told(asked, report.summary.by, t, docs[t])
    /\ report.pc = "metrics" => Told(asked, report.summary.by, report.cur, report.doc)
    /\ \A t \in DOMAIN report.rows : Told(asked, report.summary.by, t, report.rows[t].run)

Says == Selecting /\ Dated /\ BenchSays /\ SummarySays /\ ReportSays

LEMMA InitSays == Init => Says
<1> SUFFICES ASSUME Init PROVE Says
  OBVIOUS
<1> USE DEF Init, Off, NoReport, NoFile
<1>1. Selecting /\ BenchSays
  BY DEF Selecting, BenchSays, Absent
<1>2. Dated
  BY DEF Dated
<1>3. SummarySays /\ ReportSays
  BY DEF SummarySays, ReportSays
<1> QED
  BY <1>1, <1>2, <1>3 DEF Says

Writes ==
  \/ Start \/ Simulate \/ OpenMetrics \/ WriteMetrics \/ DiffFails \/ TopologyRaises
  \/ OpenDoc \/ WriteDoc \/ OpenSummary \/ WriteSummary \/ Stop

(* What a step of a process that writes may change.                         *)
Bounded ==
  /\ report' = report /\ bench.no \in Nat /\ bench'.no \in Nat /\ bench'.no >= bench.no
  /\ \A n \in 1..bench.no :
       asked'[n].mode = asked[n].mode /\ asked'[n].selected = asked[n].selected
  /\ \A n : Over(bench, n) => asked'[n] = asked[n]
  /\ \A t \in Topologies :
       \/ docs'[t] \in {docs[t], Torn}
       \/ bench.pc = "doc" /\ t = bench.cur /\ docs'[t] = bench.doc
  /\ \A t \in Topologies :
       metrics'[t] \in {metrics[t], Torn} \/ metrics'[t].by = bench.no

LEMMA NumberStays ==
  ASSUME Inv,
         \/ Simulate \/ OpenMetrics \/ WriteMetrics \/ DiffFails \/ TopologyRaises
         \/ OpenDoc \/ WriteDoc \/ OpenSummary \/ WriteSummary \/ Stop
  PROVE  bench'.no = bench.no /\ bench'.mode \in {bench.mode, "smoke"}
<1>1. bench = [pc |-> bench.pc, no |-> bench.no, mode |-> bench.mode, hooks |-> bench.hooks,
               todo |-> bench.todo, failed |-> bench.failed, scored |-> bench.scored,
               cur |-> bench.cur, doc |-> bench.doc]
  BY DEF Inv, Shapes
<1>2. CASE Simulate
  BY <1>1, <1>2 DEF Simulate
<1>3. CASE OpenMetrics \/ WriteMetrics \/ DiffFails
  BY <1>1, <1>3 DEF OpenMetrics, WriteMetrics, DiffFails
<1>4. CASE TopologyRaises \/ OpenDoc \/ OpenSummary
  BY <1>1, <1>4 DEF TopologyRaises, OpenDoc, OpenSummary
<1>5. CASE WriteDoc
  BY <1>1, <1>5 DEF WriteDoc
<1>6. CASE WriteSummary \/ Stop
  BY <1>6 DEF WriteSummary, Stop, Off
<1> QED
  BY <1>2, <1>3, <1>4, <1>5, <1>6

LEMMA WritesBounded ==
  ASSUME Inv, Writes
  PROVE  Bounded
<1>0. bench.no \in Nat /\ \A n \in 1..bench.no : n \in 1..MaxRuns /\ n # bench.no + 1
  BY Runs DEF Inv, Types
<1>1. CASE Simulate \/ DiffFails \/ TopologyRaises \/ Stop
  <2>1. UNCHANGED <<files, report, asked>>
    BY <1>1 DEF Simulate, DiffFails, TopologyRaises, Stop
  <2>2. bench'.no = bench.no
    BY <1>1, NumberStays
  <2> QED
    BY <2>1, <2>2, <1>0 DEF Bounded, files
<1>2. CASE OpenMetrics \/ WriteMetrics
  <2>1. UNCHANGED <<docs, report, asked>> /\ bench'.no = bench.no
    BY <1>2 DEF OpenMetrics, WriteMetrics, Inv, Shapes
  <2>2. \A t \in Topologies : metrics'[t] \in {metrics[t], Torn} \/ metrics'[t].by = bench.no
    BY <1>2 DEF OpenMetrics, WriteMetrics, Inv, Shapes
  <2> QED
    BY <2>1, <2>2, <1>0 DEF Bounded
<1>3. CASE OpenDoc \/ WriteDoc
  <2>1. UNCHANGED <<metrics, report, asked>> /\ bench'.no = bench.no
    BY <1>3 DEF OpenDoc, WriteDoc, Inv, Shapes
  <2>2. \A t \in Topologies :
          \/ docs'[t] \in {docs[t], Torn}
          \/ bench.pc = "doc" /\ t = bench.cur /\ docs'[t] = bench.doc
    BY <1>3 DEF OpenDoc, WriteDoc, Inv, Shapes
  <2> QED
    BY <2>1, <2>2, <1>0 DEF Bounded
<1>4. CASE OpenSummary
  <2>1. UNCHANGED <<metrics, docs, report, asked>> /\ bench'.no = bench.no
    BY <1>4 DEF OpenSummary, Inv, Shapes
  <2> QED
    BY <2>1, <1>0 DEF Bounded
<1>5. CASE WriteSummary
  <2>1. UNCHANGED <<metrics, docs, report>> /\ bench'.no = bench.no
    BY <1>5 DEF WriteSummary, Off
  <2>2. \A n \in 1..MaxRuns : /\ asked'[n].mode = asked[n].mode
                              /\ asked'[n].selected = asked[n].selected
                              /\ n # bench.no => asked'[n] = asked[n]
    BY <1>5 DEF WriteSummary, Inv, Shapes
  <2>3. \A n : Over(bench, n) => n \in 1..bench.no /\ n # bench.no
    BY <1>5, <1>0 DEF WriteSummary, Over
  <2> QED
    BY <2>1, <2>2, <2>3, <1>0 DEF Bounded
<1>6. CASE Start
  <2>1. UNCHANGED <<files, report>> /\ bench'.no = bench.no + 1
    BY <1>6 DEF Start, Off
  <2>2. PICK r : asked' = [asked EXCEPT ![bench.no + 1] = r]
    BY <1>6 DEF Start
  <2>3. \A n \in 1..MaxRuns : n # bench.no + 1 => asked'[n] = asked[n]
    BY <2>2 DEF Inv, Shapes
  <2>4. \A n : Over(bench, n) => n \in 1..bench.no
    BY DEF Over
  <2> QED
    BY <2>1, <2>3, <2>4, <1>0 DEF Bounded, files
<1> QED
  BY <1>1, <1>2, <1>3, <1>4, <1>5, <1>6 DEF Writes

(* What is told of the results of a process that is over stays true.        *)
LEMMA ToldStays ==
  ASSUME Inv, Bounded, NEW n, Over(bench, n),
         \A t \in Topologies : Told(asked, n, t, docs[t])
  PROVE  /\ \A t \in Topologies : Told(asked', n, t, docs'[t])
         /\ \A t, d : Told(asked, n, t, d) => Told(asked', n, t, d)
<1>1. asked'[n] = asked[n]
  BY DEF Bounded
<1>2. ASSUME NEW t \in Topologies
      PROVE  Told(asked, n, t, docs'[t])
  <2>1. CASE docs'[t] \in {docs[t], Torn}
    BY <2>1 DEF Told, Torn
  <2>2. CASE bench.pc = "doc" /\ docs'[t] = bench.doc
    <3>1. bench.doc.by = bench.no
      BY <2>2 DEF Inv, BenchKnown
    <3>2. n # bench.no
      BY <2>2, Runs DEF Over, Inv, Types
    <3> QED
      BY <2>2, <3>1, <3>2 DEF Told
  <2> QED
    BY <2>1, <2>2 DEF Bounded
<1> QED
  BY <1>1, <1>2 DEF Told

LEMMA WritesSay ==
  ASSUME Inv, Says, Writes
  PROVE  Says'
<1>0. Bounded
  BY WritesBounded
<1>1. bench.no \in Nat /\ bench'.no \in Nat /\ bench'.no >= bench.no /\ report' = report
  BY <1>0 DEF Bounded
<1>2. Selecting'
  <2>1. CASE Start
    <3>1. PICK mode \in Modes, selected \in (SUBSET Topologies) \ {{}},
              hooks \in HookSets \cup {{}} :
            asked' = [asked EXCEPT ![bench.no + 1] =
                      [mode |-> mode, hooks |-> hooks, selected |-> selected, failed |-> {}]]
      BY <2>1 DEF Start
    <3>2. bench'.no = bench.no + 1 /\ bench.no + 1 \in 1..MaxRuns
      BY <2>1, <1>1, Runs DEF Start, Off
    <3>3. asked'[bench.no + 1].selected # {}
      <4>1. asked'[bench.no + 1] =
              [mode |-> mode, hooks |-> hooks, selected |-> selected, failed |-> {}]
        BY <3>1, <3>2 DEF Inv, Shapes
      <4> QED
        BY <3>1, <4>1
    <3>4. \A n \in 1..(bench.no + 1) : n = bench.no + 1 \/ n \in 1..bench.no
      BY <1>1
    <3>5. bench'.mode # Absent
      BY <2>1, DirAssumption DEF Start, Off, DirAssumption, Absent
    <3> QED
      BY <3>2, <3>3, <3>4, <3>5, <1>0 DEF Says, Selecting, Bounded
  <2>2. CASE bench'.no = bench.no /\ bench'.mode # Absent
    BY <2>2, <1>0 DEF Says, Selecting, Bounded
  <2>3. Start \/ (bench'.no = bench.no /\ bench'.mode \in {bench.mode, "smoke"})
    BY NumberStays DEF Writes
  <2> QED
    BY <2>1, <2>2, <2>3 DEF Says, Selecting, Absent
<1>3. Dated'
  <2>1. \A f : Until(bench.no, f) => Until(bench'.no, f)
    BY <1>1 DEF Until
  <2>2. \A t \in Topologies : metrics'[t].file = "whole" => Until(bench'.no, metrics'[t])
    <3>1. \A f : f.by = bench.no => Until(bench'.no, f)
      BY <1>1 DEF Until
    <3> QED
      BY <1>0, <2>1, <3>1 DEF Bounded, Says, Dated, Torn
  <2> QED
    BY <1>1, <2>1, <2>2 DEF Says, Dated
<1>4. ReportSays'
  <2> SUFFICES ASSUME report.summary.file = "whole"
               PROVE  ReportSays'
    BY <1>1 DEF ReportSays
  <2> DEFINE n == report.summary.by
  <2>1. Over(bench, n) /\ n \in 1..bench.no
    BY DEF Inv, PassedKnown, Over
  <2>2. Labelled(asked', report.summary)
    BY <2>1, <1>0 DEF Says, ReportSays, Labelled, Bounded
  <2>3. \A t \in Topologies : Told(asked, n, t, docs[t])
    BY DEF Says, ReportSays
  <2>4. /\ \A t \in Topologies : Told(asked', n, t, docs'[t])
        /\ \A t, d : Told(asked, n, t, d) => Told(asked', n, t, d)
    BY <2>1, <2>3, <1>0, ToldStays
  <2>5. /\ report.pc = "metrics" => Told(asked', n, report.cur, report.doc)
        /\ \A t \in DOMAIN report.rows : Told(asked', n, t, report.rows[t].run)
    BY <2>4 DEF Says, ReportSays
  <2> QED
    BY <1>1, <2>2, <2>4, <2>5 DEF ReportSays
<1>5. SummarySays'
  <2>1. CASE summary' = summary /\ summary.file = "whole"
    <3> DEFINE n == summary.by
    <3>1. Over(bench, n) /\ n \in 1..bench.no
      BY <2>1 DEF Inv, SummaryKnown, Over
    <3>2. Labelled(asked', summary)
      BY <2>1, <3>1, <1>0 DEF Says, SummarySays, Labelled, Bounded
    <3>3. \A t \in Topologies : Told(asked, n, t, docs[t])
      BY <2>1 DEF Says, SummarySays
    <3>4. \A t \in Topologies : Told(asked', n, t, docs'[t])
      BY <3>1, <3>3, <1>0, ToldStays
    <3> QED
      BY <2>1, <3>2, <3>4 DEF SummarySays
  <2>2. CASE summary'.file # "whole"
    BY <2>2 DEF SummarySays
  <2>3. CASE WriteSummary
    <3>1. bench.pc = "summary" /\ docs' = docs /\ bench.no \in 1..MaxRuns
          /\ asked[bench.no].mode = bench.mode
      BY <2>3 DEF WriteSummary, Inv, BenchKnown
    <3>2. asked'[bench.no].failed = bench.failed /\ asked'[bench.no].mode = bench.mode
      BY <2>3, <3>1 DEF WriteSummary, Inv, Shapes
    <3>3. summary'.by = bench.no /\ (summary'.mode = Absent <=> bench.mode = "with_truth")
      <4>1. bench.mode # Absent
        BY DEF Says, Selecting
      <4> QED
        BY <2>3, <4>1 DEF WriteSummary
    <3>4. \A t \in Topologies : Told(asked', bench.no, t, docs'[t])
      BY <3>1, <3>2 DEF Says, BenchSays, Told
    <3> QED
      BY <3>2, <3>3, <3>4 DEF SummarySays, Labelled
  <2>4. summary' = summary \/ summary'.file # "whole" \/ WriteSummary
    <3>1. Start \/ Simulate \/ DiffFails \/ TopologyRaises \/ Stop => summary' = summary
      BY DEF Start, Simulate, DiffFails, TopologyRaises, Stop, files
    <3>2. OpenMetrics \/ WriteMetrics \/ OpenDoc \/ WriteDoc => summary' = summary
      BY DEF OpenMetrics, WriteMetrics, OpenDoc, WriteDoc
    <3>3. OpenSummary => summary'.file # "whole"
      BY DEF OpenSummary, Torn
    <3> QED
      BY <3>1, <3>2, <3>3 DEF Writes
  <2> QED
    BY <2>1, <2>2, <2>3, <2>4
<1>6. BenchSays'
  <2>1. CASE Start
    <3>1. docs' = docs /\ bench'.no = bench.no + 1
      BY <2>1 DEF Start, Off, files
    <3>2. \A t \in Topologies : docs[t].file = "whole" => docs[t].by \in 1..bench.no
      BY DEF Inv, DocsKnown, Known
    <3>3. \A t \in Topologies : docs[t].file = "whole" => docs[t].by # bench.no + 1
      BY <3>2, <1>1
    <3> QED
      BY <3>1, <3>3 DEF BenchSays
  <2>2. CASE WriteDoc
    <3>1. bench.pc = "doc" /\ docs' = [docs EXCEPT ![bench.cur] = bench.doc]
      BY <2>2 DEF WriteDoc
    <3>2. bench'.no = bench.no
      BY <2>2 DEF WriteDoc, Inv, Shapes
    <3>3. bench.failed \subseteq bench'.failed
          /\ (bench.doc.status = "passed" \/ bench.cur \in bench'.failed)
      BY <2>2 DEF WriteDoc, Inv, Shapes
    <3>4. \A t \in Topologies : docs'[t] = IF t = bench.cur THEN bench.doc ELSE docs[t]
      BY <3>1 DEF Inv, Shapes
    <3> QED
      BY <3>1, <3>2, <3>3, <3>4 DEF Says, BenchSays
  <2>3. CASE OpenDoc
    <3>1. /\ bench.pc # "off" /\ bench'.no = bench.no /\ bench'.failed = bench.failed
          /\ \A t \in Topologies : docs'[t] \in {docs[t], Torn}
      BY <2>3 DEF OpenDoc, Inv, Shapes
    <3> QED
      BY <3>1 DEF Says, BenchSays, Torn
  <2>4. CASE Simulate \/ OpenMetrics \/ WriteMetrics \/ DiffFails \/ TopologyRaises
             \/ OpenSummary
    <3>1. /\ docs' = docs /\ bench.pc # "off" /\ bench'.no = bench.no
          /\ bench.failed \subseteq bench'.failed
      BY <2>4 DEF Simulate, OpenMetrics, WriteMetrics, DiffFails, TopologyRaises,
         OpenSummary, files, Inv, Shapes
    <3> QED
      BY <3>1 DEF Says, BenchSays
  <2>5. CASE WriteSummary \/ Stop
    BY <2>5 DEF WriteSummary, Stop, Off, BenchSays
  <2> QED
    BY <2>1, <2>2, <2>3, <2>4, <2>5 DEF Writes
<1> QED
  BY <1>2, <1>3, <1>4, <1>5, <1>6 DEF Says

LEMMA ReadsSay ==
  ASSUME Inv, Says, ReadSummary \/ ListDocs \/ ReadDoc \/ ReadMetrics \/ Close
  PROVE  Says'
<1>1. UNCHANGED <<metrics, docs, summary, bench, asked>>
  BY DEF ReadSummary, ListDocs, ReadDoc, ReadMetrics, Close, files
<1>2. Selecting' /\ BenchSays' /\ SummarySays'
  BY <1>1 DEF Says, Selecting, BenchSays, SummarySays
<1>3. CASE report' = NoReport
  <2>1. Dated'
    BY <1>1, <1>3 DEF Says, Dated, NoReport
  <2>2. ReportSays'
    BY <1>3 DEF ReportSays, NoReport, NoFile
  <2> QED
    BY <1>2, <2>1, <2>2 DEF Says
<1>4. CASE ReadSummary /\ report' # NoReport
  <2>1. report'.summary = summary /\ report'.pc = "list" /\ report'.rows = <<>>
    BY <1>4 DEF ReadSummary, Fails, NoReport
  <2>2. Dated'
    BY <1>1, <2>1 DEF Says, Dated
  <2>3. ReportSays'
    BY <1>1, <2>1 DEF Says, SummarySays, ReportSays
  <2> QED
    BY <1>2, <2>2, <2>3 DEF Says
<1>5. CASE ListDocs
  <2>1. /\ report'.summary = report.summary /\ report'.pc = "docs"
        /\ report'.rows = report.rows
    BY <1>5 DEF ListDocs, Inv, Shapes
  <2> QED
    BY <1>1, <1>2, <2>1 DEF Says, Dated, ReportSays
<1>6. CASE ReadDoc /\ report' # NoReport
  <2>1. PICK t \in report.todo :
          report' = [report EXCEPT !.pc = "metrics", !.cur = t, !.doc = docs[t]]
    BY <1>6 DEF ReadDoc, Fails
  <2>2. /\ report'.summary = report.summary /\ report'.cur = t /\ report'.doc = docs[t]
        /\ report'.rows = report.rows /\ t \in Topologies
    BY <2>1 DEF Inv, Shapes, Types
  <2> QED
    BY <1>1, <1>2, <2>2 DEF Says, Dated, ReportSays
<1>7. CASE ReadMetrics /\ report' # NoReport
  <2> DEFINE t == report.cur
             row == Row(metrics[t])
             rows == [u \in DOMAIN report.rows \cup {t} |-> IF u = t THEN row ELSE report.rows[u]]
  <2>1. /\ report.pc = "metrics"
        /\ report' = [report EXCEPT !.pc = "docs", !.cur = 0, !.doc = NoFile,
                                    !.todo = @ \ {t}, !.rows = rows]
    BY <1>7 DEF ReadMetrics, Fails
  <2>2. row.run = report.doc /\ row.metrics = metrics[t] /\ t \in Topologies
    BY <2>1 DEF Row, Inv, ReadsKnown, Types
  <2>3. DOMAIN rows = DOMAIN report.rows \cup {t} /\ rows[t] = row
        /\ \A u \in DOMAIN report.rows : u # t => rows[u] = report.rows[u]
    OBVIOUS
  <2> HIDE DEF row, rows, t
  <2>4. report'.summary = report.summary /\ report'.pc = "docs" /\ report'.rows = rows
    BY <2>1 DEF Inv, Shapes
  <2>5. Dated'
    BY <1>1, <2>2, <2>3, <2>4 DEF Says, Dated
  <2>6. ReportSays'
    <3>1. report.summary.file = "whole" => Told(asked, report.summary.by, t, report.doc)
      BY <2>1 DEF Says, ReportSays, t
    <3> QED
      BY <1>1, <2>2, <2>3, <2>4, <3>1 DEF Says, ReportSays
  <2> QED
    BY <1>2, <2>5, <2>6 DEF Says
<1> QED
  BY <1>3, <1>4, <1>5, <1>6, <1>7 DEF Close

(* What Inv lacks to tell whose page it is holds as well.                   *)
THEOREM SaysHolds == Spec => []Says
<1>1. Inv /\ Says /\ [Next]_vars => Says'
  <2> SUFFICES ASSUME Inv, Says, [Next]_vars PROVE Says'
    OBVIOUS
  <2>1. CASE UNCHANGED vars
    BY <2>1 DEF vars, files, Says, Selecting, Dated, BenchSays, SummarySays, ReportSays
  <2> QED
    BY <2>1, WritesSay, ReadsSay DEF Next, Writes
<1> QED
  BY <1>1, InitSays, InvHolds, PTL DEF Spec

(* After a bench over every topology that failed nowhere and was the last   *)
(* to write, both pages show a result of that bench for every topology; the *)
(* rates of the Markdown page are of that bench too, or are not shown       *)
(* (render_markdown), and those of the HTML page are if the bench was one   *)
(* with truth (render_html, which shows what it finds after any other).     *)
THEOREM CleanBenchHolds == Spec => []CleanBenchShowsItself
<1>1. Inv /\ Says => CleanBenchShowsItself
  <2> DEFINE n == report.summary.by
  <2> SUFFICES ASSUME Inv, Says, Loaded, Present(report.summary), n = bench.no,
                      asked[n].hooks # {}, asked[n].selected = Topologies,
                      asked[n].failed = {}
               PROVE  /\ Rows = Topologies /\ MarkdownShows = {n}
                      /\ asked[n].mode = "with_truth" => HtmlShows = {n}
    BY DEF CleanBenchShowsItself
  <2>1. report.summary.file = "whole" /\ bench.no \in Nat
    BY Runs DEF Inv, Types, Present, NoFile
  <2>2. Over(bench, n) /\ n \in 1..bench.no
    BY <2>1 DEF Inv, PassedKnown, Over
  <2>3. Passed(asked, n) = Topologies /\ Topologies # {}
    BY <2>2 DEF Passed, Says, Selecting
  <2>4. \A t \in Topologies : t \in Rows /\ Run(t).by >= n
    BY <2>1, <2>3 DEF Inv, PassedKnown, Loaded, Rows, Run
  <2>5. Rows = Topologies
    BY <2>4 DEF Says, Dated, Rows
  <2>6. \A t \in Rows : Run(t).file = "whole" /\ Run(t).by \in 1..bench.no
    BY DEF Inv, RowsKnown, Rows, Run
  <2>7. \A t \in Rows : Run(t).by = n
    BY <2>1, <2>4, <2>5, <2>6
  <2>8. \A t \in Rows : Run(t).status = "passed"
    BY <2>1, <2>6, <2>7 DEF Says, ReportSays, Told, Rows, Run
  <2>9. ASSUME asked[n].mode = "with_truth", NEW t \in Rows
        PROVE  Rates(t).by = n
    <3>1. Rated(asked, Run(t))
      BY <2>7, <2>8, <2>9 DEF Rated
    <3>2. Rates(t).file = "whole" /\ Rates(t).by >= n
      BY <2>7, <3>1 DEF Inv, RowsKnown, Rows, Run, Rates
    <3>3. Rates(t).by \in Nat /\ Rates(t).by <= n
      BY <3>2 DEF Says, Dated, Until, Rows, Rates
    <3> QED
      BY <3>2, <3>3, <2>1
  <2>10. {Run(t).by : t \in Rows} = {n}
    BY <2>3, <2>5, <2>7
  <2>11. \A t \in {u \in Rows : Present(Rates(u)) /\ report.summary.mode = Absent} :
           Rates(t).by = n
    BY <2>1, <2>9 DEF Says, ReportSays, Labelled
  <2>12. MarkdownShows = {n}
    BY <2>10, <2>11 DEF MarkdownShows
  <2>13. asked[n].mode = "with_truth" => HtmlShows = {n}
    BY <2>9, <2>10 DEF HtmlShows
  <2> QED
    BY <2>5, <2>12, <2>13
<1> QED
  BY <1>1, InvHolds, SaysHolds, PTL

-----------------------------------------------------------------------------
(* The coverage counts.  What a summary counts is what its process passed,  *)
(* so a page whose rows are all of that process counts the same topologies, *)
(* and each layout of a result has its verdict where the page looks for it. *)

(* What process n made of Hammerhead's verdict on t.                        *)
Judged(a, n, t) == IF "hammerhead" \in a[n].hooks THEN Verdict[t] ELSE Unknown

(* A result d of a process n with hooks is one that n passed or has failed, *)
(* and the page finds n's verdict in it.                                    *)
Kept(a, n, t, d) ==
  d.file = "whole" /\ d.by = n /\ a[n].hooks # {} =>
    /\ d.status = "passed" <=> t \in Passed(a, n)
    /\ d.status = "passed" => HammerheadCoverage(d) = Judged(a, n, t)

Tally(a, n) ==
  LET saying(v) == Cardinality({t \in Passed(a, n) : Judged(a, n, t) = v})
  IN [complete |-> saying("complete"), degraded |-> saying("degraded"),
      unknown |-> saying(Unknown)]

Tallied(a, s) == a[s.by].hooks # {} => s.coverage = Tally(a, s.by)

(* The process that writes, if it has hooks: what it scored is what it has  *)
(* done and not failed.                                                     *)
BenchTallies ==
  bench.pc # "off" /\ bench.hooks # {} =>
    /\ bench.mode \in {"with_truth", "sim_only", "frr_only_truth"}
    /\ bench.todo \subseteq asked[bench.no].selected /\ bench.failed \cap bench.todo = {}
    /\ bench.scored = (asked[bench.no].selected \ bench.todo) \ bench.failed
    /\ bench.pc \in {"result", "doc"} /\ bench.doc.status = "passed" =>
         HammerheadCoverage(bench.doc) = VerdictOf(bench.cur)
    /\ \A t \in Topologies : docs[t].file = "whole" /\ docs[t].by = bench.no =>
         /\ docs[t].status = "passed" <=> t \in bench.scored
         /\ docs[t].status = "passed" => HammerheadCoverage(docs[t]) = VerdictOf(t)

SummaryTallies ==
  summary.file = "whole" =>
    /\ Tallied(asked, summary)
    /\ \A t \in Topologies : Kept(asked, summary.by, t, docs[t])

ReportTallies ==
  report.summary.file = "whole" =>
    /\ Tallied(asked, report.summary)
    /\ \A t \in Topologies : Kept(asked, report.summary.by, t, docs[t])
    /\ report.pc = "metrics" => Kept(asked, report.summary.by, report.cur, report.doc)
    /\ \A t \in DOMAIN report.rows : Kept(asked, report.summary.by, t, report.rows[t].run)

Tallies == BenchTallies /\ SummaryTallies /\ ReportTallies

LEMMA InitTallies == Init => Tallies
BY DEF Init, Off, NoReport, NoFile, Tallies, BenchTallies, SummaryTallies, ReportTallies

(* A result that passed has its verdict where the page looks first.         *)
LEMMA PayloadVerdict ==
  ASSUME bench.mode \in {"with_truth", "sim_only", "frr_only_truth"},
         NEW t \in Topologies
  PROVE  HammerheadCoverage(Payload(t, "passed", VerdictOf(t))) = VerdictOf(t)
<1> DEFINE v == VerdictOf(t)
<1>1. v # Absent
  BY DirAssumption DEF DirAssumption, VerdictOf, Absent, Unknown
<1> HIDE DEF v
<1> QED
  BY <1>1 DEF Payload, HammerheadCoverage, Absent, v

(* What is kept of a process that is over stays so.                         *)
LEMMA KeptStays ==
  ASSUME Inv, Bounded, NEW n, Over(bench, n),
         \A t \in Topologies : Kept(asked, n, t, docs[t])
  PROVE  /\ \A t \in Topologies : Kept(asked', n, t, docs'[t])
         /\ \A t, d : Kept(asked, n, t, d) => Kept(asked', n, t, d)
         /\ \A s : s.by = n /\ Tallied(asked, s) => Tallied(asked', s)
<1>1. asked'[n] = asked[n]
  BY DEF Bounded
<1>2. /\ \A t, d : Kept(asked, n, t, d) => Kept(asked', n, t, d)
      /\ \A s : s.by = n /\ Tallied(asked, s) => Tallied(asked', s)
  BY <1>1 DEF Kept, Passed, Judged, Tallied, Tally
<1>3. ASSUME NEW t \in Topologies
      PROVE  Kept(asked, n, t, docs'[t])
  <2>1. CASE docs'[t] \in {docs[t], Torn}
    BY <2>1 DEF Kept, Torn
  <2>2. CASE bench.pc = "doc" /\ docs'[t] = bench.doc
    <3>1. bench.doc.by = bench.no
      BY <2>2 DEF Inv, BenchKnown
    <3>2. n # bench.no
      BY <2>2, Runs DEF Over, Inv, Types
    <3> QED
      BY <2>2, <3>1, <3>2 DEF Kept
  <2> QED
    BY <2>1, <2>2 DEF Bounded
<1> QED
  BY <1>2, <1>3

(* Most steps of a process that writes keep its books.                      *)
LEMMA BenchQuiet ==
  ASSUME Inv, BenchTallies, UNCHANGED asked, bench.pc # "off",
         bench'.no = bench.no, bench'.mode = bench.mode, bench'.hooks = bench.hooks,
         bench'.todo = bench.todo, bench'.failed = bench.failed, bench'.scored = bench.scored,
         \A t \in Topologies : docs'[t] \in {docs[t], Torn},
         bench.hooks # {} /\ bench'.pc \in {"result", "doc"} /\ bench'.doc.status = "passed" =>
           HammerheadCoverage(bench'.doc) = VerdictOf(bench'.cur)
  PROVE  BenchTallies'
<1> SUFFICES ASSUME bench.hooks # {}
             PROVE  BenchTallies'
  BY DEF BenchTallies
<1>1. \A t : VerdictOf(t)' = VerdictOf(t)
  BY DEF VerdictOf
<1>2. \A t \in Topologies : docs'[t].file = "whole" /\ docs'[t].by = bench'.no =>
        /\ docs'[t].status = "passed" <=> t \in bench'.scored
        /\ docs'[t].status = "passed" => HammerheadCoverage(docs'[t]) = VerdictOf(t)'
  BY <1>1 DEF BenchTallies, Torn
<1>3. bench'.pc \in {"result", "doc"} /\ bench'.doc.status = "passed" =>
        HammerheadCoverage(bench'.doc) = VerdictOf(bench.cur)'
  BY DEF VerdictOf
<1> QED
  BY <1>2, <1>3 DEF BenchTallies

LEMMA SimulateTallies ==
  ASSUME Inv, BenchTallies, Simulate \/ WriteMetrics \/ DiffFails
  PROVE  BenchTallies'
<1>1. /\ UNCHANGED <<asked, docs>> /\ bench.pc # "off"
      /\ bench'.no = bench.no /\ bench'.mode = bench.mode /\ bench'.hooks = bench.hooks
      /\ bench'.todo = bench.todo /\ bench'.failed = bench.failed
      /\ bench'.scored = bench.scored
  BY DEF Simulate, WriteMetrics, DiffFails, files, Inv, Shapes
<1>2. \/ bench'.pc = "diff"
      \/ /\ bench'.cur \in Topologies
         /\ \E s \in {"passed", "failed"} : \E v :
              /\ bench'.doc = Payload(bench'.cur, s, v)
              /\ s = "passed" => v = VerdictOf(bench'.cur)
  <2>1. CASE Simulate
    <3>1. PICK t \in bench.todo :
            \/ bench' = [bench EXCEPT !.cur = t, !.pc = "result",
                                      !.doc = Payload(t, "failed", Unknown)]
            \/ bench' = [bench EXCEPT !.cur = t, !.pc = "diff"]
            \/ bench' = [bench EXCEPT !.cur = t, !.pc = "result",
                                      !.doc = Payload(t, "passed", VerdictOf(t))]
      BY <2>1 DEF Simulate
    <3>2. t \in Topologies
      BY DEF Inv, Types
    <3>3. CASE bench' = [bench EXCEPT !.cur = t, !.pc = "result",
                                      !.doc = Payload(t, "failed", Unknown)]
      <4>1. bench'.cur = t /\ bench'.doc = Payload(t, "failed", Unknown)
        BY <3>3 DEF Inv, Shapes
      <4> QED
        BY <3>2, <4>1
    <3>4. CASE bench' = [bench EXCEPT !.cur = t, !.pc = "result",
                                      !.doc = Payload(t, "passed", VerdictOf(t))]
      <4>1. bench'.cur = t /\ bench'.doc = Payload(t, "passed", VerdictOf(t))
        BY <3>4 DEF Inv, Shapes
      <4> QED
        BY <3>2, <4>1
    <3>5. CASE bench' = [bench EXCEPT !.cur = t, !.pc = "diff"]
      BY <3>5 DEF Inv, Shapes
    <3> QED
      BY <3>1, <3>3, <3>4, <3>5
  <2>2. CASE WriteMetrics
    <3>1. bench'.cur = bench.cur
          /\ bench'.doc = Payload(bench.cur, "passed", VerdictOf(bench.cur))
      BY <2>2 DEF WriteMetrics, Inv, Shapes
    <3>2. bench.cur \in Topologies
      BY <2>2 DEF WriteMetrics, Inv, Types, BenchKnown
    <3> QED
      BY <3>1, <3>2
  <2>3. CASE DiffFails
    <3>1. bench'.cur = bench.cur
          /\ bench'.doc = Payload(bench.cur, "failed", VerdictOf(bench.cur))
      BY <2>3 DEF DiffFails, Inv, Shapes
    <3>2. bench.cur \in Topologies
      BY <2>3 DEF DiffFails, Inv, Types, BenchKnown
    <3> QED
      BY <3>1, <3>2
  <2> QED
    BY <2>1, <2>2, <2>3
<1>3. ASSUME bench.hooks # {}, bench'.pc \in {"result", "doc"}, bench'.doc.status = "passed"
      PROVE  HammerheadCoverage(bench'.doc) = VerdictOf(bench'.cur)
  <2>1. PICK s \in {"passed", "failed"} : \E v :
          /\ bench'.cur \in Topologies /\ bench'.doc = Payload(bench'.cur, s, v)
          /\ s = "passed" => v = VerdictOf(bench'.cur)
    BY <1>2, <1>3
  <2>2. s = "passed"
    BY <1>3, <2>1, PayloadFacts
  <2>3. bench.mode \in {"with_truth", "sim_only", "frr_only_truth"}
    BY <1>1, <1>3 DEF BenchTallies
  <2> QED
    BY <2>1, <2>2, <2>3, PayloadVerdict
<1> QED
  BY <1>1, <1>3, BenchQuiet

LEMMA WriteDocTallies ==
  ASSUME Inv, BenchTallies, WriteDoc
  PROVE  BenchTallies'
<1> SUFFICES ASSUME bench.hooks # {}
             PROVE  BenchTallies'
  BY DEF BenchTallies, WriteDoc, Inv, Shapes
<1> DEFINE c == bench.cur
           passed == IF bench.doc.status = "passed" THEN {c} ELSE {}
<1>1. /\ bench.pc = "doc" /\ asked' = asked /\ docs' = [docs EXCEPT ![c] = bench.doc]
      /\ bench.mode \in {"with_truth", "sim_only", "frr_only_truth"}
      /\ bench.mode = "with_truth" => Diffs
  BY DEF WriteDoc, BenchTallies, Diffs
<1>2. /\ bench'.pc = "next" /\ bench'.no = bench.no /\ bench'.mode = bench.mode
      /\ bench'.hooks = bench.hooks /\ bench'.todo = bench.todo \ {c}
      /\ bench'.failed = bench.failed \cup ({c} \ passed)
      /\ bench'.scored = bench.scored \cup passed
  BY <1>1 DEF WriteDoc, Inv, Shapes
<1>3. c \in bench.todo /\ c \in Topologies /\ bench.doc.by = bench.no
  BY <1>1 DEF Inv, BenchKnown, Types
<1>4. \A t \in Topologies : docs'[t] = IF t = c THEN bench.doc ELSE docs[t]
  BY <1>1 DEF Inv, Shapes
<1>5. \A t : VerdictOf(t)' = VerdictOf(t)
  BY <1>2 DEF VerdictOf
<1>6. bench'.scored = (asked'[bench'.no].selected \ bench'.todo) \ bench'.failed
      /\ bench'.failed \cap bench'.todo = {}
      /\ bench'.todo \subseteq asked'[bench'.no].selected
  BY <1>1, <1>2, <1>3 DEF BenchTallies
<1>7. ASSUME NEW t \in Topologies, docs'[t].file = "whole", docs'[t].by = bench'.no
      PROVE  /\ docs'[t].status = "passed" <=> t \in bench'.scored
             /\ docs'[t].status = "passed" => HammerheadCoverage(docs'[t]) = VerdictOf(t)'
  <2>1. CASE t = c
    <3>1. docs'[t] = bench.doc /\ c \notin bench.scored
      BY <1>1, <1>3, <1>4, <2>1 DEF BenchTallies
    <3>2. bench.doc.status = "passed" => HammerheadCoverage(bench.doc) = VerdictOf(c)
      BY <1>1 DEF BenchTallies
    <3> QED
      BY <1>2, <1>5, <2>1, <3>1, <3>2
  <2>2. CASE t # c
    <3>1. docs'[t] = docs[t] /\ (t \in bench'.scored <=> t \in bench.scored)
      BY <1>2, <1>4, <2>2
    <3> QED
      BY <1>1, <1>2, <1>5, <1>7, <3>1 DEF BenchTallies
  <2> QED
    BY <2>1, <2>2
<1> QED
  BY <1>1, <1>2, <1>6, <1>7 DEF BenchTallies

LEMMA RaisesTallies ==
  ASSUME Inv, BenchTallies, TopologyRaises
  PROVE  BenchTallies'
<1> SUFFICES ASSUME bench.hooks # {}
             PROVE  BenchTallies'
  BY DEF BenchTallies, TopologyRaises, Inv, Shapes
<1> DEFINE c == bench.cur
<1>1. bench.pc = "result" /\ asked' = asked /\ docs' = docs
  BY DEF TopologyRaises, files
<1>2. /\ bench'.pc = "next" /\ bench'.no = bench.no /\ bench'.mode = bench.mode
      /\ bench'.hooks = bench.hooks /\ bench'.todo = bench.todo \ {c}
      /\ bench'.failed = bench.failed \cup {c} /\ bench'.scored = bench.scored
  BY DEF TopologyRaises, Inv, Shapes
<1>3. c \in bench.todo
  BY <1>1 DEF Inv, BenchKnown
<1>4. \A t : VerdictOf(t)' = VerdictOf(t)
  BY <1>2 DEF VerdictOf
<1>5. bench'.scored = (asked'[bench'.no].selected \ bench'.todo) \ bench'.failed
      /\ bench'.failed \cap bench'.todo = {}
      /\ bench'.todo \subseteq asked'[bench'.no].selected
  BY <1>1, <1>2, <1>3 DEF BenchTallies
<1> QED
  BY <1>1, <1>2, <1>4, <1>5 DEF BenchTallies

LEMMA StartTallies ==
  ASSUME Inv, Start
  PROVE  BenchTallies'
<1> DEFINE n == bench.no + 1
<1>1. PICK mode \in Modes, selected \in (SUBSET Topologies) \ {{}}, hooks \in HookSets \cup {{}} :
        /\ mode = "smoke" => hooks = {}
        /\ bench' = [Off(n) EXCEPT !.pc = "next", !.mode = mode, !.hooks = hooks,
                                   !.todo = selected]
        /\ asked' = [asked EXCEPT ![n] = [mode |-> mode, hooks |-> hooks,
                                          selected |-> selected, failed |-> {}]]
  BY DEF Start
<1>2. bench.no \in Nat /\ n \in 1..MaxRuns /\ docs' = docs
  BY Runs DEF Start, Inv, Types, files
<1>3. /\ bench' = [pc |-> "next", no |-> n, mode |-> mode, hooks |-> hooks, todo |-> selected,
                   failed |-> {}, scored |-> {}, cur |-> 0, doc |-> NoFile]
      /\ asked'[n].selected = selected
  BY <1>1, <1>2 DEF Off, Inv, Shapes
<1>4. hooks # {} => mode \in {"with_truth", "sim_only", "frr_only_truth"}
  BY <1>1, DirAssumption DEF DirAssumption
<1>5. \A t \in Topologies : docs[t].file = "whole" => docs[t].by \in 1..bench.no
  BY DEF Inv, DocsKnown, Known
<1>6. \A t \in Topologies : docs'[t].file = "whole" => docs'[t].by # n
  BY <1>2, <1>5
<1> HIDE DEF n
<1> QED
  BY <1>3, <1>4, <1>6 DEF BenchTallies

LEMMA WritesTally ==
  ASSUME Inv, Tallies, Writes
  PROVE  BenchTallies'
<1>1. CASE Simulate \/ WriteMetrics \/ DiffFails
  BY <1>1, SimulateTallies DEF Tallies
<1>2. CASE OpenMetrics \/ OpenDoc \/ OpenSummary
  <2>1. /\ UNCHANGED asked /\ bench.pc # "off"
        /\ bench'.no = bench.no /\ bench'.mode = bench.mode /\ bench'.hooks = bench.hooks
        /\ bench'.todo = bench.todo /\ bench'.failed = bench.failed
        /\ bench'.scored = bench.scored
        /\ bench'.cur = bench.cur /\ bench'.doc = bench.doc
        /\ bench'.pc \in {"result", "doc"} => bench.pc \in {"result", "doc"}
        /\ \A t \in Topologies : docs'[t] \in {docs[t], Torn}
    BY <1>2 DEF OpenMetrics, OpenDoc, OpenSummary, Inv, Shapes
  <2> QED
    BY <2>1, BenchQuiet DEF Tallies, BenchTallies
<1>3. CASE WriteDoc \/ TopologyRaises \/ Start
  BY <1>3, WriteDocTallies, RaisesTallies, StartTallies DEF Tallies
<1>4. CASE WriteSummary \/ Stop
  BY <1>4 DEF WriteSummary, Stop, Off, BenchTallies
<1> QED
  BY <1>1, <1>2, <1>3, <1>4 DEF Writes

LEMMA SummaryTalliesStay ==
  ASSUME Inv, Tallies, Writes
  PROVE  SummaryTallies'
<1>0. Bounded
  BY WritesBounded
<1>1. CASE summary' = summary
  <2> SUFFICES ASSUME summary.file = "whole"
               PROVE  SummaryTallies'
    BY <1>1 DEF SummaryTallies
  <2>1. Over(bench, summary.by)
    BY DEF Inv, SummaryKnown
  <2> QED
    BY <1>0, <1>1, <2>1, KeptStays DEF Tallies, SummaryTallies
<1>2. CASE OpenSummary
  BY <1>2 DEF OpenSummary, SummaryTallies, Torn
<1>3. CASE WriteSummary
  <2> DEFINE n == bench.no
  <2>1. bench.pc = "summary" /\ docs' = docs /\ n \in 1..MaxRuns /\ bench.todo = {}
        /\ asked[n].hooks = bench.hooks
    BY <1>3 DEF WriteSummary, Inv, BenchKnown
  <2>2. summary'.file = "whole" /\ summary'.by = n /\ summary'.coverage = CoverageSummary
    BY <1>3 DEF WriteSummary
  <2>3. asked'[n].failed = bench.failed /\ asked'[n].hooks = bench.hooks
        /\ asked'[n].selected = asked[n].selected
    BY <1>3, <2>1 DEF WriteSummary, Inv, Shapes
  <2>4. \A t : Judged(asked', n, t) = VerdictOf(t)
    BY <2>3 DEF Judged, VerdictOf
  <2>5. bench.hooks # {} => Passed(asked', n) = bench.scored
    BY <2>1, <2>3 DEF Tallies, BenchTallies, Passed
  <2> HIDE DEF n
  <2>6. Tallied(asked', summary')
    BY <2>2, <2>3, <2>4, <2>5 DEF Tallied, Tally, CoverageSummary
  <2>7. \A t \in Topologies : Kept(asked', n, t, docs'[t])
    BY <2>1, <2>3, <2>4, <2>5 DEF Kept, Tallies, BenchTallies, n
  <2> QED
    BY <2>2, <2>6, <2>7 DEF SummaryTallies
<1>4. Start \/ Simulate \/ DiffFails \/ TopologyRaises \/ Stop => summary' = summary
  BY DEF Start, Simulate, DiffFails, TopologyRaises, Stop, files
<1>5. OpenMetrics \/ WriteMetrics \/ OpenDoc \/ WriteDoc => summary' = summary
  BY DEF OpenMetrics, WriteMetrics, OpenDoc, WriteDoc
<1> QED
  BY <1>1, <1>2, <1>3, <1>4, <1>5 DEF Writes

LEMMA ReportTalliesStay ==
  ASSUME Inv, Tallies, Writes
  PROVE  ReportTallies'
<1>0. Bounded /\ report' = report
  BY WritesBounded DEF Bounded
<1> SUFFICES ASSUME report.summary.file = "whole"
             PROVE  ReportTallies'
  BY <1>0 DEF ReportTallies
<1>1. Over(bench, report.summary.by)
  BY DEF Inv, PassedKnown
<1>2. /\ Tallied(asked, report.summary)
      /\ \A t \in Topologies : Kept(asked, report.summary.by, t, docs[t])
      /\ report.pc = "metrics" => Kept(asked, report.summary.by, report.cur, report.doc)
      /\ \A t \in DOMAIN report.rows : Kept(asked, report.summary.by, t, report.rows[t].run)
  BY DEF Tallies, ReportTallies
<1>3. /\ \A t \in Topologies : Kept(asked', report.summary.by, t, docs'[t])
      /\ \A t, d : Kept(asked, report.summary.by, t, d) => Kept(asked', report.summary.by, t, d)
      /\ Tallied(asked', report.summary)
  BY <1>0, <1>1, <1>2, KeptStays
<1> QED
  BY <1>0, <1>2, <1>3 DEF ReportTallies

LEMMA ReadsTally ==
  ASSUME Inv, Tallies, ReadSummary \/ ListDocs \/ ReadDoc \/ ReadMetrics \/ Close
  PROVE  Tallies'
<1>1. UNCHANGED <<metrics, docs, summary, bench, asked>>
  BY DEF ReadSummary, ListDocs, ReadDoc, ReadMetrics, Close, files
<1>2. BenchTallies' /\ SummaryTallies'
  <2>1. \A t : VerdictOf(t)' = VerdictOf(t)
    BY <1>1 DEF VerdictOf
  <2>2. VerdictOf(bench.cur)' = VerdictOf(bench.cur)
    BY <1>1 DEF VerdictOf
  <2> QED
    BY <1>1, <2>1, <2>2 DEF Tallies, BenchTallies, SummaryTallies
<1>3. CASE report' = NoReport
  BY <1>2, <1>3 DEF Tallies, ReportTallies, NoReport, NoFile
<1>4. CASE ReadSummary /\ report' # NoReport
  <2>1. report'.summary = summary /\ report'.pc = "list" /\ report'.rows = <<>>
    BY <1>4 DEF ReadSummary, Fails, NoReport
  <2> QED
    BY <1>1, <1>2, <2>1 DEF Tallies, SummaryTallies, ReportTallies
<1>5. CASE ListDocs
  <2>1. /\ report'.summary = report.summary /\ report'.pc = "docs"
        /\ report'.rows = report.rows
    BY <1>5 DEF ListDocs, Inv, Shapes
  <2> QED
    BY <1>1, <1>2, <2>1 DEF Tallies, ReportTallies
<1>6. CASE ReadDoc /\ report' # NoReport
  <2>1. PICK t \in report.todo :
          report' = [report EXCEPT !.pc = "metrics", !.cur = t, !.doc = docs[t]]
    BY <1>6 DEF ReadDoc, Fails
  <2>2. /\ report'.summary = report.summary /\ report'.cur = t /\ report'.doc = docs[t]
        /\ report'.rows = report.rows /\ t \in Topologies
    BY <2>1 DEF Inv, Shapes, Types
  <2> QED
    BY <1>1, <1>2, <2>2 DEF Tallies, ReportTallies
<1>7. CASE ReadMetrics /\ report' # NoReport
  <2> DEFINE t == report.cur
             row == Row(metrics[t])
             rows == [u \in DOMAIN report.rows \cup {t} |-> IF u = t THEN row ELSE report.rows[u]]
  <2>1. /\ report.pc = "metrics"
        /\ report' = [report EXCEPT !.pc = "docs", !.cur = 0, !.doc = NoFile,
                                    !.todo = @ \ {t}, !.rows = rows]
    BY <1>7 DEF ReadMetrics, Fails
  <2>2. row.run = report.doc
    BY DEF Row
  <2>3. DOMAIN rows = DOMAIN report.rows \cup {t} /\ rows[t] = row
        /\ \A u \in DOMAIN report.rows : u # t => rows[u] = report.rows[u]
    OBVIOUS
  <2> HIDE DEF row, rows, t
  <2>4. report'.summary = report.summary /\ report'.pc = "docs" /\ report'.rows = rows
    BY <2>1 DEF Inv, Shapes
  <2>5. report.summary.file = "whole" => Kept(asked, report.summary.by, t, report.doc)
    BY <2>1 DEF Tallies, ReportTallies, t
  <2> QED
    BY <1>1, <1>2, <2>2, <2>3, <2>4, <2>5 DEF Tallies, ReportTallies
<1> QED
  BY <1>3, <1>4, <1>5, <1>6, <1>7 DEF Close

(* What a bench scored, its summary counted and its results say is the same. *)
THEOREM TalliesHold == Spec => []Tallies
<1>1. Inv /\ Tallies /\ [Next]_vars => Tallies'
  <2> SUFFICES ASSUME Inv, Tallies, [Next]_vars PROVE Tallies'
    OBVIOUS
  <2>1. CASE UNCHANGED vars
    <3>1. \A t : VerdictOf(t)' = VerdictOf(t)
      BY <2>1 DEF VerdictOf, vars, files
    <3>2. VerdictOf(bench.cur)' = VerdictOf(bench.cur)
      BY <2>1 DEF VerdictOf, vars, files
    <3> QED
      BY <2>1, <3>1, <3>2
      DEF vars, files, Tallies, BenchTallies, SummaryTallies, ReportTallies
  <2>2. CASE Writes
    BY <2>2, WritesTally, SummaryTalliesStay, ReportTalliesStay DEF Tallies
  <2> QED
    BY <2>1, <2>2, ReadsTally DEF Next, Writes
<1> QED
  BY <1>1, InitTallies, InvHolds, PTL DEF Spec

(* Where every row of a page is of the process whose summary it shows, what *)
(* the page counts (_hammerhead_coverage_block) is what that process        *)
(* counted (summarize_hammerhead_coverage), whatever was written since by   *)
(* a process that left no row.                                              *)
THEOREM CountsAgreeHold == Spec => []CoverageCountsAgree
<1>1. Inv /\ Tallies => CoverageCountsAgree
  <2> DEFINE n == report.summary.by
             Of(v) == {t \in Rows : Run(t).status = "passed" /\ HammerheadCoverage(Run(t)) = v}
  <2> SUFFICES ASSUME Inv, Tallies, Loaded, Present(report.summary),
                      \A t \in Rows : Run(t).by = n, asked[n].hooks # {}
               PROVE  CoverageBlock = report.summary.coverage
    BY DEF CoverageCountsAgree
  <2>1. report.summary.file = "whole"
    BY DEF Inv, Types, Present, NoFile
  <2>2. \A t \in Passed(asked, n) : t \in Rows
    BY <2>1 DEF Inv, PassedKnown, Loaded, Rows
  <2>3. \A t \in Rows : Run(t).file = "whole" /\ Kept(asked, n, t, Run(t))
    BY <2>1 DEF Inv, RowsKnown, Tallies, ReportTallies, Rows, Run
  <2>4. \A t \in Rows : /\ Run(t).status = "passed" <=> t \in Passed(asked, n)
                        /\ Run(t).status = "passed" =>
                             HammerheadCoverage(Run(t)) = Judged(asked, n, t)
    BY <2>3 DEF Kept
  <2>5. ASSUME NEW v
        PROVE  Of(v) = {t \in Passed(asked, n) : Judged(asked, n, t) = v}
    BY <2>2, <2>4
  <2>6. report.summary.coverage = Tally(asked, n)
    BY <2>1 DEF Tallies, ReportTallies, Tallied
  <2>7. CoverageBlock = [complete |-> Cardinality(Of("complete")),
                         degraded |-> Cardinality(Of("degraded")),
                         unknown |-> Cardinality(Of(Unknown))]
    BY DEF CoverageBlock
  <2> HIDE DEF n, Of
  <2> QED
    BY <2>5, <2>6, <2>7 DEF Tally
<1> QED
  BY <1>1, InvHolds, TalliesHold, PTL
=============================================================================
