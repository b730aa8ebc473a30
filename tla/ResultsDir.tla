----------------------------- MODULE ResultsDir -----------------------------
(***************************************************************************)
(* The results directory between the processes that share it: benches of   *)
(* the three modes and smoke runs (harness/cli.py, the writes of           *)
(* harness/pipeline.py), which write it file by file and may stop anywhere, *)
(* and a report (harness/report), which reads it file by file while it     *)
(* goes on changing.  Nothing locks it and nothing clears it: a file is    *)
(* whatever the last process that wrote it left.                           *)
(*                                                                         *)
(* What happens inside a topology is the modules TopologyRun, SimOnlyBench *)
(* and FrrOnlyTruth; here it is an outcome.  A file's content is the       *)
(* number of the process that wrote it and what the report tells apart.    *)
(***************************************************************************)
EXTENDS Naturals, FiniteSets

CONSTANTS
  Topologies,  \* a set of numbers, in the order of their names
  Modes,       \* what the processes may be
  HookSets,    \* which simulators a bench may be told to run
  Verdict,     \* Verdict[t]: what Hammerhead says of its coverage of t
  Eligible,    \* the topologies that --frr-only-truth takes live
  MaxRuns      \* bound: processes that write

Simulators == {"batfish", "hammerhead"}

(* A coverage verdict; "absent" where the dict or its key is not there.     *)
Unknown == "unknown"
Absent == "absent"

ASSUME DirAssumption ==
  /\ Topologies \subseteq Nat /\ MaxRuns \in Nat
  /\ Modes \subseteq {"smoke", "with_truth", "sim_only", "frr_only_truth"}
  /\ HookSets \subseteq SUBSET Simulators
  /\ Verdict \in [Topologies -> {"complete", "degraded", Unknown}]

VARIABLES
  metrics,  \* metrics[t]: diff/<t>/metrics.json
  docs,     \* docs[t]: <t>.json
  summary,  \* bench_summary.json
  bench,    \* the process that writes now, or wrote last
  report,   \* the process that reads
  asked     \* history: asked[n]: what process n was asked, and what failed

files == <<metrics, docs, summary>>
vars == <<files, bench, report, asked>>

NoFile == [file |-> "missing"]
Torn == [file |-> "torn"]  \* opened for writing, which truncates it, and not written

Present(f) == f.file # "missing"

-----------------------------------------------------------------------------
(* A process that writes.                                                   *)

Off(no) ==
  [pc |-> "off", no |-> no, mode |-> "smoke", hooks |-> {}, todo |-> {},
   failed |-> {}, scored |-> {}, cur |-> 0, doc |-> NoFile]

NoReport ==
  [pc |-> "idle", since |-> 0, summary |-> NoFile, todo |-> {}, cur |-> 0,
   doc |-> NoFile, rows |-> <<>>]

Init ==
  /\ metrics = [t \in Topologies |-> NoFile]
  /\ docs = [t \in Topologies |-> NoFile]
  /\ summary = NoFile
  /\ bench = Off(0) /\ report = NoReport
  /\ asked = [n \in 1..MaxRuns |->
                [mode |-> "smoke", hooks |-> {}, selected |-> {}, failed |-> {}]]

(* bench, with --only and --skip; smoke takes one topology and no hooks.    *)
Start ==
  /\ bench.pc = "off" /\ bench.no < MaxRuns
  /\ \E mode \in Modes, selected \in (SUBSET Topologies) \ {{}},
        hooks \in HookSets \cup {{}} :
       /\ IF mode = "smoke" THEN hooks = {} /\ Cardinality(selected) = 1
                            ELSE hooks \in HookSets
       /\ bench' = [Off(bench.no + 1) EXCEPT
                      !.pc = "next", !.mode = mode, !.hooks = hooks, !.todo = selected]
       /\ asked' = [asked EXCEPT ![bench.no + 1] =
                      [mode |-> mode, hooks |-> hooks, selected |-> selected, failed |-> {}]]
  /\ UNCHANGED <<files, report>>

Diffs == bench.mode = "with_truth" /\ bench.hooks # {}

(* What a result says of Hammerhead's coverage of a topology.               *)
VerdictOf(t) == IF "hammerhead" \in bench.hooks THEN Verdict[t] ELSE Unknown

(* The payloads of _write_run_result, _write_sim_only_result and            *)
(* _write_frr_only_truth_result: where a verdict is depends on the mode.    *)
Payload(t, status, verdict) ==
  LET at(here) == IF here THEN verdict ELSE Absent
      scored == status = "passed" /\ bench.mode \in {"sim_only", "frr_only_truth"}
  IN [file |-> "whole", by |-> bench.no, status |-> status,
      top |-> at(bench.mode \in {"smoke", "with_truth"}),
      threeWay |-> at(scored /\ bench.mode = "frr_only_truth" /\ t \in Eligible),
      agreement |-> at(scored)]

(* run_topology, run_topology_sim_only or run_topology_frr_only_truth of    *)
(* the next topology, until something raises or the simulators have         *)
(* answered.                                                                *)
Simulate ==
  /\ bench.pc = "next"
  /\ \E t \in bench.todo :
       /\ \A u \in bench.todo : t <= u
       /\ \/ bench' = [bench EXCEPT !.cur = t, !.pc = "result",
                                    !.doc = Payload(t, "failed", Unknown)]
          \/ Diffs /\ bench' = [bench EXCEPT !.cur = t, !.pc = "diff"]
          \/ ~Diffs /\ bench' = [bench EXCEPT !.cur = t, !.pc = "result",
                                              !.doc = Payload(t, "passed", VerdictOf(t))]
  /\ UNCHANGED <<files, report, asked>>

(* _compute_diff.                                                           *)
OpenMetrics ==
  /\ bench.pc = "diff"
  /\ metrics' = [metrics EXCEPT ![bench.cur] = Torn]
  /\ bench' = [bench EXCEPT !.pc = "metrics"]
  /\ UNCHANGED <<docs, summary, report, asked>>

WriteMetrics ==
  /\ bench.pc = "metrics"
  /\ metrics' = [metrics EXCEPT ![bench.cur] = [file |-> "whole", by |-> bench.no]]
  /\ bench' = [bench EXCEPT !.pc = "result",
                 !.doc = Payload(bench.cur, "passed", VerdictOf(bench.cur))]
  /\ UNCHANGED <<docs, summary, report, asked>>

MutDiffFails ==  \* the topology passes without its diff
  /\ bench.pc \in {"diff", "metrics"}
  /\ bench' = [bench EXCEPT !.pc = "result",
                 !.doc = Payload(bench.cur, "passed", VerdictOf(bench.cur))]
  /\ UNCHANGED <<files, report, asked>>

(* A diff that raises fails the topology; so does a full disk.              *)
DiffFails ==
  /\ bench.pc \in {"diff", "metrics"}
  /\ bench' = [bench EXCEPT !.pc = "result",
                 !.doc = Payload(bench.cur, "failed", VerdictOf(bench.cur))]
  /\ UNCHANGED <<files, report, asked>>

MutTopologyRaises ==  \* the loop forgets the name
  /\ bench.pc = "result" /\ bench.mode \in {"with_truth", "frr_only_truth"}
  /\ bench' = [bench EXCEPT !.pc = "next", !.cur = 0, !.doc = NoFile,
                            !.todo = @ \ {bench.cur}]
  /\ UNCHANGED <<files, report, asked>>

(* An exception leaves the teardown of the lab, after the outcome was       *)
(* decided: the loop notes the name and writes nothing.                     *)
TopologyRaises ==
  /\ bench.pc = "result" /\ bench.mode \in {"with_truth", "frr_only_truth"}
  /\ bench' = [bench EXCEPT !.pc = "next", !.cur = 0, !.doc = NoFile,
                            !.failed = @ \cup {bench.cur}, !.todo = @ \ {bench.cur}]
  /\ UNCHANGED <<files, report, asked>>

OpenDoc ==
  /\ bench.pc = "result"
  /\ docs' = [docs EXCEPT ![bench.cur] = Torn]
  /\ bench' = [bench EXCEPT !.pc = "doc"]
  /\ UNCHANGED <<metrics, summary, report, asked>>

(* The topology counts only once its file is written.                       *)
WriteDoc ==
  /\ bench.pc = "doc"
  /\ docs' = [docs EXCEPT ![bench.cur] = bench.doc]
  /\ LET passed == IF bench.doc.status = "passed" THEN {bench.cur} ELSE {}
         scored == IF bench.mode = "with_truth" => Diffs THEN passed ELSE {}
     IN bench' = [bench EXCEPT !.pc = "next", !.cur = 0, !.doc = NoFile,
                    !.todo = @ \ {bench.cur},
                    !.failed = @ \cup ({bench.cur} \ passed), !.scored = @ \cup scored]
  /\ UNCHANGED <<metrics, summary, report, asked>>

OpenSummary ==
  /\ bench.pc = "next" /\ bench.todo = {} /\ bench.mode # "smoke"
  /\ summary' = Torn
  /\ bench' = [bench EXCEPT !.pc = "summary"]
  /\ UNCHANGED <<metrics, docs, report, asked>>

(* summarize_hammerhead_coverage, over the scored topologies.               *)
CoverageSummary ==
  LET saying(v) == Cardinality({t \in bench.scored : VerdictOf(t) = v})
  IN [complete |-> saying("complete"), degraded |-> saying("degraded"),
      unknown |-> saying(Unknown)]

(* A with-truth summary has no mode.                                        *)
WriteSummary ==
  /\ bench.pc = "summary"
  /\ summary' = [file |-> "whole", by |-> bench.no, coverage |-> CoverageSummary,
                 mode |-> IF bench.mode = "with_truth" THEN Absent ELSE bench.mode]
  /\ asked' = [asked EXCEPT ![bench.no].failed = bench.failed]
  /\ bench' = Off(bench.no)
  /\ UNCHANGED <<metrics, docs, report>>

(* The end of a smoke run; Ctrl-C, a kill or an OSError anywhere else: what *)
(* was being written stays torn.                                            *)
Stop ==
  /\ bench.pc # "off"
  /\ bench' = Off(bench.no)
  /\ UNCHANGED <<files, report, asked>>

-----------------------------------------------------------------------------
(* A process that reads: `report` renders two pages, each from a            *)
(* load_results of its own.                                                 *)

(* json.loads raises on what is torn, and the report ends.                  *)
Fails(f) == f = Torn /\ report' = NoReport

(* load_results begins with the summary.                                    *)
ReadSummary ==
  /\ report.pc = "idle"
  /\ \/ Fails(summary)
     \/ /\ summary # Torn
        /\ report' = [NoReport EXCEPT !.pc = "list", !.summary = summary,
                        !.since = IF bench.pc = "off" THEN bench.no ELSE 0]
  /\ UNCHANGED <<files, bench, asked>>

(* The glob of the directory.                                               *)
ListDocs ==
  /\ report.pc = "list"
  /\ report' = [report EXCEPT !.pc = "docs", !.todo = {t \in Topologies : Present(docs[t])}]
  /\ UNCHANGED <<files, bench, asked>>

(* One topology's file,                                                     *)
ReadDoc ==
  /\ report.pc = "docs"
  /\ \E t \in report.todo :
       /\ \A u \in report.todo : t <= u
       /\ \/ Fails(docs[t])
          \/ /\ docs[t] # Torn
             /\ report' = [report EXCEPT !.pc = "metrics", !.cur = t, !.doc = docs[t]]
  /\ UNCHANGED <<files, bench, asked>>

(* What is loaded of one topology.                                          *)
Row(rates) == [run |-> report.doc, metrics |-> rates]

(* and then its metrics, if there are any.                                  *)
ReadMetrics ==
  /\ report.pc = "metrics"
  /\ LET t == report.cur
     IN \/ Fails(metrics[t])
        \/ /\ metrics[t] # Torn
           /\ report' = [report EXCEPT !.pc = "docs", !.cur = 0, !.doc = NoFile,
                !.todo = @ \ {t},
                !.rows = [u \in DOMAIN @ \cup {t} |-> IF u = t THEN Row(metrics[t]) ELSE @[u]]]
  /\ UNCHANGED <<files, bench, asked>>

(* The page is rendered from what was loaded, and the report is over.       *)
Loaded == report.pc = "docs" /\ report.todo = {}

Close ==
  /\ Loaded
  /\ report' = NoReport
  /\ UNCHANGED <<files, bench, asked>>

Next ==
  \/ Start \/ Simulate \/ OpenMetrics \/ WriteMetrics \/ DiffFails \/ TopologyRaises
  \/ OpenDoc \/ WriteDoc \/ OpenSummary \/ WriteSummary \/ Stop
  \/ ReadSummary \/ ListDocs \/ ReadDoc \/ ReadMetrics \/ Close

Spec == Init /\ [][Next]_vars

-----------------------------------------------------------------------------
(* What the pages are made of.                                              *)

Rows == DOMAIN report.rows
Run(t) == report.rows[t].run
Rates(t) == report.rows[t].metrics

MutHammerheadCoverage(run) ==  \* the with-truth layout only
  IF run.top # Absent THEN run.top ELSE Unknown

(* hammerhead_coverage: the first of three places that has the key.         *)
HammerheadCoverage(run) ==
  IF run.top # Absent THEN run.top
  ELSE IF run.threeWay # Absent THEN run.threeWay
  ELSE IF run.agreement # Absent THEN run.agreement
  ELSE Unknown

(* _hammerhead_coverage_block and _hammerhead_coverage_section count what   *)
(* passed.                                                                  *)
CoverageBlock ==
  LET saying(v) == Cardinality({t \in Rows : Run(t).status = "passed" /\
                                             HammerheadCoverage(Run(t)) = v})
  IN [complete |-> saying("complete"), degraded |-> saying("degraded"),
      unknown |-> saying(Unknown)]

(* The processes whose results a page of render_html shows: its rows, and   *)
(* whatever match rates were loaded beside them, in its table and its       *)
(* charts; it does not look at the mode.                                    *)
HtmlShows ==
  {Run(t).by : t \in Rows} \cup {Rates(t).by : t \in {u \in Rows : Present(Rates(u))}}

MutMarkdownShows == HtmlShows  \* match rates in every mode, as there

(* The processes whose results a page of render_markdown shows: there are   *)
(* match rates on it unless the summary has one of two modes.               *)
MarkdownShows ==
  LET rated == {t \in Rows : Present(Rates(t)) /\ report.summary.mode = Absent}
  IN {Run(t).by : t \in Rows} \cup {Rates(t).by : t \in rated}

-----------------------------------------------------------------------------
(* Correctness.                                                             *)

(* The match rates beside a passed run are there and not older than it:     *)
(* whatever the report met half-way through a bench, a topology that passed *)
(* does not get an earlier bench's rates.                                   *)
MetricsNotOlder ==
  Loaded => \A t \in Rows :
    LET by == Run(t).by
    IN Run(t).status = "passed" /\ asked[by].mode = "with_truth" /\ asked[by].hooks # {}
         => Present(Rates(t)) /\ Rates(t).by >= by

(* Every topology that the summary on the page takes for passed has a row,  *)
(* of that bench or a later process.                                        *)
PassedRowsAreCurrent ==
  Loaded /\ Present(report.summary) =>
    LET n == report.summary.by
    IN \A t \in asked[n].selected \ asked[n].failed : t \in Rows /\ Run(t).by >= n

(* Nothing has been written since the report began.                         *)
Quiet == bench.pc = "off" /\ bench.no = report.since

(* After a bench over every topology that failed nowhere, its Markdown page *)
(* shows that bench and no other, and so does its HTML page after one with  *)
(* truth.  After another one the HTML page has the match rates of earlier   *)
(* benches beside the new results; see MetricsAbsentWithoutDiff.            *)
CleanBenchShowsItself ==
  Loaded /\ Quiet /\ Present(report.summary) =>
    LET n == report.summary.by
    IN /\ n = bench.no /\ asked[n].hooks # {}
       /\ asked[n].selected = Topologies /\ asked[n].failed = {}
       => /\ Rows = Topologies /\ MarkdownShows = {n}
          /\ asked[n].mode = "with_truth" => HtmlShows = {n}

(* Where all rows are of the summary's bench, the two coverage counts on    *)
(* the page, made by two processes from three layouts, say the same; what   *)
(* was begun since makes no difference.                                     *)
CoverageCountsAgree ==
  Loaded /\ Present(report.summary) =>
    LET n == report.summary.by
    IN (\A t \in Rows : Run(t).by = n) /\ asked[n].hooks # {}
         => CoverageBlock = report.summary.coverage

-----------------------------------------------------------------------------
(* What the documentation says and the code does not do.                    *)

(* report/data.py:33-34: "metrics is absent when the diff phase didn't run     *)
(* (vendor-only smoke, a simulator crashed, etc.)": the rates beside a run  *)
(* are never those of an earlier process.  Where they are, render_html      *)
(* shows them, whatever the later run was.                                  *)
MetricsAbsentWithoutDiff ==
  Loaded /\ Quiet => \A t \in Rows : Present(Rates(t)) => Rates(t).by >= Run(t).by
=============================================================================
