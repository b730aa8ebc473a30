# hammerhead-bench in TLA+

`hammerhead-bench` compares two network simulators, Batfish and Hammerhead, with
each other and with routers that really run. For every topology it renders
configurations, optionally deploys a containerlab lab and reads the routers'
FIBs, runs the simulators on the same configurations, and scores the FIBs that
are left on disk. This directory holds TLA+ models of the parts of it that keep
state and can fail half way, the TLC runs that check them, and TLAPS proofs of
what matters most.

All source references are relative to the repository root (`harness/...`).

## 1. The system

| Part | Source | State it keeps | Operations |
|---|---|---|---|
| with-truth bench loop | `harness/cli.py: bench` | results, `failed`, exit status | run every topology, write its result, summary |
| with-truth pipeline | `harness/pipeline.py: run_topology` | `TopologyRunResult`, `lab`, `baseline` | guard, render, deploy, converge, extract, simulate, diff, tear down |
| memory guard | `harness/memory.py` | `memory.jsonl` | sample, headroom check, recovery poll |
| containerlab driver | `harness/clab.py` | containers on the host | deploy, destroy, list leftovers |
| convergence wait | `harness/adapters/frr.py`, `ceos.py` | `prev_count`, `stable_since`, the clock | poll a router until it is stable |
| Batfish service | `harness/tools/batfish.py` | container, session, call counter, start time | start, run_one, close |
| sim-only pipeline and bench | `harness/pipeline.py: run_topology_sim_only`, `cli.py` | timings per trial, FIB directories and sidecars | trials of both simulators, agreement |
| frr-only-truth pipeline and bench | `harness/pipeline.py: run_topology_frr_only_truth`, `cli.py` | as the two above, three lists for the summary | truth collection, simulators, fallback to sim-only |
| Hammerhead wrapper | `harness/tools/hammerhead.py` | FIB files and sidecar of a directory | one bulk call, exit status, coverage verdict |
| coverage roll-ups | `harness/pipeline.py: _rollup_hammerhead_coverage`, `aggregate_sim_only` | the verdicts of a topology's trials | over trials, over topologies |
| diff engine, metrics, agreement | `harness/diff/`, `pipeline.py` | none | compare FIBs, score |
| FIB extraction | `harness/extract/fib.py`, `tools/`, `adapters/` | none; a router moves between two queries | query, parse, merge, canonicalise |
| peak memory sampler | `harness/peak_rss.py` | a thread, a lock, a peak, a sample count | start, stop, poll |
| corpus summary | `harness/pipeline.py: aggregate_sim_only`, `harness/aggregate.py` | the agreements of a bench | ratios, means, exclusions |
| results directory | `harness/cli.py`, `harness/pipeline.py` | `bench_summary.json`, `<topology>.json`, `diff/<topology>/metrics.json` | written by every bench and smoke run, file by file |
| report | `harness/report/` | none | reads the directory, file by file, and renders two pages |

How they interact. One process, one thread (the sampler is the only other one),
and subprocesses with time limits. `bench` calls one of three pipelines, one
topology after the other. A pipeline calls the driver, the adapters and the
simulators' wrappers; these shell out to `containerlab`, `docker`, `vtysh` and
the Hammerhead binary, and talk HTTP to a Batfish container. Results pass through
the results directory: FIB files, sidecars with timings and verdicts,
`memory.jsonl`, and one JSON file a topology. The directory outlives the process,
and so do containers.

What is hard. There is little concurrency inside the process; what can go wrong
is *failure half way* and *state that outlives a step*: a deploy that fails after
it created containers, a cleanup that fails itself, an exception class that the
`finally` block does not catch, memory the kernel returns late, a router that
changes between two queries, a container that answers in place of another,
counters that count calls that returned nothing, files of an earlier trial or
bench that look like this one's, a verdict that changes its meaning on its way
through three formats, and three implementations of one comparison.
`PROJECT.json` lists these hazards at their lines, each with the properties that
would catch it.

## 2. The modules

| Module | Models | Used by |
|---|---|---|
| `TopologyRun` | bench loop, `run_topology`, memory guard, driver, host | `MCTopologyRun`, `TopologyRun_proofs`, instanced by `FrrOnlyTruth` |
| `LabLedger` | abstract: what the bench promises about labs | refined by `TopologyRun` |
| `ConvergenceWait` | `wait_for_convergence` against a restless router | `MCComponents`, `Polling_proofs` |
| `BatfishService` | the service, its docker runner, docker; any client | `MCComponents`, `BatfishService_proofs`, instanced by `SimOnlyBench` |
| `SimOnlyBench` | `bench --sim-only`: attach, trials, directories, close | `MCSimOnlyBench`, `SimOnlyBench_proofs` |
| `FrrOnlyTruth` | `bench --frr-only-truth`: collection, simulators, fallback, summary | `MCFrrOnlyTruth`, `FrrOnlyTruth_proofs` |
| `HammerheadCoverage` | a coverage verdict from the process to `bench_summary.json` | `MCComponents`, `HammerheadCoverage_proofs` |
| `PeakSampler` | `DockerStatsSampler`'s threads and `run_one` | `MCComponents`, `Polling_proofs` |
| `FibExtract` | one extraction by FRR, EOS, Batfish or Hammerhead: queries, parsers, merge | instanced by `Scores` |
| `FibDiff` | the three scoring computations, as operators | `MCFibDiff`, extended by `Scores` |
| `BenchSummary` | ratios, means and the corpus summary of a sim-only bench | instanced by `Scores` |
| `Scores` | the three machines between a source's routes and the published numbers | `MCScores`, `Scores_proofs` |
| `ResultsDir` | the results directory between the processes that write it and a report that reads it | `MCResultsDir`, `ResultsDir_proofs` |

The four parts of `MCComponents` share nothing: a behaviour of it runs one of them, each
from all its initial states and with its own fairness, while the others rest, so that what
it says of each is what a run of that part alone would say.

Two modules compose with others by sharing their variables and taking their
steps. `SimOnlyBench` takes those of `Batfish == INSTANCE BatfishService`, once
as the persistent service of the whole bench and once as the one-shot service of
`run_batfish`; its property `ServiceSpec` says that the bench keeps to the
lifecycle which the service's own module was checked and proved for.
`FrrOnlyTruth` takes those of `Lab == INSTANCE TopologyRun`, since
`_default_truth_collector` is all of `run_topology` without hooks.

### TopologyRun

`pc` is the next statement group of `run_topology` or of the bench loop, and each
action is one of them, named for it; the failing outcome of a call is a disjunct
or an action of its own.

| Action | Code | Failures |
|---|---|---|
| `PreDeploySample`, `PostDeploySample`, `PostTeardownSample` | `_record_sample` | the append to `memory.jsonl` raises |
| `CheckHeadroom` | `check_headroom_before_deploy` | `MemoryGuardError` |
| `Deploy`, `DeployFails` | `RealClab.deploy` | any, with the containers created or not |
| `TryStep` (`RenderTopology`, `WaitConvergence`, `ExtractFibs`, `WriteFibs`, `RunHammerhead`, `ComputeDiff`) | the `try` block | `StepRaises`: an exception or a Ctrl-C |
| `RunBatfish` | the Batfish hook | raises; leaves its container |
| `SkipTeardown`, `DestroyLab` | the `finally` block | `ClabError` noted, `TimeoutExpired` escapes, containers gone or not |
| `VerifyTeardown` | `_verify_teardown` | `docker ps` fails or times out |
| `PollRecovery` | `assert_recovered_to_baseline`, `_verify_recovery` | deadline, log append |
| `LeaveFinally`, `CatchEscaped`, `RecordResult`, `Finish` | end of `run_topology`, bench loop | result or summary cannot be written |
| `Reclaim` | the kernel | returns memory of removed containers when it likes |

A result keeps its status, the class of its error, which kinds of notes it has,
the phases it sampled and the steps whose output is on record. Containers are
counted per topology (`live`), memory in megabytes. `RunTopology` is the part of
the next-state relation that is `run_topology` itself, for its two callers.

### ConvergenceWait

The loop of the two adapters, one action a query. `now` is a clock that every
query advances by up to `CallTimeout`; sleeps are exact. The node's sessions and
route count change freely at any time, also between the two queries of a poll.
Four history variables record what the polls so far have seen, so that the
contract can be stated without the loop's own variables.

### BatfishService

`phase` is where the call in progress stands. The environment is docker with two
published ports: a container is only created when no other runs, the session is
answered by whichever runs, and every docker command may fail with its effect
done or not done. A Ctrl-C during a call ends the process. History variables keep
the statistics that were returned, and which containers are excused because
docker refused to remove or to name them.

### SimOnlyBench

Attaching the persistent service with its fallback, topologies and trials, both
simulators' calls, the FIB directories as sets of files tagged with the trial
that wrote them (0: an earlier bench), the sidecars likewise, the lists of
measurements, the result with its cold companion and warm mean, and the closing
`finally`.

### FrrOnlyTruth

`step` is where `run_topology_frr_only_truth` or its bench loop stands; while it
is `collect`, the steps are those of `run_topology`. A file and a sidecar are
nobody's, an earlier bench's or this run's; a result keeps which of them it was
computed from. The three lists of the bench loop (`failed`, three-way and
sim-only agreements) are kept apart because the summary's counts are their
lengths.

### HammerheadCoverage

One process a trial, which may end with any exit status and any value of
`coverage.degraded`, a value of a wrong type included. The actions are the
runner's decision whether that is an answer (`Accepted`), what `run_hammerhead`
writes of it into the sidecar (`Recorded`), what the pipeline reads back, and the
two roll-ups (`Rollup`, `Summarize`). History keeps what the processes said.

### PeakSampler

Every `run_one` call has a sampler thread of its own. The threads' steps are
those between which another thread can run: the check of the event, the poll, the
two assignments under the lock, the wait. Nothing has a duration, so the two
seconds of `join` may be over at any moment and the thread of one call may poll on
during the next ones.

### FibExtract

`rib` is what a source holds, `routesDoc` and `bgpDoc` what it prints when asked
for its routes and for its BGP paths, `fib` the rows that come out. A router
routes on between the two queries. The printed forms are external: each source
has its own ways to print a next hop without an address, a discard route, an
inactive next hop, ECMP. For a discard route Batfish prints the interface
`null_interface`, and so does Hammerhead where it prints any; Batfish's rows lose the marker on
the way, Hammerhead's keep it
(`tests/test_hammerhead_transform.py:226`). The parsers are operators of the source (`MapProtocol`,
`Considered`, `CleanIp`, `CleanIface`, `NextHops`), since all four are built
alike: skip what is not installed, map or refuse the protocol's label, clean the
next hops, join the best path. Labels are classes: those of a canonical protocol,
`eigrp` and `kernel`, which only some tables name, and one nobody has seen. The
files are written by the callers, in `TopologyRun` and the two benches.

### FibDiff

The scoring code as operators, from the rows of the FIB files to the counts that
`metrics.json`, `ThreeWayAgreement` and `SimOnlyAgreement` are made of: `Index`
(canonicalisation and the row that stands for a prefix), `DiffFibs` and `Metrics`,
`ThreeWay`, `SimOnly` with `Reconcile`. The state is only the files, filled one
route at a time in any order, and the three results over them. A rate is kept as
its numerator and denominator.

### BenchSummary

`agreements` grows by one topology at a time, each with any of a set of timings
(missing and zero ones included), comparisons and verdicts; `WriteSummary` is
`aggregate_sim_only` with all of `harness/aggregate.py` under it. Numbers are
exact: a rate is a percentage, a ratio a number of `Unit`s, of which the run makes
twelfths, a mean the pair of its sum and its count, the geometric mean the product
before the root is drawn. The lists that the code filters are sets of positions, so
that a fact about a topology does not change its place, and `sorted` picks a value for
each rank.

### Scores

The three arithmetic machines side by side, `FibExtract`, `FibDiff` and
`BenchSummary`: a behaviour runs one of them. They are what a route goes through on
its way into the published numbers, with files in between, so each starts with
whatever may lie there.

### ResultsDir

`metrics`, `docs` and `summary` are the files; each keeps the number of the process
that wrote it and what a report tells apart. `bench` is the process that writes
now, of any of the modes `smoke`, with-truth, sim-only and frr-only-truth, over
any selection of topologies; what happens inside a topology is the other modules'
business and only an outcome here. Every write is two steps, since `write_text`
truncates first, and `Stop` may come between any two: a Ctrl-C, a kill, a full
disk. `report` is a reader whose every read is a step, so that it may meet a
bench half-way; it fails on a torn file, as `json.loads` does. What it has loaded goes on
two pages: `MarkdownShows` has match rates only where the summary is of a with-truth
bench, `HtmlShows` wherever there are any. `asked` is history:
what each process was asked for and what its summary says failed.
`scripts/bench_one_by_one.sh` is a sequence of sim-only benches over one topology
each.

## 3. What the runs check

| Run | Question | Bounds | Distinct states |
|---|---|---|---|
| `topology_run` | seven properties of the with-truth bench | 2 topologies of cap 1, a host of 3, a leaked Batfish of 2, slack 1, 1 reading before the recovery deadline | 1.1 million |
| `components` | four properties of the wait, two of the sampler, four of the service, two of the verdict's way, each part by itself | wait: interval 4, delays 1 and 2, calls up to 2, cap 15, 3 route counts; sampler: 2 calls, 2 memory sizes, 2 counted polls a thread; service: 3 containers, 3 calls; verdict: 2 topologies, 2 trials, all 15 replies | 427 thousand |
| `sim_only_bench` | six properties of the sim-only bench | 2 topologies, 2 trials, 1 node, 4 containers, 3 command lines | 360 thousand |
| `frr_only_truth` | four properties of the frr-only-truth bench | 2 topologies, 1 node, 2 sets of hooks and eligibility, the host of `topology_run` with slack 0 | 1.8 million |
| `scores` | seven properties of extraction, scoring and summary | extraction: 4 sources, 2 cells, up to 2 routes of 11 kinds, 2 paths; scoring: 1 file a source, 2 prefixes, 8 kinds of route, up to 4 routes in any order, 3 policies; summary: up to 3 topologies of 35 kinds | 2.0 million |
| `results_dir` | four properties of the directory | 2 topologies, 2 writing processes of any mode and selection, any number of reports | 5.4 million |

Why the bounds are enough to be interesting. `topology_run`, `frr_only_truth`:
what one topology leaves behind only matters to a later one, so two are needed
and show it; the numbers let the guard pass on a clean host and beside one lab,
and refuse after a Batfish leak, so that every branch of the guard, of the
recovery and of the notes occurs. `components`: the wait's constants keep the order
of the real ones (15 s interval, 1 s and 2 s delays, 300 s cap, 30 s a call), the
cap leaves room for four samples where three are needed, and three counts let a
count change and come back; three containers and three calls
allow a leaked container, a service after it, a failed call before two good ones; trials of one topology and
topologies of one bench may disagree in every way about coverage; two calls let the
sampler's thread of the first poll during the second, two polls make a peak that is not
the last value.
`sim_only_bench`: two topologies of two trials make a call of a later topology
warm or cold for the reasons the code gives; four containers cover the four
one-shot calls. `scores`: in the extraction, rows of different
cells only meet in the join of the BGP paths, so two cells show a join with the
wrong one; two routes let one of a cell stand beside one that is not installed,
and make a file of which one label is refused.
In the scoring, cells of different files never meet, so one file is enough; the eight
routes differ in everything the policies and comparisons tell apart (a /32 or
not, a loopback or another interface, a next hop with or without address, one or
two next hops, the protocol, the BGP attributes), and two rows of one prefix in
one file occur. In the summary, three topologies make quartiles that fall between
two values, and the seven timings have either side missing or zero, an older
sidecar, and ratios that are whole numbers of twelfths (`Unit` is 12). `results_dir`: two writers
are the fewest that leave one's files beside the other's, and a report may begin
in either and end after both; two topologies let a bench take one and leave the
other. Deadlock is checked there, since a report can always be asked for. It is
not checked in the other runs since the processes end;
`BenchEnds`, `WaitEnds` and `NothingHangs` say that they do.

### The properties

`TopologyRun`

- `LeftoverReported`: a topology the bench is through with, and whose containers
  still run, is on the failed list or has a note.
- `DriftReported`: if the next run starts more than the slack below this run's
  baseline, this run is failed or has a note.
- `PassedRunIsComplete`: a result written as passed had every step, every hook
  asked for, the teardown, a recovery either sampled or noted as missing, and a log
  `memory.jsonl` without a gap.
- `ExitCodeHonest`: exit status zero if and only if every selected topology has a
  freshly written passed result, for a bench that comes to its summary.
- `KeptLabSurvives`: with `--keep-lab-on-failure` a lab whose run failed is not
  touched by the later topologies' teardowns.
- `BenchEnds`, `LedgerSpec`: the bench ends; it implements `LabLedger`.

`ConvergenceWait`

- `ConvergedIsStable`: converged means at least three good polls in a row, failed
  ones aside, with the same count, over two intervals.
- `TimeoutMeansUnrest`: a node is given up only when a poll of the last two
  intervals and one poll failed, saw a session down or another count.
- `WaitBounded`, `WaitEnds`: the wait ends, less than one poll and one sleep
  after the cap.

`BatfishService`

- `NothingLeaks`, `OwnAnswers`: every running container is the service's own or
  one docker is to blame for; every answer is the own container's.
- `StartChargedOnce`, `WarmIsWarm`: summing `container_start_s` counts a start at
  most once, and once unless a counted call was lost; a warm call follows one
  that got through on the same container.

`SimOnlyBench`

- `NoContainerLeft`: an ended bench leaves no container, except those docker
  refused to remove and those of a Ctrl-C inside `start()`.
- `OneMeasurementPerTrial`: a scored topology has one measurement a trial and
  simulator, of that trial.
- `HammerheadIsFresh`: every node is scored with the final trial's Hammerhead FIB.
- `ColdWarmSplit`: with the persistent service at most one topology has a cold
  companion, the first trial's, and all other trials are in the warm mean; without
  it no trial is.
- `BenchEnds`, and `ServiceSpec`: every step of the bench is one that
  `BatfishService` allows.

`FrrOnlyTruth`

- `LabGoneOrNoted`: the simulators run beside a topology's lab only when the
  collection noted that the teardown may have failed.
- `TruthIsOwn`: what is scored as vendor truth was collected from every node, in
  this bench, by a run that passed.
- `CoverageIsOwn`: the coverage verdict is that of the scored answer, and none
  without Hammerhead, whatever sidecar lies there.
- `SummaryHonest`: the summary's three lists partition the selected topologies,
  each on the side its eligibility says, and the exit status agrees.

`HammerheadCoverage`

- `ScoredWasAnswered`: only full answers are scored, those of exit 0 and those of
  exit 3 whose JSON says degraded, in every trial.
- `CoverageHonest`: the summary says of every topology what its own processes
  said, through the sidecar and both roll-ups: complete when every one said so,
  degraded when one did, unknown otherwise, and each scored topology is counted once.
  The first is said of the topologies none of whose processes gave a value of a wrong
  type; what the code makes of the others is `MalformedIsUnknown`, below.

`PeakSampler`

- `ReadingIsRight`: a reading is the maximum of exactly the polls it counts, there
  is one if and only if it counts any, and the container had that size during
  this call, although stop() may not have waited for the thread.
- `NothingHangs`: a poll that never comes back holds up nothing but its thread.

`FibExtract`

- `SameRoutes`: whatever the source's format, the rows of a file say exactly which
  routes it held when it was asked, with their protocol and all next hops, and no
  label that nobody has seen was passed over. One thing is allowed beside them: the null
  interface of a discard route of Hammerhead's, which is `NullInterfacesAgree`, below.
- `OwnAttributes`: a BGP row has the attributes of the best path of its own cell
  at the second query, all rows of an ECMP route the same ones, and no other row
  has any.

`FibDiff`

- `CountsAddUp`: the counts behind the rates fit together and fit the files.
- `ModesAgree`: the diff, the triad and the head-to-head give the same numbers
  about the same files, up to next-hop leniency and the reconciled cells.
- `ReconcileIsFair`: the reconciliation is symmetric, idempotent, touches only
  one-sided loopback hosts and never lowers the presence rate.

`BenchSummary`

- `SpeedupOfTheMeasured`: the published speedups rest on exactly the topologies
  where both simulators have a positive time, routes or none (`ZeroRoutesExcluded`,
  below); the reductions are in order and
  within the range of their values; and the ratio that is documented to favour
  Hammerhead is never below the fair one.
- `HonestMeans`: the means called covered rest on the topologies where the
  simulators were compared at all and never exceed the naive ones; Hammerhead's
  verdict about itself moves nothing but its own block, which counts every
  topology once.

`ResultsDir`

- `MetricsNotOlder`: a with-truth run shown as passed has rates beside it, its own
  or those of a later process, whatever was written while the report read.
- `PassedRowsAreCurrent`: every topology that the summary on the page takes for
  passed has a row, of that bench or a later process.
- `CleanBenchShowsItself`: after a bench over every topology that failed nowhere,
  the Markdown page shows that bench's results and no other's, and the HTML page does
  if the bench scored against the routers. If it did not, the HTML page shows whatever
  rates lie there: with `HtmlShows` in the place of `MarkdownShows`, the mutant of this
  property, TLC finds a clean sim-only bench whose page has an earlier bench's rates.
- `CoverageCountsAgree`: the coverage counts of the summary and those the page
  makes of the result files' three layouts are the same, where all rows are of the
  summary's bench.

### Where the documentation and the code differ

Each has a run that TLC must find violated.

| Run | Property | The text | The code |
|---|---|---|---|
| `doc_dangling_loud` | `DanglingIsLoud` | `pipeline.py:419` fail loudly on a leftover container | `pipeline.py:1768` the collector drops the note |
| `doc_ecmp_merged` | `EcmpMerged` | `tests/test_hammerhead_transform.py:247` the diff engine merges ECMP entries by prefix | `diff/engine.py:255` the last entry overwrites the others |
| `doc_stale_metrics` | `MetricsAbsentWithoutDiff` | `report/data.py:33` metrics are absent when the diff phase did not run | `report/data.py:84` takes those of an earlier bench |
| the same | the same | `report/html.py:265` the tables do not render for sim-only results; `report/markdown.py:242` in sim-only mode there are no metrics | `report/html.py:79`, `report/html.py:203` show the rates of an earlier bench in every mode |
| `doc_malformed` | `MalformedIsUnknown` | `pipeline.py:1486` a malformed verdict can never pass for a complete one | `tools/hammerhead.py:359` has made a bool of the value before the reader sees it: null, 0 or an empty string is `false`, hence complete |
| `doc_zero_routes` | `ZeroRoutesExcluded` | `pipeline.py:2147` a topology without Batfish routes is listed as excluded | `pipeline.py:2157` gives it the weight 1, `aggregate.py:281` excludes only what has no positive ratio |
| `doc_null_interface` | `NullInterfacesAgree` | the repository's `README.md:107` the null interface is collapsed to None, so that it makes no disagreement; `tools/batfish.py:240` likewise | `tools/hammerhead_transform.py:197` drops the address 0.0.0.0 and keeps the interface |

Smaller disagreements met while modelling, visible in the modules but without a
run of their own:

- `pipeline.py:200` says a failed recovery marks the run failed; `pipeline.py:357`
  adds a note (as its own docstring says). `clab.py:85` says leftovers abort
  loudly; they become a note.
- `tools/batfish.py:38` says the headroom sum counts Batfish; `pipeline.py:327`
  sums the nodes only.
- `extract/convergence.py:12` has a hard cap of five minutes; the clock is only
  read before a poll, which `WaitBounded` makes precise.
- `tools/batfish.py:829` says warm after the first call; only calls that succeed
  count. `pipeline.py:540` says the cold companion is always the first trial's;
  with the persistent service only the bench's first topology has one.
- `cli.py:590` says exactly one of two agreements is non-null; a failed topology
  has none. `pipeline.py:755` speaks of an empty FIB directory for an unset hook;
  it holds what an earlier bench left. With an unset hook the three-way path reads
  the timings of an earlier bench's sidecar (`pipeline.py:1874`).
- `pipeline.py:2128` takes the mean of nothing for 1 where `pipeline.py:1212` has none.
- `report/markdown.py:516` prints "All selected topologies passed" also when one
  raised and left no file, or when what it shows is of an earlier bench. Markdown
  and HTML load the directory separately, so the two pages of one report may
  differ. After `scripts/bench_one_by_one.sh` the headline is the last topology's
  alone, since every bench overwrites the summary. The headline of an
  frr-only-truth report looks for the sim-only means at the top level of the
  summary, where they are under `sim_only_summary`.
- `pipeline.py:758` says agreement is computed from the final trial's FIBs; the
  directories are never cleared (`diff/engine.py:284`), so a file of an earlier
  trial or bench that the final trial did not overwrite is scored with them.
- `tools/batfish.py:135` says a ValueError is raised for genuinely unknown
  strings; `eigrp` is in the map, but not in the `Protocol` literal, so a known
  label raises as well. `tools/hammerhead_transform.py:36` maps `R6` to rip, the
  code skips it, and EIGRP, which Batfish's side refuses, it skips silently.
  `aggregate` is a BGP route from Batfish and skipped from EOS.
- `extract/fib.py:60` says a next hop has an address or an interface; EOS's
  "0.0.0.0" without an interface would give one with neither.
  `extract/fib.py:331` says `kernelProgrammed` must be True; an entry without the
  key counts as programmed.
- `pipeline.py:1945` says the policy keeps a simulator from being penalised for a
  loopback host it does not model; the three-way path strips connected and local
  /32s of loopback interfaces only, and an IGP /32 still counts.
- The comment of `_is_loopback_host` says *only* next hop, the code takes *any*.
  `pipeline.py:1402` speaks of agreeing protocols, which the next-hop comparison
  does not look at.
- `rusage_peak_mb` is documented as a difference of two readings and returns the
  later one (`peak_rss.py:76`); `_summarize_timings` is documented with the
  population standard deviation and uses the sample one; `container_start_s` is
  reported for every topology, where `README.md:208` says the first trial only;
  `bench` without `--sim-only` and with the default five trials exits with a usage
  error.

### Fairness

`TopologyRun`, `SimOnlyBench` and `ConvergenceWait` assume weak fairness of the
harness's own next step and nothing else. The code justifies it: it is one thread,
and what it waits for has a time limit (`DEPLOY_TIMEOUT_S`, `DESTROY_TIMEOUT_S`,
`VTYSH_TIMEOUT_S`, `RECOVERY_TIMEOUT_S`, the timeouts of docker, of the Hammerhead
binary and of Batfish's readiness). The exception is a pybatfish question, which
has none: that Batfish answers or refuses a question in the end is an assumption
of `BenchEnds`, and of nothing else. Nothing is assumed of the kernel returning
memory, of routers settling, or of docker. `PeakSampler` assumes that each thread
gets to run: weak fairness of `run_one`'s steps and of every step of a sampler
thread except the answer of a poll, which may stay away for ever. `FrrOnlyTruth`,
`HammerheadCoverage`, `FibExtract`, `FibDiff`, `BenchSummary` and `ResultsDir` state
no liveness and no fairness; what loops in the first is `run_topology`, where `BenchEnds` covers it.

## 4. What is proved

`tlapm` checks every proof below to its last leaf, for every value of the
constants that meets the named assumptions (`ConstantsAssumption` of
`TopologyRun` and of `ConvergenceWait`, `ServiceAssumption` of `BatfishService`,
`RoutesAssumption` of `FibDiff`, `CoverageAssumption` of `HammerheadCoverage`,
`DirAssumption` of `ResultsDir`, `SamplerAssumption` of `PeakSampler`,
`AgreementsAssumption` of `Scores`,
`BenchAssumption` of `SimOnlyBench` and of `FrrOnlyTruth`, which contains that of
the collector's runs), which TLC also evaluates in the runs. `FibExtract`
assumes nothing: what a source may hold is `Rib`, of whatever `Ribs`
is. `AgreementsAssumption` says of an agreement what `_compute_sim_only_agreement`
makes sure of: times are numbers or missing, counts are natural, and rows that
never meet agree fully. It also says that `Unit` is a multiple of every time that is
divided by: of finitely many times there is always such a unit, and it is there to keep
ratios whole, nothing else.

| Module | Theorems | Along which invariant |
|---|---|---|
| `TopologyRun_proofs` | `TypeOK`, `LeftoverReported`, refinement of `LabLedger`; `DriftReported`, `PassedRunIsComplete`, `ExitCodeHonest`, `KeptLabSurvives` | `Inv` and `Book`, below |
| `Polling_proofs` | of the wait `TypeOK`, `ConvergedIsStable`, `TimeoutMeansUnrest`, `WaitBounded`; of the sampler `ReadingIsRight` | samples tracked, schedule, restlessness; what the lock protects, which sizes a thread can have seen |
| `BatfishService_proofs` | `TypeOK`, `NothingLeaks`, `OwnAnswers`, `StartChargedOnce`, `WarmIsWarm` | identities, charges, warmth |
| `SimOnlyBench_proofs` | `ServiceSpec` (refinement), `NoContainerLeft`, `OneMeasurementPerTrial`, `HammerheadIsFresh`, `ColdWarmSplit` | that of the service, and what has been gathered by each `pc` |
| `FrrOnlyTruth_proofs` | `TypeOK`, `LabGoneOrNoted`, `TruthIsOwn`, `CoverageIsOwn`, `SummaryHonest` | those of `TopologyRun_proofs`, and what the collection has left on disk |
| `Scores_proofs` | of the scoring `ReconcileIsFair`, `CountsAddUp`, `ModesAgree`, and that the next-hop comparison is symmetric, transitive and lenient; of the extraction `SameRoutes`, `OwnAttributes`; of the summary `SpeedupOfTheMeasured`, `HonestMeans` | the results are those of the files; what a query printed is of the routes held then; the summary is of all that was scored |
| `HammerheadCoverage_proofs` | `ScoredWasAnswered`, `CoverageHonest` | the verdicts are those of the replies heard |
| `ResultsDir_proofs` | `MetricsNotOlder`, `PassedRowsAreCurrent`, `CleanBenchShowsItself`, `CoverageCountsAgree` | `Inv`: what the files on disk, those read and those still to be read say; `Says`: which results a bench has failed; `Tallies`: what it counts |

`PROJECT.json` names each theorem with the property it proves.

**TopologyRun.** `TypeOK` is not inductive: that free memory stays natural after
a deploy depends on the guard that ran two actions earlier. `Inv` adds `Headroom`
(between the guard and the deploy the memory measured is still there, because the
only other actor, the kernel, only returns memory), `InRange` (which topology each
`pc` is about), `Untouched` and `NotYetLive` (a topology whose turn has not come
has no container and no result), `StatusOfPhase` and `Verified` (what the
teardown's verification has put on record by each `pc`). From these,
`LeftoverReported` follows: a container that survives is survived *by* a note or
a failure, and both are only ever added. The refinement maps a step that reaches
a lab to `Touch`, one that ends a topology to `Close`, and everything else to a
stutter.

The other four are about the account a run leaves, and rest on `Inv` and on a second
invariant, `Book`: what the record says at each `pc` of the `try` block (`InTry`) and
of the `finally` (`InFinally`), that a lab which came up is still up until its own
teardown (`LabUp`), what the recovery found when it is over (`MemoryBack`, `Drift`),
which topologies are in `failed` and written when the loop stands at one
(`Accounts`, `Written`), and what follows for the exit status (`ExitOfPhase`). A run is
*passed* by one assignment at the end of the `try` block and may be failed after it;
`InFinally` says that one still passed there has every step, sample and log entry on
record.

**ConvergenceWait** (`Polling_proofs`). The loop's `stable_since` says nothing of the polls by
itself. The strengthening relates it to the history: `SamplesTracked` (the count
and the moment it holds belong to the last unbroken series of samples),
`Schedule` (the moments of the next query and of the deadline), `Ended` (what
each verdict implies) and `Restless` (a series that has been unbroken for two
intervals and three samples is *ripe*, and the loop cannot poll on past a ripe
series).

**BatfishService.** Whether the session's answers are its own container's is a
matter of identity over time: docker never reuses an identity, a service object
is fresh exactly while it holds no container, and nothing else runs while it
holds one. `OldIds`, `Fresh`, `Held` state this; `Counted`, `Charges` relate the
call counter to the statistics that were returned.

**SimOnlyBench.** The refinement comes first: each action of the bench is one of the
service or leaves its variables alone, so the invariant of `BatfishService_proofs`,
which was proved for any client, is an invariant of the bench and may be used in its
induction. From there on `Inv` has a part per question. `Owned`: a service that holds a
container is either attached, hence closed by the `finally` of `bench`, or inside the
`with` of a trial, and a start that fails holds none (this is the service's `Held`).
`HammerGathered` and `BatfishGathered`: at each `pc` of a trial the lists have one entry
for each earlier trial, in order, and the sidecar that is read back is this trial's.
`Warmth`: once an attached service has answered, its counter is positive for good, so
only the first entry of the first topology it answered for can be cold. `Scores`: what an
agreement was computed from, which `AgreementMade` derives from the others at `pc = "agreement"`.

**PeakSampler** (`Polling_proofs`). Threads of earlier calls live on, so the argument is about who may
write where: the peak and the count of a sampler change together under its lock
(`Locked`, `Peaks`), a call still to come has left nothing (`Blank`, `Unread`), and while
a call is made its thread has only seen sizes of that call's window (`OwnWindow`). A
reading taken under the lock is then the maximum of exactly the polls it counts
(`Readings`).

**FrrOnlyTruth.** The collector's steps are those of `TopologyRun` with one command
line, so its proofs are taken over by `Run == INSTANCE TopologyRun_proofs`: the
lemmas `Same...` say that the operators of the two instances are the same, and the
conjuncts of `Inv` and `Book` that speak of the current run (`Collecting`) are kept by
the collector's steps because they are there. The simulators' steps around it take
memory, write files and move the loop on, which `TopologyRun` never does, so these conjuncts
have to be shown to survive each of them. `TruthOnDisk` carries the one fact that
leaves the collection: a run past its extraction, or passed, has left a file of every
node, of this bench. `Collected` hands it to the simulators together with what
`LeftoverReported` says of the lab; `HammerheadRan` does the same for the sidecar,
`Lists` for the three lists of the loop.

**FibDiff** (`Scores_proofs`). Fairness of the reconciliation is a fact about any two indexes, so
the lemmas are stated for arbitrary ones: one per policy for what `Reconcile`
returns (`Passthrough`, `Strip`, `Materialize`), `NothingLeft` (afterwards no
one-sided loopback host remains, hence `Idempotent`), `Symmetric`, `RowsStay` and
`PresenceNoWorse`, an inequality between products that rests on the cells common
to both only growing and the union only shrinking. `IndexIsIndex` says that what
the files yield is such an index, whatever they hold.

`CountsAddUp` and `ModesAgree` compare numbers of different things: records of
`DiffFibs`, rows of the two agreements, cells of the indexes. `RecordsAreCells` counts
all of them in cells, by a bijection: two records of one diff never stand for the same
cell. `PartsAddUp` adds up the parts of a set that a label cuts it into, by
gluing bijections together, since the sum over the protocols is a sum of a fixed
length and needs no induction. That a prefix of several rows has one that stands
for it (`LastRow` chooses by protocol and place) is `TheLastRowIsARow`: of finitely many
sets of later rows one is minimal, and is empty. `StripCounts` and
`MaterializeCounts` then say what each policy moves between the parts, and `ScoringInv`,
that the three results are those of the files as they are, is all the induction needs.

**FibExtract** (`Scores_proofs`). Between the two queries a router moves its routes, so `XInv`
speaks of two moments: `Printed` (the first document is that of the routes held at the
first query) and `PathsPrinted` (of each cell's listed paths, the one marked best is that
of the route installed at the second; none if there is none). The rest is about what the
parsers make of such a document. `EntriesSay` and `EntriesAreThere` are the two
directions: every entry that is considered is of a route in scope and cleans to its next
hops, or is of a label that is skipped, and every route in scope has such an entry,
for each source's own way to print an address that is not there, a discard route, a next
hop that is down or one of several. A discard route cleans to no next hop or, in Hammerhead's rows, to
its null interface (`Faithful`). `MachinesRunAlone` carries the theorems from the
machine to `Scores`.

The proof corrected the property. `SameRoutes` first said that a file is only written
when no *installed* route had a label that nobody has seen. That is false of EOS:
`_parse_eos_route_entry` looks at the route's action before its label
(`extract/fib.py:374`), so a discard route of an unknown protocol is passed over without
an error. It is passed over whatever its label is, and nothing is lost that a file of EOS
has, so the property now speaks of the routes that a file shows at all (`Shown`);
`MCScores` has such a route since.

**BenchSummary** (`Scores_proofs`). The invariant is short: what was written is
`AggregateSimOnly` of all the agreements (`SummaryInvariance`). The work is in what that
function computes for a list of any length, and every fact of it is an induction.
The library's induction theorems cannot be used, but their root can: a set of numbers
that is not empty has a least one. So an induction is stated of a set (`Segment`): the
positions where a fact holds contain the first, and with each the next. `SumUp`,
`ProductUp`, `CountUp` and `ListUp` show that the recursive definitions have the values
they say, and the rest stands on these:

- Sums, counts and products compare as their terms do (`SumsBelow`, `SumsAbove`,
  `ProductsBelow`), which gives that a mean lies within the range of its numbers.
- `Sorted` picks for each rank a number that has it. `EveryRankIsTaken` says that there
  is one: the least number with at least *k* up to it. `RanksInOrder` compares ranks over two
  lists at once, so that "sorted" and "a list that is nowhere lower sorts to one that is
  nowhere lower" are one lemma. `QuantilesRise` and `QuantilesDominate` carry this through
  the interpolation.
- The geometric mean is not above the arithmetic one (`TheMeansCompare`). With *n* numbers
  of sum *s* and product *p* this is *n^n p <= s^n*, and the step to one more number *x* is
  the tangent of a power, *(n+1) u v^n <= u^(n+1) + n v^(n+1)*, at *u = n(s+x)* and
  *v = (n+1)s* (`Tangent`, `OneMoreFactor`). No roots or reals are needed.
- `NumbersAre` says which ratio is positive when, and that the one that favours Hammerhead
  divides by less. With the above, `TheReductionsFollow` says it of all eight reductions.
- For `HonestMeans` the list of the compared topologies is built up beside the set of their
  positions (`TheListSaysTheSame`): same number, same sum of rates, same members, for the
  verdicts of any kind. `SumOutside` adds the topologies that were not compared, each
  with a full rate, and this is why the naive mean is never the lower one.

**HammerheadCoverage.** `Inv` says where the verdicts stand at each `pc`: between
two trials `hammer_coverages` is the sequence of what the replies heard so far
said (`BetweenTrials`), during one it is that but for the last reply, and the
sidecar is this trial's when it is read (`InTrial`), although an earlier bench's
may lie there before; a score is the roll-up of that sequence (`Settled`), and a
topology whose turn has not come has neither (`Ahead`).

**ResultsDir.** A reader sees each file at another moment, so an invariant about
the files alone says nothing about a page. `Inv` follows every fact from the file
into the reader: `DocsKnown` (a passed with-truth result on disk has metrics on
disk, not older: they are written before it and never removed), `ReadsKnown` (so has
one that was read and whose metrics are about to be), `RowsKnown` (so has a row);
and `PassedKnown`: once a summary was read, every topology it takes for passed is
either still to be read from a file of that process or a later one, or was read as
such. The last rests on the order of both loops: a bench writes the summary after
the results, `load_results` reads it before them, and numbers of processes only
grow. Whose page it is takes a second invariant, `Says`: a result of a process that is
not in its list of failed ones has passed, on disk, in the reader's hand and in its rows
(`BenchSays`, `SummarySays`, `ReportSays`), a summary without a mode is of a with-truth
bench (`Labelled`), and no file is of a process to come (`Dated`). Between the lower
bounds of `Inv` and the upper ones of `Dated` only the bench itself is left. For the HTML
page the same bounds do for a bench with truth, since `RowsKnown` then says that its
rates are not older either.

The counts of a page take a third one, `Tallies`, since the summary holds numbers and the
results hold verdicts: `BenchTallies` says what a bench counts while it runs (what it scored
is what it has done and not failed, and a result that passed is of a scored topology and has
its verdict where the page looks first, in each of the three layouts), `SummaryTallies`
and `ReportTallies` follow this into the file and the reader. The page then
counts a set of rows and the summary counted a set of topologies, and the sets
are equal. Nothing in this needs the directory to be at rest, so `CoverageCountsAgree`
does not ask for it either.

**Only model-checked.** `BenchEnds`, `WaitEnds` and `NothingHangs`: liveness under
fairness, and `ENABLED`, are outside what the provers can do. Every other property that a
passing run checks is a theorem.

## 5. What is not modelled, and why

- *A Ctrl-C during a cleanup, or a second one.* One Ctrl-C in the `try` block or
  in a Batfish call is modelled; the code makes no promise about the others.
- *`guard_preflight_rlimit`.* Only tests call it.
- *Templates, renderers, scripts, the wording of the reports, the staging of
  Batfish's snapshot.* They map text to text; what matters of them (which files
  exist, whose they are, which a page is made from) is in the directories of
  `SimOnlyBench`, `FrrOnlyTruth` and `ResultsDir`. Of the parsers `FibExtract`
  leaves out the reading of numbers, prefixes and VRF aliases.
- *Several nodes in one wait.* The pipeline waits for one node after the other and
  shares nothing between them, so one wait is modelled, and its verdicts are the
  outcomes of `WaitConvergence`.
- *The values of timings in the benches.* Which trial or container a number
  belongs to is modelled there, its value is not; `BenchSummary` takes values and
  models the ratios and quartiles made from them. `_summarize_timings`, the
  peak-memory block and `scripts/run_variance.py` are means over values nothing
  else reads.
- *`rusage_peak_mb`.* A reading of a counter the operating system keeps.
- *The sampler's exceptions other than `OSError` and `ValueError`.* They would end
  the thread, which is also what a poll that never answers does to it.
- *Blockers and status words of a coverage verdict.* Texts that travel with it.

## 6. Plan

Done: the three benches, the parts they share, the extraction, the scoring, the
sampler, the coverage verdict, the summary over topologies and the results directory
that benches and reports share; and for each of them a proof of every safety property
and action property that a run checks. What is left would be new modelling:

1. An abstract specification of the results directory, of which
   `MetricsNotOlder` and `PassedRowsAreCurrent` are two consequences, and the refinement.
2. Several nodes in one wait with the routers going on between them, for the one hazard
   that no property covers: a node found converged may have lost its sessions by
   the time the last one is waited for.
3. The deviations over trials (`_summarize_timings`) and the peak-memory block, for which
   the lemmas about sums and orders in `Scores_proofs` are there.
