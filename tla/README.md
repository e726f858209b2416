# AC-Prof: models, checks and proofs

AC-Prof measures Hugging Face models served from Docker containers. `acprof run` takes a
model, a matrix of resources (CPU cores × memory × GPU off/on) and a list of input scales;
each cell of the matrix is a *case*, each case is one container and one client process, and
each (scale, repetition) of a case is one measured *window* and one CSV row. Everything
around the measurement exists to make the numbers trustworthy: locks, frozen plans,
checkpoints, recovery, ordered collectors, owner labels on containers, a verified model store,
post-hoc profiling with backup and rollback, comparisons that refuse what does not match.

This directory holds TLA+ modules of those mechanisms, TLC configurations that check them on
small instances, and TLAPS proofs of the main properties of twenty-four of the modules for every instance.
Paths below are relative to `src/acprof/` unless they start with `docs/` or `tests/`.

To check a module: `tlc -workers 2 -config MCRunning.cfg MCRunning`. To check proofs:
`tlapm RunRecovery_proofs.tla` (each proof module takes one to ten minutes).

## 1. Inventory

| Component (code) | State it keeps | Operations | Talks to |
| --- | --- | --- | --- |
| Run state and recovery (`host/run_state.py`, `cli/run.py`, `host/orchestrator.py`) | `run_state.json`, preparation artifacts, matrix plan, per-case CSV and samples, `.acprof/recovery`, two flocks | open new / resume, bind runtime and plan, prepare/finish case, merge, finish, clean up, close | every measurement; other processes through locks |
| Startup probes and matrix plan (`host/startup_probe.py`, `host/matrix_plan.py`) | `startup_oom_pruning.json`, `matrix_plan.json` | probe smallest CPU by rising memory, derive the OOM prefix, freeze, load | container lifecycle, run state |
| Input planning, largest-scale probe (`host/input_plan.py`, `host/largest_scale_probe.py`) | `input_scale_plan.json`, probe records | ask for the limit, bisect, check, write; scan memory sizes | probe containers |
| Container lifecycle (`host/container_lifecycle.py`, `host/docker_runtime.py`) | Docker containers with owner labels | reclaim dead owners' containers, run, poll `/ready`, stop, remove | Docker daemon, `/proc` |
| Case execution (`host/orchestrator.py`, `host/client.py`) | case CSV, pcap, `case_incomplete` | start, capture, run client, classify its end, finalize, clean up | container, tcpdump, client process, TUI events |
| Measured window and collectors (`host/measurement_window.py`, `monitors/`) | sampler threads, `perf` process, counters | prepare, start, stop, close, control window; reduce readings to figures | NVML, RAPL, cgroup, perf |
| Packet latency (`packet/`) | pcap → latency records → CSV | parse, merge | case execution |
| Container server and handlers (`container/`) | loaded model, observation of a generation, recurrent state | `/scale_meta`, `/predict`, `/ready` on threads | the client over HTTP |
| Profilers and plans (`host/profilers/`, `host/compute_profile*.py`, `host/execution_profile*.py`) | reports, exports, checkpoints, plans | take up, collect, parse, publish; look up a row's entry | containers, post-hoc profiling |
| Post-hoc profiling (`host/posthoc/`) | `result_all.csv`, `static_meta.json`, `collection_history.json`, backups | read, lock, collect, back up, publish, roll back | run state's locks, other processes |
| Model Store (`host/model_store.py`, `host/runtime_images.py`) | blob cache, `entries/<model>/plan`, leases, one flock | preflight, prepare, publish, mount, verify, prune | image building, containers |
| Images (`host/dependency_images.py`, `host/runtime_images.py`, `host/image_*.py`) | Docker images and tags, the checkout | build a chain of four, publish under a name, list, remove | Docker daemon, the TUI |
| Dependency analysis and review (`model_dependency_flow.py`, `model_dependencies.py`, `model_review.py`) | `acprof_model.json`, pins | interpret a repository's code abstractly, resolve, ask, download | the user, the Hub |
| Model detection and selection (`host/detect.py`, `model_resolution.py`, `model_contract.py`) | evidence, the selected task, kept answers | look up, resolve, ask, freeze | the Hub, the dialogue |
| Preparation dialogue and TUI process (`host/collection_workflow.py`, `preparation_events.py`, `tui/process.py`, `tui/app.py`) | pending question, request id, child process | ask/answer over pipes, retry, skip, cancel; start, reply, stop | TUI, `acprof run` |
| Run outcome, notifications, monitor page (`notifications.py`, `progress_events.py`, `tui/progress.py`, `tui/run_results.py`, `tui/app.py`) | messages sent, the final one, tracker, held-back lines, verdict | tell start, stages, cases, outcome; print, read, parse, defer, flush, draw; inspect the directory | `acprof run` and probes through a pipe, a web hook, the result directory |
| Terminal interface views (`tui/`) | form, dialogs, threads and their answers | read results, check the environment, review a directory, pick, delete images | all commands |
| Run settings and catalogue (`experiment.py`, `run_args.py`, `run_form.py`, `experiment_catalog.py`, `tui/recovery.py`) | forms, frozen settings | convert, freeze, offer, reuse | run state |
| Coverage runs (`host/coverage_state.py`, `host/model_coverage.py`) | per-sample attempts, overview, cleanup debt | next attempt, persist, retry, recover debt | container lifecycle |
| Automation (`cli/auto.py`, `host/automation.py`) | reports, flocks | prepare, then run | run state |
| Load generator (`host/load_protocol.py`, `cli/load.py`) | `load.json`, a pool of workers | closed and open loop | the server over HTTP |
| Latency model and plot (`analysis/latency_model.py`, `cli/plot.py`) | predictions, residuals, report | fit, judge, publish | results |
| Analysis and comparison (`analysis/`, `quality.py`, `plotting/view_model.js`) | fingerprints, records, verdicts | audit, compare, group | results of several runs |
| Static metadata, drawings, workloads, command-line parsing | derived files only | pure functions and presentation | — |

Behaviours that are hard to test, by component:

* **Recovery** – SIGKILL or power loss between any two durable steps; a second process of another
  user (whose measurement lock is another file); `close()` and cleanup after `complete`.
* **Probes, planning** – three files that each may be the newest after a crash; an OOM kill seen
  only after the deadline; a planner that fails after it has probed some entries.
* **Containers** – PID reuse, reboots, `docker run` outliving its caller, removal by an id read
  earlier, two sessions under one uid.
* **Case and window** – container, tcpdump, client and user fail on their own; the exit code alone
  selects the recovery path; any of twelve collector operations fails; threads outlive their join.
* **Readings** – counters wrap or go back between readings that fail one by one; the last reading
  races the sampling thread.
* **Server** – a request whose CUDA work goes on after the client gave it up; threads share what is observed.
* **Store, images** – directories removed entry by entry, shared blobs, readers without the lock;
  a checkout edited between digest, copy and build; tags moved by others.
* **Post-hoc, profilers** – three files replaced one after another, rollback that fails, results
  read before the lock; attempts that leave part of their files.
* **Dialogue, screen** – late answers, EOF and signals while a question is open; start/stop races;
  slow threads whose answer arrives after the selection was edited.
* **Outcome, monitor page** – a post that timed out and arrived; a directory with other processes'
  records; a run that fails after it was recorded complete; lines the reader has not read and
  callbacks the screen has not run while a measurement goes on.
* **Coverage, load, automation** – debts across attempts, interrupts among worker threads, gaps between locks.
* **Selection, settings, comparison** – kept answers replayed on other evidence; a value that goes
  through form, parser, record and back; files read twice while others write.

`PROJECT.json` lists every hazard at its line with the properties that would catch it.

## 2. How the project is built

A component is one module with its own variables, `Init`, one action per operation, `Next` and its
properties; where one component has an abstract specification, the module instantiates it with a
refinement mapping. Components that are at work in the same phase but share no state are put
together by a composition module, whose variable `part` says which of them a behaviour is about:
TLC then explores the union of their state spaces, and each property is checked in its part.

| Module | Component | Checked in | Proved in |
| --- | --- | --- | --- |
| `RunRecovery` ⊑ `ExperimentPromise` | run state and recovery | `MCRunning` (part `recovery`), `MCPreparing` (`resuming`) | `RunRecovery_proofs` |
| `StartupPruning` | startup probes, frozen matrix | `MCPreparing` (`pruning`) | `Services_proofs` |
| `DependencyFlow` | dependency analysis and review | `MCRunning` (`dependencies`) | |
| `ContainerOwnership` | container lifecycle | `ContainerOwnership` | `ContainerOwnership_proofs` |
| `ModelStore` | model store | `MCModelStore` | `ModelStore_proofs` |
| `PreparationDialogue` | dialogue and child process | `PreparationDialogue` | `PreparationDialogue_proofs` |
| `RunOutcome` | notifications, verdict of a run | `MCRunning` (`outcome`) | `PreparationDialogue_proofs` |
| `RunEvents` | monitor page | `MCRunning` (`events`) | `PreparationDialogue_proofs` |
| `CaseRunner` | case execution | `MCMeasuring` (part `case`) | `Measuring_proofs` |
| `MonitorWindow` | measured window | `MCMeasuring` (`window`) | `Measuring_proofs` |
| `EnergyCounters` | RAPL readings | `MCMeasuring` (`energy`) | |
| `WindowReadings` | the other readings, a row's figures | `MCMeasuring` (`figures`) | |
| `PacketMerge` | packet latency | `MCMeasuring` (`packet`), `PacketSamples.cfg` | `Measuring_proofs` |
| `RequestServing` | server and handlers | `MCMeasuring` (`server`) | `Measuring_proofs` |
| `ProfilerReports` | profiler evidence | `MCMeasuring` (`profiler`), `ProfilesRestored.cfg` | `Measuring_proofs` |
| `ProfilePlans` | plans and rows | `MCMeasuring` (`plans`) | `PosthocBackfill_proofs` |
| `PosthocBackfill` | post-hoc profiling | `MCArtifacts` (`posthoc`) | `PosthocBackfill_proofs` |
| `ImageChain` | building images | `MCArtifacts` (`image`) | `Artifacts_proofs` |
| `ImageRemoval` | listing and removing images | `MCArtifacts` (`removal`) | `Artifacts_proofs` |
| `InputPlanning` | input planning, memory scan | `MCArtifacts` (`inputs`) | `Artifacts_proofs` |
| `ScreenTasks` | terminal interface | `MCArtifacts` (`screen`) | `Artifacts_proofs` |
| `CoverageState` | coverage runs | `MCServices` (`coverage`) | `Artifacts_proofs` |
| `LoadProtocol` | load generator | `MCServices` (`load`) | `Services_proofs` |
| `AutomationLocks` | automation | `MCServices` (`auto`) | `Services_proofs` |
| `LatencyModel` | latency model of plot | `MCServices` (`plot`) | `Services_proofs` |
| `ModelSelection` | detection and selection | `MCServices` (`selection`) | `Services_proofs` |
| `RunSettings` | settings and catalogue | `MCServices` (`settings`) | `ModelStore_proofs` |
| `ResultComparison` | audit, comparison, groups of a report | `MCServices` (`comparison`) | |

How the components fit: `RunRecovery` treats measuring a case as two writes of the client;
`CaseRunner` opens that step up, `MonitorWindow` one window of it, `EnergyCounters` and
`WindowReadings` what the collectors of a window read, `RequestServing` the other end of its
requests. `PacketMerge` is the merge after the client's end. `StartupPruning` and
`InputPlanning` are the detail of `FreezePlan` and `Prepare`; `ModelSelection`, `DependencyFlow`
and `ImageChain` of the runtime that `BindRuntime` records; `ModelStore` of the weights the
containers read; `ContainerOwnership` of every container a case or a probe starts.
`PosthocBackfill` works on what `FinishRun` published, with `ProfilerReports` and `ProfilePlans`
inside its `Collect`. `AutomationLocks` and `PreparationDialogue` surround `RunRecovery`'s process;
`RunSettings` and `ScreenTasks` are how a user gets there, `RunEvents` is what the page shows
while the process runs, `RunOutcome` what chat and page say after it. `ResultComparison` and
`LatencyModel` read several such results.

A theorem still worth proving: `ResultComparison`'s pairing of runs. The module declares no
RECURSIVE operator.

## 3. The modules

A step is what one actor does between two points where another actor, a crash or a failure can
intervene. File contents are tokens (which attempt, run or plan wrote them), a recorded SHA-256
is the token of what it was taken from. Each definition is mapped to its lines in `PROJECT.json`.
Operators with a suffix (`Phase_CountsPreparation`) are plausible bugs of the definition they
precede or follow; each shows that one property can fail, and those that are not registered as
mutants of a run were tried the same way.

### RunRecovery (with ExperimentPromise)

One result directory that several processes of several users try to use. On disk: `rec`
(`run_state.json`), `meta` (preparation artifacts), `plan`, `csv`, `work` and `kept` (the samples
in the case's work directory and below `raw/requests`), `final` (`result_all.csv`), `backup`
(`.acprof/recovery`), `debris` (the temporary file of an interrupted atomic write). The two locks
are `measLock` (one per uid) and `dirLock`. Each process has its program counter, its copy of the
record, its attempt number, its identity (options and host) and the case it is at.

| Actions | Code |
| --- | --- |
| `LaunchNew`, `LaunchResume`, `LockDir` (`AcquireDir`, `DirBusy`) | `MeasurementLock`, `load_run_state`, `ResultDirectoryLock` |
| `OpenNew`, `OpenResume`, `Refuse`, `RecordAttempt` | `RunState.__init__`, `validate_resume`, `_archive_preparation` |
| `Prepare`, `BindRuntime`, `FreezePlan`, `BindPlan` | `_prepare_runtime`, `bind_runtime`, `run_matrix`, `bind_matrix_plan` |
| `ReuseCase`, `CopyLeftovers`, `MarkArchived`, `UnlinkLeftover`, `StartCase` | `prepare_case`, one durable effect each |
| `AppendRequests`, `AppendRow`, `CompleteCsv`, `Retain`, `FinishCase`, `RecordCase` | the client's writes, `_finalize_case`, `retain_requests`, `finish_case` |
| `Merge`, `FinishRun`, `Cleanup`, `Fail`, `Close`, `Exit` | `merge_result_csvs`, `finish`, `_cleanup_intermediate_results`, exceptions, `close`, leaving the `with` blocks |
| `Crash`, `Edit` | SIGKILL or power loss; somebody edits a frozen file |

`LockDiscipline`, `CheckpointMatchesDisk` (a checkpoint names rows and samples of one attempt
under one runtime), `EvidencePreserved` (nothing measured or prepared disappears),
`PublishedResultUnmixed`, `AlwaysResumable`, and the refinement `KeepsPromise`:
`ExperimentPromise` says that every case is decided once, by one attempt, and that the experiment
publishes exactly those decisions, once. A case is decided when its checkpoint reaches the disk.

### StartupPruning and DependencyFlow (before the measurement)

`StartupPruning`: `report` (`startup_oom_pruning.json`), `plan` (`matrix_plan.json`), `bound` (their
hashes in `run_state.json`), `result`. `OpenReport`, launch and poll of a probe, the second
`docker inspect` in `Fail`, `Stop`, `SaveRecord`, `CompleteReport`, `Freeze`, `Bind`, `StartCase`,
`RunCase`, `Finish`; `OomKill`, `ServerExits`, `DeadlinePasses`, `Crash`, `Edit`.
`InferenceJustified`: an inferred row is backed by real kills in time, of its memory and of every
smaller one in its GPU mode, and the plan in use follows from the evidence on disk;
`MatricesComplete`: resuming ends with a result for every case.

`DependencyFlow`: the abstract interpreter of `model_dependency_flow.py` beside the set of runs Python
can make of the same program. `Analyse`, `GiveUpSource`, `Resolve`, `Retry`, `Answer`, `RunModel`.
`LoadsAreForeseen`: no path through any program makes a load the analysis has not seen; a
repository that may be loaded there as far as the analysis knows is in the image at the revision
the code asks for, unless the user left it out; and of code whose loops, `with` and `try` bodies
leave the mapping alone (`Plain`), and whose helpers do not both change it and return early, a call
is inactive only if no run makes it. Beyond `Plain` that last part is false: section 8.

### ContainerOwnership

Containers with owner labels (boot id, PID, start time), what runs under each PID, and the
`docker run` commands that outlive their process. `Step(p)` is a move of an acprof process:
list, look up the owner, forget or remove, launch, poll, hold the session, remove. `Spawn`,
`Occupy` (another program gets the PID), `Exit`, `Kill` (leaves a zombie), `Reap`,
`ContainerExits`, `LateStart`, `Reboot`. `LiveOwnersSafe`: a process removes its own containers
and those whose owner has exited. `MeasuresAlone`: one session per process, and beside it only
containers of living owners or such as appeared after its scan. `OwnersDecide` is both.
`AbandonedGoes`.

### ModelStore

`blobs` (weight files), `entry` (directory of links and plan), `strays` (unfinished
`.preparing-` directories), the store lock, shared leases, the plans that images on the host
record. `Preflight` reads without the lock; `BeginPrepare`, `Fetch`, `BuildView`, `Rename`,
`FinishPrepare`; `MountBuilt`, `MountRecorded`, `VerifyEntry`; `BeginPrune`, `RemovePart` (one
file of `rmtree`), `UnlinkBlob`, `EndPrune`; `Leave`, `Fail` (an exception or a kill anywhere).
`PlansHaveTheirFiles`: what a run has verified stays whole, and no entry with a plan points at a
file that is gone. `WithinBudget`: nothing more is downloaded than announced.

### PreparationDialogue

The child's questions (`child`, `rid`, pipes `out` and `inp`), `ProcessLifecycle` (`process`,
`closing`, three callers of `stop()` over one lock), the application's fields, and the worker
thread. `NoChildLost` (a child that survives both signals stays the interface's child; after
unmounting only children that were told to end are left), `AnswersFit` (request ids), `StopsItsOwn`
(a late stop spares the next child), both together `EachReachesItsOwn`; `WaitsEnd` (of a stop, of a question).

### RunOutcome and RunEvents (what is said of a run)

`RunOutcome`: `Begin`, `OpenState`, `Profile`, `RunCase`, `MergeCases`, `CheckMissing`, `FinishState`, `Record`,
`CloseState`, `ExitRun` follow `_run_main`; `RunFails` may strike at each of them, `Stop` is the user's, `Intrude`
another process that opens the directory, `Post` an attempt of the notifier's, which may be lost or
arrive without its answer. `Inspect` is the result page's look at the directory afterwards. `FinalIsTrue`,
`NewsIsInOrder`, `VerdictIsTrue`; `OutcomesAgree`: chat and page never contradict one another.
`OutcomeIsTold` is these four.

`RunEvents`: the command prints (`OpenCase` to `CaseDone` of a run, `Scan` to `Summarize` of a probe, `Speak`
for lines of no rule, `Interrupted` anywhere), the pipe holds `PipeCapacity` lines, `ReadLine` gives one to
`RunProgressTracker.feed` and decides what is drawn, held back or dropped, `Show` runs a callback of the
screen, `Tick` is the clock. The state of the tracker is its snapshot with the stage as one of the
rules that set it. `WindowIsKnown`: from the moment the reader has read the start of a measurement until
the command ends it the page knows of it. `ScreenStill` (action property): meanwhile nothing is drawn.
`DiagnosticsAreShown`: a numbered diagnostic is in the pipe, held back, with the screen or in the
log, once and in order. `MemoriesAreCounted`: between two memories a probe's page shows how many
were tried. `PageFollows` is these four.

### CaseRunner, MonitorWindow, EnergyCounters, WindowReadings (a case from outside in)

`CaseRunner`: the orchestrator over `run_single_case` and `_finalize_case`, beside the client,
tcpdump and the container. `StartSession`, `StartFails`, `StartRaises`, `StartCapture`;
`ClientReady`, `OpenWindow`, `WindowOk`, `WindowFails`, `WindowAborts`, `ClientEnds`; `Classify`
(exit code, then Docker's `OOMKilled`), `StopCapture`, `MergePackets`, `CheckComplete`, `Cleanup`,
`FinishCase`; `OomKill`, `ServerCrashes`, `CaptureDies`, `Interrupt`. `CasesEndWell`: every way out
cleans up, a broken case is not the end of the matrix, and accepted rows were measured.

`MonitorWindow`: the control group that borrows the four collectors for an idle baseline, the
window's group that measures and closes them. `Prepare`, `Start`, `Idle`, `Requests`, `StopNext`,
`Drain` (a slow thread ends at last), `ControlEnds`, `BeginClose`, `CloseNext`, `Publish` (the
request journal), `Settle` (the row, or the end of the client). `RowsAreMeasured`: every request is
measured by all collectors over the baseline of its window, a window whose cleanup has failed, or that
leaves a sampler nobody has told to end, has no row and no successor, an interrupt ends the
client, and a row has its evidence. Threads that were told to end may live on: section 8.

`EnergyCounters`: RAPL counters that wrap, read by the sampling thread and by the main thread, the
thread that outlives its join, the package total, the effective energy and the DRAM result,
against what was really used. `stop()` does not look whether its join has succeeded: a reading
taken late under an early timestamp looks like a wrap, and `EnergyIsReal` bounds what that costs.
`WindowReadings`: NVML power, the growing counters and the gauge of
the cgroup, perf's counters per unit, in the control window and in the window, and the row
assembled from them. `FiguresAreReal` is about both: a figure is true of its window or absent. CPU and
DRAM energy may be too large by one wrap of a domain, and only if the thread outlived its join.
Effective CPU energy is covered where there is a total; of I/O whose counter went back and of GPU energy whose
counter began again there are only bounds.

### PacketMerge and RequestServing (both ends of a request)

`PacketMerge`: windows, the frames on the wire (`SendRequest`, `Answer`, `OtherFrame`), what tcpdump
keeps, `Parse` and `Merge`. `RowsAreTheirWindows`: a row has the latencies of the captured
requests of its window and of no other, and no byte counts for two requests.

`RequestServing`: threads over one loaded model. `Ask`, `Preprocess`, `StartGeneration`, `Encode`,
`Run`, `Decode`, `StartVoice`, `Frame`, `Predict`, `Complete`, `Postprocess`, `DeviceDone`,
`TimesOut`, `NextCase`. An error may be answered with kernels of the request still on the device, and the
deadline for its completion may come before the client's. `ServedInTurn`: tokens and frames reported for
a request are its own; while the client waits for it no other has a thread in the container, and the
device works for no other but those that failed; what is answered is done. `ScalesAreKept`: what `/scale_meta`
promises is what `/predict` does.

### ProfilerReports, ProfilePlans, PosthocBackfill (what later runs add)

`ProfilerReports`: an attempt goes through resources and scales; each pair has the container's
report, NCU's export and a checkpoint. `ReusePlan`, `Begin`, `TakeUp`, `Recover`, `StartAfresh`,
`RunContainer`, `ParseReport`, `PublishPlan`, `Stopped` (anywhere). `EvidenceInOrder`: a published
plan has an entry for the source of every case, a forced one only its own values, and no raw
Nsys stream outlives a value of its pair.

`ProfilePlans`: how an entry is found for a row (`KeyFor`, `PlanCovers`), what a finished
measurement, `Reuse`, `CollectPlan`, `MergePlans` and `Fill` leave in the rows.
`ProfilesAreTheRows`: a filled cell shows the profile of its row's resources, mode and scale, and
every complete plan fills what it covers.

`PosthocBackfill`: `acprof profile` on a published result. `csv`, `meta`, `hist` are the three files,
per profiler the run that filled it in last; `ctx[p]` is the result as the process read it, before
it had the lock, `inFull[p]` whether its command line names the directory in full, which is all that
another process's search recognises. `Launch` (either way), `Scan` (`find_active_processes`), `ReadCsv`, `ReadMeta`, `ReadHist`,
`Lock`, `Collect`, `CreateBackup`, `PutCsv`, `PutMeta`, `PutHist`, `PutFails`, `RestoreCsv`,
`RestoreMeta`, `Abort`. Two runs under relative paths work side by side, and the second publishes what it
has read before it had the lock. Two history variables tell whom this costs: `over[p]` are the runs
whose publication p's reading may have missed, `lost` those that such a reading was published over.
`HistoryBacked`: provenance never runs ahead of the data, of runs that are not lost.
`ContributionsKept`: a record of the history goes only to a run that has read too early; successful
values go only on purpose, by their own rollback or to such a run; a completed rollback restores
what the run found when it got the locks. That nothing is ever lost is `HistoryAppendOnly`, which
the run `posthoc_overwrites` refutes.

### ImageChain, ImageRemoval, InputPlanning, ScreenTasks (what is established for later steps)

`ImageChain`: four levels of images (platform, environment, model plan, service), built by several
processes while the checkout is edited: `BeginBuild`, `Look`, `Pull`, `Copy`, `Build`, `Publish`,
`LookAgain`, `Descend`, `Reuse`, `Rebuild`; `Inspect` and `Remove` of the TUI; `EditSource`.
`ImageIsItsRequest`: each layer of an image a run gets, and of a service image a name offers, was
made from the checkout the run recorded or the name stands for.

`ImageRemoval`: the image page: the listing in three reads, the tree of images, ticks that survive
refreshes, the confirmation, the second listing and the check before each `docker image rm`, while
others move tags, start containers or replace the daemon. `RemovalIsConfirmed`: only what was shown goes, an
undisturbed removal does what the dialog said, the tree has no circle.

`InputPlanning`: text planners bisect over `/probe` answers, the others check the scales they were
given; the memory scan starts a container per size. `PlanIsEarned`: planning fails without leaving
a plan, or ends with its container gone and exactly the checked entries on file, the best there are; the
scan names the smallest size that works.

`ScreenTasks`: the event loop's handlers, threads that cannot be cancelled, dialogs. `RunsAlone`:
nothing of the interface's own runs beside a child. `ChoicesAreKept`: what is shown is of the
current selection, and what is started was reviewed and checked for the settings of now.

### CoverageState, LoadProtocol, AutomationLocks, RunSettings, ModelSelection

`CoverageState`: attempts that are never overwritten, the overview, replay, cleanup debts per Docker
scope. `NothingIsLost`. `LoadProtocol`: the main thread offers requests on a schedule or as answers
come back, workers take, check, send and read; Ctrl-C at any point. `LoadIsHonest` (limits, one
outcome per request, complete means whole), `LoadFinishes`. `AutomationLocks`: `auto` prepares under both locks,
releases them and calls `run`. `ReportsAreTheRuns`. `RunSettings`: a setting on its way through
form, draft, configuration, command line, parser, frozen record, catalogue and back.
`SettingsSurvive`. `ModelSelection`: Hub, repository and library disagree about a model's task;
options, declarations and kept answers decide. `SelectionIsAgreed`: a model is measured at a task
the user has named for this commit, or at one that nothing the resolution has seen contradicts.

### LatencyModel and ResultComparison

`LatencyModel`: windows become points, configurations and the largest scale are predicted by fits
that have not seen them, thresholds decide. Least squares are replaced by any error.
`ResultComparison`: `ReadState`, `TakePrint`, `ReadRows`, `CheckAcross`, `CheckWithin`, `CollectRun`
per run, `PublishComparison`, beside `Rewrite` by others; `ReportMatrix`. `FindingsAreEarned`: a model is
called ready only if each case was predicted within the thresholds by a fit that had not seen it;
an estimate exists only for whole, distinct, unchanged runs whose conditions are all known and
whose workloads have the same shares of requests; configurations share a group only if that holds between any two.

## 4. The runs and their bounds

| Run | Distinct states | Instance | Why it is enough |
| --- | --- | --- | --- |
| `recovery` | 2.4 M | 2 processes of 2 users, 2 cases (one inferred), 2 identities, `MaxAttempts` 3, `MaxFaults` 2, `MaxEdits` 1; an outcome of 2 cases, 1 profiler stage, every history of the directory (cases measured in order), 2 failures, lost posts, stops or intruders; a page beside a run of 2 cases or a probe of 2 memories, a pipe of 2 lines, 2 numbered lines, 2 interrupts; several thousand programs of one compound statement around bodies of up to two statements, a helper and a load afterwards, over two repositories | an attempt that fails, one that fails while it recovers, one that finishes; a competitor whose measurement lock is another file; a failure after another, at every point, and an earlier attempt with the same PID; the reader a window behind, a diagnostic with a rest, before and inside a window, an interrupt of the clean-up after an interrupt; the proofs lift these three to every size; a branch, handler, loop, `with` or early return around every change of the mapping |
| `artifacts` | 3.1 M | 2 post-hoc processes under full or relative paths, 2 profilers, 2 runs that get the locks, 2 faults; 2 builders, 1 edit, 4 images, 1 removal; words up to 4, 2 memory sizes; 2 pages, up to 5 jobs of the screen; 3 images, 2 tags, 1 move | a run that publishes while the other reads, at each step of both, a rollback that fails; an edit between any two reads; every small limit with a best and a second-best candidate; every pair of overlapping operations of the screen; a tag that changes hands after any look |
| `store` | 4.9 M | 2 processes, 2 models that share a file and have one each, `MaxFaults` 2 | prune against mount, prepare, preflight; a shared file with one reader left |
| `store_interrupted` | 2.3 k | disjoint models, `MaxFaults` 1 | finding, section 8 |
| `containers` | 129 k | 2 PIDs, 2 containers, `MaxLive` 2, `MaxBoots` 1, `MaxFaults` 2 | a reused PID, a reboot, a kill during `docker run` and a failing removal together |
| `preparing` | 1.6 M | 2 memories × 2 CPU counts × 2 GPU modes, 1 fault, 1 edit; a recovery of 1 process and 2 cases with `MaxAttempts` 4 > `MaxFaults` 3, `MaxEdits` 1 | every OOM prefix in both modes, one crash or failed write at any step and one edit; three failures in a row at any points, one attempt to spare |
| `measuring` | 2.7 M | 2 cases × 3 rows, 3 faults; 4 collectors, 2 windows, 3 faults; 2 windows × 2 requests, 1 noise frame; 2 RAPL domains whose ranges are known or not, 3 draws, 4 stamps; 2 attempts with 2 repeat counts; 3 results, 2 profile runs; sizes below and above every limit, 2 batches, 2 requests; 1 lost reading, 1 counter that goes back | a case before and after the broken one, a row before, at and after the failure; three exceptions that meet in one `finally`; a wrap between any two readings, a late reading before or after the last; a report left for the next attempt; two requests to be confused |
| `dialogue` | 258 k | 2 launches, 2 questions each, `MaxFaults` 1 | a late stop or answer needs a next question and a next child; one failing callback, death or close at every point |
| `services` | 886 k | 2 models in 3 attempts under 2 Docker scopes, 2 faults; 4 requests, 2 workers, 3 pending; 3 commands; results with repeated, failed and few windows; 32 models with disagreeing sources, 2 runs, 2 replies; 2 edits and 3 starts of settings; 2 + 2 experiments, 1 rewrite | a debt that outlives two attempts; a request in each state when the interrupt comes; an `auto` overtaken by another command; an answer kept across a publication; a rewrite between any two reads |
| `packet_samples`, `profiles_restored`, `posthoc_overwrites` | 0.7 k, 1.5 k, 7.3 k | one window of two requests; one resource, two repeat counts; two processes, one profiler, no fault | findings, section 8 |

`MinReplicates` 2 stands for the 3 of the code, so that the case with too few runs and the one
with enough both fit into 2 + 2 experiments.

Faults are counted where a failure is a choice of the environment; OOM kills in `CaseRunner` and
`StartupPruning`, timeouts and server exits are not counted, because the code must expect any
number of them. In `ContainerOwnership` a container whose id nobody knows any more frees the id for
reuse, so two ids stand for any number over time.

`CHECK_DEADLOCK FALSE` stands where the system stops by itself: attempts, runs or launches are used
up, the matrix, the client or the report is finished, a resume is refused because of an edit. The
containers and the store check deadlock: there is always somebody who can do something.

## 5. Fairness

* `ResumesToTheEnd` (`AlwaysResumable` of `RunRecovery`) – a live process runs on (`WF` of its steps); the user resumes an unfinished
  directory sooner or later (`SF`, since launching is not possible while another attempt runs).
  Crashes and failures are bounded by `MaxFaults`, not by fairness.
* `MatricesComplete` (`MatrixCompletes` of `StartupPruning`) – the process works on and somebody resumes after a failure (`WF Work`); the
  clock reaches `READY_TIMEOUT_S` (`WF DeadlinePasses`). A container may hang for ever.
* `AbandonedGoes` – the Docker daemon finishes a `docker run` it has accepted, a process that has
  to end does, zombies are reaped; and people go on measuring (`SF` of `Spawn` and of a process's
  steps). Nothing but the next measurement cleans up, so without that assumption there is no promise.
* `WaitsEnd` – threads and the event loop run, a closing application is unmounted, the child
  reads its input and runs its `finally` clauses after a signal, the user answers or cancels what
  is asked. The child's work carries no fairness: it may take for ever. A stop may be queued
  behind others' lock, with timeouts of 30 s and 5 s.
* `LoadFinishes` – the main thread and each worker run on (`LoadFairness`); a request is answered,
  fails or times out. Ctrl-C is never required.

## 6. What is proved

Eight modules hold proofs. Each argues in the same way: an inductive invariant with named parts,
one lemma per action saying that the action keeps it, a theorem per property. The assumptions are
those on the constants, which TLC evaluates on the runs too.

| Theorem | States |
| --- | --- |
| `RunRecovery_proofs`: `TypeCorrect`, `LocksSafe`, `CheckpointsTrue`, `EvidenceSafe`, `PublishedWhole` | `Spec => []` of `TypeOK`, `LockDiscipline`, `CheckpointMatchesDisk`, `EvidencePreserved`, `PublishedResultUnmixed` |
| `RunRecovery_proofs`: `PromiseKept` | `Spec => KeepsPromise`: every step is a step of `ExperimentPromise` or a stutter |
| `ContainerOwnership_proofs`: `LiveOwnersAreSafe`, `MeasuringIsAlone`, `OwnersAlwaysDecide` | `LiveOwnersSafe`, `MeasuresAlone`, and both: `OwnersDecide` |
| `ModelStore_proofs`: `PlansKeepTheirFiles`, `DownloadsStayWithinBudget` | `PlansHaveTheirFiles`, `WithinBudget` |
| `ModelStore_proofs`: `SettingsAlwaysSurvive` | `SettingsSurvive` |
| `PosthocBackfill_proofs`: `HistoryIsBacked`, `ContributionsAreKept` | `HistoryBacked`, `ContributionsKept` |
| `PosthocBackfill_proofs`: `RowsShowTheirProfiles` | `ProfilesAreTheRows` |
| `PreparationDialogue_proofs`: `ChildrenAreNeverLost`, `AnswersReachTheirQuestion`, `StopsSpareTheOthers`, `LateOnesReachTheirOwn` | `NoChildLost`, `AnswersFit`, `StopsItsOwn`, and the last two: `EachReachesItsOwn` |
| `PreparationDialogue_proofs`: `FinalWordsAreTrue`, `MessagesComeInOrder`, `VerdictsAreTrue`, `ChatAndPageAgree`, `RunIsToldTruly` | `FinalIsTrue`, `NewsIsInOrder`, `VerdictIsTrue`, `OutcomesAgree`, and all four: `OutcomeIsTold` |
| `PreparationDialogue_proofs`: `WindowStaysKnown`, `ScreenStaysStill`, `MemoriesStayCounted`, `DiagnosticsStayInOrder`, `PageAlwaysFollows` | `WindowIsKnown`, the action property `ScreenStill`, `MemoriesAreCounted`, `DiagnosticsAreShown`, and all four: `PageFollows` |
| `Services_proofs`: `LoadsAreHonest` | `LoadIsHonest` |
| `Services_proofs`: `AutomaticReportsAreTrue` | `ReportsAreTheRuns` |
| `Services_proofs`: `PlansFollowTheirEvidence`, `InferencesAreJustified` | `PlanExplained`, and `InferenceJustified` if `MaxEdits <= 1` |
| `Services_proofs`: `ReadinessIsEarned` | `ReadyIsEarned`, the first part of `FindingsAreEarned` |
| `Services_proofs`: `SelectionsAreAgreed` | `SelectionIsAgreed` |
| `Artifacts_proofs`: `ImagesAreTheirRequests` | `ImageIsItsRequest` |
| `Artifacts_proofs`: `OnlyTheShownGoes` | `OnlyShownGoes`, the first part of `RemovalIsConfirmed` |
| `Artifacts_proofs`: `TheChildRunsAlone`, `TheUsersChoicesAreKept` | `RunsAlone`, `ChoicesAreKept` |
| `Artifacts_proofs`: `PlansAreEarned` | `PlanIsEarned` |
| `Artifacts_proofs`: `NothingIsEverLost` | `NothingIsLost` |
| `Measuring_proofs`: `EveryCaseEndsWell` | `CasesEndWell` |
| `Measuring_proofs`: `WindowsAreMeasured` | `RowsAreMeasured` |
| `Measuring_proofs`: `EvidenceIsInOrder` | `EvidenceInOrder` |
| `Measuring_proofs`: `RowsHaveTheirPackets`, `ScalesAreServed`, `RequestsAreServedInTurn` | `RowsAreTheirWindows`, `ScalesAreKept`, and `ServedInTurn` if `~Parallel` |

**Recovery.** For every set of processes, any assignment of users, any number of cases, any
inferred subset and all bounds. The invariant is `IInv == TypeInv /\ LockDiscipline /\ DataInv /\
\A p \in Procs : ProcOK(p)`. None of the properties is inductive by itself. The checkpoints are
true only because the process that writes one is alone in the directory (`LockDiscipline`) and
knows at that point that the CSV is its own and full and that no sample of an earlier attempt is
left where the new ones go; `ProcOK` states that knowledge at each program point. `DataInv` keeps
three facts of the disk: attempt numbers in evidence are old ones, the record is `Truthful`, no
evidence is lost. `Truthful` is a set of records rather than a predicate on `rec`, so that the
record in a process's memory, which can be one failed write ahead of the disk, is covered by the
same words. (1) `TypeInv` and `LockDiscipline` are inductive on their own. (2) A process other than
the one that moves is not `Inside`, so `ProcOK` of it is vacuous or mentions nothing the step
changes. (3) For each action of the process inside, the new disk satisfies `DataInv` and the next
program point's knowledge holds. (4) The refinement uses `IInv` in both of its states: `RecordCase`
is `Decide`, `FinishRun` is `Publish`, all else stutters.

**Containers.** For every finite host. A start time is given to a process that no label of its PID
carries (`NewStartIsFresh`, by the pigeonhole principle on the container ids), so whoever has
exited stays exited however its PID is used again (`LabelsOK`). `OrphansOK` bounds what a
`docker run` that outlives its parent may still start, `SessionsOK` ties a session to the label it
launched, and `ScanOK` says what a scan has passed by: living owners, and debris that came too
late for it. `LiveOwnersSafe` is a part of the invariant: a process that is about to remove a
container looked at its owner before, and that look cannot become wrong.

**Store.** For any models over any finite set of files, however they share them. `LockOK` (who is
inside `prepare_model` or `prune_store`), `PublishOK` (what is about to be renamed is whole),
`LeaseOK` (a mounted model is leased and has the plan that was asked for), `PruneOK` (nothing
doomed is leased, and no file about to go is linked from an entry that stays), `BudgetOK` (what was
downloaded plus what is missing fits; it uses cardinalities). `BudgetOK` needs `LockOK`: nobody
else can make more files missing in between.

**Settings.** For any settings that can be entered in a form or typed on a command line, any number of
edits and starts. `SettingsAssumption` says what widgets and parsers let through: no text is the value None, flags
are flags, a policy is one of several, no list of numbers names a model. And nobody types the fresh
root of an attempt before a form has been given it (the model numbers fresh roots from the allowance
downwards; the code takes a time and a random part). `KeptOK` says what forms, saved settings, records and
offers have in common, so that each conversion is undone by the next: one lemma per conversion (form,
command, parser, record and back) computes it option by option. `ChildOK` says that a run that was started
from the screen will freeze what was shown and, unless the declaration or the directory has changed
since, will not be refused; `ReuseOK` that a reused form says what its record has frozen, at a root
nobody has yet. `OffersHold` needs that what is frozen of resumed options are those options
again (`ResumedSays`, `FrozenSame`, `FrozenPinned`): a device pinned once is pinned again, and a path
or number that is written out a second time does not change.

**Post-hoc.** For any processes, profilers, runs and faults, whether or not a command line names the
directory in full. Runs may read side by side, so the invariant says of a reading what it may have
missed: `OverOK` (whoever publishes while p has yet to get the locks is in `over[p]`), `ReaderOK` (of all
other records p has read the data before the record, and knows them all once it has read the
history), `HolderOK` (at each program point, what the holder of the locks has replaced and what it
can put back). Numbers are given out with the locks (`NumbersOK`), so whoever replaces has the
highest, and every record it keeps is of an older run.

**Plans.** For any results, resources, scales, references and samplings, and any series of runs.
`PlanOK` is about a plan wherever it is, on disk, chosen or half merged: under every key that a
row's lookup can hit (exact, of a representative case, of a GPU mode, of the CPU that stands for
all) there is only what was measured for such rows. `WantsOK` says of a post-hoc run
that each tool it was asked for has a plan or is still to get one; `MergedHasOwn`
that merging keeps of each tool the plan chosen for it, whatever the others hold under the same key. The
second half, that complete plans fill, needs that coverage, which is tested on the plan alone,
makes the lookup succeed for every row.

**Dialogue.** For any number of launches, questions and faults. `Current` (which launch the worker
thread, the lifecycle and the open question are about), `Questions` (a question is in one place on
its way from the child and back), `Stops` (what each `stop()` in flight is entitled to), `Closing`.

**Outcome.** For any number of cases, stages, posts and faults. `Progressed` says what the run has
behind it at each program point, `Ours` which attempt in the directory is its own (another may have
the same PID), `LastWord` and `LastMessage` what the state file and the chat may say at that
point, `InOrder` that the messages sent so far are those of a prefix of the run, `Judged` what the page
has read. Chat and page read different records, and agree because both are bounded by `Progressed`.

**Monitor page.** For any number of cases or memories, any pipe, any number of messages and interrupts.
The tracker is behind the command by the lines in the pipe, so nothing relates the two
directly. `EventInv` says that a forecast exists: a sequence of trackers, the first the one there is, each next
what `feed` makes of the one before and the next line in the pipe, and the last one fits the phase of the
command (a table per command: what the tracker of somebody who has read everything must be). Printing extends
the forecast by one (a table says what each line does to each expected tracker), reading
drops its first element, and `WindowIsKnown` follows from the forecast's first one, because the lines that are
still in the pipe cannot contain both ends of the window. `Shown` relates tracker, held-back
lines, callbacks and page; `Ordered` gives each numbered line one place, and the places an order.
The attempt showed that `CASE` guards in the model of `feed` overlapped, which leaves the choice
open in TLA+ where Python takes the first; they are now chosen in the order of the code.

**Load.** For any number of requests and workers, either scenario. `Held` (each running request has
its worker), `Told` (what is known of a request from where it is), `Bounded` (what is outstanding
is pending, and bounded: cardinalities again), `Phased` (what each phase of the main thread has
left behind). The pending set is cleaned only when the next request is due, and the bound holds nevertheless.

**Images.** For any number of builders and edits. A checkout is compared only when an image is
built and named; what a layer was copied from, what its name says and what the request recorded
were read at different moments. Edits only go forward, so a value read in between lies between the
request's and the checkout's (`OnBase`, `HasCopied`), and the comparison at the end makes all of them equal.

**Packets.** For any number of windows, requests and frames. While the client runs, each row it has
written has its group beside it; the parser's records are those of the matched requests under a
key that no two of them share; the merge puts the records of a row's group into the row.

**Serving.** For every model whose limits are any numbers, any sizes above zero, batches and number
of requests. `ScaleFits` follows one request: what was cut exceeded, what went through was not
refused. Under `~Parallel` (a measured case sends one request after another; `acprof load` does
not), `OneByOne` and `EvidenceFits` say that the shared observation is of the open request, as far as it
has come, and that what still runs on the device is of the open request or of failed ones. The deadline of the
server may pass before that of the client or after it.

**Cases.** For any number of cases, rows and faults. `Fresh` (what a case begins with), `Written`
(the client alone writes results, in the order of the rows), `Broken` (a case that broke off has
all its rows, none of them stray), `Recorded` (which requests tcpdump saw, and that after the merge
just their rows have a latency), `Unraised` (an exception is on its way only from `Cleanup` on).
`BrokenCaseContinues` rests on `Recorded`: the merge finds no packets only if nothing was
measured or another fault came before, so a recognised OOM kill never ends the matrix there.

**Windows.** For any collectors, any number of windows and failures. `BeforeStop` says what a phase
finds (nothing has failed before the stops begin; a collector that was started samples; a window
has its baseline), `WhileEnding` what is known while the group ends (whoever still samples has yet
to be closed), `Heard` that a Ctrl-C is always on its way to the end of the client, through the
first exception, the exceptions that replace it and the ones that are kept for later.

**Profilers.** For any resources, scales, tools and repeat counts. `AttemptOK` (each pair has its
entry or is still to come), `ForcedOK` (a forced attempt has only entries of its own), `FilesOK` (a
report about to be parsed was written by this attempt; no raw stream lies beside a value). Scales
are ordered by their place in the plan, so that the least one that is left exists.

**Automation.** For any commands on one directory. `Prepared` (who has published a preparation goes
by its own two files), `SucceededIsComplete` (what is, or is about to be, reported a success is a complete run).

**Probes.** For any matrix and any number of stops and failures. `BoundOK` (what `run_state.json`
records follows from the recorded report), `PhaseOK` (what the process knows of the files where it
stands), and for the inferences `EvidenceOK`: every record in memory or on disk stands for a real kill, unless
the file was edited. `InferencesAreJustified` needs `MaxEdits <= 1`: one edit of the report is
contradicted by the plan, and the code refuses it; two can forge a record and delete the plan.

**Latency model.** For any results with finitely many windows, each of CPU or GPU and of a scale in
Nat (the code drops a row without a positive scale and refuses one of other hardware), any earlier
files and any errors of the fits. `Awaited` (hardware is settled once, and none is forgotten),
`Predicted` (who predicts has seen only points of the table and, of the largest scale, only smaller
ones), `Passed` (what was found fit stays so while other hardware is predicted), `Stated` (what the
two files say). That a largest scale exists rests on the well-foundedness of Nat.

**Screen.** For any files, settings and budgets of a day. `ThreadsFit` (every background thread is
one that the interface counts as under way), `DialogsFit` (a dialog that may start one belongs to an
operation that keeps a child from starting), `PagesFit` (a page shows what its last request read),
`ReviewsFit` (a review or plan that may resume an experiment carries the record that was chosen). A
thread whose reading was cancelled lives on; its token is what tells it from the next.

**Image removal.** For any images, tags and disturbances; of the daemons it assumes that tags and
containers refer to images that are there. `AsTicked` (what is ticked has the tags it was ticked with,
and the dialog shows them), `Looked` (a tag that was not moved since the listing is where it was
seen), `Agreed` and `Aimed` (what is to be removed was seen as it was shown). The names that are
passed to `docker image rm` are those of the second listing, and these three make them the shown ones.

**Planning.** For any limit, number of targets, memories and requests, and every tokenizer that gives more
words no fewer tokens. `OnFile`, `AtWork` and `Collected` tell the planners apart at each stage. For an
automatic text plan `EntriesFit` says that each entry is the best for its target, `Remaining` which targets
are left, `Searched` that the bisection's best fits and nothing above `right` does. When it ends,
what fits is no longer than best and what does not is no shorter than its successor, so the nearer of
the two is nearest of all. The scan (`Scanned`) tries the sizes in order, and only lack of memory takes it further,
so whichever it ends at is the smallest that works. That a finite set of sizes can be listed in order is
proved from the well-foundedness of Nat.

**Coverage.** For any sample, configurations and Docker scopes, any number of attempts and any faults.
What `NothingIsLost` says of a verified model compares the replay of all attempts before a step with
the replay after it, so the proof follows the replay attempt by attempt and row by row: two computations that take the same steps agree,
and the smallest place where they did not would contradict the one before (`UpTo`, over a set of
numbers). A row that is kept twice is kept once (`RetainTwice`), so attempts that were begun and left
nothing change nothing. Only `Record` does: it is about a model of the queue, and `OnDisk` and `AtHand`
say that the queue is what the replay on disk has left unverified. `OneDebt`: debts come first and
a row that leaves one ends the run, so there is never a second. `Owed`: a container that is owed
was created in the scope of the attempt its debt names as origin, so confirming the debt by clearing that
scope leaves none of it; what a validation is about to create is owed by nobody yet.

**Selection.** For any tasks, any operations that serve them and any commits whose architectures name finitely
many tasks and whose Auto class is one the library has (`_AUTO_TASKS` and `_TASK_MAPPINGS` say so).
`ModelOK` says when a task is backed: it was asked for, named in an answer, or uncontradicted, as
soon as nothing is open or the generated contract only lacks its inputs. `AnswersOK` ties the tasks
in a list of answers to the commit they were given for, and `KeptOK` says it of every kept list.
`GivenIsOK` carries `ModelOK` over any number of answers given again: the model's recursion is a
function on 0..n, and the first place where the claim failed would contradict the one before. The
attempt showed that the `CASE` guards of `Contract` and `Question` overlapped where Python takes
the first; they are now chosen in the order of the code.

## 7. Only model-checked

* Liveness: `ResumesToTheEnd`, `MatricesComplete`, `AbandonedGoes`, `WaitsEnd`, `LoadFinishes`. The
  prover handles neither liveness under fairness nor ENABLED.
* Functions over data. `EnergyCounters`' and `WindowReadings`' sums
  over readings, `DependencyFlow`'s interpretation of nested programs (RECURSIVE): what they compute for every input
  needs induction with an operator as parameter, which the installed provers cannot instantiate. Where
  a function on 0..n was enough (`CoverageState`, `ModelSelection`) a set of numbers takes its place.
* Of `RemovalIsConfirmed`, `UndisturbedIsDone` (it counts the tags of an image) and `TreeIsForest` (that
  climbing to the parents ends: induction over the depth).
* What a hypothesis of section 6 excludes: `ServedInTurn` with `Parallel` does not hold, nor does
  `InferenceJustified` with two edits.
* `ResultComparison`: the pairing of runs is within reach, not proved.

## 8. Where the code and its documentation disagree

Four disagreements are runs that TLC refutes; `PROJECT.json` quotes the lines.

1. `store_interrupted` / `PreparingAgainHeals`. `mount_args` answers a missing plan with "prepare
   it again first". `prepare_model` builds the view only if its directory does not exist: after a
   prune killed inside `rmtree`, with the plan gone and the directory left, preparing again
   succeeds without publishing anything, and every mount after it fails with the same advice.
2. `packet_samples` / `SamplesAreTheirRequests`. The samples written into `requests.jsonl` are looked
   up under keys that the parser never made, so that a matched request shows as not matched.
3. `profiles_restored` / `CheckpointsTellTheTruth`. A stopped attempt leaves a report without its
   checkpoint; the next one, asked for another repeat count, takes it up and writes its own count beside it.
4. `posthoc_overwrites` / `HistoryAppendOnly`. The record of a run is appended to the history, and a second
   run on the same directory is refused (docs/Profilers.md:101,103). `find_active_processes` recognises the
   directory by its full path in another process's command line (`storage.py:295`). Of two `acprof profile`
   runs started with a relative path, as docs/Profilers.md:81-82 shows, the second reads the result
   before the first has published (`service.py:108`), gets the locks afterwards (`service.py:165`), and publishes
   a history without the first run's record, and the older values of the profilers it did not run.

More were met on the way. Each was seen by TLC as a violation of the property named, which is kept in
its module, in the instance of the module's run, with the change that is named, if any.

* `CaseRunner.RuntimeOomReported`: the documentation promises Docker's OOM context for the rows a
  runtime OOM kill costs. Docker is asked only when the client's exit code is not 0; a kill during
  the last windows leaves error rows, exit code 0 and no context.
* `MonitorWindow.NoResidualSampler`: the documented reason for ending the client on a failed cleanup
  is to keep samplers out of the next window. A thread that outlives both joins of one second
  raises nothing and samples beside the next window (`resource_usage.py:199`, `measurement_window.py:13`).
* `RequestServing.MeasuredAlone`: requests run one after another, and a container whose client has stopped
  waiting is not measured again (docs/Profiling_Protocol.md:98-101). `/predict` answers 500 after an
  exception in `predict` with CUDA kernels still queued, or at a deadline set below the client's
  (`server.py:125-140`, `docker_runtime.py:214-215`), and the client goes on to the next request
  (`client.py:824-831`).
  `OwnEvidence` with several requests at once: docs/Profiling_Protocol.md:264.
* `ProfilePlans.SamplingIsTold`: the sampling metadata do not always tell whether
  an execution column comes from representative resources (docs/Profiling_Protocol.md:589).
* `DependencyFlow.LoadsAreProvided`, on the programs of `MCRunning` that are not `Plain`: a loop is
  analysed once (`model_dependency_flow.py:310-321`), a handler starts from the state before its
  `try` (290-304), a helper's early return forgets what it changed (221-235, 259-262) and so does
  `with contextlib.suppress` (307-309). A call that can run is then recorded `inactive`, against
  docs/Runtime_Compatibility.md:418,432.
* `ModelSelection.AnswersSettle` with `MaxReplies` 3: an answer to a pipeline or input question drops the
  task the user chose before (`model_review.py:69-155`, `host/collection_workflow.py:178-202`), so
  that the dialogue alternates between task and pipeline (docs/Runtime_Compatibility.md:369-370,388).
* `RunSettings.ReusedIsUsable`: `acprof auto` freezes `resolution_identity` and
  `requested_profiling_mode`, which no parser declares; such an experiment can be neither resumed
  nor reused in the terminal interface (docs/TUI.md:119, `host/automation.py:106-107`).
  `DocumentedIsAccepted`: docs/CLI_Reference.md:353 and docs/Profilers.md:206 offer
  `--compute-profile-tool vendor`; the parser accepts it and `RunConfig.validate` refuses it (`cli/run.py:806`).
* `RunEvents.CasesAreCounted`: a case is opened by the line `[matrix] Case i/n`
  (`host/orchestrator.py:1026`); `CASE_RE` (`tui/progress.py:15`) wants `# Case i/n`, which nothing prints.
  The counters of cases stay 0 until the run ends, against docs/TUI.md:69.
* `ScreenTasks.PlanHasCheck`: a plan to resume may be started without the environment check of its
  own settings (`tui/recovery_actions.py:104-106`). `ImageChain.OnlyChosenGo`: another
  process may move a name after the comparison and before `docker image rm`.
* `EnergyCounters.EnergyIsExact`: with one wrap at most between adjacent samples the intervals add up to what
  was used (docs/Energy_Measurement.md:102-104). `stop()` goes on after `join(timeout=1.0)` whatever its
  outcome (`energy_cpu.py:562-565`); if the thread then reads under the timestamp it took before, after the
  last reading but before the reduction, the readings are sorted against their order and one wrap too many is counted.
  `EffectiveIsWhole`: the effective energy is computed although a part of the window was
  not covered. `InputPlanning.EachScaleOnce`: only the manual text planner accepts two entries with one scale.
* `PosthocBackfill.ReplacedTogether`: a kill between two of the three replacements, or a failing restore,
  leaves files of different runs, which docs/Profilers.md calls atomic.
* `ModelStore` with overlapping models and no failure, `PreparingAgainHeals`: a plan covers whether
  hosts served files or the cache did. After a prune and a preparation that finds the shared files
  in the cache, the plan's SHA-256 is not the one the existing images record. `SummaryReadable`: while
  a preparation has a finished plan in its `.preparing-` directory, or after it was killed there,
  `disk_report` takes that name for an entry and raises `ValueError`.
* `ResultComparison` with contents that are restored (`MaxRewrites` 2): a directory rewritten and put back
  between fingerprint and final hash goes unnoticed (docs/Metrics.md:513); `runtime_failures.json` and
  `model_resolution.json` are read by the audit but not among the fingerprints (docs/Metrics.md:530).
  Under `resource-scaling` a side with observed threads and one with probed threads only are called
  incompatible (`analysis/conditions.py:113-139`), where the documentation keeps what is missing unknown.
* `RunOutcome`: a resumed run that finds everything complete posts that it started and never how it ended
  (docs/CLI_Reference.md:119-127), and success is posted although the final CSV could not be read
  again to count its errors (`unread` in `Record`).
* `docs/Runtime_Compatibility.md` (about line 1055) says that a failed read of the images clears the
  selection; `_show_images` keeps it, as does line 1065 and a test.

## 9. Not modelled, and why

What a module leaves out, beside wording, logging and layout:

* `RunRecovery`: the contents of rows, truncated CSV files (a crash while the error rows of a case
  are written), a signal between acquiring a session and entering its `try`.
* `ContainerOwnership`: malformed labels. `CoverageState`: sampling from the Hub, summary rates, a late
  `docker run`. `AutomationLocks`: a directory that can be neither begun nor resumed, a late `finish()`
  that overwrites a newer report. `LoadProtocol`: a second Ctrl-C during `pool.shutdown`.
* `CaseRunner`: writing CSV files does not fail (that is `RunRecovery`'s `Fail`); latencies and the
  stability of idle power are failures that may or may not happen.
* `MonitorWindow`: all collectors are available; Ctrl-C arrives in operations that wait, not
  between two statements. `WindowReadings`: CPU and memory percentages, per-request division, percentiles and idle
  diagnostics; a byte counter that goes back gives 0 where operations give nan, power is
  integrated from the first to the last readable sample only, and a GPU counter that is reset and
  grows past its start is not noticed.
* `RequestServing`: refusals beyond the size are one choice; outputs, weight loading, the smoke test
  and `/probe` are left out; decode and encode may differ by a token. `PacketMerge`: bytes are
  frames.
* `ProfilerReports`: Advisor and Torch profilers keep no files; a stale `.nsys-rep`, NCU checkpoints that do not compare
  CPU and memory, `keep_profiles=False`. `ProfilePlans`: `static_flops`, the
  plan's identity check, publishing of the derived CSV, history sampling.
* `ImageChain`: a checkout that returns to an earlier content between two reads; source tags and container
  references are folded into presence. `ImageRemoval`: one connection whose daemon may be replaced;
  space is known for all layers or for none; a removal with several tags is all or nothing on
  failure. An untagged image goes by its ID, and with it a tag given to it after the last listing.
* `InputPlanning`: tokens are words; `ScreenTasks`: the environment-status dialog and quit.
* `DependencyFlow`: values are repositories or None, the main load succeeds with complete files,
  over-claims are harmless.
* `ModelSelection`: backends, families, `auto_map` and custom task candidates, metadata details. The
  fallback configuration sees neither `acprof_model.json` nor the Hub's tags, so `SelectionIsAgreed`
  is about what the resolution has seen.
* `RunSettings`: one option per treatment; `measurement_environment`, `cpuset`, `skip_build`; the preset's
  50 ms timer; a resume of a complete run is a refusal.
* `LatencyModel`: the fit itself, pictures, p95, smape and rmse; a plot killed between residuals and
  report leaves files of two tables. `ResultComparison`: one metric and one scale, warmup rows,
  bootstrap numbers, formula checks, `acprof stats`, summaries, pareto and scores.
* `RunOutcome`: texts, the hook's replies beyond accepted or not; `RunEvents`: the heartbeat of a terminal
  run, elapsed times beyond whether the clock moved, commands that are neither run nor probe.
* `PreparationDialogue`: a second stop by the user while the first runs, the decision cache and the
  contents of questions; a PID reused between `poll` and `killpg`.
* Components listed as `not_modelled` are pure functions, presentation, or code that runs outside
  the host program and keeps no state of its own: static metadata, drawings, translations,
  workloads and extensions, the load policy of containers.
