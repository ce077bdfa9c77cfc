# A TLA+ model of metrics_exporter

`metrics_exporter` samples `/proc` on its own thread, keeps the last sample in memory, and exports it
periodically over OTLP. This directory holds its specification: TLA+ modules that follow the source, TLC
configurations that check them on small instances, and TLAPS proofs of what matters most for every
instance. Paths below are relative to the repository.

## The system

| Component | State | Operations | Interacts with |
|---|---|---|---|
| Collection runtime, `crates/metrics-framework/src/lib.rs` | `Registry.entries` (stop flag and join handle per collector); per collector a cache behind an `RwLock`, shared by the sampling thread and the callbacks; the thread's scratch buffer | `Registry::add`, `shutdown`, `drop`; the sampling loop and `sample_once`; `observe_u64`, `observe_f64` | `Collector` (calls), the meter (callbacks on its threads) |
| Host collector, `crates/linux-metrics` | configuration only | `items`, `collect` | `procfs`, the runtime |
| Process collector, `crates/linux-metrics/src/process.rs` | none between passes | `collect_process_metrics`, recursive `collect_process` | the kernel's process table, which changes under it |
| `/proc` parsers, `crates/procfs` | none | one parser per file | the collectors |
| Process life cycle, `src/main.rs` | `RUNNING`, the tokio runtime | start-up with five early returns, signal handler, 100 ms poll, orderly shutdown | all of the above |
| Exporter, `src/exporter.rs` | the SDK's meter provider | `new`, `meter`, `shutdown` | the SDK's reader thread, the endpoint |
| Registration, configuration, log, arguments, affinity | `CONFIG`, `ARGS` cells | read once | `main` |

What is hard here: three kinds of threads meet at one lock and one flag; a double buffer is recycled between
them; instruments are live before the thread that feeds them; shutdown, drop and the final flush have an order
that nothing but the text of `main` enforces; the drops of an early return have another; a sampling thread sleeps without looking at its stop flag; start-up can
stop after any step; files of `/proc` differ between kernels and are parsed by position and by key; the process table changes
between two reads of one row; and the two sides of the metric contract (what is registered, what is pushed)
meet only in a lookup that skips what does not fit. `PROJECT.json` lists these hazards line by line with the
properties that cover them.

What makes each part correct:

- runtime: a callback sees one whole pass; passes appear in order, also to the callbacks of different
  instruments; no publication after the stop but one; passes keep their interval; shutdown ends every thread,
  terminates, and takes one period however many collectors there are;
- parsers: a bad line costs nothing but itself, core fields come from the file or the snapshot fails, and no
  number slips to another field, column, device or process;
- life cycle: a signal ends the process; the last export carries the last pass; exports have a runtime;
  an early return leaves nothing running;
- process collector: a task is reported at most once, survivors are reported, filtered ones are not; a
  pass ends;
- host collector: each value has its instrument, each instrument its value, each series one value.

## Modules

| Module | Models | Notes |
|---|---|---|
| `SampleGroups` | items, values, groups and what a callback reports of them | pure; a value is its variant and the pass that read it |
| `PublishedSnapshots` | what the runtime promises | abstract specification: atomic callbacks, whole snapshots in order, at most one after the stop |
| `MetricsFramework` | the runtime | one action per step at which another thread may interfere |
| `MetricsFrameworkProofs` | | proofs about `MetricsFramework` |
| `TimedFramework` | the time of passes, sleeps and joins | extends `MetricsFramework`: each step conjoins a framework step, and `Tick` lets time pass |
| `TimedFrameworkProofs` | | proofs about `TimedFramework` |
| `ExporterApp` | `main`, signals, periodic reader | extends `MetricsFramework`: each action conjoins a framework action or leaves its state alone |
| `ExporterAppProofs` | | proofs about `ExporterApp` |
| `ProcessCrawl` | the process collector and the kernel's tasks | one action per file read |
| `ProcessCrawlProofs` | | proofs about `ProcessCrawl` |
| `HostCollector` | `items` and `collect` of the host collector | the metric names from both sides, filters, attributes |
| `HostCollectorProofs` | | proofs about `HostCollector` |
| `ProcFormats` | what the parsers of `procfs` do with one line, or with a file of one line | pure; tokens, not characters |
| `ProcFiles` | the read of one file, and the conversion to bytes | the kernel writes lines, rightly or wrongly, as the parser gets to them |
| `ProcFilesProofs` | | proofs about `ProcFiles`, and about one line of `stat` |
| `MC*` | instances for TLC | |

`TimedFramework` and `ExporterApp` extend `MetricsFramework` independently; `ProcFiles` stands below
`ProcessCrawl` and `HostCollector`, which take its outcome (a file that is read, or is not) as an input.

### MetricsFramework

`fresh`, `call`, `adding`, `entries`, `handle`, `next` and `dropping` are the thread that owns the `Registry`
(its methods take `&mut self`, so one runs at a time); `entries` keeps the order of the `Vec`, `handle` is
`Entry.handle.is_some()`, `next` the position of the two loops of `shutdown`. `built` is the set of callbacks
registered on the meter. `stop` and `cache` are shared. `spc`, `pass` and `scratch` are the sampling threads,
`rpc`, `todo`, `cur`, `at`, `seen` the reader threads and the scan each is in; `delivered` is what a reader's
last callback reported.

A pass is `BeginPass` (flag clear, `scratch.clear()`), `CollectGroup`s, `EndCollect`, `AcquireWrite`, `Swap`.
The lock is derived from the program counters: a reader holds it while it scans, and the `parking_lot` lock lets
no new reader pass a waiting writer. A write request comes to wait in `EndCollect`. The sleep takes no step
here; `TimedFramework` has it.

### TimedFramework

`age` is the time since `started`, the `Instant` taken as a pass begins; `nap` is what is left of the
`thread::sleep` behind it; `waited` is the time since the last call of `shutdown`. `SleepRest` is the swap with the
comparison and the subtraction that follow it. `Tick` is the only step that takes time, and it is possible only
while every thread waits for time: it sleeps (`nap > 0`), or it is in a `collect` that may still go on
(`age < MaxCollect`), and the thread of the `Registry` has nothing to do or waits in a join. All else is taken to be
short against an interval. The readers are left out (`NoReaders`): their scans take no time on this scale, and
`PassesArePublished` says that they hold up a writer only for so long.

What the model says of a stop of the whole service: the poll of `main` sees the flag within 100 ms, the joins take
at most `Longer(MaxCollect, Interval + MaxLag)` of the slowest collector (`ShutdownTakesOnePeriod`), the flush at most
`otlp.timeout`, and `shutdown_timeout` of the runtime at most 5 s. The unit file grants 60 s in total
(`TimeoutStopSec=60`), so an interval of about a minute or more leaves no time for the flush; nothing in the
configuration prevents one.

### ExporterApp

`mpc` follows `main` from `log` to `exit`. `StartupFails` covers the early returns and the drops they cause:
before the exporter exists nothing needs to be undone; after it the registry (dropped inside
`register_collectors`), the provider, which flushes, and the runtime, in this order. `workers` are the threads of the runtime,
the smaller of what is configured and of the cores that `get_cpu_cores` counts; with none of them the start-up fails. At
the end of `main` the runtime is shut down with a timeout; an early return only drops it, which waits without a limit for
what runs on it. `DropHangs` is that wait with an export under way, and nothing says that it ends. `RUNNING` is the
`OnceLock`: `set` keeps its first value. `SignalArrives` kills the process before the handler is installed and
only marks `pending` afterwards; `HandlerRuns` is the handler on the thread of the `ctrlc` crate. The periodic
reader (`xpc`) collects on its interval or on the shutdown message; `EndExport` may never come.

### ProcessCrawl

`alive`, `leader` and `matching` are the kernel's tasks: they start, exit and change names between any two reads
of the crawl. `pc` names the read that comes next; `procs` is what remains of the outer list, `tasks` and
`parent` the inner list. A name is abstracted to whether the configured regular expressions match it. `owed` and
`matched` are history variables used by properties only. Between passes task ids may be given out again,
within a pass not; the code relies on the same.

### HostCollector

`Registered` is the table `ITEMS` by the file each item comes from, and the `...Values` operators are the pushes;
both are written out because their agreement is what is checked. `step` is the source whose turn it is, in the
order of `collect`, and `PassOver` a source that is switched off or whose file cannot be read. Uptime, loadavg and
memory push one group each; the other sources read a vector (`Read`) and loop over it: `lines` is that vector, `at`
the line of this turn, `Line` the turn, and `kept` the `continue` of the filters. The contents of the files are the constants `Cpus`,
`Ifaces`, `Disks` and `Rows`. Two assumptions are made of them: the kernel writes one line for a core,
an interface or a device (`LinesAssumption`), and a row of a task has a file, a task one row
(`RowsAssumption`). The second is what `ProcessCrawl` is proved to do (`CrawlIsTyped`, `NoTaskHasTwoRows`).

### ProcFormats and ProcFiles

A token is a number or `Malformed`; a line of a file of keys (`meminfo`, `status`, `io`) is a key and the first token of
its value, a line of a file of rows (`/proc/stat`, `diskstats`, `net/dev`) a head and its columns, and a file of one line
(`loadavg`, `<pid>/stat`, `uptime`) a sequence of tokens. `fields`, `seen` and `rows` are what the parser holds, `lines` is
what it has parsed. `WrittenLine` is a line as the kernel should write it; `SpoiledLine`, `OmittedLine` and `StrayLine` are
the faults. The actions parse the line in the same step, with the early return of the strict parsers in
`Fails`. The lines of a file are chosen as the parser gets to them, which is the same as choosing the file first,
because `from_file` reads all of it before it parses and nothing else depends on the choice. `CannotRead` is the failure
of that read.

`Bytes`, `HugeBytes` and `SharedKb` are the conversions of `mem.rs` and `process.rs` in integers that wrap at `Modulus`,
as those of the release profile do at 2^64 (it sets no overflow checks). `PartsFitTheWhole` is what
`meminfo_test` asserts of the machine it runs on, in bytes and for every machine.

## Runs

All numbers are for two workers.

| Run | Instance | Shows |
|---|---|---|
| `framework_snapshots` | 1 collector, 1 reader, 2 items, 2 group shapes, 3 passes of at most 2 groups | `TypeOK`, `CacheHoldsOnePass`, `DeliveriesNeverGoBack`, refinement of `PublishedSnapshots` |
| `framework_readers` | 1 collector, 2 readers, 1 item, 2 passes of at most 1 group | `ScanIsOfOneSnapshot`; no writer starvation (`PassesArePublished`); `ShutdownTerminates` under readers |
| `framework_registry` | 3 collectors (one without items), 1 reader, 1 item each, 2 passes of at most 1 group | `ThreadsAreOwned`, `OrphansReportNothing`, `ShutdownLeavesNoThread`, `NoPassBeginsWhileJoining` |
| `timed_shutdown` | 2 collectors with intervals 2 and 4, passes of up to 3, sleeps late by up to 1, 2 passes, no reader | `ClocksTypeOK`, `PassesKeepTheInterval`, `ShutdownTakesOnePeriod`, `ShutdownTerminates` |
| `app_shutdown` | host collector, periodic reader, 2 passes of at most 1 group; 0 or 2 worker threads configured, 0, 1 or 4 cores | `AppTypeOK`, `FlushSendsFinalSnapshot`, `ExportsHaveRuntime`, `ExitIsClean`, `SignalEndsProcess` |
| `crawl_rows` | 3 tasks in every arrangement of processes and threads, symmetric | `TypeOK`, `OneRowPerTask`, `SurvivorsAreReported`, `FilteredTasksHaveNoRow` |
| `crawl_liveness` | 2 tasks | `PassTerminates` |
| `host_contract` | all configurations, the aggregate line and a core, 2 interfaces, 1 disk, a process with a thread | `EveryValueIsReported`, `EveryItemIsSampled`, `OneValuePerSeries` |
| `proc_files` | every format; up to 2 faults per file of keys, 3 lines per file of rows, all cuts and single faults of files of one line | `TypeOK`, `FieldsAreTheLastValues`, `CoreComesFromTheFile`, `OnlyCoreFails`, `CommCannotForgeTimes`, `SoundLinesHaveRows`, `RowsAreCopiesOfLines`, `PartsFitTheWhole` |
| `meminfo_missing` (violation) | 1 fault | a core field of `meminfo` that is missing passes as 0 |
| `crawl_thread_time` (violation) | 3 tasks | thread rows carry the time of their process |
| `disk_default` (violation) | a disk and a partition | partitions are collected by default |

Bounds. `MaxPass` bounds the passes of a thread and `MaxGroups` the groups of a pass. `framework_snapshots` has three
passes because the buffer that the first one published comes back as scratch with the second swap and is published again
by the third, where groups it still held would show; and two groups because a pass may then be longer or shorter than the one
whose buffer it fills, and a scan can be between two groups. The other runs are about threads and calls: two passes let a
snapshot be replaced under a reader, and one group is enough for a torn scan, which can stop before and behind it. A thread at its bound stays at the check of its flag, where it can
still exit. The theorems below hold for any bounds. Three collectors let a shutdown meet an entry that is joined, one that
runs and one that was never added. In `ProcessCrawl` three tasks are two processes one of which has a thread,
or a process with two threads, and a task that starts in the middle; liveness needs two for the recursion into
threads to have somewhere to go. In `timed_shutdown` one collector's
passes outlast its interval and the other's do not; the bound of `ShutdownTakesOnePeriod` is reached there. A thread at
`MaxPass` waits for its flag without sleeping, so time stops for all (`Waits`) until a shutdown is called.
In `proc_files` two faults are a spoiled line
behind a good one of the same key, or before it, or a missing line with a stray one of the same key, anywhere in the
file; three lines are a bad one between two good ones; the columns are those of every
version of the kernel, one fewer or more, with the first, the last or the one behind it spoiled. `Kb` is 4 and `Modulus` 64:
memory at the limit of what the integers hold (15 * 4 in 0..63) is among the snapshots.
Deadlock is checked everywhere but in `app_shutdown`, where the process ends, and in the two runs of `ProcFiles`, where the
file ends; in every other model some call, some kernel event or the clock is always possible.

Symmetry is used in `crawl_rows` only, which checks no liveness.

Fairness. `FairSpec` of the framework assumes that a method that was called, a sampling thread and a collection
that has begun keep running: they are threads of the operating system that wait for nothing but the lock and
each other. No call, collection, or signal has to happen. `FairAppSpec` assumes the same of `main`, of the
handler's thread and of `shutdown_with_timeout` and `shutdown_timeout`, which return by their timeouts; it assumes nothing
of exports, and nothing of the drop of the runtime under one (`StopStep /\ ~DropHangs`). `SignalEndsProcess` excepts this place
of a failed start-up: there a caught signal does not end a process whose export never returns.
`FairTimedSpec` assumes the same of the threads as `FairSpec`, and that time passes (weak fairness of `Tick`).
`ProcessCrawl` assumes that the crawl goes on, and nothing of the kernel.

### Divergences found

- `procfs/src/meminfo.rs:52-93` remembers no key it has seen, so a core line that is missing passes as 0; the comment
  on the function says that it fails the snapshot, as it does in `status.rs`, which keeps a flag per core field.
- `procfs/src/process/task.rs:27` roots a thread at `/proc/<tid>`, where `stat` (and `io`) count the whole process;
  the comments of `process.rs` and `stat.rs` say the thread's own file is read. With `thread = true` the CPU time of
  a process with n threads is therefore reported n times.
- `disk.rs:53` knows only a list of devices to exclude, and an empty one excludes nothing; the comments on
  `DiskFilter` and on `exclude_devices` in `src/config.rs` describe an allow-list whose default is whole disks.

## Proofs

`MetricsFrameworkProofs` proves for every set of collectors and readers, every assignment of items and shapes
and every bound: `TypeOK`, `CacheHoldsOnePass`, `ScanIsOfOneSnapshot`, `ThreadsAreOwned`,
`OrphansReportNothing`, `ShutdownLeavesNoThread`, `NoPassBeginsWhileJoining`, `DeliveriesNeverGoBack`, and that the framework implements
`PublishedSnapshots`. The assumptions are those named in the modules: shapes are sets of values, items are sets of
items, the bounds are naturals, `None` is no collector.

The inductive invariant `IInv` has four parts:

- `TypeOK`, which also ties a scanning reader to a registered callback;
- `OwnershipInv`: a thread that runs has an entry with its handle; during the loops of
  `shutdown`, the entries before `next` have their flag set, and later are joined. The two shutdown properties
  follow from it when `next` has passed the last entry, because every running thread is at some entry;
- `SnapshotInv`: cache and scratch hold groups of the passes their program counter says. `CacheHoldsOnePass` alone
  is not inductive: the swap publishes the scratch, so what it holds must be known;
- `LockInv`: no reader scans a cache whose thread is in `swap`, and what a scan has seen is what the cache holds up
  to its position. This needs the lock for its induction step: only `Swap` changes a cache.

`DeliveriesNeverGoBack` needs one fact more, `DeliveredAreOld`: no pass a reader was given is newer than the last that
was published. It stays true because passes are published in order (`PublishedGrows`); a callback that ends then
delivers the last published pass (`CacheHoldsOnePass` for what `ScanIsOfOneSnapshot` says it has seen).

`OrphansReportNothing` rests on `FilledAreListed`: a cache that holds anything has an entry, because only `Swap` fills
it, a thread that swaps has an entry (`ThreadsAreOwned`), and entries stay (`EntriesStay`). What a callback delivers it has
scanned in such a cache.

`ShutdownDescends` is the part of `ShutdownTerminates` that needs no fairness: a thread whose flag is set has at most
`MaxGroups + 4` steps left, the loops of `shutdown` at most twice their entries and two, and a scan as many as it has
groups left; each step takes one at least off its count and none of another thread gives any back, because a flag is never cleared
and a scanned cache does not change (`LockInv`). A writer that waits sees no new scan begin (`WriterIsNext`).

Refinement maps `snap` to `cache`, `ver` to the number of passes published (one less than begun, while one is under
way), and `mode` to the stop flag and whether a pass is under way. `Swap` is `Publish`, `StoreStop` is `Stop` or a
stutter when the flag was set before, `EndCallback` is `Deliver`, by `LockInv`; everything else stutters.

`ExporterAppProofs` shows that every step of the process is a step of the framework or leaves it alone
(`AppRunsFramework`), so all of the above carries over; and, with an invariant over `main` and the reader of its
own, that exports have their runtime and that an answered flush was the final one.

`TimedFrameworkProofs` shows the same of `TimedFramework` (`TimedRunsFramework`), and for any intervals, collect times and
lags that the clocks keep their types, that passes keep their interval and that the joins of a shutdown take one period.
`TimedInv` adds two facts to `IInv`: `Paced`, which says for every place of a thread what `age` and `nap` add up to (a
sleep behind a slow pass is none, behind a fast one it fills the interval up), and `WaitsOverlapPasses`: while the
registry joins, every running thread began its last pass before the joins did, because its flag was set before
(`StopsAreStored`) and no pass begins under it. So the time that has been waited is part of the age of every running
thread, whose pass and sleep end within its period.

`ProcFilesProofs` proves the invariants of the parsers for files of any length and any number
and order of missing, malformed, repeated and unknown lines. What it assumes is named in `ProcFormats` and `ProcFiles`:
a token that fails to parse is no number, the heads of lines differ, the snapshots name files, the limits are naturals.
There is one invariant for each kind of file:

- `KeysInv`, of the files of keys: `FieldsAreTheLastValues` and `OnlyCoreFails` are inductive only together with what
  the flags of `status.rs` remember (`SeenHaveValues`), with the lines of the strict keys being good while the file has
  not failed (`StrictAreGood`), and with a read that ends well having seen what it must (`EndsSeen`);
- `LoadavgInv`: a line that is read has its six fields, which with `StrictAreGood` gives `CoreComesFromTheFile`;
- `RowsInv`, of the files of devices: the rows are copies of lines, in their order, and each sound line has its row;
- `TypeInv`, for the numbers in all of them.

`PartsFitTheWhole` needs what a file without faults holds while it is parsed: `LinesInOrder` says that the keys whose lines are
behind hold what the kernel counts, so at the end all do (`FieldsAreTheCounts`). The rest is arithmetic:
the kernel counts a part no higher than its whole (`LimitsAssumption` and the sets the counts are from), a product that fits
below `Modulus` is its own remainder (`BytesAreExact`), and multiplication keeps the order. `Modulus` is a
constant, not a power of two, because the provers know nothing of `^`; the theorem holds where integers wrap anywhere.

`CommHasNoPartInTimes` is about the one line of `stat`: for a command of any tokens, parentheses included, and of any
length, the parser gives what stands behind the last parenthesis. `TimesAreNotForged` takes it to the invariant: each
command of the model ends with a closing parenthesis or has none, the fields behind it have none
however they are cut and spoiled, and so a line that is read gives `UserTime` and `SystemTime`.

`ProcessCrawlProofs` proves the four invariants of the crawl for every set of tasks and any steps of the kernel between two
reads. None is inductive. `IInv` has, beside the types:

- `LoopInv`: where the crawl is. A process that waits in the outer loop, and a thread that waits in the inner one, has no
  row yet; the loops are disjoint, and so is the row under way (`OuterLoop`, `InnerLoop`, `RowUnderWay`,
  `ThreadsNext`). The threads of a process are visited once because the process leaves `procs` before, and
  because the kernel moves no task to another process (`KernelKeepsLeaders`). `OneRowPerTask` follows;
- `OwedInv`: a task that is owed a row has it, or is under way, or waits in one of the loops, its own or that of its
  process (`OwedAreComing`). When the pass ends the loops are empty, which leaves the row;
- `GateInv`: what the crawl has let pass the gate has matched. The row of a thread needs both the thread and the parent.

`ProcessCrawl` names two assumptions, that `NoTask` is no task and that there are finitely many ids; a third is a guard of its
kernel actions: ids are not given out again within a pass.

`PassesDescend` is the part of `PassTerminates` that needs no fairness. `Rank` is what is left of a pass, loop in loop: the
processes to visit, the reads of the one that is visited, its threads to visit, and the reads of the thread. Each step of the crawl
lowers it in the lexicographical order, whatever was read or found gone; no step of the kernel touches it; and that
order has no infinite descent. It holds because the lists are taken once and because the recursion is one deep (`ThreadsNext`).

`HostCollectorProofs` proves the contract for every configuration, any number of cores, interfaces and devices, and any rows of
tasks. `TablesAgree` compares the two tables file by file: the values pushed are exactly those the registered
items seek, and the kind of an item is a function of its name over all files (`KindIsOfTheName`), so none of two sources
takes the instrument of the other. The invariant is `OriginInv`, which tells for each group of a pass which line of which source it
came from, and that this line has been visited; with it a new group differs in its attributes, or in its names,
from all groups before it, which is `OneValuePerSeries`. `SampledInv` says that a file that counts as
sampled has a group with all its values, and `LinesInv` what `lines` and `at` hold.

`ExporterAppProofs` also has the types (`AppTypeInv`: the poll finds `RUNNING` set, whatever the signal did) and the exit.
`ExitIsClean` needs `CleanInv`, which says at which places of `main` no sampling thread runs (`Threadless`: before the
registration, and behind the joins of the drop or the shutdown, where `ShutdownEndsThreads` of the framework gives
it), and where the runtime has no workers yet or no longer. `ExportsHaveRuntime` needs of the counts only that 0 is
refused (`CountsAssumption`: they are naturals).

Only model-checked is what rests on fairness: `PassesArePublished`, `ShutdownTerminates`, `SignalEndsProcess` and
`PassTerminates`. Two of them have their counts proved to go down (`ShutdownDescends`, `PassesDescend`); that a step is possible and
taken until nothing is left is TLC's part. Every invariant and action property of a passing run is
proved. The proofs say nothing of the three divergences above: TLC's counterexamples show them.

## Not modelled, and the plan

Not modelled:

- unit files, images and dashboards: they hold no program logic (the unit's stop timeout is used above);
- serde, clap and tracing: they fill structures once, before anything runs; their values are inputs here;
- the SDK beyond the calls it makes back, with its cardinality limit: what happens at the limit is not in this
  repository, and the view that raises it is one comparison of a name;
- task ids that are given out again within one pass: the code has no defence and its documents claim none;
- the split of bytes into lines and tokens, and conversions other than those to bytes of memory. So no property covers the
  remark on top of `disk.rs` (lines 5-7) that times are converted from milliseconds to seconds: the code pushes them as
  the kernel counts them, under names that end in `_MS_TOTAL`;
- memory beyond what an integer holds in bytes: `SharedKb` has the saturating branch of `process.rs:142`, but the counts that are
  assumed (`KernelOrder`) never reach it, and `PartsFitTheWhole` says nothing of it;
- how long a drop of the runtime waits (see `DropHangs`), and what SDK and tokio do inside;
- that `add` builds the instruments before it spawns the thread is the shape of `Spawn` here, as it is two statements in a
  row there, and no property.

1. Done: sample data, runtime, its abstract specification and proofs; life cycle; process crawl; host contract; the
   time of the runtime with its proofs; parsers and conversions to bytes, with the proofs about the parsers.
2. Done: proofs about the process crawl, the host contract, the exit of the process, and the memory and the times the parsers
   hand on.
3. Composition: the crawl inside a pass of the framework (`CollectGroup` refined by `ProcessCrawl`).
