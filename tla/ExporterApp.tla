---------------------------- MODULE ExporterApp ----------------------------
(***************************************************************************)
(* The process of src/main.rs around the collection runtime: the start up  *)
(* of main and its early returns, the signal handler, the loop that polls  *)
(* RUNNING, the orderly shutdown, and the periodic reader of the exporter  *)
(* (src/exporter.rs), whose collections run the callbacks and end in an    *)
(* export over the async runtime.                                          *)
(*                                                                         *)
(* It extends MetricsFramework: main is the thread that owns the Registry, *)
(* and every action here conjoins the framework's action for what the step *)
(* does inside the framework, or leaves the framework's state alone.       *)
(*                                                                         *)
(* The SDK's PeriodicReader, the ctrlc crate's handler thread and tokio    *)
(* are outside the repository and modelled from how src/ uses them.        *)
(***************************************************************************)
EXTENDS MetricsFramework

CONSTANTS
    Host,          \* the collector of register_collectors
    Reader,        \* the periodic reader of MetricsExporter::new
    WorkerThreads, \* runtime.worker_threads, as it may be configured
    Cores          \* what get_cpu_cores may return: 0 when it cannot tell

ASSUME AppAssumption == Collectors = {Host} /\ Readers = {Reader}
ASSUME CountsAssumption == WorkerThreads \subseteq Nat /\ Cores \subseteq Nat

VARIABLES
    mpc,       \* where main is
    failed,    \* main returns an error
    RUNNING,   \* the OnceLock<AtomicBool>: "unset", "true" or "false"
    handler,   \* the signal handler is installed
    pending,   \* a signal has been caught that the handler has not served
    workers,   \* the worker threads of the async runtime; none, no runtime
    xpc,       \* where the thread of the periodic reader is
    asked,     \* the provider has sent the reader its shutdown message
    last,      \* the collection under way answers that message
    timedOut,  \* the provider gave up waiting for the answer
    batch      \* what the collection under way, or the last one, gathered

signalVars == <<RUNNING, handler, pending>>
flushVars == <<asked, timedOut>>
exportVars == <<xpc, last, batch>>
appVars == <<mpc, failed, workers, signalVars, flushVars, exportVars>>
allVars == <<vars, appVars>>

AppInit ==
    /\ Init
    /\ mpc = "log"
    /\ failed = FALSE
    /\ RUNNING = "unset"
    /\ handler = FALSE
    /\ pending = FALSE
    /\ workers = 0
    /\ xpc = "none"
    /\ asked = FALSE
    /\ last = FALSE
    /\ timedOut = FALSE
    /\ batch = {}

Goto(from, to) == mpc = from /\ mpc' = to
Alive == mpc \notin {"exit", "killed"}

NeverSet(value) == UNCHANGED RUNNING  \* a mutant: RUNNING is left unset

(* OnceLock::set keeps the first value it is given.                        *)
SetOnce(value) == RUNNING' = IF RUNNING = "unset" THEN value ELSE RUNNING

(***************************************************************************)
(* main: start up                                                          *)
(***************************************************************************)
InitLog ==
    /\ Goto("log", "ctrlc")
    /\ UNCHANGED <<vars, failed, workers, signalVars, flushVars, exportVars>>

SetRunning ==
    /\ Goto("ctrlc", "handler")
    /\ SetOnce("true")
    /\ UNCHANGED <<vars, failed, workers, handler, pending, flushVars, exportVars>>

SetHandler ==
    /\ Goto("handler", "runtime")
    /\ handler' = TRUE
    /\ UNCHANGED <<vars, failed, workers, RUNNING, pending, flushVars, exportVars>>

(* worker_threads.min(cpu_cores), of which at least one is needed.         *)
Fewer(m, n) == IF m <= n THEN m ELSE n

StartRuntime(counts) ==
    /\ Goto("runtime", "exporter")
    /\ workers' \in counts
    /\ UNCHANGED <<vars, failed, signalVars, flushVars, exportVars>>

WorkerCounts == {Fewer(threads, cores) : threads \in WorkerThreads, cores \in Cores}

RuntimeUnchecked == StartRuntime(WorkerCounts)  \* a mutant: no bail! on 0

InitAsyncRuntime == StartRuntime(WorkerCounts \ {0})

(* Building the periodic reader starts its thread.                         *)
NewExporter ==
    /\ Goto("exporter", "collectors")
    /\ xpc' = "wait"
    /\ UNCHANGED <<vars, failed, workers, signalVars, flushVars, last, batch>>

(* register_collectors, with the host collector switched on or off.        *)
RegisterHost ==
    /\ mpc = "collectors"
    /\ AddBegins(Host)
    /\ UNCHANGED appVars

BuildInstrument ==
    /\ mpc = "collectors"
    /\ \E item \in Items[Host] : RegisterItem(item)
    /\ UNCHANGED appVars

StartHost ==
    /\ Goto("collectors", "poll")
    /\ Spawn
    /\ UNCHANGED <<failed, workers, signalVars, flushVars, exportVars>>

RegisterNothing ==
    /\ Goto("collectors", "poll")
    /\ Host \in fresh
    /\ UNCHANGED <<vars, failed, workers, signalVars, flushVars, exportVars>>

StartupAborts ==  \* a mutant: the process exits without dropping anything
    /\ mpc \in {"log", "handler", "runtime", "exporter", "collectors"} /\ mpc' = "exit"
    /\ failed' = TRUE
    /\ UNCHANGED <<vars, workers, signalVars, flushVars, exportVars>>

(* An early return of main: what has been built is dropped, last first.    *)
(* init_async_runtime fails where no worker is left, too.                  *)
StartupFails ==
    /\ \/ mpc \in {"log", "handler", "runtime"} /\ mpc' = "exit" /\ UNCHANGED vars
       \/ Goto("exporter", "rt") /\ UNCHANGED vars
       \/ Goto("collectors", "drop") /\ Host \in fresh /\ UNCHANGED vars
       \/ Goto("collectors", "drop") /\ SpawnFails
    /\ failed' = TRUE
    /\ UNCHANGED <<workers, signalVars, flushVars, exportVars>>

(***************************************************************************)
(* main: the poll loop and the shutdown                                    *)
(***************************************************************************)
FlushFirst ==  \* a mutant: exporter.shutdown() before registry.shutdown()
    /\ Goto("poll", "flush")
    /\ RUNNING = "false"
    /\ asked' = TRUE
    /\ UNCHANGED <<vars, failed, workers, signalVars, timedOut, exportVars>>

PollSeesStop ==
    /\ Goto("poll", "registry")
    /\ RUNNING = "false"
    /\ ShutdownCalled(FALSE)
    /\ UNCHANGED <<failed, workers, signalVars, flushVars, exportVars>>

DropRegistry ==
    /\ mpc = "drop"
    /\ ShutdownCalled(TRUE)
    /\ UNCHANGED appVars

StopRegistry ==
    /\ mpc \in {"registry", "drop"}
    /\ StoreStop \/ StopsStored \/ JoinEntry
    /\ UNCHANGED appVars

(* The Registry is stopped.  Unless it was the drop at the end of main,    *)
(* the provider is next: it sends its reader the shutdown message.         *)
RegistryStopped ==
    /\ mpc \in {"registry", "drop"}
    /\ ShutdownReturns
    /\ IF mpc = "drop" /\ ~failed
       THEN mpc' = "exit" /\ UNCHANGED asked
       ELSE mpc' = "flush" /\ asked' = TRUE
    /\ UNCHANGED <<failed, workers, signalVars, timedOut, exportVars>>

(* provider.shutdown_with_timeout returns with the answer of the reader,   *)
(* or without; the error is only logged.                                   *)
FlushEnds(late) ==
    /\ Goto("flush", "rt")
    /\ timedOut' = late
    /\ UNCHANGED <<vars, failed, workers, signalVars, asked, exportVars>>

FlushNotAwaited == FlushEnds(FALSE)  \* a mutant: nobody waits for the answer

FlushReturns == FlushEnds(xpc # "gone")

(* async_rt.shutdown_timeout, or behind an early return the drop of        *)
(* async_rt, which waits for what runs on its threads (DropHangs).         *)
RuntimeShutdown ==
    /\ Goto("rt", IF failed THEN "exit" ELSE "drop")
    /\ workers' = 0
    /\ UNCHANGED <<vars, failed, signalVars, flushVars, exportVars>>

(***************************************************************************)
(* Signals: SIGINT and SIGTERM, and the thread of the ctrlc crate          *)
(***************************************************************************)
SignalArrives ==
    /\ Alive
    /\ IF handler THEN pending' = TRUE /\ UNCHANGED mpc ELSE mpc' = "killed" /\ UNCHANGED pending
    /\ UNCHANGED <<vars, failed, workers, RUNNING, handler, flushVars, exportVars>>

SetOnly == SetOnce("false")  \* a mutant: the handler uses OnceLock::set alone

ClearRunning == IF RUNNING = "unset" THEN SetOnce("false") ELSE RUNNING' = "false"

HandlerRuns ==
    /\ Alive
    /\ pending
    /\ pending' = FALSE
    /\ ClearRunning
    /\ UNCHANGED <<vars, mpc, failed, workers, handler, flushVars, exportVars>>

(***************************************************************************)
(* The thread of the periodic reader                                       *)
(***************************************************************************)
(* The interval has passed, or the shutdown message has come.              *)
Collect ==
    /\ Alive
    /\ xpc = "wait"
    /\ xpc' = "collect"
    /\ last' = asked
    /\ batch' = {}
    /\ StartCollection(Reader)
    /\ UNCHANGED <<mpc, failed, workers, signalVars, flushVars>>

RunCallback ==
    /\ Alive
    /\ AcquireRead(Reader) \/ ScanGroup(Reader)
    /\ UNCHANGED appVars

Gather ==
    /\ Alive
    /\ EndCallback(Reader)
    /\ batch' = batch \union {delivered'[Reader]}
    /\ UNCHANGED <<mpc, failed, workers, signalVars, flushVars, xpc, last>>

BeginExport ==
    /\ Alive
    /\ EndCollection(Reader)
    /\ xpc = "collect"
    /\ xpc' = "export"
    /\ UNCHANGED <<mpc, failed, workers, signalVars, flushVars, last, batch>>

(* The endpoint has answered, or the export has failed; the last one is    *)
(* followed by the answer to the provider.                                 *)
EndExport ==
    /\ Alive
    /\ xpc = "export"
    /\ xpc' = IF last THEN "gone" ELSE "wait"
    /\ UNCHANGED <<vars, mpc, failed, workers, signalVars, flushVars, last, batch>>

(***************************************************************************)
(* The sampling thread of the host collector                               *)
(***************************************************************************)
Sample ==
    /\ Alive
    /\ SamplerStep(Host)
    /\ UNCHANGED appVars

-----------------------------------------------------------------------------
StartStep ==
    \/ InitLog \/ SetRunning \/ SetHandler \/ InitAsyncRuntime \/ NewExporter
    \/ RegisterHost \/ BuildInstrument \/ StartHost \/ RegisterNothing
    \/ StartupFails

StopStep ==
    \/ PollSeesStop \/ DropRegistry \/ StopRegistry \/ RegistryStopped
    \/ FlushReturns \/ RuntimeShutdown

GatherStep == RunCallback \/ Gather \/ BeginExport

AppNext ==
    \/ StartStep \/ StopStep
    \/ SignalArrives \/ HandlerRuns
    \/ Collect \/ GatherStep \/ EndExport
    \/ Sample

AppSpec == AppInit /\ [][AppNext]_allVars

(* The runtime is dropped by an early return while an export is under way  *)
(* that the provider has given up on.                                      *)
DropHangs == failed /\ mpc = "rt" /\ xpc = "export"

(* The threads of the process are scheduled, and what is called with a     *)
(* timeout returns.  No fairness of EndExport: an export may hang for      *)
(* ever, and a drop of the runtime with it.  No signal has to arrive.      *)
FairAppSpec ==
    /\ AppSpec
    /\ WF_allVars(StartStep)
    /\ WF_allVars(StopStep /\ ~DropHangs)
    /\ WF_allVars(HandlerRuns)
    /\ WF_allVars(GatherStep)
    /\ WF_allVars(Sample)

(***************************************************************************)
(* Properties                                                              *)
(***************************************************************************)

(* The type of main's state; main polls a RUNNING that is set, so its      *)
(* unwrap never panics.                                                    *)
AppTypeOK ==
    /\ mpc \in {"log", "ctrlc", "handler", "runtime", "exporter", "collectors", "poll",
                "registry", "flush", "rt", "drop", "exit", "killed"}
    /\ RUNNING \in {"unset", "true", "false"}
    /\ mpc \in {"poll", "registry"} => RUNNING # "unset"
    /\ {failed, handler, pending, asked, last, timedOut} \subseteq BOOLEAN
    /\ workers \in Nat
    /\ xpc \in {"none", "wait", "collect", "export", "gone"}

(* What every instrument would report of the snapshots published now.      *)
Current ==
    {[owner |-> cb.owner, item |-> cb.item, points |-> Observed(cb.item, cache[cb.owner])] :
        cb \in built}

(* When the provider's shutdown has been answered in time, the last export *)
(* carried, of every instrument, what the sampling thread published last:  *)
(* main joins the thread first, so nothing is published behind the flush.  *)
FlushSendsFinalSnapshot ==
    asked /\ mpc # "flush" /\ ~timedOut => batch = Current

(* Whenever an export runs, the runtime the exporter was built on has a    *)
(* worker to run it, whatever is configured and the machine has, unless    *)
(* the provider has given up on the export.                                *)
ExportsHaveRuntime == xpc = "export" /\ workers = 0 => timedOut

(* A process that returns from main leaves nothing half done: its sampling *)
(* thread has ended, the runtime is down and the reader has been flushed   *)
(* or given up, on the error paths of the start up too.                    *)
ExitIsClean ==
    mpc = "exit" =>
        /\ ~Running(Host)
        /\ workers = 0
        /\ xpc # "none" => xpc = "gone" \/ timedOut

(* A caught signal ends the process, whatever main was doing when it came  *)
(* and even if the export under way never returns - except where an early  *)
(* return drops the runtime under that export, which has no timeout.       *)
SignalEndsProcess == pending ~> mpc = "exit" \/ DropHangs
=============================================================================
