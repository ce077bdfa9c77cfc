------------------------- MODULE ExporterAppProofs -------------------------
(***************************************************************************)
(* Theorems about ExporterApp: the process only does what the framework    *)
(* allows, so the theorems about the framework hold of it, and its flush   *)
(* sends the snapshot that was published last.                             *)
(***************************************************************************)
EXTENDS ExporterApp, MetricsFrameworkProofs

(***************************************************************************)
(* Every step of the process is a step of the framework, or leaves it      *)
(* alone                                                                   *)
(***************************************************************************)
LEMMA AppStepIsFrameworkStep == [AppNext]_allVars => [Next]_vars
<1> SUFFICES ASSUME [AppNext]_allVars PROVE [Next]_vars
  OBVIOUS
<1> USE AppAssumption DEF Next
<1>1. CASE RegisterHost
  BY <1>1 DEF RegisterHost
<1>2. CASE BuildInstrument
  BY <1>2 DEF BuildInstrument, AddStep
<1>3. CASE StartHost
  BY <1>3 DEF StartHost, AddStep
<1>4. CASE StartupFails
  BY <1>4 DEF StartupFails, AddStep
<1>5. CASE PollSeesStop \/ DropRegistry
  BY <1>5 DEF PollSeesStop, DropRegistry
<1>6. CASE StopRegistry \/ RegistryStopped
  BY <1>6 DEF StopRegistry, RegistryStopped, ShutdownStep
<1>7. CASE Collect
  BY <1>7 DEF Collect
<1>8. CASE GatherStep
  BY <1>8 DEF GatherStep, RunCallback, Gather, BeginExport, CallbackStep
<1>9. CASE Sample
  BY <1>9 DEF Sample
<1>10. CASE InitLog \/ SetRunning \/ SetHandler \/ InitAsyncRuntime \/ NewExporter
            \/ RegisterNothing \/ FlushReturns \/ RuntimeShutdown
            \/ SignalArrives \/ HandlerRuns \/ EndExport
  BY <1>10 DEF InitLog, SetRunning, SetHandler, InitAsyncRuntime, StartRuntime, NewExporter,
     RegisterNothing, FlushReturns, FlushEnds, RuntimeShutdown, SignalArrives, HandlerRuns, EndExport
<1>11. CASE UNCHANGED allVars
  BY <1>11 DEF allVars
<1> QED
  BY <1>1, <1>2, <1>3, <1>4, <1>5, <1>6, <1>7, <1>8, <1>9, <1>10, <1>11
  DEF AppNext, StartStep, StopStep

(* The process uses the framework as its specification allows.             *)
THEOREM AppRunsFramework == AppSpec => Spec
<1>1. AppInit => Init
  BY DEF AppInit
<1> QED
  BY <1>1, AppStepIsFrameworkStep, PTL DEF AppSpec, Spec

(* So what the framework promises, main's collector and reader get.        *)
THEOREM AppImplementsSnapshots == AppSpec => ImplementsSnapshots
  BY AppRunsFramework, Refinement

(***************************************************************************)
(* The runtime is shut down behind the reader                              *)
(***************************************************************************)
ReaderIsDone == xpc \in {"none", "gone"} \/ timedOut

RuntimeInv ==
    /\ mpc \in {"log", "ctrlc", "handler", "runtime", "exporter"} => xpc = "none"
    /\ mpc \in {"exporter", "collectors", "poll", "registry", "flush"} => workers # 0
    /\ mpc = "drop" /\ failed => workers # 0
    /\ mpc = "rt" => ReaderIsDone
    /\ workers = 0 => ReaderIsDone

LEMMA RuntimeStep == RuntimeInv /\ [AppNext]_allVars => RuntimeInv'
<1> SUFFICES ASSUME RuntimeInv, [AppNext]_allVars PROVE RuntimeInv'
  OBVIOUS
<1> USE DEF RuntimeInv, ReaderIsDone, Goto, flushVars, exportVars
<1>1. CASE InitLog \/ SetRunning \/ SetHandler \/ InitAsyncRuntime \/ NewExporter
  BY <1>1 DEF InitLog, SetRunning, SetHandler, InitAsyncRuntime, StartRuntime, NewExporter
<1>2. CASE StartHost \/ RegisterNothing \/ StartupFails
  BY <1>2 DEF StartHost, RegisterNothing, StartupFails
<1>3. CASE UNCHANGED appVars
  BY <1>3 DEF appVars
<1>4. CASE PollSeesStop \/ RegistryStopped
  BY <1>4 DEF PollSeesStop, RegistryStopped
<1>5. CASE FlushReturns
  BY <1>5 DEF FlushReturns, FlushEnds
<1>6. CASE RuntimeShutdown
  BY <1>6 DEF RuntimeShutdown
<1>7. CASE SignalArrives \/ HandlerRuns
  BY <1>7 DEF SignalArrives, HandlerRuns
<1>8. CASE Collect \/ Gather \/ BeginExport \/ EndExport
  BY <1>8 DEF Collect, Gather, BeginExport, EndExport
<1>9. CASE UNCHANGED allVars
  BY <1>9 DEF allVars, appVars
<1> QED
  BY <1>1, <1>2, <1>3, <1>4, <1>5, <1>6, <1>7, <1>8, <1>9
  DEF AppNext, StartStep, StopStep, GatherStep, RegisterHost, BuildInstrument,
      DropRegistry, StopRegistry, RunCallback, Sample

(* No export runs without a worker of the runtime, unless the provider gave *)
(* up: not before its start, not on a machine without cores, not behind its *)
(* shutdown.                                                                *)
THEOREM RuntimeOutlivesExports == AppSpec => []ExportsHaveRuntime
<1>1. AppInit => RuntimeInv
  BY DEF AppInit, RuntimeInv, ReaderIsDone
<1>2. RuntimeInv => ExportsHaveRuntime
  BY DEF RuntimeInv, ReaderIsDone, ExportsHaveRuntime
<1> QED
  BY <1>1, <1>2, RuntimeStep, PTL DEF AppSpec

(***************************************************************************)
(* The flush                                                               *)
(***************************************************************************)

(* What an instrument would report now.                                    *)
Point(cb) ==
    [owner |-> cb.owner, item |-> cb.item, points |-> Observed(cb.item, cache[cb.owner])]

(* The callbacks the collection under way has finished.                    *)
Finished == {cb \in built : cb \notin todo[Reader] /\ (rpc[Reader] = "scan" => cb # cur[Reader])}

(* From the shutdown message on nothing is sampled or built, and the       *)
(* collection that answers it gathers what is published.                   *)
FlushInv ==
    /\ asked => mpc \in {"flush", "rt", "drop", "exit"} /\ ~Running(Host)
    /\ asked /\ mpc # "flush" /\ ~timedOut => xpc = "gone"
    /\ last => asked
    /\ xpc \in {"none", "wait"} => ~last
    /\ xpc = "gone" => last
    /\ mpc \in {"runtime", "exporter", "collectors", "poll", "registry", "flush", "rt", "drop"}
           => handler
    /\ rpc[Reader] # "idle" <=> xpc = "collect"
    /\ rpc[Reader] = "scan" => cur[Reader] \notin todo[Reader]
    /\ last /\ xpc = "collect" => batch = {Point(cb) : cb \in Finished}
    /\ last /\ xpc \in {"export", "gone"} => batch = Current

LEMMA FlushInit == AppInit => FlushInv
  BY AppAssumption DEF AppInit, Init, FlushInv

LEMMA FlushFinal == FlushInv => FlushSendsFinalSnapshot
  BY DEF FlushInv, FlushSendsFinalSnapshot

LEMMA FlushStep == IInv /\ RuntimeInv /\ FlushInv /\ [AppNext]_allVars => FlushInv'
<1> SUFFICES ASSUME IInv, RuntimeInv, FlushInv, [AppNext]_allVars PROVE FlushInv'
  OBVIOUS
<1> USE AppAssumption DEF FlushInv, Goto, flushVars, exportVars, signalVars
<1>1. ASSUME UNCHANGED <<built, cache>>, UNCHANGED <<todo, rpc, cur>>
      PROVE {Point(cb)' : cb \in Finished'} = {Point(cb) : cb \in Finished} /\ Current' = Current
  BY <1>1 DEF Point, Finished, Current
<1>2. ASSUME UNCHANGED <<vars, xpc, last, batch, asked, timedOut>>,
             asked => mpc' \in {"flush", "rt", "drop", "exit"},
             mpc = "flush" => mpc' = "flush",
             mpc' \in {"runtime", "exporter", "collectors", "poll", "registry", "flush", "rt", "drop"}
                 => handler'
      PROVE FlushInv'
  <2>1. UNCHANGED <<built, cache>> /\ UNCHANGED <<todo, rpc, cur>> /\ UNCHANGED spc
    BY <1>2 DEF vars, sharedVars, samplerVars, readerVars
  <2> QED
    BY <1>1, <1>2, <2>1 DEF Running
<1>3. CASE InitLog \/ SetRunning \/ SetHandler \/ InitAsyncRuntime \/ RegisterNothing
  BY <1>2, <1>3 DEF InitLog, SetRunning, SetHandler, InitAsyncRuntime, StartRuntime, RegisterNothing
<1>4. CASE RuntimeShutdown \/ SignalArrives \/ HandlerRuns
  BY <1>2, <1>4 DEF RuntimeShutdown, SignalArrives, HandlerRuns, Alive
<1>5. CASE NewExporter
  <2>1. UNCHANGED <<built, cache>> /\ UNCHANGED <<todo, rpc, cur>> /\ UNCHANGED spc
    BY <1>5 DEF NewExporter, vars, sharedVars, samplerVars, readerVars
  <2> QED
    BY <1>5, <2>1 DEF NewExporter, RuntimeInv
<1>6. ASSUME ~asked, UNCHANGED <<asked, last, xpc, rpc, todo, cur, handler>>,
             mpc' \in {"runtime", "exporter", "collectors", "poll", "registry", "flush", "rt", "drop"}
                 => handler
      PROVE FlushInv'
  BY <1>6
<1>7. CASE RegisterHost \/ BuildInstrument \/ StartHost \/ StartupFails \/ PollSeesStop
  <2>1. UNCHANGED readerVars
    BY <1>7 DEF RegisterHost, BuildInstrument, StartHost, StartupFails, PollSeesStop,
       AddBegins, RegisterItem, Spawn, StartThread, SpawnFails, ShutdownCalled, ShutdownFrom, vars
  <2>2. mpc \in {"log", "handler", "runtime", "exporter", "collectors", "poll"}
    BY <1>7 DEF RegisterHost, BuildInstrument, StartHost, StartupFails, PollSeesStop
  <2>3. UNCHANGED <<asked, last, xpc, handler>>
    BY <1>7 DEF RegisterHost, BuildInstrument, StartHost, StartupFails, PollSeesStop, appVars
  <2>4. mpc' = mpc \/ mpc' \in {"exit"} \/ (mpc \in {"exporter", "collectors", "poll"})
    BY <1>7 DEF RegisterHost, BuildInstrument, StartHost, StartupFails, PollSeesStop, appVars
  <2> QED
    BY <1>6, <2>1, <2>2, <2>3, <2>4 DEF readerVars
<1>8. CASE DropRegistry \/ StopRegistry
  <2>1. UNCHANGED <<built, cache>> /\ UNCHANGED <<todo, rpc, cur>> /\ UNCHANGED spc
    BY <1>8 DEF DropRegistry, StopRegistry, ShutdownCalled, ShutdownFrom, StoreStop, StopsStored, JoinsBegin,
       JoinEntry, TakeHandle, sharedVars, samplerVars, readerVars
  <2>2. UNCHANGED appVars
    BY <1>8 DEF DropRegistry, StopRegistry
  <2> QED
    BY <1>1, <2>1, <2>2 DEF appVars, Running
<1>9. CASE RegistryStopped
  <2>1. UNCHANGED <<built, cache>> /\ UNCHANGED <<todo, rpc, cur>> /\ UNCHANGED spc
    BY <1>9 DEF RegistryStopped, ShutdownReturns, ReturnPast, sharedVars, samplerVars, readerVars
  <2>2. ~Running(Host)'
    BY <1>9, <2>1, AllJoined DEF RegistryStopped, Running
  <2> QED
    BY <1>1, <1>9, <2>1, <2>2 DEF RegistryStopped
<1>10. CASE FlushReturns
  <2>1. UNCHANGED <<built, cache>> /\ UNCHANGED <<todo, rpc, cur>> /\ UNCHANGED spc
    BY <1>10 DEF FlushReturns, FlushEnds, vars, sharedVars, samplerVars, readerVars
  <2> QED
    BY <1>1, <1>10, <2>1 DEF FlushReturns, FlushEnds, Running
<1>11. CASE Collect
  <2>1. /\ UNCHANGED <<built, cache, spc, mpc, handler, asked, timedOut>>
        /\ rpc'[Reader] = "call" /\ todo'[Reader] = built
        /\ xpc' = "collect" /\ last' = asked /\ batch' = {} /\ xpc = "wait"
    BY <1>11 DEF Collect, StartCollection, sharedVars, samplerVars, IInv, TypeOK
  <2>2. Finished' = {}
    BY <2>1 DEF Finished
  <2> QED
    BY <2>1, <2>2 DEF Running
<1>12. CASE RunCallback
  <2>1. UNCHANGED appVars /\ UNCHANGED <<built, cache, spc>> /\ rpc[Reader] # "idle" /\ rpc'[Reader] = "scan"
    BY <1>12 DEF RunCallback, AcquireRead, ReadUnless, ScanGroup, sharedVars, samplerVars, IInv, TypeOK
  <2>2. Finished' = Finished /\ cur'[Reader] \notin todo'[Reader]
    <3>1. CASE AcquireRead(Reader)
      <4>1. PICK cb \in todo[Reader] : cur'[Reader] = cb /\ todo'[Reader] = todo[Reader] \ {cb}
        BY <3>1 DEF AcquireRead, ReadUnless, IInv, TypeOK
      <4> QED
        BY <3>1, <4>1, <2>1 DEF AcquireRead, ReadUnless, Finished
    <3>2. CASE ScanGroup(Reader)
      BY <3>2, <2>1 DEF ScanGroup, Finished
    <3> QED
      BY <1>12, <3>1, <3>2 DEF RunCallback
  <2>3. \A cb : Point(cb)' = Point(cb)
    BY <2>1 DEF Point
  <2> QED
    BY <2>1, <2>2, <2>3 DEF appVars, Running
<1>13. CASE Gather
  <2> DEFINE cb == cur[Reader]
  <2>1. /\ UNCHANGED <<built, cache, spc, mpc, handler, asked, timedOut, xpc, last, todo>>
        /\ rpc[Reader] = "scan" /\ rpc'[Reader] = "call"
        /\ at[Reader] > Len(cache[cb.owner])
        /\ batch' = batch \union {delivered'[Reader]}
        /\ delivered'[Reader] = [owner |-> cb.owner, item |-> cb.item, points |-> seen[Reader]]
    BY <1>13 DEF Gather, EndCallback, Groups, sharedVars, samplerVars, IInv, TypeOK
  <2>2. cb \in built /\ cb \notin todo[Reader] /\ cb.owner \in Collectors
    BY <2>1 DEF IInv, TypeOK, Callback
  <2>3. at[Reader] \in Nat /\ at[Reader] <= Len(cache[cb.owner]) + 1 /\ Len(cache[cb.owner]) \in Nat
    BY <2>1, <2>2 DEF IInv, TypeOK, LockInv, ScanIsOfOneSnapshot, Groups
  <2>4. at[Reader] - 1 = Len(cache[cb.owner])
    BY <2>1, <2>3
  <2>5. seen[Reader] = Observed(cb.item, cache[cb.owner])
    BY <2>1, <2>4 DEF IInv, LockInv, ScanIsOfOneSnapshot, Groups, Observed
  <2>6. delivered'[Reader] = Point(cb)
    BY <2>1, <2>5 DEF Point
  <2>7. Finished' = Finished \union {cb}
    BY <2>1, <2>2 DEF Finished
  <2>8. \A x : Point(x)' = Point(x)
    BY <2>1 DEF Point
  <2> HIDE DEF cb
  <2>9. {Point(x)' : x \in Finished'} = {Point(x) : x \in Finished} \union {Point(cb)}
    BY <2>7, <2>8
  <2> QED
    BY <2>1, <2>6, <2>9 DEF Running
<1>14. CASE BeginExport
  <2>1. /\ UNCHANGED <<built, cache, spc, mpc, handler, asked, timedOut, last, batch>>
        /\ rpc[Reader] = "call" /\ todo[Reader] = {} /\ rpc'[Reader] = "idle"
        /\ xpc = "collect" /\ xpc' = "export"
    BY <1>14 DEF BeginExport, EndCollection, sharedVars, samplerVars, IInv, TypeOK
  <2>2. Finished = built
    BY <2>1 DEF Finished
  <2>3. {Point(cb) : cb \in Finished} = Current /\ Current' = Current
    BY <2>1, <2>2 DEF Current, Point
  <2> QED
    BY <2>1, <2>3 DEF Running
<1>15. CASE EndExport
  <2>1. UNCHANGED <<built, cache>> /\ UNCHANGED <<todo, rpc, cur>> /\ UNCHANGED spc
    BY <1>15 DEF EndExport, vars, sharedVars, samplerVars, readerVars
  <2> QED
    BY <1>1, <1>15, <2>1 DEF EndExport, Running
<1>16. CASE Sample
  <2>1. Running(Host) /\ UNCHANGED readerVars
    BY <1>16 DEF Sample, SamplerStep, Exit, BeginPass, BeginPassWith, CollectGroup, EndCollect,
       AcquireWrite, TakeWriteLock, Swap, Running
  <2> QED
    BY <1>6, <1>16, <2>1 DEF Sample, appVars, readerVars
<1>17. CASE UNCHANGED allVars
  BY <1>2, <1>17 DEF allVars, appVars
<1> QED
  BY <1>3, <1>4, <1>5, <1>7, <1>8, <1>9, <1>10, <1>11, <1>12, <1>13, <1>14, <1>15, <1>16, <1>17
  DEF AppNext, StartStep, StopStep, GatherStep

(* When the provider's shutdown is answered in time, the last export held  *)
(* what the sampling thread published last, for every instrument.          *)
THEOREM FlushIsFinal == AppSpec => []FlushSendsFinalSnapshot
<1>1. AppInit => RuntimeInv
  BY DEF AppInit, RuntimeInv, ReaderIsDone
<1>2. AppSpec => []IInv
  BY AppRunsFramework, Invariance
<1> QED
  BY <1>1, <1>2, RuntimeStep, FlushInit, FlushStep, FlushFinal, PTL DEF AppSpec

(***************************************************************************)
(* Types, and RUNNING                                                      *)
(***************************************************************************)
StartsUp == mpc \in {"log", "ctrlc", "handler", "runtime", "exporter", "collectors"}

(* RUNNING is set before the handler is installed, and is never unset.     *)
AppTypeInv ==
    /\ AppTypeOK
    /\ mpc \notin {"log", "ctrlc", "exit", "killed"} => RUNNING # "unset"

LEMMA CountsAreNatural == WorkerCounts \subseteq Nat /\ 0 \in Nat
  BY CountsAssumption DEF WorkerCounts, Fewer

LEMMA AppTypeStep == AppTypeInv /\ [AppNext]_allVars => AppTypeInv'
<1> SUFFICES ASSUME AppTypeInv, [AppNext]_allVars PROVE AppTypeInv'
  OBVIOUS
<1> USE DEF AppTypeInv, AppTypeOK, Goto, signalVars, flushVars, exportVars
<1>1. CASE InitLog \/ SetRunning \/ SetHandler \/ InitAsyncRuntime \/ NewExporter
  BY <1>1, CountsAreNatural
  DEF InitLog, SetRunning, SetOnce, SetHandler, InitAsyncRuntime, StartRuntime, NewExporter
<1>2. CASE StartHost \/ RegisterNothing \/ StartupFails
  BY <1>2 DEF StartHost, RegisterNothing, StartupFails
<1>3. CASE PollSeesStop \/ RegistryStopped \/ FlushReturns \/ RuntimeShutdown
  BY <1>3, CountsAreNatural DEF PollSeesStop, RegistryStopped, FlushReturns, FlushEnds, RuntimeShutdown
<1>4. CASE SignalArrives \/ HandlerRuns
  BY <1>4 DEF SignalArrives, HandlerRuns, ClearRunning, SetOnce
<1>5. CASE Collect \/ Gather \/ BeginExport \/ EndExport
  BY <1>5 DEF Collect, Gather, BeginExport, EndExport
<1>6. CASE UNCHANGED appVars
  BY <1>6 DEF appVars
<1> QED
  BY <1>1, <1>2, <1>3, <1>4, <1>5, <1>6
  DEF AppNext, StartStep, StopStep, GatherStep, RegisterHost, BuildInstrument,
      DropRegistry, StopRegistry, RunCallback, Sample, allVars

(* Type correctness of the process: main never polls a RUNNING that is     *)
(* unset, so its unwrap does not panic, however early a signal comes.      *)
THEOREM AppIsTyped == AppSpec => []AppTypeOK
<1>1. AppInit => AppTypeInv
  BY CountsAreNatural DEF AppInit, AppTypeInv, AppTypeOK
<1>2. AppTypeInv => AppTypeOK
  BY DEF AppTypeInv
<1> QED
  BY <1>1, <1>2, AppTypeStep, PTL DEF AppSpec

(***************************************************************************)
(* The exit                                                                *)
(***************************************************************************)

(* Where main has no sampling thread: it has not started one so far, or    *)
(* has joined it.  The drop at the end of main is behind the join; the     *)
(* drop of an early return is not.                                         *)
Threadless ==
    StartsUp \/ mpc \in {"flush", "rt", "exit"} \/ (mpc = "drop" /\ ~failed)

CleanInv ==
    /\ Threadless => ~Running(Host)
    /\ mpc \in {"log", "ctrlc", "handler", "runtime"} => workers = 0
    /\ mpc = "exit" \/ (mpc = "drop" /\ ~failed) => workers = 0

LEMMA CleanStep == IInv /\ AppTypeInv /\ CleanInv /\ [AppNext]_allVars => CleanInv'
<1> SUFFICES ASSUME IInv, AppTypeInv, CleanInv, [AppNext]_allVars PROVE CleanInv'
  OBVIOUS
<1> USE AppAssumption DEF CleanInv, Threadless, StartsUp, Goto, flushVars, exportVars
<1>1. ASSUME UNCHANGED vars PROVE UNCHANGED spc
  BY <1>1 DEF vars, samplerVars
<1>2. CASE InitLog \/ SetRunning \/ SetHandler \/ InitAsyncRuntime \/ NewExporter \/ RegisterNothing
  BY <1>1, <1>2 DEF InitLog, SetRunning, SetHandler, InitAsyncRuntime, StartRuntime, NewExporter, RegisterNothing, Running
<1>3. CASE StartHost
  BY <1>3 DEF StartHost
<1>4. CASE StartupFails
  <2>1. UNCHANGED spc
    BY <1>1, <1>4 DEF StartupFails, SpawnFails, samplerVars
  <2> QED
    BY <1>4, <2>1 DEF StartupFails, Running
<1>5. CASE RegisterHost \/ BuildInstrument \/ DropRegistry \/ StopRegistry \/ RunCallback
  <2>1. UNCHANGED spc /\ UNCHANGED appVars
    BY <1>5 DEF RegisterHost, BuildInstrument, DropRegistry, StopRegistry, RunCallback,
       AddBegins, RegisterItem, ShutdownCalled, ShutdownFrom, StoreStop, StopsStored, JoinsBegin,
       JoinEntry, TakeHandle, AcquireRead, ReadUnless, ScanGroup, samplerVars
  <2> QED
    BY <2>1 DEF appVars, Running
<1>6. CASE PollSeesStop
  BY <1>6 DEF PollSeesStop
<1>7. CASE RegistryStopped
  <2>1. ~Running(Host) /\ UNCHANGED spc
    BY <1>7, AllJoined DEF RegistryStopped, ShutdownReturns, ReturnPast, samplerVars
  <2> QED
    BY <1>7, <2>1 DEF RegistryStopped, Running
<1>8. CASE FlushReturns \/ RuntimeShutdown
  BY <1>1, <1>8 DEF FlushReturns, FlushEnds, RuntimeShutdown, Running
<1>9. CASE SignalArrives \/ HandlerRuns
  BY <1>1, <1>9 DEF SignalArrives, HandlerRuns, Running
<1>10. CASE Collect \/ Gather \/ BeginExport \/ EndExport
  <2>1. UNCHANGED <<spc, mpc, failed, workers>>
    BY <1>1, <1>10 DEF Collect, Gather, BeginExport, EndExport, StartCollection, EndCallback,
       EndCollection, samplerVars
  <2> QED
    BY <2>1 DEF Running
<1>11. CASE Sample
  <2>1. Running(Host) /\ UNCHANGED appVars
    BY <1>11 DEF Sample, SamplerStep, Exit, BeginPass, BeginPassWith, CollectGroup, EndCollect,
       AcquireWrite, TakeWriteLock, Swap, Running
  <2> QED
    BY <2>1 DEF appVars
<1>12. CASE UNCHANGED allVars
  BY <1>1, <1>12 DEF allVars, appVars, Running
<1> QED
  BY <1>2, <1>3, <1>4, <1>5, <1>6, <1>7, <1>8, <1>9, <1>10, <1>11, <1>12
  DEF AppNext, StartStep, StopStep, GatherStep

(* Whichever way main returns, at the end of a shutdown or early from a    *)
(* start up that failed: its thread has ended, the runtime is down, and    *)
(* the reader was flushed or given up.                                     *)
THEOREM MainReturnsClean == AppSpec => []ExitIsClean
<1>1. AppInit => RuntimeInv /\ AppTypeInv /\ CleanInv
  BY AppAssumption, CountsAreNatural
  DEF AppInit, Init, RuntimeInv, ReaderIsDone, AppTypeInv, AppTypeOK, CleanInv, Running
<1>2. RuntimeInv /\ CleanInv => ExitIsClean
  BY DEF RuntimeInv, ReaderIsDone, CleanInv, Threadless, ExitIsClean
<1>3. AppSpec => []IInv
  BY AppRunsFramework, Invariance
<1> QED
  BY <1>1, <1>2, <1>3, RuntimeStep, AppTypeStep, CleanStep, PTL DEF AppSpec
=============================================================================
