------------------------- MODULE MetricsFramework -------------------------
(***************************************************************************)
(* The collection runtime of crates/metrics-framework/src/lib.rs: the      *)
(* Registry, the sampling thread it starts for each collector, and the     *)
(* observable-instrument callbacks that read what the threads publish.     *)
(*                                                                         *)
(* Three kinds of threads run it:                                          *)
(*   - the thread that owns the Registry calls add, shutdown and drop, one *)
(*     at a time (they take &mut self), in any order a caller may choose;  *)
(*   - each sampling thread fills its scratch buffer, takes the write lock *)
(*     of its cache and swaps the two;                                     *)
(*   - each reader of the meter provider (outside this repository) calls   *)
(*     the callbacks of the instruments built so far; a callback scans the *)
(*     cache under the read lock.                                          *)
(*                                                                         *)
(* The lock (parking_lot::RwLock, outside the repository) is derived from  *)
(* the program counters: a reader holds it while it scans; a writer that   *)
(* has asked for it ("write") keeps new readers out, and holds it alone in *)
(* "swap".                                                                 *)
(***************************************************************************)
EXTENDS SampleGroups

CONSTANTS
    Collectors,  \* the collectors a caller may hand to Registry::add
    Readers,     \* the threads of the meter provider that run callbacks
    Items,       \* Collector::items of each collector, as a set
    MaxPass,     \* bound: sampling passes of one thread
    MaxGroups,   \* bound: groups one pass pushes
    None         \* no collector, no callback

ASSUME ItemsAssumption == Items \in [Collectors -> SUBSET MetricItem]
ASSUME BoundsAssumption == MaxPass \in Nat /\ MaxGroups \in Nat
ASSUME NoneAssumption == None \notin Collectors

VARIABLES
    \* the thread that owns the Registry
    fresh,       \* collectors not handed to add so far
    call,        \* the method that is running
    adding,      \* the collector that add is registering
    entries,     \* Registry.entries: the collectors with a thread, in order
    handle,      \* Entry.handle is Some, per collector
    next,        \* the entry a loop of shutdown is at
    dropping,    \* shutdown was called by Drop
    \* shared with the other threads
    built,       \* the callbacks of the instruments built so far
    stop,        \* the stop flag of each collector
    cache,       \* what each collector has published
    \* the sampling threads
    spc,         \* where each thread is
    pass,        \* the passes each thread has begun
    scratch,     \* its reused buffer
    \* the readers of the meter provider
    rpc,         \* where each reader is
    todo,        \* the callbacks it has still to run in this collection
    cur,         \* the callback it is running
    at,          \* the group its scan is at
    seen,        \* the data points the callback has reported so far
    delivered    \* what its last finished callback reported

registryVars == <<fresh, call, adding, entries, handle, next, dropping>>
sharedVars == <<built, stop, cache>>
samplerVars == <<spc, pass, scratch>>
readerVars == <<rpc, todo, cur, at, seen, delivered>>
vars == <<registryVars, sharedVars, samplerVars, readerVars>>

Callback == [owner : Collectors, item : MetricItem]

Init ==
    /\ fresh = Collectors
    /\ call = "none"
    /\ adding = None
    /\ entries = <<>>
    /\ handle = [c \in Collectors |-> FALSE]
    /\ next = 1
    /\ dropping = FALSE
    /\ built = {}
    /\ stop = [c \in Collectors |-> FALSE]
    /\ cache = [c \in Collectors |-> <<>>]
    /\ spc = [c \in Collectors |-> "none"]
    /\ pass = [c \in Collectors |-> 0]
    /\ scratch = [c \in Collectors |-> <<>>]
    /\ rpc = [r \in Readers |-> "idle"]
    /\ todo = [r \in Readers |-> {}]
    /\ cur = [r \in Readers |-> None]
    /\ at = [r \in Readers |-> 1]
    /\ seen = [r \in Readers |-> {}]
    /\ delivered = [r \in Readers |-> None]

Running(c) == spc[c] \notin {"none", "done"}

(***************************************************************************)
(* Registry::add                                                           *)
(***************************************************************************)

(* A collector without items is dropped with a warning.                    *)
AddSkips(c) ==
    /\ call = "none"
    /\ c \in fresh
    /\ Items[c] = {}
    /\ fresh' = fresh \ {c}
    /\ UNCHANGED <<call, adding, entries, handle, next, dropping, sharedVars, samplerVars, readerVars>>

AddBegins(c) ==
    /\ call = "none"
    /\ c \in fresh
    /\ Items[c] # {}
    /\ fresh' = fresh \ {c}
    /\ call' = "add"
    /\ adding' = c
    /\ UNCHANGED <<entries, handle, next, dropping, sharedVars, samplerVars, readerVars>>

(* One instrument with its callback, built on the meter.  The readers may  *)
(* run the callback from here on, before the sampling thread exists.       *)
RegisterItem(item) ==
    /\ call = "add"
    /\ item \in Items[adding]
    /\ [owner |-> adding, item |-> item] \notin built
    /\ built' = built \union {[owner |-> adding, item |-> item]}
    /\ UNCHANGED <<registryVars, stop, cache, samplerVars, readerVars>>

ItemsBuilt(c) == \A item \in Items[c] : [owner |-> c, item |-> item] \in built

(* The thread is started and its entry pushed; nothing can fail, and no    *)
(* other method can run, between the two.                                  *)
StartThread ==
    /\ call' = "none"
    /\ adding' = None
    /\ entries' = Append(entries, adding)
    /\ handle' = [handle EXCEPT ![adding] = TRUE]
    /\ spc' = [spc EXCEPT ![adding] = "check"]
    /\ UNCHANGED <<fresh, next, dropping, sharedVars, pass, scratch, readerVars>>

Spawn == call = "add" /\ ItemsBuilt(adding) /\ StartThread

SpawnLost ==  \* a mutant: add returns an error behind the spawn, before the push
    /\ call = "add"
    /\ ItemsBuilt(adding)
    /\ call' = "none"
    /\ adding' = None
    /\ spc' = [spc EXCEPT ![adding] = "check"]
    /\ UNCHANGED <<fresh, entries, handle, next, dropping, sharedVars, pass, scratch, readerVars>>

(* The operating system refuses the thread: add returns the error and has  *)
(* pushed no entry, but the instruments stay on the meter.                 *)
SpawnFails ==
    /\ call = "add"
    /\ ItemsBuilt(adding)
    /\ call' = "none"
    /\ adding' = None
    /\ UNCHANGED <<fresh, entries, handle, next, dropping, sharedVars, samplerVars, readerVars>>

(***************************************************************************)
(* Registry::shutdown, and Drop, which calls it                            *)
(***************************************************************************)
ShutdownFrom(first, dropped) ==
    /\ call = "none"
    /\ call' = "stop"
    /\ next' = first
    /\ dropping' = dropped
    /\ UNCHANGED <<fresh, adding, entries, handle, sharedVars, samplerVars, readerVars>>

ShutdownFromZero(dropped) == ShutdownFrom(0, dropped)    \* a mutant: off by one
ShutdownFromSecond(dropped) == ShutdownFrom(2, dropped)  \* a mutant: one entry skipped

ShutdownCalled(dropped) == ShutdownFrom(1, dropped)

StoreStop ==
    /\ call = "stop"
    /\ next <= Len(entries)
    /\ stop' = [stop EXCEPT ![entries[next]] = TRUE]
    /\ next' = next + 1
    /\ UNCHANGED <<fresh, call, adding, entries, handle, dropping,
                   built, cache, samplerVars, readerVars>>

JoinsBegin ==
    /\ call = "stop"
    /\ call' = "join"
    /\ next' = 1
    /\ UNCHANGED <<fresh, adding, entries, handle, dropping, sharedVars, samplerVars, readerVars>>

StopOneThenJoin == JoinsBegin  \* a mutant: joins begin before every flag is set

StopsStored == next > Len(entries) /\ JoinsBegin

(* handle.take() and, when there was one, join: it returns when the thread *)
(* has ended.  A second shutdown finds None and moves on.                  *)
TakeHandle ==
    /\ call = "join"
    /\ next <= Len(entries)
    /\ handle' = [handle EXCEPT ![entries[next]] = FALSE]
    /\ next' = next + 1
    /\ UNCHANGED <<fresh, call, adding, entries, dropping, sharedVars, samplerVars, readerVars>>

DetachEntry == TakeHandle  \* a mutant: the handle is dropped, not joined

JoinEntry ==
    /\ TakeHandle
    /\ handle[entries[next]] => spc[entries[next]] = "done"

ReturnPast(n) ==
    /\ call = "join"
    /\ next > n
    /\ call' = IF dropping THEN "dropped" ELSE "none"
    /\ UNCHANGED <<fresh, adding, entries, handle, next, dropping, sharedVars, samplerVars, readerVars>>

ReturnsEarly == ReturnPast(Len(entries) - 1)  \* a mutant: the last is not joined

ShutdownReturns == ReturnPast(Len(entries))

(***************************************************************************)
(* The sampling thread: the closure of add, and sample_once                *)
(***************************************************************************)
Exit(c) ==
    /\ spc[c] = "check"
    /\ stop[c]
    /\ spc' = [spc EXCEPT ![c] = "done"]
    /\ UNCHANGED <<registryVars, sharedVars, pass, scratch, readerVars>>

BeginPassWith(c, buffer) ==
    /\ spc[c] = "check"
    /\ ~stop[c]
    /\ pass[c] < MaxPass
    /\ spc' = [spc EXCEPT ![c] = "collect"]
    /\ pass' = [pass EXCEPT ![c] = @ + 1]
    /\ scratch' = [scratch EXCEPT ![c] = buffer]
    /\ UNCHANGED <<registryVars, sharedVars, readerVars>>

BeginPassUncleared(c) == BeginPassWith(c, scratch[c])  \* a mutant: no scratch.clear()

(* The stop flag is clear: sample_once begins with scratch.clear().        *)
BeginPass(c) == BeginPassWith(c, <<>>)

(* Collector::collect appends one group to the buffer.                     *)
CollectGroup(c) ==
    /\ spc[c] = "collect"
    /\ Len(scratch[c]) < MaxGroups
    /\ \E values \in Shapes :
           scratch' = [scratch EXCEPT
                           ![c] = Append(@, [pass |-> pass[c], values |-> values])]
    /\ UNCHANGED <<registryVars, sharedVars, spc, pass, readerVars>>

(* collect returns and the thread asks for the write lock.                 *)
EndCollect(c) ==
    /\ spc[c] = "collect"
    /\ spc' = [spc EXCEPT ![c] = "write"]
    /\ UNCHANGED <<registryVars, sharedVars, pass, scratch, readerVars>>

Scanning(r, c) == rpc[r] = "scan" /\ cur[r].owner = c

TakeWriteLock(c) ==
    /\ spc[c] = "write"
    /\ spc' = [spc EXCEPT ![c] = "swap"]
    /\ UNCHANGED <<registryVars, sharedVars, pass, scratch, readerVars>>

WriteUnlocked(c) == TakeWriteLock(c)  \* a mutant: the swap does not wait for scans

AcquireWrite(c) == (\A r \in Readers : ~Scanning(r, c)) /\ TakeWriteLock(c)

(* The O(1) publication, and the release of the lock: the previous         *)
(* snapshot comes back as the scratch buffer of the next pass.  The rest of *)
(* the interval passes before the next check.                              *)
Swap(c) ==
    /\ spc[c] = "swap"
    /\ cache' = [cache EXCEPT ![c] = scratch[c]]
    /\ scratch' = [scratch EXCEPT ![c] = cache[c]]
    /\ spc' = [spc EXCEPT ![c] = "check"]
    /\ UNCHANGED <<registryVars, built, stop, pass, readerVars>>

(***************************************************************************)
(* The readers: a collection of the meter provider runs every callback;    *)
(* observe_u64 and observe_f64 are the body of a callback                  *)
(***************************************************************************)
StartCollection(r) ==
    /\ rpc[r] = "idle"
    /\ rpc' = [rpc EXCEPT ![r] = "call"]
    /\ todo' = [todo EXCEPT ![r] = built]
    /\ UNCHANGED <<registryVars, sharedVars, samplerVars, cur, at, seen, delivered>>

(* cache.read(): granted unless the sampling thread holds the lock or      *)
(* waits for it.                                                           *)
ReadUnless(r, writing) ==
    /\ rpc[r] = "call"
    /\ \E cb \in todo[r] :
           /\ spc[cb.owner] \notin writing
           /\ cur' = [cur EXCEPT ![r] = cb]
           /\ todo' = [todo EXCEPT ![r] = @ \ {cb}]
    /\ rpc' = [rpc EXCEPT ![r] = "scan"]
    /\ UNCHANGED <<registryVars, sharedVars, samplerVars, at, seen, delivered>>

ReadUnlocked(r) == ReadUnless(r, {})            \* a mutant: no guard is taken
ReadBeforeWriter(r) == ReadUnless(r, {"swap"})  \* a mutant: a waiting writer is passed

AcquireRead(r) == ReadUnless(r, {"write", "swap"})

Groups(r) == cache[cur[r].owner]

ScanGroup(r) ==
    /\ rpc[r] = "scan"
    /\ at[r] <= Len(Groups(r))
    /\ seen' = IF Reports(cur[r].item, Groups(r)[at[r]])
               THEN [seen EXCEPT ![r] = @ \union {[at |-> at[r], group |-> Groups(r)[at[r]]]}]
               ELSE seen
    /\ at' = [at EXCEPT ![r] = @ + 1]
    /\ UNCHANGED <<registryVars, sharedVars, samplerVars, rpc, todo, cur, delivered>>

(* The iterator is exhausted; the guard is dropped as the callback returns. *)
EndCallback(r) ==
    /\ rpc[r] = "scan"
    /\ at[r] > Len(Groups(r))
    /\ delivered' = [delivered EXCEPT ![r] =
            [owner |-> cur[r].owner, item |-> cur[r].item, points |-> seen[r]]]
    /\ rpc' = [rpc EXCEPT ![r] = "call"]
    /\ cur' = [cur EXCEPT ![r] = None]
    /\ at' = [at EXCEPT ![r] = 1]
    /\ seen' = [seen EXCEPT ![r] = {}]
    /\ UNCHANGED <<registryVars, sharedVars, samplerVars, todo>>

EndCollection(r) ==
    /\ rpc[r] = "call"
    /\ todo[r] = {}
    /\ rpc' = [rpc EXCEPT ![r] = "idle"]
    /\ UNCHANGED <<registryVars, sharedVars, samplerVars, todo, cur, at, seen, delivered>>

-----------------------------------------------------------------------------
AddStep ==
    \/ \E item \in UNION {Items[c] : c \in Collectors} : RegisterItem(item)
    \/ Spawn
    \/ SpawnFails

ShutdownStep == StoreStop \/ StopsStored \/ JoinEntry \/ ShutdownReturns

SamplerStep(c) ==
    \/ Exit(c)
    \/ BeginPass(c)
    \/ CollectGroup(c)
    \/ EndCollect(c)
    \/ AcquireWrite(c)
    \/ Swap(c)

CallbackStep(r) ==
    \/ AcquireRead(r)
    \/ ScanGroup(r)
    \/ EndCallback(r)
    \/ EndCollection(r)

Next ==
    \/ \E c \in Collectors : AddSkips(c) \/ AddBegins(c)
    \/ AddStep
    \/ \E dropped \in BOOLEAN : ShutdownCalled(dropped)
    \/ ShutdownStep
    \/ \E c \in Collectors : SamplerStep(c)
    \/ \E r \in Readers : StartCollection(r) \/ CallbackStep(r)

Spec == Init /\ [][Next]_vars

(* The threads are scheduled: a method that has been called goes on, a     *)
(* sampling thread keeps running and a collection that has begun goes on.  *)
(* Nobody has to call a method or to begin a collection.                   *)
FairSpec ==
    /\ Spec
    /\ WF_vars(AddStep)
    /\ WF_vars(ShutdownStep)
    /\ \A c \in Collectors : WF_vars(SamplerStep(c))
    /\ \A r \in Readers : WF_vars(CallbackStep(r))

(***************************************************************************)
(* Properties                                                              *)
(***************************************************************************)
Points == [at : Nat \ {0}, group : SampleGroup]
Deliveries == [owner : Collectors, item : MetricItem, points : SUBSET Points]

(* The type of the state, with the callback a scanning reader runs.        *)
TypeOK ==
    /\ fresh \subseteq Collectors
    /\ call \in {"none", "add", "stop", "join", "dropped"}
    /\ IF call = "add" THEN adding \in Collectors ELSE adding = None
    /\ entries \in Seq(Collectors)
    /\ handle \in [Collectors -> BOOLEAN]
    /\ next \in Nat \ {0}
    /\ dropping \in BOOLEAN
    /\ built \subseteq {cb \in Callback : cb.item \in Items[cb.owner]}
    /\ stop \in [Collectors -> BOOLEAN]
    /\ cache \in [Collectors -> Seq(SampleGroup)]
    /\ spc \in [Collectors ->
                   {"none", "check", "collect", "write", "swap", "done"}]
    /\ pass \in [Collectors -> Nat]
    /\ scratch \in [Collectors -> Seq(SampleGroup)]
    /\ rpc \in [Readers -> {"idle", "call", "scan"}]
    /\ todo \in [Readers -> SUBSET built]
    /\ cur \in [Readers -> built \union {None}]
    /\ \A r \in Readers : rpc[r] = "scan" => cur[r] \in built
    /\ at \in [Readers -> Nat \ {0}]
    /\ seen \in [Readers -> SUBSET Points]
    /\ delivered \in [Readers -> Deliveries \union {None}]

(* The passes that have been published so far.                             *)
Published(c) == IF spc[c] \in {"collect", "write", "swap"} THEN pass[c] - 1 ELSE pass[c]

(* A published snapshot holds groups of one pass only, the last that was   *)
(* published, although its buffer was the scratch of every second pass     *)
(* before: sample_once clears it first and swaps under the write lock.     *)
CacheHoldsOnePass ==
    \A c \in Collectors : \A k \in DOMAIN cache[c] : cache[c][k].pass = Published(c)

(* The scan of a callback is a scan of one snapshot: what it has reported  *)
(* so far is what the snapshot that is published now holds up to its       *)
(* position, however long it takes and whatever the sampling thread does.  *)
ScanIsOfOneSnapshot ==
    \A r \in Readers : rpc[r] = "scan" =>
        /\ at[r] <= Len(Groups(r)) + 1
        /\ seen[r] = ObservedUpTo(cur[r].item, Groups(r), at[r] - 1)

(* What a reader is given of one collector never goes back in time: of two *)
(* callbacks in a row, whatever their instruments, the later one reports   *)
(* no older pass, although the two buffers of a collector take turns and   *)
(* callbacks and publications interleave at will.                          *)
DeliveriesNeverGoBack ==
    [][\A r \in Readers :
           LET last == delivered[r]
               new == delivered'[r]
           IN  last # None /\ new # last /\ new.owner = last.owner =>
                   \A p \in last.points, q \in new.points : p.group.pass <= q.group.pass]_vars

(* A running sampling thread can always be reached by a later shutdown: an *)
(* entry holds its stop flag and its join handle.                          *)
ThreadsAreOwned ==
    \A c \in Collectors : Running(c) =>
        handle[c] /\ \E k \in DOMAIN entries : entries[k] = c

(* add is all or nothing for those who read the metrics: what a callback   *)
(* has reported came from a thread that the Registry has an entry for.     *)
(* The instruments of a collector whose thread was refused stay on the     *)
(* meter and are read like any other, but never report anything.           *)
OrphansReportNothing ==
    \A r \in Readers : delivered[r] # None /\ delivered[r].points # {} =>
        \E k \in DOMAIN entries : entries[k] = delivered[r].owner

(* When shutdown returns, called directly or by Drop, no sampling thread   *)
(* of any collector that was ever added is left running.                   *)
ShutdownLeavesNoThread ==
    [][call = "join" /\ call' # "join" => \A c \in Collectors : ~Running(c)']_vars

(* Shutdown stops all the threads before it waits for the first: from the  *)
(* first join on, no thread begins another pass, so the wait is bounded by *)
(* one pass and one interval however many collectors there are.            *)
NoPassBeginsWhileJoining ==
    [][call = "join" => pass' = pass]_vars

(* The framework implements what it promises.                              *)
ModeOf(c) ==
    IF ~stop[c] THEN "open"
    ELSE IF spc[c] \in {"collect", "write", "swap"} THEN "last" ELSE "quiet"

Snapshots == INSTANCE PublishedSnapshots WITH
    snap <- cache,
    ver <- [c \in Collectors |-> Published(c)],
    mode <- [c \in Collectors |-> ModeOf(c)]

(* Every behaviour of the threads, locks and buffers is a behaviour of the *)
(* snapshots: whole snapshots replace each other in order, callbacks are   *)
(* atomic, and at most one snapshot appears after the stop flag is set.    *)
ImplementsSnapshots == Snapshots!Spec

(* A call of shutdown returns: the threads see their flag, finish their    *)
(* pass even while readers keep coming, and are joined.                    *)
ShutdownTerminates == call = "stop" ~> call \in {"none", "dropped"}

(* A pass that has been collected is published: readers that keep coming   *)
(* do not starve the writer.                                               *)
PassesArePublished ==
    \A c \in Collectors : spc[c] = "collect" ~> spc[c] = "check"
=============================================================================
