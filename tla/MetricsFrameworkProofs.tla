---------------------- MODULE MetricsFrameworkProofs ----------------------
(***************************************************************************)
(* Theorems about MetricsFramework, for any collectors, items, shapes,     *)
(* readers and bounds.                                                     *)
(***************************************************************************)
EXTENDS MetricsFramework, TLAPS

LEMMA TypeInit == Init => TypeOK
<1> SUFFICES ASSUME Init PROVE TypeOK
  OBVIOUS
<1> USE DEF Init
<1>1. cache \in [Collectors -> Seq(SampleGroup)] /\ scratch \in [Collectors -> Seq(SampleGroup)]
  OBVIOUS
<1>2. at \in [Readers -> Nat \ {0}] /\ seen \in [Readers -> SUBSET Points]
  OBVIOUS
<1>3. /\ rpc \in [Readers -> {"idle", "call", "scan"}]
      /\ \A r \in Readers : rpc[r] = "scan" => cur[r] \in built
      /\ todo \in [Readers -> SUBSET built]
      /\ cur \in [Readers -> built \union {None}]
  OBVIOUS
<1>4. /\ handle \in [Collectors -> BOOLEAN] /\ stop \in [Collectors -> BOOLEAN]
      /\ pass \in [Collectors -> Nat]
  OBVIOUS
<1>5. spc \in [Collectors -> {"none", "check", "collect", "write", "swap", "done"}]
  OBVIOUS
<1>6. entries \in Seq(Collectors) /\ next \in Nat \ {0}
  OBVIOUS
<1>7. dropping \in BOOLEAN /\ built \subseteq {cb \in Callback : cb.item \in Items[cb.owner]}
  OBVIOUS
<1>8. /\ fresh \subseteq Collectors /\ call \in {"none", "add", "stop", "join", "dropped"}
      /\ IF call = "add" THEN adding \in Collectors ELSE adding = None
  OBVIOUS
<1>9. delivered \in [Readers -> Deliveries \union {None}]
  OBVIOUS
<1> QED
  BY <1>1, <1>2, <1>3, <1>4, <1>5, <1>6, <1>7, <1>8, <1>9, Zenon DEF TypeOK

LEMMA TypeStep == TypeOK /\ [Next]_vars => TypeOK'
<1> SUFFICES ASSUME TypeOK, [Next]_vars PROVE TypeOK'
  OBVIOUS
<1> USE DEF TypeOK, registryVars, sharedVars, samplerVars, readerVars
<1>1. ASSUME NEW c \in Collectors, AddSkips(c) \/ AddBegins(c) PROVE TypeOK'
  BY <1>1, NoneAssumption DEF AddSkips, AddBegins
<1>2. ASSUME NEW item, RegisterItem(item) PROVE TypeOK'
  BY <1>2, ItemsAssumption DEF RegisterItem, Callback
<1>3. CASE Spawn
  BY <1>3, NoneAssumption DEF Spawn, StartThread, sharedVars
<1>4. CASE SpawnFails
  BY <1>4, NoneAssumption DEF SpawnFails
<1>5. ASSUME NEW dropped \in BOOLEAN, ShutdownCalled(dropped) PROVE TypeOK'
  BY <1>5 DEF ShutdownCalled, ShutdownFrom
<1>6. CASE StoreStop
  BY <1>6 DEF StoreStop
<1>7. CASE StopsStored
  BY <1>7 DEF StopsStored, JoinsBegin
<1>8. CASE JoinEntry
  BY <1>8 DEF JoinEntry, TakeHandle
<1>9. CASE ShutdownReturns
  BY <1>9 DEF ShutdownReturns, ReturnPast
<1>10. ASSUME NEW c \in Collectors, SamplerStep(c) PROVE TypeOK'
  <2>1. CASE Exit(c)
    BY <2>1 DEF Exit
  <2>2. CASE BeginPass(c)
    BY <2>2 DEF BeginPass, BeginPassWith
  <2>3. CASE CollectGroup(c)
    <3>1. PICK values \in Shapes : scratch' = [scratch EXCEPT
              ![c] = Append(@, [pass |-> pass[c], values |-> values])]
      BY <2>3 DEF CollectGroup
    <3>2. [pass |-> pass[c], values |-> values] \in SampleGroup
      BY DEF SampleGroup
    <3>3. Append(scratch[c], [pass |-> pass[c], values |-> values]) \in Seq(SampleGroup)
      BY <3>2
    <3>4. scratch' \in [Collectors -> Seq(SampleGroup)]
      BY <3>1, <3>3
    <3> QED
      BY <2>3, <3>4 DEF CollectGroup
  <2>4. CASE EndCollect(c)
    BY <2>4 DEF EndCollect
  <2>5. CASE AcquireWrite(c)
    BY <2>5 DEF AcquireWrite, TakeWriteLock
  <2>6. CASE Swap(c)
    BY <2>6 DEF Swap
  <2> QED
    BY <1>10, <2>1, <2>2, <2>3, <2>4, <2>5, <2>6 DEF SamplerStep
<1>11. ASSUME NEW r \in Readers, StartCollection(r) PROVE TypeOK'
  BY <1>11 DEF StartCollection
<1>12. ASSUME NEW r \in Readers, CallbackStep(r) PROVE TypeOK'
  <2>1. CASE AcquireRead(r)
    BY <2>1 DEF AcquireRead, ReadUnless
  <2>2. CASE ScanGroup(r)
    <3>1. cur[r].owner \in Collectors
      BY <2>2 DEF ScanGroup, Callback
    <3>2. Groups(r) \in Seq(SampleGroup) /\ at[r] \in 1 .. Len(Groups(r))
      BY <2>2, <3>1 DEF ScanGroup, Groups
    <3>3. [at |-> at[r], group |-> Groups(r)[at[r]]] \in Points
      BY <3>2 DEF Points
    <3>4. seen' \in [Readers -> SUBSET Points]
      BY <2>2, <3>3 DEF ScanGroup
    <3>5. at' \in [Readers -> Nat \ {0}]
      BY <2>2 DEF ScanGroup
    <3> QED
      BY <2>2, <3>4, <3>5 DEF ScanGroup
  <2>3. CASE EndCallback(r)
    <3>1. [owner |-> cur[r].owner, item |-> cur[r].item, points |-> seen[r]] \in Deliveries
      BY <2>3 DEF EndCallback, Callback, Deliveries
    <3>2. delivered' \in [Readers -> Deliveries \union {None}]
      BY <2>3, <3>1 DEF EndCallback
    <3> QED
      BY <2>3, <3>2 DEF EndCallback
  <2>4. CASE EndCollection(r)
    BY <2>4 DEF EndCollection
  <2> QED
    BY <1>12, <2>1, <2>2, <2>3, <2>4 DEF CallbackStep
<1>13. CASE UNCHANGED vars
  BY <1>13 DEF vars
<1> QED
  BY <1>1, <1>2, <1>3, <1>4, <1>5, <1>6, <1>7, <1>8, <1>9, <1>10, <1>11, <1>12, <1>13
  DEF Next, AddStep, ShutdownStep

(* Type correctness: the state keeps its types, and a scanning reader      *)
(* always runs a callback that was registered.                             *)
THEOREM TypeCorrect == Spec => []TypeOK
  BY TypeInit, TypeStep, PTL DEF Spec

(***************************************************************************)
(* Ownership of the threads                                                *)
(***************************************************************************)

(* The thread of a collector is started once, by the add that took it.     *)
FreshHaveNoThread ==
    /\ \A c \in fresh : spc[c] = "none"
    /\ call = "add" => adding \notin fresh /\ spc[adding] = "none"

(* The first loop of shutdown has set the flags it has passed, and it has  *)
(* passed them all when the second begins.                                 *)
StopsAreStored ==
    /\ call = "stop" => \A k \in DOMAIN entries : k < next => stop[entries[k]]
    /\ call = "join" => \A k \in DOMAIN entries : stop[entries[k]]

(* The second loop has taken the handles it has passed.                    *)
HandlesAreTaken ==
    call = "join" => \A k \in DOMAIN entries : k < next => ~handle[entries[k]]

OwnershipInv ==
    /\ FreshHaveNoThread
    /\ StopsAreStored
    /\ HandlesAreTaken
    /\ ThreadsAreOwned

LEMMA OwnershipInit == Init => OwnershipInv
  BY NoneAssumption DEF Init, OwnershipInv, FreshHaveNoThread, StopsAreStored,
     HandlesAreTaken, ThreadsAreOwned, Running

LEMMA OwnershipStep == TypeOK /\ OwnershipInv /\ [Next]_vars => OwnershipInv'
<1> SUFFICES ASSUME TypeOK, OwnershipInv, [Next]_vars PROVE OwnershipInv'
  OBVIOUS
<1> USE DEF OwnershipInv, FreshHaveNoThread, StopsAreStored, HandlesAreTaken,
        ThreadsAreOwned, Running,
        registryVars, sharedVars, samplerVars, readerVars
<1>1. ASSUME NEW c \in Collectors, AddSkips(c) \/ AddBegins(c) PROVE OwnershipInv'
  BY <1>1 DEF AddSkips, AddBegins, TypeOK
<1>2. ASSUME NEW item, RegisterItem(item) PROVE OwnershipInv'
  BY <1>2 DEF RegisterItem, TypeOK
<1>3. CASE Spawn
  <2>1. /\ adding \in Collectors
        /\ entries' = Append(entries, adding)
        /\ handle' = [handle EXCEPT ![adding] = TRUE]
        /\ spc' = [spc EXCEPT ![adding] = "check"]
        /\ UNCHANGED <<fresh, built, stop>>
        /\ call' = "none"
    BY <1>3 DEF Spawn, StartThread, sharedVars, TypeOK
  <2>2. FreshHaveNoThread' /\ StopsAreStored' /\ HandlesAreTaken'
    <3>1. \A c \in fresh : c # adding
      BY <1>3 DEF Spawn, StartThread, sharedVars
    <3>2. FreshHaveNoThread'
      BY <2>1, <3>1 DEF TypeOK
    <3> QED
      BY <2>1, <3>2
  <2>3. ThreadsAreOwned'
    <3> SUFFICES ASSUME NEW c \in Collectors, Running(c)'
                 PROVE handle'[c] /\ \E k \in DOMAIN entries' : entries'[k] = c
      OBVIOUS
    <3>1. CASE c = adding
      <4>1. entries'[Len(entries) + 1] = c /\ Len(entries) + 1 \in DOMAIN entries'
        BY <2>1, <3>1 DEF TypeOK
      <4> QED
        BY <2>1, <3>1, <4>1 DEF TypeOK
    <3>2. CASE c # adding
      <4>1. handle[c] /\ \E k \in DOMAIN entries : entries[k] = c
        BY <2>1, <3>2 DEF TypeOK
      <4>2. \A k \in 1 .. Len(entries) : k \in 1 .. Len(entries') /\ entries'[k] = entries[k]
        BY <2>1 DEF TypeOK
      <4>3. DOMAIN entries = 1 .. Len(entries) /\ DOMAIN entries' = 1 .. Len(entries')
        BY <2>1 DEF TypeOK
      <4> QED
        BY <2>1, <3>2, <4>1, <4>2, <4>3 DEF TypeOK
    <3> QED
      BY <3>1, <3>2
  <2> QED
    BY <2>2, <2>3
<1>4. CASE SpawnFails
  BY <1>4 DEF SpawnFails, TypeOK
<1>5. ASSUME NEW dropped \in BOOLEAN, ShutdownCalled(dropped) PROVE OwnershipInv'
  BY <1>5 DEF ShutdownCalled, ShutdownFrom, TypeOK
<1>6. CASE StoreStop
  BY <1>6 DEF StoreStop, TypeOK
<1>7. CASE StopsStored
  BY <1>7 DEF StopsStored, JoinsBegin, TypeOK
<1>8. CASE JoinEntry
  BY <1>8 DEF JoinEntry, TakeHandle, TypeOK
<1>9. CASE ShutdownReturns
  BY <1>9 DEF ShutdownReturns, ReturnPast, TypeOK
<1>10. ASSUME NEW c \in Collectors, SamplerStep(c) PROVE OwnershipInv'
  <2> USE DEF SamplerStep, Exit, BeginPass, BeginPassWith, CollectGroup, EndCollect, AcquireWrite, TakeWriteLock, Swap
  <2>1. UNCHANGED <<registryVars, built, stop>>
    BY <1>10
  <2>2. Running(c) /\ c \notin fresh /\ ~(call = "add" /\ c = adding)
    BY <1>10
  <2>3. \A d \in Collectors : d # c => spc'[d] = spc[d]
    BY <1>10 DEF TypeOK
  <2> HIDE DEF SamplerStep
  <2> QED
    BY <2>1, <2>2, <2>3 DEF TypeOK
<1>11. ASSUME NEW r \in Readers, StartCollection(r) \/ CallbackStep(r) PROVE OwnershipInv'
  BY <1>11 DEF StartCollection, CallbackStep, AcquireRead, ReadUnless, ScanGroup, EndCallback, EndCollection
<1>12. CASE UNCHANGED vars
  BY <1>12 DEF vars
<1> QED
  BY <1>1, <1>2, <1>3, <1>4, <1>5, <1>6, <1>7, <1>8, <1>9, <1>10, <1>11, <1>12
  DEF Next, AddStep, ShutdownStep

(***************************************************************************)
(* Snapshots: the buffers a sampling thread swaps                          *)
(***************************************************************************)

(* During a pass the scratch buffer holds groups of that pass only.        *)
ScratchHoldsOnePass ==
    \A c \in Collectors : spc[c] \in {"collect", "write", "swap"} =>
        /\ pass[c] > 0
        /\ \A k \in DOMAIN scratch[c] : scratch[c][k].pass = pass[c]

SnapshotInv == ScratchHoldsOnePass /\ CacheHoldsOnePass

LEMMA SnapshotInit == Init => SnapshotInv
  BY DEF Init, SnapshotInv, ScratchHoldsOnePass, CacheHoldsOnePass

LEMMA SnapshotStep ==
    TypeOK /\ FreshHaveNoThread /\ SnapshotInv /\ [Next]_vars => SnapshotInv'
<1> SUFFICES ASSUME TypeOK, FreshHaveNoThread, SnapshotInv, [Next]_vars
             PROVE SnapshotInv'
  OBVIOUS
<1> USE DEF SnapshotInv, ScratchHoldsOnePass, CacheHoldsOnePass, Published
<1>1. CASE UNCHANGED <<cache, samplerVars>>
  BY <1>1 DEF samplerVars
<1>2. CASE Spawn
  <2>1. spc[adding] = "none" /\ UNCHANGED <<cache, pass, scratch>>
    BY <1>2 DEF Spawn, StartThread, sharedVars, FreshHaveNoThread
  <2>2. spc' = [spc EXCEPT ![adding] = "check"]
    BY <1>2 DEF Spawn, StartThread, sharedVars
  <2> QED
    BY <2>1, <2>2 DEF TypeOK
<1>3. ASSUME NEW c \in Collectors, Exit(c) PROVE SnapshotInv'
  BY <1>3 DEF Exit, TypeOK, sharedVars
<1>4. ASSUME NEW c \in Collectors, BeginPass(c) PROVE SnapshotInv'
  <2>1. /\ cache' = cache
        /\ pass' = [pass EXCEPT ![c] = pass[c] + 1]
        /\ spc' = [spc EXCEPT ![c] = "collect"]
        /\ scratch' = [scratch EXCEPT ![c] = <<>>]
        /\ spc[c] = "check"
    BY <1>4 DEF BeginPass, BeginPassWith, sharedVars
  <2>2. pass[c] \in Nat /\ pass'[c] = pass[c] + 1 /\ spc'[c] = "collect"
    BY <2>1 DEF TypeOK
  <2>3. scratch'[c] = <<>>
    BY <2>1 DEF TypeOK
  <2>4. Published(c)' = Published(c) /\ pass'[c] > 0 /\ DOMAIN scratch'[c] = {}
    BY <2>1, <2>2, <2>3
  <2> QED
    BY <2>1, <2>4 DEF TypeOK
<1>5. ASSUME NEW c \in Collectors, CollectGroup(c) PROVE SnapshotInv'
  <2>1. PICK values \in Shapes : scratch' = [scratch EXCEPT
            ![c] = Append(scratch[c], [pass |-> pass[c], values |-> values])]
    BY <1>5 DEF CollectGroup
  <2>2. UNCHANGED <<cache, spc, pass>> /\ spc[c] = "collect"
    BY <1>5 DEF CollectGroup, sharedVars
  <2>3. \A k \in DOMAIN scratch'[c] : scratch'[c][k].pass = pass[c]
    <3>1. scratch'[c] = Append(scratch[c], [pass |-> pass[c], values |-> values])
      BY <2>1 DEF TypeOK
    <3> QED
      BY <2>2, <3>1 DEF TypeOK
  <2> QED
    BY <2>1, <2>2, <2>3 DEF TypeOK
<1>6. ASSUME NEW c \in Collectors, EndCollect(c) PROVE SnapshotInv'
  BY <1>6 DEF EndCollect, TypeOK, sharedVars
<1>7. ASSUME NEW c \in Collectors, AcquireWrite(c) PROVE SnapshotInv'
  BY <1>7 DEF AcquireWrite, TakeWriteLock, TypeOK, sharedVars
<1>8. ASSUME NEW c \in Collectors, Swap(c) PROVE SnapshotInv'
  BY <1>8 DEF Swap, TypeOK
<1>9. ASSUME [Next]_vars, ~Spawn, \A c \in Collectors : ~SamplerStep(c)
      PROVE UNCHANGED <<cache, samplerVars>>
  BY <1>9 DEF Next, AddSkips, AddBegins, AddStep, RegisterItem, SpawnFails,
     ShutdownCalled, ShutdownFrom, ShutdownStep, StoreStop, StopsStored, JoinsBegin, JoinEntry, TakeHandle, ShutdownReturns, ReturnPast,
     StartCollection, CallbackStep, AcquireRead, ReadUnless, ScanGroup, EndCallback, EndCollection,
     vars, sharedVars
<1> QED
  BY <1>1, <1>2, <1>3, <1>4, <1>5, <1>6, <1>7, <1>8, <1>9 DEF SamplerStep

(***************************************************************************)
(* The lock: a scan sees one snapshot                                      *)
(***************************************************************************)

(* The thread that swaps holds the lock alone.                             *)
LockIsExclusive ==
    \A r \in Readers, c \in Collectors : spc[c] = "swap" => ~Scanning(r, c)

(* Only a scanning callback has a position and a result.                   *)
ScansBeginAfresh ==
    \A r \in Readers : rpc[r] # "scan" => at[r] = 1 /\ seen[r] = {}

LockInv == LockIsExclusive /\ ScansBeginAfresh /\ ScanIsOfOneSnapshot

LEMMA NothingObservedUpToZero ==
    ASSUME NEW item, NEW groups PROVE ObservedUpTo(item, groups, 0) = {}
  BY DEF ObservedUpTo

(* One more group is scanned.                                              *)
LEMMA ObservedUpToNext ==
    ASSUME NEW item, NEW groups, NEW n \in Nat
    PROVE ObservedUpTo(item, groups, n + 1) =
              IF Reports(item, groups[n + 1])
              THEN ObservedUpTo(item, groups, n)
                       \union {[at |-> n + 1, group |-> groups[n + 1]]}
              ELSE ObservedUpTo(item, groups, n)
<1> DEFINE Point(k) == [at |-> k, group |-> groups[k]]
           Upto(m) == {j \in 1 .. m : Reports(item, groups[j])}
<1>1. Upto(n + 1) = IF Reports(item, groups[n + 1]) THEN Upto(n) \union {n + 1} ELSE Upto(n)
  <2>1. \A j : j \in 1 .. n + 1 <=> j \in 1 .. n \/ j = n + 1
    OBVIOUS
  <2> QED
    BY <2>1, Zenon
<1>2. \A m \in Nat : ObservedUpTo(item, groups, m) = {Point(k) : k \in Upto(m)}
  BY DEF ObservedUpTo
<1> HIDE DEF Point, Upto
<1>3. ObservedUpTo(item, groups, n + 1) =
          IF Reports(item, groups[n + 1])
          THEN ObservedUpTo(item, groups, n) \union {Point(n + 1)}
          ELSE ObservedUpTo(item, groups, n)
  <2>1. /\ ObservedUpTo(item, groups, n) = {Point(k) : k \in Upto(n)}
        /\ ObservedUpTo(item, groups, n + 1) = {Point(k) : k \in Upto(n + 1)}
    BY <1>2
  <2>2. {Point(k) : k \in Upto(n) \union {n + 1}} =
            {Point(k) : k \in Upto(n)} \union {Point(n + 1)}
    OBVIOUS
  <2> QED
    BY <1>1, <2>1, <2>2
<1> QED
  BY <1>3 DEF Point

LEMMA LockInit == Init => LockInv
  BY DEF Init, LockInv, LockIsExclusive, ScansBeginAfresh, ScanIsOfOneSnapshot, Scanning

LEMMA LockStep == TypeOK /\ FreshHaveNoThread /\ LockInv /\ [Next]_vars => LockInv'
<1> SUFFICES ASSUME TypeOK, FreshHaveNoThread, LockInv, [Next]_vars PROVE LockInv'
  OBVIOUS
<1> USE DEF LockInv, LockIsExclusive, ScansBeginAfresh, ScanIsOfOneSnapshot, Scanning, Groups
<1>1. CASE UNCHANGED <<cache, spc, readerVars>>
  BY <1>1 DEF readerVars
<1>2. CASE UNCHANGED <<cache, readerVars>> /\ \A c \in Collectors : spc'[c] = "swap" => spc[c] = "swap"
  BY <1>2 DEF readerVars
<1>3. ASSUME NEW c \in Collectors, AcquireWrite(c) PROVE LockInv'
  BY <1>3 DEF AcquireWrite, TakeWriteLock, TypeOK, sharedVars, readerVars
<1>4. ASSUME NEW c \in Collectors, Swap(c) PROVE LockInv'
  <2>1. UNCHANGED readerVars /\ spc' = [spc EXCEPT ![c] = "check"] /\ spc[c] = "swap"
    BY <1>4 DEF Swap
  <2>2. \A d \in Collectors : d # c => cache'[d] = cache[d]
    BY <1>4 DEF Swap, TypeOK
  <2>3. \A r \in Readers : rpc[r] = "scan" => cur[r].owner \in Collectors \ {c}
    BY <2>1 DEF TypeOK, Callback
  <2> QED
    BY <2>1, <2>2, <2>3 DEF readerVars, TypeOK
<1>5. ASSUME NEW r \in Readers, StartCollection(r) PROVE LockInv'
  BY <1>5 DEF StartCollection, TypeOK, sharedVars, samplerVars
<1>6. ASSUME NEW r \in Readers, AcquireRead(r) PROVE LockInv'
  <2>1. PICK cb \in todo[r] : /\ spc[cb.owner] \notin {"write", "swap"}
                              /\ cur' = [cur EXCEPT ![r] = cb]
    BY <1>6 DEF AcquireRead, ReadUnless
  <2>2. /\ UNCHANGED <<sharedVars, samplerVars, at, seen>>
        /\ rpc' = [rpc EXCEPT ![r] = "scan"]
        /\ at[r] = 1 /\ seen[r] = {}
    BY <1>6 DEF AcquireRead, ReadUnless
  <2>3. LockIsExclusive' /\ ScansBeginAfresh'
    BY <2>1, <2>2 DEF TypeOK, sharedVars, samplerVars
  <2>4. cb.owner \in Collectors /\ Len(cache[cb.owner]) \in Nat
    BY <2>1 DEF TypeOK, Callback
  <2>5. ASSUME NEW q \in Readers, rpc'[q] = "scan"
        PROVE /\ at'[q] <= Len(Groups(q)') + 1
              /\ seen'[q] = ObservedUpTo(cur'[q].item, Groups(q)', at'[q] - 1)
    <3>1. CASE q = r
      <4>1. at'[q] - 1 = 0
        BY <2>2, <3>1
      <4> QED
        BY <2>1, <2>2, <2>4, <3>1, <4>1, NothingObservedUpToZero DEF TypeOK, sharedVars
    <3>2. CASE q # r
      BY <2>1, <2>2, <2>5, <3>2 DEF TypeOK, sharedVars
    <3> QED
      BY <3>1, <3>2
  <2> QED
    BY <2>3, <2>5
<1>7. ASSUME NEW r \in Readers, ScanGroup(r) PROVE LockInv'
  <2> DEFINE g == Groups(r)
  <2>1. /\ UNCHANGED <<sharedVars, samplerVars, rpc, cur>>
        /\ rpc[r] = "scan" /\ at[r] \in Nat \ {0} /\ at[r] <= Len(g)
        /\ at' = [at EXCEPT ![r] = at[r] + 1]
    BY <1>7 DEF ScanGroup, TypeOK
  <2>2. seen'[r] = IF Reports(cur[r].item, g[at[r]])
                   THEN seen[r] \union {[at |-> at[r], group |-> g[at[r]]]}
                   ELSE seen[r]
    BY <1>7 DEF ScanGroup, TypeOK
  <2>3. \A q \in Readers : q # r => seen'[q] = seen[q]
    BY <1>7 DEF ScanGroup, TypeOK
  <2>4. seen'[r] = ObservedUpTo(cur[r].item, g, at[r])
    <3> DEFINE n == at[r] - 1
    <3>1. n \in Nat /\ n + 1 = at[r]
      BY <2>1
    <3>2. seen[r] = ObservedUpTo(cur[r].item, g, n)
      BY <2>1
    <3> HIDE DEF g, n
    <3>3. ObservedUpTo(cur[r].item, g, n + 1) =
              IF Reports(cur[r].item, g[n + 1])
              THEN ObservedUpTo(cur[r].item, g, n)
                       \union {[at |-> n + 1, group |-> g[n + 1]]}
              ELSE ObservedUpTo(cur[r].item, g, n)
      BY <3>1, ObservedUpToNext
    <3> QED
      BY <2>2, <3>1, <3>2, <3>3, Zenon
  <2>5. at'[r] - 1 = at[r] /\ at'[r] <= Len(g) + 1
    BY <2>1 DEF TypeOK
  <2>6. ASSUME NEW q \in Readers, rpc'[q] = "scan"
        PROVE /\ at'[q] <= Len(Groups(q)') + 1
              /\ seen'[q] = ObservedUpTo(cur'[q].item, Groups(q)', at'[q] - 1)
    <3>1. CASE q = r
      BY <2>1, <2>4, <2>5, <3>1 DEF sharedVars
    <3>2. CASE q # r
      BY <2>1, <2>3, <2>6, <3>2 DEF sharedVars, TypeOK
    <3> QED
      BY <3>1, <3>2
  <2>7. LockIsExclusive' /\ ScansBeginAfresh'
    BY <2>1, <2>3 DEF TypeOK, samplerVars
  <2> QED
    BY <2>6, <2>7
<1>8. ASSUME NEW r \in Readers, EndCallback(r) PROVE LockInv'
  <2>1. /\ UNCHANGED <<sharedVars, samplerVars>>
        /\ rpc' = [rpc EXCEPT ![r] = "call"]
        /\ cur' = [cur EXCEPT ![r] = None]
        /\ at' = [at EXCEPT ![r] = 1]
        /\ seen' = [seen EXCEPT ![r] = {}]
    BY <1>8 DEF EndCallback
  <2>2. rpc'[r] = "call" /\ at'[r] = 1 /\ seen'[r] = {}
    BY <2>1 DEF TypeOK
  <2>3. \A q \in Readers : q # r =>
            rpc'[q] = rpc[q] /\ cur'[q] = cur[q] /\ at'[q] = at[q] /\ seen'[q] = seen[q]
    BY <2>1 DEF TypeOK
  <2> QED
    BY <2>1, <2>2, <2>3 DEF sharedVars, samplerVars
<1>9. ASSUME NEW r \in Readers, EndCollection(r) PROVE LockInv'
  BY <1>9 DEF EndCollection, TypeOK, sharedVars, samplerVars
<1>10. ASSUME NEW c \in Collectors, Exit(c) \/ BeginPass(c) \/ CollectGroup(c) \/ EndCollect(c)
       PROVE UNCHANGED <<cache, readerVars>> /\ \A d \in Collectors : spc'[d] = "swap" => spc[d] = "swap"
  BY <1>10 DEF Exit, BeginPass, BeginPassWith, CollectGroup, EndCollect, TypeOK, sharedVars
<1>11. ASSUME Spawn
       PROVE UNCHANGED <<cache, readerVars>> /\ \A d \in Collectors : spc'[d] = "swap" => spc[d] = "swap"
  BY <1>11 DEF Spawn, StartThread, sharedVars, TypeOK
<1>12. ASSUME [Next]_vars, ~Spawn, \A c \in Collectors : ~SamplerStep(c),
              \A r \in Readers : ~StartCollection(r) /\ ~CallbackStep(r)
       PROVE UNCHANGED <<cache, spc, readerVars>>
  BY <1>12 DEF Next, AddSkips, AddBegins, AddStep, RegisterItem, SpawnFails,
     ShutdownCalled, ShutdownFrom, ShutdownStep, StoreStop, StopsStored, JoinsBegin, JoinEntry, TakeHandle, ShutdownReturns, ReturnPast,
     vars, sharedVars, samplerVars
<1> QED
  BY <1>1, <1>2, <1>3, <1>4, <1>5, <1>6, <1>7, <1>8, <1>9, <1>10, <1>11, <1>12
  DEF SamplerStep, CallbackStep

(***************************************************************************)
(* The invariants hold of the specification                                *)
(***************************************************************************)
IInv == TypeOK /\ OwnershipInv /\ SnapshotInv /\ LockInv

LEMMA InvariantStep == IInv /\ [Next]_vars => IInv'
  BY TypeStep, OwnershipStep, SnapshotStep, LockStep DEF IInv, OwnershipInv

LEMMA Invariance == Spec => []IInv
<1>1. Init => IInv
  BY TypeInit, OwnershipInit, SnapshotInit, LockInit DEF IInv
<1> QED
  BY <1>1, InvariantStep, PTL DEF Spec

(* Every published snapshot holds the groups of one pass, the last that    *)
(* was published.                                                          *)
THEOREM SnapshotsHoldOnePass == Spec => []CacheHoldsOnePass
<1>1. IInv => CacheHoldsOnePass
  BY DEF IInv, SnapshotInv
<1> QED
  BY <1>1, Invariance, PTL

(* What a callback has reported is what one snapshot holds.                *)
THEOREM ScansReadOneSnapshot == Spec => []ScanIsOfOneSnapshot
<1>1. IInv => ScanIsOfOneSnapshot
  BY DEF IInv, LockInv
<1> QED
  BY <1>1, Invariance, PTL

(***************************************************************************)
(* The order of what a reader is given                                     *)
(***************************************************************************)

(* No pass a reader was given is newer than the last that was published.   *)
DeliveredAreOld ==
    \A r \in Readers, c \in Collectors :
        delivered[r] # None /\ delivered[r].owner = c =>
            \A p \in delivered[r].points : p.group.pass <= Published(c)

LEMMA PublishedIsNatural == ASSUME IInv, NEW c \in Collectors PROVE Published(c) \in Nat
  BY DEF IInv, TypeOK, SnapshotInv, ScratchHoldsOnePass, Published

(* Passes are published in order.                                          *)
LEMMA PublishedGrows ==
    ASSUME IInv, [Next]_vars, NEW c \in Collectors PROVE Published(c) <= Published(c)'
<1> USE DEF Published, IInv
<1>1. CASE UNCHANGED <<spc, pass>>
  BY <1>1, PublishedIsNatural
<1>2. CASE Spawn
  <2>1. spc[adding] = "none" /\ spc' = [spc EXCEPT ![adding] = "check"] /\ pass' = pass
    BY <1>2 DEF Spawn, StartThread, OwnershipInv, FreshHaveNoThread
  <2> QED
    BY <2>1, PublishedIsNatural DEF TypeOK
<1>3. ASSUME NEW d \in Collectors, SamplerStep(d) PROVE Published(c) <= Published(c)'
  <2>1. CASE BeginPass(d)
    BY <2>1 DEF BeginPass, BeginPassWith, TypeOK
  <2>2. CASE Swap(d)
    BY <2>2 DEF Swap, TypeOK
  <2>3. CASE Exit(d) \/ CollectGroup(d) \/ EndCollect(d) \/ AcquireWrite(d)
    BY <2>3 DEF Exit, CollectGroup, EndCollect, AcquireWrite, TakeWriteLock, TypeOK
  <2> QED
    BY <1>3, <2>1, <2>2, <2>3 DEF SamplerStep
<1>4. ASSUME ~Spawn, \A d \in Collectors : ~SamplerStep(d) PROVE UNCHANGED <<spc, pass>>
  BY <1>4 DEF Next, AddSkips, AddBegins, AddStep, RegisterItem, SpawnFails,
     ShutdownCalled, ShutdownFrom, ShutdownStep, StoreStop, StopsStored, JoinsBegin, JoinEntry, TakeHandle, ShutdownReturns, ReturnPast,
     StartCollection, CallbackStep, AcquireRead, ReadUnless, ScanGroup, EndCallback, EndCollection,
     vars, samplerVars
<1> QED
  BY <1>1, <1>2, <1>3, <1>4

(* A callback that ends delivers groups of the last published pass.        *)
LEMMA CallbackDelivers ==
    ASSUME IInv, NEW r \in Readers, EndCallback(r)
    PROVE  /\ cur[r].owner \in Collectors
           /\ delivered' = [delivered EXCEPT ![r] =
                  [owner |-> cur[r].owner, item |-> cur[r].item, points |-> seen[r]]]
           /\ \A p \in seen[r] : p.group.pass = Published(cur[r].owner)
<1> DEFINE groups == cache[cur[r].owner]
<1>1. cur[r].owner \in Collectors
  BY DEF EndCallback, IInv, TypeOK, Callback
<1>2. groups \in Seq(SampleGroup) /\ at[r] \in Nat \ {0}
  BY <1>1 DEF IInv, TypeOK
<1>3. at[r] - 1 <= Len(groups) /\ seen[r] = ObservedUpTo(cur[r].item, groups, at[r] - 1)
  BY <1>2 DEF EndCallback, IInv, LockInv, ScanIsOfOneSnapshot, Groups
<1>4. ASSUME NEW p \in seen[r] PROVE p.group.pass = Published(cur[r].owner)
  <2>1. PICK k \in 1 .. (at[r] - 1) : p = [at |-> k, group |-> groups[k]]
    BY <1>3 DEF ObservedUpTo
  <2>2. k \in DOMAIN groups
    BY <1>2, <1>3, <2>1
  <2> QED
    BY <1>1, <2>1, <2>2 DEF IInv, SnapshotInv, CacheHoldsOnePass
<1> QED
  BY <1>1, <1>4 DEF EndCallback

(* Only a callback that ends delivers anything.                            *)
LEMMA OnlyCallbacksDeliver ==
    ASSUME [Next]_vars, \A r \in Readers : ~EndCallback(r) PROVE delivered' = delivered
  BY DEF Next, AddSkips, AddBegins, AddStep, RegisterItem, Spawn, StartThread, SpawnFails,
     ShutdownCalled, ShutdownFrom, ShutdownStep, StoreStop, StopsStored, JoinsBegin, JoinEntry, TakeHandle, ShutdownReturns, ReturnPast,
     SamplerStep, Exit, BeginPass, BeginPassWith, CollectGroup, EndCollect, AcquireWrite, TakeWriteLock, Swap,
     StartCollection, CallbackStep, AcquireRead, ReadUnless, ScanGroup, EndCollection,
     vars, readerVars

LEMMA DeliveredStep == IInv /\ DeliveredAreOld /\ [Next]_vars => DeliveredAreOld'
<1> SUFFICES ASSUME IInv, DeliveredAreOld, [Next]_vars,
                    NEW q \in Readers, NEW c \in Collectors,
                    delivered'[q] # None, delivered'[q].owner = c,
                    NEW p \in delivered'[q].points
             PROVE  p.group.pass <= Published(c)'
  BY Zenon DEF DeliveredAreOld
<1>1. Published(c) \in Nat /\ Published(c)' \in Nat /\ Published(c) <= Published(c)'
  <2>1. IInv'
    BY InvariantStep
  <2>2. Published(c)' \in Nat
    <3>1. pass'[c] \in Nat
      BY <2>1 DEF IInv, TypeOK
    <3>2. spc'[c] \in {"collect", "write", "swap"} => pass'[c] > 0
      BY <2>1 DEF IInv, SnapshotInv, ScratchHoldsOnePass
    <3> QED
      BY <3>1, <3>2 DEF Published
  <2> QED
    BY <2>2, PublishedIsNatural, PublishedGrows
<1>2. p.group.pass \in Nat
  BY InvariantStep DEF IInv, TypeOK, Deliveries, Points, SampleGroup
<1>3. CASE delivered'[q] = delivered[q]
  <2>1. p.group.pass <= Published(c)
    BY <1>3 DEF DeliveredAreOld
  <2> QED
    BY <1>1, <1>2, <2>1
<1>4. ASSUME NEW r \in Readers, EndCallback(r), delivered'[q] # delivered[q]
      PROVE p.group.pass <= Published(c)'
  <2>1. q = r /\ cur[r].owner = c /\ delivered'[q].points = seen[r]
    BY <1>4, CallbackDelivers DEF IInv, TypeOK
  <2>2. p.group.pass = Published(c)
    BY <1>4, <2>1, CallbackDelivers
  <2> QED
    BY <1>1, <2>2
<1> QED
  BY <1>3, <1>4, OnlyCallbacksDeliver

(* Of two callbacks in a row over one collector, the later one reports no  *)
(* older pass.                                                             *)
THEOREM DeliveriesInOrder == Spec => DeliveriesNeverGoBack
<1> DEFINE InOrder ==
        \A r \in Readers :
           LET last == delivered[r]
               new == delivered'[r]
           IN  last # None /\ new # last /\ new.owner = last.owner =>
                   \A p \in last.points, q \in new.points : p.group.pass <= q.group.pass
<1>1. Init => DeliveredAreOld
  BY DEF Init, DeliveredAreOld
<1>2. IInv /\ DeliveredAreOld /\ [Next]_vars => [InOrder]_vars
  <2> SUFFICES ASSUME IInv, DeliveredAreOld, [Next]_vars,
                      NEW r \in Readers, delivered[r] # None, delivered'[r] # delivered[r],
                      delivered'[r].owner = delivered[r].owner,
                      NEW p \in delivered[r].points, NEW q \in delivered'[r].points
               PROVE  p.group.pass <= q.group.pass
    BY Zenon
  <2>1. PICK s \in Readers : EndCallback(s)
    BY OnlyCallbacksDeliver
  <2>2. r = s /\ delivered'[r].owner = cur[r].owner /\ delivered'[r].points = seen[r]
    BY <2>1, CallbackDelivers DEF IInv, TypeOK
  <2>3. /\ delivered[r].owner \in Collectors
        /\ q.group.pass = Published(delivered[r].owner)
    BY <2>1, <2>2, CallbackDelivers
  <2> QED
    BY <2>3 DEF DeliveredAreOld
<1> QED
  BY <1>1, <1>2, Invariance, DeliveredStep, PTL DEF Spec, DeliveriesNeverGoBack

(* Every running sampling thread has an entry with its flag and handle.    *)
THEOREM ThreadsOwned == Spec => []ThreadsAreOwned
<1>1. IInv => ThreadsAreOwned
  BY DEF IInv, OwnershipInv
<1> QED
  BY <1>1, Invariance, PTL

(* A cache that holds anything was filled by a thread that has an entry.   *)
FilledAreListed ==
    \A c \in Collectors : cache[c] # <<>> => \E k \in DOMAIN entries : entries[k] = c

(* Entries are only added.                                                 *)
LEMMA EntriesStay ==
    ASSUME TypeOK, [Next]_vars, NEW c, \E k \in DOMAIN entries : entries[k] = c
    PROVE  \E k \in DOMAIN entries' : entries'[k] = c
<1>1. CASE Spawn
  <2>1. entries' = Append(entries, adding) /\ adding \in Collectors
    BY <1>1 DEF Spawn, StartThread, TypeOK
  <2>2. PICK k \in 1 .. Len(entries) : entries[k] = c
    BY DEF TypeOK
  <2>3. k \in DOMAIN entries' /\ entries'[k] = c
    BY <2>1, <2>2 DEF TypeOK
  <2> QED
    BY <2>3
<1>2. CASE ~Spawn
  <2>1. entries' = entries
    BY <1>2 DEF Next, AddSkips, AddBegins, AddStep, RegisterItem, SpawnFails,
       ShutdownCalled, ShutdownFrom, ShutdownStep, StoreStop, StopsStored, JoinsBegin, JoinEntry, TakeHandle, ShutdownReturns, ReturnPast,
       SamplerStep, Exit, BeginPass, BeginPassWith, CollectGroup, EndCollect, AcquireWrite, TakeWriteLock, Swap,
       StartCollection, CallbackStep, AcquireRead, ReadUnless, ScanGroup, EndCallback, EndCollection,
       vars, registryVars
  <2> QED
    BY <2>1
<1> QED
  BY <1>1, <1>2

LEMMA FilledStep == IInv /\ FilledAreListed /\ [Next]_vars => FilledAreListed'
<1> SUFFICES ASSUME IInv, FilledAreListed, [Next]_vars,
                    NEW c \in Collectors, cache'[c] # <<>>
             PROVE  \E k \in DOMAIN entries' : entries'[k] = c
  BY DEF FilledAreListed
<1>1. \E k \in DOMAIN entries : entries[k] = c
  <2>1. CASE cache' = cache
    BY <2>1 DEF FilledAreListed
  <2>2. ASSUME NEW d \in Collectors, Swap(d) PROVE \E k \in DOMAIN entries : entries[k] = c
    <3>1. CASE c = d
      BY <2>2, <3>1 DEF Swap, Running, IInv, OwnershipInv, ThreadsAreOwned
    <3>2. CASE c # d
      BY <2>2, <3>2 DEF Swap, FilledAreListed, IInv, TypeOK
    <3> QED
      BY <3>1, <3>2
  <2>3. cache' = cache \/ \E d \in Collectors : Swap(d)
    BY DEF Next, AddSkips, AddBegins, AddStep, RegisterItem, Spawn, StartThread, SpawnFails,
       ShutdownCalled, ShutdownFrom, ShutdownStep, StoreStop, StopsStored, JoinsBegin, JoinEntry, TakeHandle, ShutdownReturns, ReturnPast,
       SamplerStep, Exit, BeginPass, BeginPassWith, CollectGroup, EndCollect, AcquireWrite, TakeWriteLock,
       StartCollection, CallbackStep, AcquireRead, ReadUnless, ScanGroup, EndCallback, EndCollection,
       vars, sharedVars
  <2> QED
    BY <2>1, <2>2, <2>3
<1> QED
  BY <1>1, EntriesStay DEF IInv

(* A callback that has something to deliver has scanned a filled cache.    *)
LEMMA DeliversFromFilled ==
    ASSUME IInv, NEW r \in Readers, EndCallback(r), seen[r] # {}
    PROVE  cur[r].owner \in Collectors /\ cache[cur[r].owner] # <<>>
<1> DEFINE groups == cache[cur[r].owner]
<1>1. cur[r].owner \in Collectors
  BY DEF EndCallback, IInv, TypeOK, Callback
<1>2. groups \in Seq(SampleGroup) /\ at[r] \in Nat \ {0}
  BY <1>1 DEF IInv, TypeOK
<1>3. at[r] - 1 <= Len(groups) /\ seen[r] = ObservedUpTo(cur[r].item, groups, at[r] - 1)
  BY <1>2 DEF EndCallback, IInv, LockInv, ScanIsOfOneSnapshot, Groups
<1>4. PICK k \in 1 .. (at[r] - 1) : TRUE
  BY <1>3 DEF ObservedUpTo
<1>5. Len(groups) >= 1
  BY <1>2, <1>3, <1>4
<1> QED
  BY <1>1, <1>2, <1>5

LEMMA OrphansStep ==
    IInv /\ FilledAreListed /\ OrphansReportNothing /\ [Next]_vars => OrphansReportNothing'
<1> SUFFICES ASSUME IInv, FilledAreListed, OrphansReportNothing, [Next]_vars,
                    NEW r \in Readers, delivered'[r] # None, delivered'[r].points # {},
                    NEW c, c = delivered'[r].owner
             PROVE  \E k \in DOMAIN entries' : entries'[k] = c
  BY DEF OrphansReportNothing
<1>1. \E k \in DOMAIN entries : entries[k] = c
  <2>1. CASE delivered'[r] = delivered[r]
    BY <2>1 DEF OrphansReportNothing
  <2>2. ASSUME NEW s \in Readers, EndCallback(s), delivered'[r] # delivered[r]
        PROVE  \E k \in DOMAIN entries : entries[k] = c
    <3>1. r = s /\ c = cur[r].owner /\ delivered'[r].points = seen[r]
      BY <2>2, CallbackDelivers DEF IInv, TypeOK
    <3>2. c \in Collectors /\ cache[c] # <<>>
      BY <2>2, <3>1, DeliversFromFilled
    <3> QED
      BY <3>2 DEF FilledAreListed
  <2> QED
    BY <2>1, <2>2, OnlyCallbacksDeliver
<1> QED
  BY <1>1, EntriesStay DEF IInv

(* Whatever is reported of a collector comes from a thread that has an     *)
(* entry: a collector whose thread was refused reports nothing, for ever.  *)
THEOREM OrphansAreSilent == Spec => []OrphansReportNothing
<1>1. Init => FilledAreListed /\ OrphansReportNothing
  BY DEF Init, FilledAreListed, OrphansReportNothing
<1> QED
  BY <1>1, Invariance, FilledStep, OrphansStep, PTL DEF Spec

(* When the second loop has passed the last entry, every thread has ended. *)
LEMMA AllJoined == IInv /\ ShutdownReturns => \A c \in Collectors : ~Running(c)
<1> SUFFICES ASSUME IInv, ShutdownReturns, NEW c \in Collectors PROVE ~Running(c)
  OBVIOUS
<1>1. \A k \in DOMAIN entries : k < next
  BY DEF ShutdownReturns, ReturnPast, IInv, TypeOK
<1>2. \A k \in DOMAIN entries : ~handle[entries[k]]
  BY <1>1 DEF ShutdownReturns, ReturnPast, IInv, OwnershipInv, HandlesAreTaken
<1> QED
  BY <1>2 DEF IInv, OwnershipInv, ThreadsAreOwned

(* Shutdown returns with every sampling thread ended.                      *)
THEOREM ShutdownEndsThreads == Spec => ShutdownLeavesNoThread
<1>1. ASSUME IInv, [Next]_vars, call = "join", call' # "join", NEW c \in Collectors
      PROVE ~Running(c)'
  <2>1. ShutdownReturns
    BY <1>1 DEF Next, AddSkips, AddBegins, AddStep, RegisterItem, Spawn, StartThread, SpawnFails,
       ShutdownCalled, ShutdownFrom, ShutdownStep, StoreStop, StopsStored, JoinsBegin, JoinEntry, TakeHandle, SamplerStep,
       Exit, BeginPass, BeginPassWith, CollectGroup, EndCollect, AcquireWrite, TakeWriteLock, Swap,
       StartCollection, CallbackStep, AcquireRead, ReadUnless, ScanGroup, EndCallback, EndCollection,
       vars, registryVars
  <2> QED
    BY <1>1, <2>1, AllJoined DEF ShutdownReturns, ReturnPast, samplerVars, Running
<1>2. IInv /\ [Next]_vars =>
          [call = "join" /\ call' # "join" => \A c \in Collectors : ~Running(c)']_vars
  BY <1>1
<1> QED
  BY <1>2, Invariance, PTL DEF Spec, ShutdownLeavesNoThread

(* From the first join of shutdown on, no sampling thread begins a pass.   *)
THEOREM NoPassWhileJoining == Spec => NoPassBeginsWhileJoining
<1>1. ASSUME IInv, [Next]_vars, call = "join" PROVE pass' = pass
  <2>1. ASSUME NEW c \in Collectors, BeginPass(c) PROVE FALSE
    <3>1. \E k \in DOMAIN entries : entries[k] = c
      BY <2>1, <1>1 DEF BeginPass, BeginPassWith, IInv, OwnershipInv, ThreadsAreOwned, Running
    <3> QED
      BY <2>1, <3>1, <1>1 DEF BeginPass, BeginPassWith, IInv, OwnershipInv, StopsAreStored
  <2> QED
    BY <1>1, <2>1 DEF Next, AddSkips, AddBegins, AddStep, RegisterItem, Spawn, StartThread, SpawnFails,
       ShutdownCalled, ShutdownFrom, ShutdownStep, StoreStop, StopsStored, JoinsBegin, JoinEntry, TakeHandle, ShutdownReturns, ReturnPast,
       SamplerStep, Exit, CollectGroup, EndCollect, AcquireWrite, TakeWriteLock, Swap,
       StartCollection, CallbackStep, AcquireRead, ReadUnless, ScanGroup, EndCallback, EndCollection,
       vars, samplerVars
<1>2. IInv /\ [Next]_vars => [call = "join" => pass' = pass]_vars
  BY <1>1
<1> QED
  BY <1>2, Invariance, PTL DEF Spec, NoPassBeginsWhileJoining

(***************************************************************************)
(* Refinement: MetricsFramework implements PublishedSnapshots              *)
(***************************************************************************)
LEMMA RefinementInit == Init => Snapshots!Init
  BY DEF Init, Snapshots!Init, Published, ModeOf

LEMMA RefinementStep == IInv /\ [Next]_vars => [Snapshots!Next]_(Snapshots!vars)
<1> SUFFICES ASSUME IInv, [Next]_vars PROVE [Snapshots!Next]_(Snapshots!vars)
  OBVIOUS
<1> DEFINE ver == [c \in Collectors |-> Published(c)]
           mode == [c \in Collectors |-> ModeOf(c)]
<1> USE DEF IInv
<1>1. ASSUME UNCHANGED <<cache, delivered>>,
             \A c \in Collectors : Published(c)' = Published(c) /\ ModeOf(c)' = ModeOf(c)
      PROVE UNCHANGED Snapshots!vars
  BY <1>1 DEF Snapshots!vars
<1>2. CASE UNCHANGED <<cache, stop, spc, pass, delivered>>
  BY <1>1, <1>2 DEF Published, ModeOf
<1>3. CASE Spawn
  <2>1. spc[adding] = "none" /\ UNCHANGED <<cache, stop, pass, delivered>>
    BY <1>3 DEF Spawn, StartThread, sharedVars, readerVars, OwnershipInv, FreshHaveNoThread
  <2>2. spc' = [spc EXCEPT ![adding] = "check"]
    BY <1>3 DEF Spawn, StartThread, sharedVars
  <2> QED
    BY <1>1, <2>1, <2>2 DEF TypeOK, Published, ModeOf
<1>4. CASE StoreStop
  <2>1. PICK c \in Collectors : c = entries[next]
    BY <1>4 DEF StoreStop, TypeOK
  <2>2. UNCHANGED <<cache, spc, pass, delivered>> /\ stop' = [stop EXCEPT ![c] = TRUE]
    BY <1>4, <2>1 DEF StoreStop, samplerVars, readerVars
  <2>3. CASE stop[c]
    BY <1>2, <2>2, <2>3 DEF TypeOK
  <2>4. CASE ~stop[c]
    <3>1. \A d \in Collectors : Published(d)' = Published(d)
      BY <2>2 DEF Published
    <3>2. \A d \in Collectors : d # c => ModeOf(d)' = ModeOf(d)
      BY <2>2 DEF ModeOf, TypeOK
    <3>3. ModeOf(c) = "open" /\ ModeOf(c)' \in {"last", "quiet"}
      BY <2>1, <2>2, <2>4 DEF ModeOf, TypeOK
    <3>4. mode' = [mode EXCEPT ![c] = ModeOf(c)']
      <4>1. \A d \in Collectors : ModeOf(d)' = IF d = c THEN ModeOf(c)' ELSE ModeOf(d)
        BY <3>2
      <4> QED
        BY <4>1
    <3>5. mode[c] = "open"
      BY <2>1, <3>3
    <3>6. ver' = ver
      BY <3>1
    <3>7. Snapshots!Stop(c)
      BY <2>2, <3>3, <3>4, <3>5, <3>6 DEF Snapshots!Stop
    <3> QED
      BY <2>1, <3>7 DEF Snapshots!Next
  <2> QED
    BY <2>3, <2>4
<1>5. ASSUME NEW c \in Collectors, Exit(c) \/ BeginPass(c) \/ EndCollect(c) \/ AcquireWrite(c)
      PROVE UNCHANGED Snapshots!vars
  <2>1. UNCHANGED <<cache, stop, delivered>>
    BY <1>5 DEF Exit, BeginPass, BeginPassWith, EndCollect, AcquireWrite, TakeWriteLock, sharedVars, readerVars
  <2>2. ASSUME NEW d \in Collectors PROVE Published(d)' = Published(d) /\ ModeOf(d)' = ModeOf(d)
    BY <1>5 DEF Exit, BeginPass, BeginPassWith, EndCollect, AcquireWrite, TakeWriteLock, sharedVars, Published, ModeOf, TypeOK
  <2> QED
    BY <1>1, <2>1, <2>2
<1>6. ASSUME NEW c \in Collectors, Swap(c) PROVE Snapshots!Publish(c)
  <2>1. /\ UNCHANGED <<stop, pass, delivered>>
        /\ spc[c] = "swap" /\ spc' = [spc EXCEPT ![c] = "check"]
        /\ cache' = [cache EXCEPT ![c] = scratch[c]]
    BY <1>6 DEF Swap, readerVars
  <2>2. pass[c] \in Nat \ {0}
    BY <2>1 DEF SnapshotInv, ScratchHoldsOnePass, TypeOK
  <2>3. Published(c) = pass[c] - 1 /\ Published(c)' = pass[c]
    BY <2>1 DEF Published, TypeOK
  <2>4. \A d \in Collectors : d # c => Published(d)' = Published(d) /\ ModeOf(d)' = ModeOf(d)
    BY <2>1 DEF Published, ModeOf, TypeOK
  <2>5. ver' = [ver EXCEPT ![c] = ver[c] + 1]
    <3>1. \A d \in Collectors : Published(d)' = IF d = c THEN Published(c) + 1 ELSE Published(d)
      BY <2>2, <2>3, <2>4
    <3> QED
      BY <3>1
  <2>6. ModeOf(c) # "quiet" /\ ModeOf(c)' = IF ModeOf(c) = "last" THEN "quiet" ELSE ModeOf(c)
    BY <2>1 DEF ModeOf, TypeOK
  <2>7. mode[c] # "quiet" /\ mode' = [mode EXCEPT ![c] = IF mode[c] = "last" THEN "quiet" ELSE mode[c]]
    BY <2>4, <2>6
  <2>8. cache'[c] \in Seq(Snapshots!GroupsOfPass(ver[c] + 1))
    <3>1. cache'[c] = scratch[c] /\ ver[c] + 1 = pass[c]
      BY <2>1, <2>2, <2>3 DEF TypeOK
    <3>2. \A k \in DOMAIN scratch[c] : scratch[c][k] \in Snapshots!GroupsOfPass(pass[c])
      <4> SUFFICES ASSUME NEW k \in DOMAIN scratch[c]
                   PROVE scratch[c][k] \in Snapshots!GroupsOfPass(pass[c])
        OBVIOUS
      <4>1. scratch[c][k] \in SampleGroup /\ scratch[c][k].pass = pass[c]
        BY <2>1 DEF TypeOK, SnapshotInv, ScratchHoldsOnePass
      <4> QED
        BY <4>1 DEF SampleGroup, Snapshots!GroupsOfPass
    <3>3. scratch[c] \in Seq(SampleGroup)
      BY DEF TypeOK
    <3>4. scratch[c] \in Seq(Snapshots!GroupsOfPass(pass[c]))
      BY <3>2, <3>3
    <3> QED
      BY <3>1, <3>4
  <2>9. cache' = [cache EXCEPT ![c] = cache'[c]]
    BY <2>1 DEF TypeOK
  <2> QED
    BY <2>1, <2>5, <2>7, <2>8, <2>9 DEF Snapshots!Publish
<1>7. ASSUME NEW c \in Collectors, CollectGroup(c) PROVE UNCHANGED <<cache, stop, spc, pass, delivered>>
  BY <1>7 DEF CollectGroup, sharedVars, readerVars
<1>8. ASSUME NEW r \in Readers, EndCallback(r)
      PROVE \E c \in Collectors : \E item \in Items[c] : Snapshots!Deliver(r, c, item)
  <2> DEFINE c == cur[r].owner
             item == cur[r].item
  <2>1. /\ UNCHANGED <<cache, stop, spc, pass>> /\ rpc[r] = "scan" /\ at[r] > Len(cache[c])
        /\ delivered' = [delivered EXCEPT ![r] = [owner |-> c, item |-> item, points |-> seen[r]]]
    BY <1>8 DEF EndCallback, Groups, sharedVars, samplerVars
  <2>2. c \in Collectors /\ item \in Items[c]
    BY <2>1 DEF TypeOK, Callback
  <2>3. at[r] \in Nat /\ at[r] <= Len(cache[c]) + 1 /\ Len(cache[c]) \in Nat
    BY <2>1, <2>2 DEF TypeOK, LockInv, ScanIsOfOneSnapshot, Groups
  <2>4. at[r] - 1 = Len(cache[c])
    BY <2>1, <2>3
  <2>5. seen[r] = ObservedUpTo(item, cache[c], Len(cache[c]))
    BY <2>1, <2>4 DEF LockInv, ScanIsOfOneSnapshot, Groups
  <2>6. seen[r] = Snapshots!Observed(item, cache[c])
    BY <2>5 DEF ObservedUpTo, Reports, NumberObserved, Snapshots!Observed,
       Snapshots!ObservedUpTo, Snapshots!Reports, Snapshots!NumberObserved
  <2>7. ver' = ver /\ mode' = mode
    BY <2>1 DEF Published, ModeOf
  <2>8. Snapshots!Deliver(r, c, item)
    BY <2>1, <2>6, <2>7 DEF Snapshots!Deliver
  <2> QED
    BY <2>2, <2>8
<1>9. ASSUME NEW r \in Readers,
             StartCollection(r) \/ AcquireRead(r) \/ ScanGroup(r) \/ EndCollection(r)
      PROVE UNCHANGED <<cache, stop, spc, pass, delivered>>
  BY <1>9 DEF StartCollection, AcquireRead, ReadUnless, ScanGroup, EndCollection, sharedVars, samplerVars
<1>10. ASSUME ~Spawn, ~StoreStop, \A c \in Collectors : ~SamplerStep(c),
              \A r \in Readers : ~StartCollection(r) /\ ~CallbackStep(r)
       PROVE UNCHANGED <<cache, stop, spc, pass, delivered>>
  BY <1>10 DEF Next, AddSkips, AddBegins, AddStep, RegisterItem, SpawnFails,
     ShutdownCalled, ShutdownFrom, ShutdownStep, StopsStored, JoinsBegin, JoinEntry, TakeHandle, ShutdownReturns, ReturnPast,
     vars, sharedVars, samplerVars, readerVars
<1> QED
  BY <1>2, <1>3, <1>4, <1>5, <1>6, <1>7, <1>8, <1>9, <1>10
  DEF SamplerStep, CallbackStep, Snapshots!Next

(* The threads, locks and swapped buffers of the framework implement the   *)
(* snapshots it promises.                                                  *)
THEOREM Refinement == Spec => ImplementsSnapshots
  BY RefinementInit, RefinementStep, Invariance, PTL
  DEF Spec, ImplementsSnapshots, Snapshots!Spec
(***************************************************************************)
(* A shutdown has only so much left to do                                  *)
(***************************************************************************)
(* The steps a sampling thread has left when its flag is set, at most.     *)
StepsLeft(c) ==
    CASE spc[c] = "collect" -> MaxGroups - Len(scratch[c]) + 4
      [] spc[c] = "write" -> 3
      [] spc[c] = "swap" -> 2
      [] spc[c] = "check" -> 1
      [] OTHER -> 0

StoppedRunsOut ==
    \A c \in Collectors : stop[c] =>
        /\ stop'[c]
        /\ IF SamplerStep(c) THEN StepsLeft(c)' < StepsLeft(c)
           ELSE Running(c) => StepsLeft(c)' = StepsLeft(c)

(* The steps the two loops of shutdown have left.                          *)
TurnsLeft ==
    CASE call = "stop" -> (Len(entries) - next) + Len(entries) + 3
      [] call = "join" -> (Len(entries) - next) + 2
      [] OTHER -> 0

ShutdownAdvances ==
    call \in {"stop", "join"} =>
        IF ShutdownStep THEN TurnsLeft' < TurnsLeft ELSE TurnsLeft' = TurnsLeft

(* The steps a scan has left.                                              *)
ScanLeft(r) == IF rpc[r] = "scan" THEN Len(Groups(r)) - at[r] + 2 ELSE 0

ScansRunOut ==
    \A r \in Readers : rpc[r] = "scan" =>
        IF CallbackStep(r) THEN ScanLeft(r)' < ScanLeft(r) ELSE ScanLeft(r)' = ScanLeft(r)

(* Whom a writer waits for: only those that scanned when it came.          *)
WriterIsNext ==
    \A c \in Collectors : spc[c] = "write" =>
        \A r \in Readers : Scanning(r, c)' => Scanning(r, c)

(***************************************************************************)
(* The types of these counts                                               *)
(***************************************************************************)
CollectsHaveRoom == \A c \in Collectors : spc[c] = "collect" => Len(scratch[c]) <= MaxGroups

LoopsAreInside == call \in {"stop", "join"} => next <= Len(entries) + 1

LEMMA RoomStep == TypeOK /\ CollectsHaveRoom /\ [Next]_vars => CollectsHaveRoom'
<1> SUFFICES ASSUME TypeOK, CollectsHaveRoom, [Next]_vars,
                    NEW d \in Collectors, spc'[d] = "collect"
             PROVE  Len(scratch'[d]) <= MaxGroups
  BY DEF CollectsHaveRoom
<1> USE DEF samplerVars
<1>1. ASSUME UNCHANGED samplerVars PROVE Len(scratch'[d]) <= MaxGroups
  BY <1>1 DEF CollectsHaveRoom
<1>2. CASE Spawn
  BY <1>2 DEF Spawn, StartThread, CollectsHaveRoom, TypeOK
<1>3. ASSUME NEW c \in Collectors, SamplerStep(c) PROVE Len(scratch'[d]) <= MaxGroups
  <2>1. CASE c # d
    <3>1. spc'[d] = spc[d] /\ scratch'[d] = scratch[d]
      BY <1>3, <2>1 DEF SamplerStep, Exit, BeginPass, BeginPassWith, CollectGroup, EndCollect,
         AcquireWrite, TakeWriteLock, Swap, TypeOK
    <3> QED
      BY <3>1 DEF CollectsHaveRoom
  <2>2. CASE c = d /\ BeginPass(c)
    <3>1. scratch'[d] = <<>>
      BY <2>2 DEF BeginPass, BeginPassWith, TypeOK
    <3> QED
      BY <3>1, BoundsAssumption
  <2>3. CASE c = d /\ CollectGroup(c)
    <3>1. PICK g : scratch'[d] = Append(scratch[d], g) /\ Len(scratch[d]) < MaxGroups
      BY <2>3 DEF CollectGroup, TypeOK
    <3>2. scratch[d] \in Seq(SampleGroup)
      BY DEF TypeOK
    <3>3. Len(Append(scratch[d], g)) = Len(scratch[d]) + 1 /\ Len(scratch[d]) \in Nat
      BY <3>2
    <3> QED
      BY <3>1, <3>3, BoundsAssumption
  <2>4. CASE c = d /\ (Exit(c) \/ EndCollect(c) \/ AcquireWrite(c) \/ Swap(c))
    BY <2>4 DEF Exit, EndCollect, AcquireWrite, TakeWriteLock, Swap, TypeOK
  <2> QED
    BY <1>3, <2>1, <2>2, <2>3, <2>4 DEF SamplerStep
<1>4. ASSUME [Next]_vars, ~Spawn, \A c \in Collectors : ~SamplerStep(c)
      PROVE UNCHANGED samplerVars
  BY <1>4 DEF Next, AddSkips, AddBegins, AddStep, RegisterItem, SpawnFails,
     ShutdownCalled, ShutdownFrom, ShutdownStep, StoreStop, StopsStored, JoinsBegin, JoinEntry,
     TakeHandle, ShutdownReturns, ReturnPast, StartCollection, CallbackStep, AcquireRead,
     ReadUnless, ScanGroup, EndCallback, EndCollection, vars
<1> QED
  BY <1>1, <1>2, <1>3, <1>4

LEMMA OthersKeepRegistry ==
    [Next]_vars /\ call \in {"stop", "join"} /\ ~ShutdownStep => UNCHANGED registryVars
  BY DEF Next, AddSkips, AddBegins, AddStep, RegisterItem, Spawn, StartThread, SpawnFails,
     ShutdownCalled, ShutdownFrom, SamplerStep,
     Exit, BeginPass, BeginPassWith, CollectGroup, EndCollect, AcquireWrite, TakeWriteLock, Swap,
     StartCollection, CallbackStep, AcquireRead, ReadUnless, ScanGroup, EndCallback, EndCollection,
     vars

LEMMA LoopsStep == TypeOK /\ LoopsAreInside /\ [Next]_vars => LoopsAreInside'
<1> SUFFICES ASSUME TypeOK, LoopsAreInside, [Next]_vars PROVE LoopsAreInside'
  OBVIOUS
<1>1. Len(entries) \in Nat /\ next \in Nat
  BY DEF TypeOK
<1>2. CASE ShutdownStep
  BY <1>1, <1>2 DEF ShutdownStep, StoreStop, StopsStored, JoinsBegin, JoinEntry, TakeHandle,
     ShutdownReturns, ReturnPast, LoopsAreInside
<1>3. CASE call \in {"stop", "join"} /\ ~ShutdownStep
  BY <1>3, OthersKeepRegistry DEF LoopsAreInside, registryVars
<1>4. ASSUME call \notin {"stop", "join"}, call' \in {"stop", "join"}
      PROVE  next' = 1 /\ entries' = entries
  BY <1>4 DEF Next, AddSkips, AddBegins, AddStep, RegisterItem, Spawn, StartThread, SpawnFails,
     ShutdownCalled, ShutdownFrom, ShutdownStep, StoreStop, StopsStored, JoinsBegin, JoinEntry,
     TakeHandle, ShutdownReturns, ReturnPast, SamplerStep,
     Exit, BeginPass, BeginPassWith, CollectGroup, EndCollect, AcquireWrite, TakeWriteLock, Swap,
     StartCollection, CallbackStep, AcquireRead, ReadUnless, ScanGroup, EndCallback, EndCollection,
     vars, registryVars
<1> QED
  BY <1>1, <1>2, <1>3, <1>4 DEF LoopsAreInside

LEMMA StepsLeftType ==
    ASSUME TypeOK, CollectsHaveRoom, NEW c \in Collectors
    PROVE  StepsLeft(c) \in 0 .. MaxGroups + 4
<1>1. Len(scratch[c]) \in Nat
  BY DEF TypeOK
<1> QED
  BY <1>1, BoundsAssumption DEF StepsLeft, CollectsHaveRoom

LEMMA TurnsLeftType == TypeOK /\ LoopsAreInside => TurnsLeft \in 0 .. 2 * Len(entries) + 2
<1> SUFFICES ASSUME TypeOK, LoopsAreInside PROVE TurnsLeft \in 0 .. 2 * Len(entries) + 2
  OBVIOUS
<1>1. Len(entries) \in Nat /\ next \in Nat \ {0}
  BY DEF TypeOK
<1> QED
  BY <1>1 DEF TurnsLeft, LoopsAreInside

LEMMA ScanLeftType ==
    ASSUME IInv, NEW r \in Readers
    PROVE  ScanLeft(r) \in Nat
<1>1. CASE rpc[r] = "scan"
  <2>1. cur[r] \in Callback
    BY <1>1 DEF IInv, TypeOK
  <2>2. Groups(r) \in Seq(SampleGroup)
    BY <2>1 DEF Groups, Callback, IInv, TypeOK
  <2>3. at[r] \in Nat /\ at[r] <= Len(Groups(r)) + 1
    BY <1>1 DEF IInv, TypeOK, LockInv, ScanIsOfOneSnapshot
  <2> QED
    BY <1>1, <2>2, <2>3 DEF ScanLeft
<1> QED
  BY <1>1 DEF ScanLeft

(***************************************************************************)
(* The counts go down                                                      *)
(***************************************************************************)
LEMMA StoppedStep == IInv /\ CollectsHaveRoom /\ [Next]_vars => StoppedRunsOut
<1> SUFFICES ASSUME IInv, CollectsHaveRoom, [Next]_vars, NEW c \in Collectors, stop[c]
             PROVE  /\ stop'[c]
                    /\ IF SamplerStep(c) THEN StepsLeft(c)' < StepsLeft(c)
                       ELSE Running(c) => StepsLeft(c)' = StepsLeft(c)
  BY DEF StoppedRunsOut
<1>1. TypeOK
  BY DEF IInv
<1>2. stop'[c]
  <2>1. CASE StoreStop
    BY <1>1, <2>1 DEF StoreStop, TypeOK
  <2>2. ASSUME ~StoreStop PROVE UNCHANGED stop
    BY <2>2 DEF Next, AddSkips, AddBegins, AddStep, RegisterItem, Spawn, StartThread, SpawnFails,
       ShutdownCalled, ShutdownFrom, ShutdownStep, StopsStored, JoinsBegin, JoinEntry,
       TakeHandle, ShutdownReturns, ReturnPast, SamplerStep,
       Exit, BeginPass, BeginPassWith, CollectGroup, EndCollect, AcquireWrite, TakeWriteLock, Swap,
       StartCollection, CallbackStep, AcquireRead, ReadUnless, ScanGroup, EndCallback,
       EndCollection, vars, sharedVars
  <2> QED
    BY <2>1, <2>2
<1>3. ASSUME SamplerStep(c) PROVE StepsLeft(c)' < StepsLeft(c)
  <2>1. Len(scratch[c]) \in Nat /\ MaxGroups \in Nat
    BY <1>1, BoundsAssumption DEF TypeOK
  <2>2. CASE CollectGroup(c)
    <3>1. PICK g : /\ scratch'[c] = Append(scratch[c], g) /\ Len(scratch[c]) < MaxGroups
                   /\ spc[c] = "collect" /\ spc'[c] = "collect"
      BY <1>1, <2>2 DEF CollectGroup, TypeOK
    <3>2. scratch[c] \in Seq(SampleGroup)
      BY <1>1 DEF TypeOK
    <3>3. Len(scratch'[c]) = Len(scratch[c]) + 1
      BY <3>1, <3>2
    <3> QED
      BY <2>1, <3>1, <3>3 DEF StepsLeft
  <2>3. CASE EndCollect(c)
    <3>1. spc[c] = "collect" /\ spc'[c] = "write" /\ Len(scratch[c]) <= MaxGroups
      BY <1>1, <2>3 DEF EndCollect, TypeOK, CollectsHaveRoom
    <3> QED
      BY <2>1, <3>1 DEF StepsLeft
  <2>4. CASE Exit(c) \/ AcquireWrite(c) \/ Swap(c)
    <3>1. \/ spc[c] = "check" /\ spc'[c] = "done"
          \/ spc[c] = "write" /\ spc'[c] = "swap"
          \/ spc[c] = "swap" /\ spc'[c] = "check"
      BY <1>1, <2>4 DEF Exit, AcquireWrite, TakeWriteLock, Swap, TypeOK
    <3> QED
      BY <3>1 DEF StepsLeft
  <2>5. ~BeginPass(c)
    BY DEF BeginPass, BeginPassWith
  <2> QED
    BY <1>3, <2>2, <2>3, <2>4, <2>5 DEF SamplerStep
<1>4. ASSUME ~SamplerStep(c), Running(c) PROVE StepsLeft(c)' = StepsLeft(c)
  <2>1. spc'[c] = spc[c] /\ scratch'[c] = scratch[c]
    <3>1. CASE Spawn
      BY <1>1, <1>4, <3>1 DEF Spawn, StartThread, Running, IInv, OwnershipInv,
         FreshHaveNoThread, TypeOK
    <3>2. ASSUME NEW d \in Collectors, SamplerStep(d) PROVE spc'[c] = spc[c] /\ scratch'[c] = scratch[c]
      BY <1>1, <1>4, <3>2 DEF SamplerStep, Exit, BeginPass, BeginPassWith, CollectGroup, EndCollect,
         AcquireWrite, TakeWriteLock, Swap, TypeOK
    <3>3. ASSUME ~Spawn, \A d \in Collectors : ~SamplerStep(d) PROVE UNCHANGED samplerVars
      BY <3>3 DEF Next, AddSkips, AddBegins, AddStep, RegisterItem, SpawnFails,
         ShutdownCalled, ShutdownFrom, ShutdownStep, StoreStop, StopsStored, JoinsBegin, JoinEntry,
         TakeHandle, ShutdownReturns, ReturnPast, StartCollection, CallbackStep, AcquireRead,
         ReadUnless, ScanGroup, EndCallback, EndCollection, vars
    <3> QED
      BY <3>1, <3>2, <3>3 DEF samplerVars
  <2> QED
    BY <2>1 DEF StepsLeft
<1> QED
  BY <1>2, <1>3, <1>4

LEMMA ShutdownAdvancesStep == TypeOK /\ LoopsAreInside /\ [Next]_vars => ShutdownAdvances
<1> SUFFICES ASSUME TypeOK, LoopsAreInside, [Next]_vars, call \in {"stop", "join"}
             PROVE  IF ShutdownStep THEN TurnsLeft' < TurnsLeft ELSE TurnsLeft' = TurnsLeft
  BY DEF ShutdownAdvances
<1>1. Len(entries) \in Nat /\ next \in Nat /\ next <= Len(entries) + 1
  BY DEF TypeOK, LoopsAreInside
<1>2. ASSUME StoreStop \/ JoinEntry PROVE TurnsLeft' < TurnsLeft
  <2>1. next' = next + 1 /\ UNCHANGED <<call, entries>>
    BY <1>2 DEF StoreStop, JoinEntry, TakeHandle
  <2> QED
    BY <1>1, <2>1 DEF TurnsLeft
<1>3. ASSUME StopsStored PROVE TurnsLeft' < TurnsLeft
  BY <1>1, <1>3 DEF StopsStored, JoinsBegin, TurnsLeft
<1>4. ASSUME ShutdownReturns PROVE TurnsLeft' < TurnsLeft
  BY <1>1, <1>4 DEF ShutdownReturns, ReturnPast, TurnsLeft
<1>5. ASSUME ~ShutdownStep PROVE TurnsLeft' = TurnsLeft
  BY <1>5, OthersKeepRegistry DEF TurnsLeft, registryVars
<1> QED
  BY <1>2, <1>3, <1>4, <1>5 DEF ShutdownStep

LEMMA ScansStep == IInv /\ [Next]_vars => ScansRunOut
<1> SUFFICES ASSUME IInv, [Next]_vars, NEW r \in Readers, rpc[r] = "scan"
             PROVE  IF CallbackStep(r) THEN ScanLeft(r)' < ScanLeft(r)
                    ELSE ScanLeft(r)' = ScanLeft(r)
  BY DEF ScansRunOut
<1>1. /\ TypeOK /\ LockInv
      /\ cur[r] \in Callback /\ at[r] \in Nat /\ at[r] <= Len(Groups(r)) + 1
      /\ Len(Groups(r)) \in Nat
  <2>1. cur[r] \in Callback
    BY DEF IInv, TypeOK
  <2>2. Groups(r) \in Seq(SampleGroup)
    BY <2>1 DEF Groups, Callback, IInv, TypeOK
  <2> QED
    BY <2>1, <2>2 DEF IInv, TypeOK, LockInv, ScanIsOfOneSnapshot
<1>2. ASSUME ScanGroup(r) PROVE ScanLeft(r)' < ScanLeft(r)
  <2>1. /\ rpc'[r] = "scan" /\ cur'[r] = cur[r] /\ cache' = cache /\ at'[r] = at[r] + 1
    BY <1>1, <1>2 DEF ScanGroup, sharedVars, TypeOK
  <2> QED
    BY <1>1, <2>1 DEF ScanLeft, Groups
<1>3. ASSUME EndCallback(r) PROVE ScanLeft(r)' < ScanLeft(r)
  <2>1. rpc'[r] = "call"
    BY <1>1, <1>3 DEF EndCallback, TypeOK
  <2> QED
    BY <1>1, <2>1 DEF ScanLeft
<1>4. ~AcquireRead(r) /\ ~EndCollection(r)
  BY DEF AcquireRead, ReadUnless, EndCollection
<1>5. ASSUME ~CallbackStep(r) PROVE ScanLeft(r)' = ScanLeft(r)
  <2>1. rpc'[r] = rpc[r] /\ cur'[r] = cur[r] /\ at'[r] = at[r]
    <3>1. ASSUME NEW s \in Readers, StartCollection(s) \/ CallbackStep(s)
          PROVE rpc'[r] = rpc[r] /\ cur'[r] = cur[r] /\ at'[r] = at[r]
      <4>1. s # r
        BY <1>5, <3>1 DEF StartCollection
      <4> QED
        BY <1>1, <3>1, <4>1 DEF StartCollection, CallbackStep, AcquireRead, ReadUnless, ScanGroup,
           EndCallback, EndCollection, TypeOK
    <3>2. ASSUME \A s \in Readers : ~StartCollection(s) /\ ~CallbackStep(s)
          PROVE  UNCHANGED readerVars
      BY <3>2 DEF Next, AddSkips, AddBegins, AddStep, RegisterItem, Spawn, StartThread, SpawnFails,
         ShutdownCalled, ShutdownFrom, ShutdownStep, StoreStop, StopsStored, JoinsBegin, JoinEntry,
         TakeHandle, ShutdownReturns, ReturnPast, SamplerStep,
         Exit, BeginPass, BeginPassWith, CollectGroup, EndCollect, AcquireWrite, TakeWriteLock,
         Swap, vars
    <3> QED
      BY <3>1, <3>2 DEF readerVars
  <2>2. cache'[cur[r].owner] = cache[cur[r].owner]
    <3>1. ASSUME NEW c \in Collectors, Swap(c) PROVE cache'[cur[r].owner] = cache[cur[r].owner]
      <4>1. cur[r].owner # c
        BY <1>1, <3>1 DEF Swap, LockInv, LockIsExclusive, Scanning
      <4> QED
        BY <1>1, <3>1, <4>1 DEF Swap, TypeOK, Callback
    <3>2. ASSUME \A c \in Collectors : ~Swap(c) PROVE UNCHANGED cache
      BY <3>2 DEF Next, AddSkips, AddBegins, AddStep, RegisterItem, Spawn, StartThread, SpawnFails,
         ShutdownCalled, ShutdownFrom, ShutdownStep, StoreStop, StopsStored, JoinsBegin, JoinEntry,
         TakeHandle, ShutdownReturns, ReturnPast, SamplerStep,
         Exit, BeginPass, BeginPassWith, CollectGroup, EndCollect, AcquireWrite, TakeWriteLock,
         StartCollection, CallbackStep, AcquireRead, ReadUnless, ScanGroup, EndCallback,
         EndCollection, vars, sharedVars
    <3> QED
      BY <3>1, <3>2
  <2> QED
    BY <2>1, <2>2 DEF ScanLeft, Groups
<1> QED
  BY <1>2, <1>3, <1>4, <1>5 DEF CallbackStep

LEMMA WriterStep == IInv /\ [Next]_vars => WriterIsNext
<1> SUFFICES ASSUME IInv, [Next]_vars, NEW c \in Collectors, spc[c] = "write",
                    NEW r \in Readers, Scanning(r, c)'
             PROVE  Scanning(r, c)
  BY DEF WriterIsNext
<1>1. TypeOK
  BY DEF IInv
<1>2. rpc'[r] = "scan" /\ cur'[r].owner = c
  BY DEF Scanning
<1>3. ASSUME NEW s \in Readers, AcquireRead(s) PROVE Scanning(r, c)
  <2>1. PICK cb \in todo[s] : spc[cb.owner] # "write" /\ cur' = [cur EXCEPT ![s] = cb]
                              /\ rpc' = [rpc EXCEPT ![s] = "scan"]
    BY <1>3 DEF AcquireRead, ReadUnless
  <2>2. s # r
    BY <1>1, <1>2, <2>1 DEF TypeOK
  <2> QED
    BY <1>1, <1>2, <2>1, <2>2 DEF Scanning, TypeOK
<1>4. ASSUME NEW s \in Readers,
             StartCollection(s) \/ ScanGroup(s) \/ EndCallback(s) \/ EndCollection(s)
      PROVE Scanning(r, c)
  BY <1>1, <1>2, <1>4 DEF StartCollection, ScanGroup, EndCallback, EndCollection, Scanning, TypeOK
<1>5. ASSUME \A s \in Readers : ~StartCollection(s) /\ ~CallbackStep(s)
      PROVE  UNCHANGED readerVars
  BY <1>5 DEF Next, AddSkips, AddBegins, AddStep, RegisterItem, Spawn, StartThread, SpawnFails,
     ShutdownCalled, ShutdownFrom, ShutdownStep, StoreStop, StopsStored, JoinsBegin, JoinEntry,
     TakeHandle, ShutdownReturns, ReturnPast, SamplerStep,
     Exit, BeginPass, BeginPassWith, CollectGroup, EndCollect, AcquireWrite, TakeWriteLock, Swap,
     vars
<1> QED
  BY <1>2, <1>3, <1>4, <1>5 DEF CallbackStep, readerVars, Scanning

(* What is left is never more than the comment at the theorem says.        *)
LeftIsBounded ==
    /\ \A c \in Collectors : StepsLeft(c) \in 0 .. MaxGroups + 4
    /\ TurnsLeft \in 0 .. 2 * Len(entries) + 2
    /\ \A r \in Readers : ScanLeft(r) \in Nat

(* Nothing of what a shutdown waits for can go on for ever.  A thread      *)
(* whose flag is set has at most MaxGroups + 4 steps left, the loops have  *)
(* at most twice the entries and two, a scan has the groups that are left; *)
(* each step takes one at least, no step of another thread gives any back, *)
(* and no scan begins before a writer that waits.                          *)
THEOREM ShutdownDescends ==
    Spec => /\ []LeftIsBounded
            /\ [][StoppedRunsOut /\ ShutdownAdvances /\ ScansRunOut /\ WriterIsNext]_vars
<1> DEFINE Step == StoppedRunsOut /\ ShutdownAdvances /\ ScansRunOut /\ WriterIsNext
<1>1. Init => CollectsHaveRoom /\ LoopsAreInside
  BY DEF Init, CollectsHaveRoom, LoopsAreInside
<1>2. IInv /\ CollectsHaveRoom /\ LoopsAreInside /\ [Next]_vars
      => CollectsHaveRoom' /\ LoopsAreInside'
  BY RoomStep, LoopsStep DEF IInv
<1>3. IInv /\ CollectsHaveRoom /\ LoopsAreInside => LeftIsBounded
  BY StepsLeftType, TurnsLeftType, ScanLeftType DEF IInv, LeftIsBounded
<1>4. IInv /\ CollectsHaveRoom /\ LoopsAreInside /\ [Next]_vars => [Step]_vars
  BY StoppedStep, ShutdownAdvancesStep, ScansStep, WriterStep DEF IInv
<1> QED
  BY <1>1, <1>2, <1>3, <1>4, Invariance, PTL DEF Spec
=============================================================================
