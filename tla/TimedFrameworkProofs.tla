----------------------- MODULE TimedFrameworkProofs -----------------------
(***************************************************************************)
(* Theorems about TimedFramework, for any intervals, collect times and     *)
(* lags: the clocks change nothing of what the framework does, the passes  *)
(* keep their interval, and a shutdown takes one period.                   *)
(***************************************************************************)
EXTENDS TimedFramework, MetricsFrameworkProofs

(***************************************************************************)
(* Without its clocks, every step is a step of the framework               *)
(***************************************************************************)
LEMMA TimedStepIsFrameworkStep == [TimedNext]_timedVars => [Next]_vars
<1> SUFFICES ASSUME [TimedNext]_timedVars PROVE [Next]_vars
  OBVIOUS
<1>1. ASSUME NEW c \in Collectors, TimedSamplerStep(c) PROVE SamplerStep(c)
  BY <1>1 DEF TimedSamplerStep, PassStarted, LastCheck, DuringPass, SleepRest, SleepFor, SamplerStep
<1>2. CASE Tick \/ UNCHANGED timedVars
  BY <1>2 DEF Tick, timedVars
<1> QED
  BY <1>1, <1>2 DEF TimedNext, Next

THEOREM TimedRunsFramework == TimedSpec => Spec
<1>1. TimedInit => Init
  BY DEF TimedInit
<1> QED
  BY <1>1, TimedStepIsFrameworkStep, PTL DEF TimedSpec, Spec

LEMMA TimedInvariance == TimedSpec => []IInv
  BY TimedRunsFramework, Invariance

(***************************************************************************)
(* The invariant                                                           *)
(***************************************************************************)

(* Where a thread is between two passes: a pass has no sleep and takes     *)
(* MaxCollect at most; the time since it began and what is left of the     *)
(* sleep behind it add up to a time between the interval and the period.   *)
Paced(c) ==
    /\ spc[c] = "none" => pass[c] = 0
    /\ pass[c] = 0 => nap[c] = 0
    /\ spc[c] \in {"collect", "write", "swap"} =>
           pass[c] > 0 /\ nap[c] = 0 /\ age[c] <= MaxCollect
    /\ spc[c] = "check" /\ pass[c] > 0 => age[c] + nap[c] \in Interval[c]..Period(c)

(* While shutdown joins, no running thread has begun a pass since: each    *)
(* began its last one before the joins did.                                *)
WaitsOverlapPasses ==
    /\ call = "stop" => waited = 0
    /\ call = "join" => \A c \in Collectors : Running(c) /\ pass[c] > 0 => waited <= age[c]

TimedInv ==
    /\ ClocksTypeOK
    /\ \A c \in Collectors : Paced(c)
    /\ WaitsOverlapPasses
    /\ ShutdownTakesOnePeriod

LEMMA TimedInvInit == TimedInit => TimedInv
  BY DEF TimedInit, Init, TimedInv, ClocksTypeOK, Paced, WaitsOverlapPasses, ShutdownTakesOnePeriod

LEMMA PeriodIsTime ==
    \A c \in Collectors :
        /\ Interval[c] \in Nat /\ Period(c) \in Nat
        /\ MaxCollect <= Period(c) /\ Interval[c] + MaxLag <= Period(c)
  BY TimesAssumption DEF Period, Longer

(* A step that leaves the threads alone, and the joins or the clock of the *)
(* joins, keeps the invariant.                                             *)
LEMMA QuietStep ==
    ASSUME TimedInv,
           UNCHANGED <<spc, pass, age, nap>>,
           waited' \in {0, waited},
           call' = "stop" => waited' = 0,
           call' = "join" => call = "join" \/ waited' = 0
    PROVE  TimedInv'
<1>1. ClocksTypeOK'
  BY DEF TimedInv, ClocksTypeOK
<1>2. \A c \in Collectors : Paced(c)'
  BY DEF TimedInv, Paced, Period, Longer
<1>3. WaitsOverlapPasses'
  BY DEF TimedInv, ClocksTypeOK, WaitsOverlapPasses, Running
<1>4. ShutdownTakesOnePeriod'
  BY DEF TimedInv, ShutdownTakesOnePeriod, Period, Longer
<1> QED
  BY <1>1, <1>2, <1>3, <1>4 DEF TimedInv

(* No thread begins a pass while shutdown joins: its flag has been set.    *)
LEMMA NoPassInJoin ==
    ASSUME IInv, NEW c \in Collectors, PassStarted(c)
    PROVE  call # "join"
<1>1. \E k \in DOMAIN entries : entries[k] = c
  BY DEF PassStarted, BeginPass, BeginPassWith, IInv, OwnershipInv, ThreadsAreOwned, Running
<1> QED
  BY <1>1 DEF PassStarted, BeginPass, BeginPassWith, IInv, OwnershipInv, StopsAreStored

(* A step of one sampling thread keeps the invariant.                      *)
LEMMA SamplerKeepsTime ==
    ASSUME IInv, TimedInv, NEW c \in Collectors, TimedSamplerStep(c)
    PROVE  TimedInv'
<1> USE DEF registryVars, sharedVars, samplerVars, readerVars, clocks
<1>1. /\ spc \in [Collectors -> {"none", "check", "collect", "write", "swap", "done"}]
      /\ pass \in [Collectors -> Nat]
      /\ age \in [Collectors -> Nat] /\ nap \in [Collectors -> Nat] /\ waited \in Nat
  BY DEF IInv, TypeOK, TimedInv, ClocksTypeOK
<1>2. /\ Interval[c] \in Nat /\ Period(c) \in Nat /\ MaxCollect \in Nat /\ MaxLag \in Nat
      /\ MaxCollect <= Period(c) /\ Interval[c] + MaxLag <= Period(c)
  BY PeriodIsTime, TimesAssumption
<1>3. UNCHANGED <<call, waited>>
  BY DEF TimedSamplerStep, PassStarted, BeginPass, BeginPassWith, LastCheck, Exit, DuringPass,
     CollectGroup, EndCollect, AcquireWrite, TakeWriteLock, SleepRest, SleepFor, Swap
<1>4. ASSUME NEW d \in Collectors, d # c
      PROVE  spc'[d] = spc[d] /\ pass'[d] = pass[d] /\ age'[d] = age[d] /\ nap'[d] = nap[d]
  BY <1>1, <1>4 DEF TimedSamplerStep, PassStarted, BeginPass, BeginPassWith, LastCheck, Exit, DuringPass,
     CollectGroup, EndCollect, AcquireWrite, TakeWriteLock, SleepRest, SleepFor, Swap
<1>5. ASSUME ClocksTypeOK', Paced(c)',
             call = "join" => Running(c) /\ (pass'[c] > 0 => pass[c] > 0 /\ age'[c] = age[c])
      PROVE  TimedInv'
  <2>1. \A d \in Collectors : Paced(d)'
    <3> SUFFICES ASSUME NEW d \in Collectors, d # c PROVE Paced(d)'
      BY <1>5
    <3>1. Paced(d)
      BY DEF TimedInv
    <3> QED
      BY <1>4, <3>1 DEF Paced, Period, Longer
  <2>2. WaitsOverlapPasses'
    BY <1>3, <1>4, <1>5 DEF TimedInv, WaitsOverlapPasses, Running
  <2>3. ShutdownTakesOnePeriod'
    BY <1>3 DEF TimedInv, ShutdownTakesOnePeriod, Period, Longer
  <2> QED
    BY <1>5, <2>1, <2>2, <2>3 DEF TimedInv
<1>6. CASE PassStarted(c)
  <2>1. /\ spc' = [spc EXCEPT ![c] = "collect"] /\ pass' = [pass EXCEPT ![c] = @ + 1]
        /\ age' = [age EXCEPT ![c] = 0] /\ nap' = nap /\ nap[c] = 0
    BY <1>6 DEF PassStarted, BeginPass, BeginPassWith
  <2>2. ClocksTypeOK' /\ Paced(c)'
    BY <1>1, <1>2, <1>3, <2>1 DEF ClocksTypeOK, Paced
  <2>3. call # "join"
    BY <1>6, NoPassInJoin
  <2> QED
    BY <1>5, <2>2, <2>3
<1>7. CASE LastCheck(c) \/ DuringPass(c)
  <2>1. /\ UNCHANGED <<pass, age, nap>> /\ Running(c)
        /\ \/ spc[c] = "check" /\ spc'[c] = "done"
           \/ /\ spc[c] \in {"collect", "write"}
              /\ spc'[c] \in {"collect", "write", "swap"}
    BY <1>1, <1>7 DEF LastCheck, Exit, DuringPass, CollectGroup, EndCollect, AcquireWrite,
       TakeWriteLock, Running
  <2>2. ClocksTypeOK' /\ Paced(c)'
    BY <1>1, <1>3, <2>1 DEF TimedInv, ClocksTypeOK, Paced
  <2> QED
    BY <1>5, <2>1, <2>2
<1>8. CASE SleepRest(c)
  <2>1. spc[c] = "swap" /\ spc' = [spc EXCEPT ![c] = "check"] /\ UNCHANGED <<pass, age>>
    BY <1>8 DEF SleepRest, SleepFor, Swap
  <2>2. pass[c] > 0 /\ nap[c] = 0 /\ age[c] <= MaxCollect
    BY <2>1 DEF TimedInv, Paced
  <2>3. PICK lag \in 0..MaxLag : nap' = [nap EXCEPT ![c] =
            IF (IF age[c] < Interval[c] THEN Interval[c] - age[c] ELSE 0) = 0 THEN 0
            ELSE (IF age[c] < Interval[c] THEN Interval[c] - age[c] ELSE 0) + lag]
    BY <1>8 DEF SleepRest, SleepFor
  <2>4. nap'[c] = IF age[c] < Interval[c] THEN Interval[c] - age[c] + lag ELSE 0
    BY <1>1, <1>2, <2>3
  <2>5. nap'[c] \in Nat /\ age[c] + nap'[c] \in Interval[c]..Period(c)
    BY <1>1, <1>2, <2>2, <2>4
  <2>6. nap' \in [Collectors -> Nat]
    BY <1>1, <1>4, <2>3, <2>5
  <2>7. ClocksTypeOK'
    BY <1>1, <1>3, <2>1, <2>6 DEF ClocksTypeOK
  <2>8. Paced(c)'
    BY <1>1, <2>1, <2>2, <2>5 DEF Paced, Period, Longer
  <2> QED
    BY <1>5, <2>1, <2>7, <2>8 DEF Running
<1> QED
  BY <1>6, <1>7, <1>8 DEF TimedSamplerStep

(* The passing of time keeps the invariant: a thread that shutdown waits   *)
(* for is in a collect that may go on, or sleeps out its period.           *)
LEMMA TickKeepsTime == IInv /\ TimedInv /\ Tick => TimedInv'
<1> SUFFICES ASSUME IInv, TimedInv, Tick PROVE TimedInv'
  OBVIOUS
<1>1. /\ pass \in [Collectors -> Nat]
      /\ age \in [Collectors -> Nat] /\ nap \in [Collectors -> Nat] /\ waited \in Nat
  BY DEF IInv, TypeOK, TimedInv, ClocksTypeOK
<1>2. /\ UNCHANGED <<spc, pass, call>>
      /\ \A c \in Collectors :
             /\ Waits(c)
             /\ age'[c] = IF Running(c) /\ pass[c] > 0 THEN age[c] + 1 ELSE age[c]
             /\ nap'[c] = IF nap[c] > 0 THEN nap[c] - 1 ELSE 0
      /\ waited' = IF call = "join" THEN waited + 1 ELSE waited
      /\ call \in {"none", "dropped"} \/ JoinWaits
  BY DEF Tick, vars, registryVars, samplerVars
<1>3. \A c \in Collectors : Running(c) => pass[c] > 0
  BY <1>1, <1>2 DEF TimedInv, Paced, Waits, Running
<1>4. ClocksTypeOK'
  BY <1>1, <1>2 DEF Tick, ClocksTypeOK
<1>5. \A c \in Collectors : Paced(c)'
  <2> SUFFICES ASSUME NEW c \in Collectors PROVE Paced(c)'
    OBVIOUS
  <2>1. Paced(c) /\ Waits(c)
    BY <1>2 DEF TimedInv
  <2> QED
    BY <1>1, <1>2, <2>1, PeriodIsTime, TimesAssumption DEF Paced, Waits, Running, Period, Longer
<1>6. WaitsOverlapPasses'
  BY <1>1, <1>2, <1>3 DEF TimedInv, WaitsOverlapPasses, JoinWaits, Running
<1>7. ShutdownTakesOnePeriod'
  <2>1. CASE call # "join"
    BY <1>2, <2>1 DEF TimedInv, ShutdownTakesOnePeriod, Period, Longer
  <2>2. CASE call = "join"
    <3>1. PICK c \in Collectors : Running(c) /\ pass[c] > 0
      BY <1>2, <1>3, <2>2 DEF JoinWaits, IInv, TypeOK
    <3>2. waited <= age[c] /\ Paced(c) /\ Waits(c)
      BY <1>2, <2>2, <3>1 DEF TimedInv, WaitsOverlapPasses
    <3>3. waited + 1 <= Period(c)
      BY <1>1, <3>1, <3>2, PeriodIsTime, TimesAssumption DEF Paced, Waits, Running
    <3> QED
      BY <1>2, <2>2, <3>3 DEF ShutdownTakesOnePeriod, Period, Longer
  <2> QED
    BY <2>1, <2>2
<1> QED
  BY <1>4, <1>5, <1>6, <1>7 DEF TimedInv

LEMMA TimedInvStep == IInv /\ TimedInv /\ [TimedNext]_timedVars => TimedInv'
<1> SUFFICES ASSUME IInv, TimedInv, [TimedNext]_timedVars PROVE TimedInv'
  OBVIOUS
<1> USE DEF registryVars, sharedVars, samplerVars, readerVars, clocks
<1>1. CASE Tick
  BY <1>1, TickKeepsTime
<1>2. ASSUME NEW c \in Collectors, TimedSamplerStep(c) PROVE TimedInv'
  BY <1>2, SamplerKeepsTime
<1>3. ASSUME NEW c \in Collectors, (AddSkips(c) \/ AddBegins(c)) /\ UNCHANGED clocks PROVE TimedInv'
  BY <1>3, QuietStep DEF AddSkips, AddBegins
<1>4. CASE AddStep /\ UNCHANGED clocks
  <2>1. CASE Spawn
    <3>1. /\ adding \in Collectors /\ spc[adding] = "none" /\ call' = "none"
          /\ spc' = [spc EXCEPT ![adding] = "check"] /\ UNCHANGED <<pass, age, nap, waited>>
      BY <1>4, <2>1 DEF Spawn, StartThread, IInv, TypeOK, OwnershipInv, FreshHaveNoThread
    <3>2. \A c \in Collectors : Paced(c)'
      BY <3>1 DEF TimedInv, Paced, Period, Longer, IInv, TypeOK
    <3>3. ClocksTypeOK' /\ WaitsOverlapPasses' /\ ShutdownTakesOnePeriod'
      BY <3>1 DEF TimedInv, ClocksTypeOK, WaitsOverlapPasses, ShutdownTakesOnePeriod, Period, Longer
    <3> QED
      BY <3>2, <3>3 DEF TimedInv
  <2>2. CASE SpawnFails
    BY <1>4, <2>2, QuietStep DEF SpawnFails
  <2>3. ASSUME NEW item, RegisterItem(item) PROVE TimedInv'
    BY <1>4, <2>3, QuietStep DEF RegisterItem
  <2> QED
    BY <1>4, <2>1, <2>2, <2>3 DEF AddStep
<1>5. ASSUME NEW dropped \in BOOLEAN, ShutdownCalled(dropped), waited' = 0, UNCHANGED <<age, nap>>
      PROVE TimedInv'
  BY <1>5, QuietStep DEF ShutdownCalled, ShutdownFrom
<1>6. CASE ShutdownStep /\ UNCHANGED clocks
  <2>1. /\ UNCHANGED <<spc, pass, age, nap, waited>>
        /\ call' = "stop" => call = "stop"
        /\ call' = "join" => call \in {"stop", "join"}
    BY <1>6 DEF ShutdownStep, StoreStop, StopsStored, JoinsBegin, JoinEntry, TakeHandle,
       ShutdownReturns, ReturnPast
  <2> QED
    BY <2>1, QuietStep DEF TimedInv, WaitsOverlapPasses
<1>7. CASE UNCHANGED timedVars
  BY <1>7, QuietStep DEF timedVars, vars, TimedInv, WaitsOverlapPasses
<1> QED
  BY <1>1, <1>2, <1>3, <1>4, <1>5, <1>6, <1>7 DEF TimedNext

LEMMA TimedInvariant == TimedSpec => [](IInv /\ TimedInv)
<1>1. TimedSpec => []TimedInv
  BY TimedInvariance, TimedInvInit, TimedInvStep, PTL DEF TimedSpec
<1> QED
  BY <1>1, TimedInvariance, PTL

(* The clocks keep their types: whatever the interval and however slow a   *)
(* pass, the rest of the interval is never negative.                       *)
THEOREM SleepsAreNotNegative == TimedSpec => []ClocksTypeOK
<1>1. TimedInv => ClocksTypeOK
  BY DEF TimedInv
<1> QED
  BY <1>1, TimedInvariant, PTL

(* However many collectors there are, the joins of a shutdown take at most *)
(* one period of one of them.                                              *)
THEOREM ShutdownIsParallel == TimedSpec => []ShutdownTakesOnePeriod
<1>1. TimedInv => ShutdownTakesOnePeriod
  BY DEF TimedInv
<1> QED
  BY <1>1, TimedInvariant, PTL

(* The passes of every collector keep its interval, for any intervals,     *)
(* collect times and lags.                                                 *)
THEOREM PassesArePaced == TimedSpec => PassesKeepTheInterval
<1>1. ASSUME IInv, TimedInv, [TimedNext]_timedVars, NEW c \in Collectors, pass[c] > 0, pass'[c] # pass[c]
      PROVE  age[c] \in Interval[c]..Period(c)
  <2>1. PassStarted(c)
    BY <1>1 DEF TimedNext, Tick, TimedSamplerStep, PassStarted, BeginPass, BeginPassWith, LastCheck, Exit, DuringPass,
       CollectGroup, EndCollect, AcquireWrite, TakeWriteLock, SleepRest, SleepFor, Swap,
       AddSkips, AddBegins, AddStep, RegisterItem, Spawn, StartThread, SpawnFails, ShutdownCalled, ShutdownFrom,
       ShutdownStep, StoreStop, StopsStored, JoinsBegin, JoinEntry, TakeHandle, ShutdownReturns, ReturnPast,
       timedVars, vars, registryVars, sharedVars, samplerVars, IInv, TypeOK
  <2>2. spc[c] = "check" /\ nap[c] = 0 /\ Paced(c) /\ age[c] \in Nat
    BY <1>1, <2>1 DEF PassStarted, BeginPass, BeginPassWith, TimedInv, ClocksTypeOK
  <2> QED
    BY <1>1, <2>2 DEF Paced
<1>2. IInv /\ TimedInv /\ [TimedNext]_timedVars =>
          [\A c \in Collectors : pass[c] > 0 /\ pass'[c] # pass[c] => age[c] \in Interval[c]..Period(c)]_timedVars
  BY <1>1
<1> QED
  BY <1>2, TimedInvariant, PTL DEF TimedSpec, PassesKeepTheInterval
=============================================================================
