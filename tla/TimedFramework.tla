-------------------------- MODULE TimedFramework --------------------------
(***************************************************************************)
(* The pacing of the sampling threads of crates/metrics-framework/src/     *)
(* lib.rs: the steps of MetricsFramework, with the time that a pass and    *)
(* the sleep after it take.  A thread sleeps what its pass has left of the *)
(* interval and does not look at its stop flag meanwhile, so the time that *)
(* a shutdown waits in its joins depends on where every thread is.         *)
(*                                                                         *)
(* Time is discrete and passes in Tick, only while every thread waits for  *)
(* it: it sleeps, or it is in a collect that may still go on.  All other   *)
(* steps take no time.  That goes for the scans of the callbacks too, the  *)
(* only steps of readers that a sampling thread can meet, so the readers   *)
(* are left out here: MetricsFramework has them.                           *)
(***************************************************************************)
EXTENDS MetricsFramework

CONSTANTS
    Interval,    \* Collector::interval of each collector
    MaxCollect,  \* bound: the time one pass takes
    MaxLag       \* bound: the time by which a sleep ends late

ASSUME NoReaders == Readers = {}
ASSUME TimesAssumption ==
    /\ Interval \in [Collectors -> Nat]
    /\ MaxCollect \in Nat
    /\ MaxLag \in Nat

VARIABLES
    age,      \* the time since started = Instant::now() of the last pass
    nap,      \* what is left of the sleep that follows a pass
    waited    \* the time since the last call of shutdown

clocks == <<age, nap, waited>>
timedVars == <<vars, clocks>>

TimedInit ==
    /\ Init
    /\ age = [c \in Collectors |-> 0]
    /\ nap = [c \in Collectors |-> 0]
    /\ waited = 0

(***************************************************************************)
(* The loop of a sampling thread                                           *)
(***************************************************************************)
PassStarted(c) ==
    /\ nap[c] = 0
    /\ BeginPass(c)
    /\ age' = [age EXCEPT ![c] = 0]
    /\ UNCHANGED <<nap, waited>>

LastCheck(c) == nap[c] = 0 /\ Exit(c) /\ UNCHANGED clocks

DuringPass(c) == (CollectGroup(c) \/ EndCollect(c) \/ AcquireWrite(c)) /\ UNCHANGED clocks

(* sample_once returns and the thread sleeps for a duration; a sleep may   *)
(* end late, never early.                                                  *)
SleepFor(c, duration) ==
    /\ Swap(c)
    /\ \E lag \in 0..MaxLag :
           nap' = [nap EXCEPT ![c] = IF duration = 0 THEN 0 ELSE duration + lag]
    /\ UNCHANGED <<age, waited>>

SleepInterval(c) == SleepFor(c, Interval[c])            \* a mutant: the pass is not subtracted
SleepUnchecked(c) == SleepFor(c, Interval[c] - age[c])  \* a mutant: no comparison before it

SleepRest(c) == SleepFor(c, IF age[c] < Interval[c] THEN Interval[c] - age[c] ELSE 0)

(***************************************************************************)
(* The passing of time                                                     *)
(***************************************************************************)
JoinWaits ==
    /\ call = "join"
    /\ next <= Len(entries)
    /\ handle[entries[next]]
    /\ Running(entries[next])

Waits(c) ==
    \/ spc[c] \in {"none", "done"}
    \/ spc[c] = "check" /\ nap[c] > 0
    \/ spc[c] = "collect" /\ age[c] < MaxCollect

Tick ==
    /\ call \in {"none", "dropped"} \/ JoinWaits
    /\ \A c \in Collectors : Waits(c)
    /\ age' = [c \in Collectors |-> IF Running(c) /\ pass[c] > 0 THEN age[c] + 1 ELSE age[c]]
    /\ nap' = [c \in Collectors |-> IF nap[c] > 0 THEN nap[c] - 1 ELSE 0]
    /\ waited' = IF call = "join" THEN waited + 1 ELSE waited
    /\ UNCHANGED vars

-----------------------------------------------------------------------------
TimedSamplerStep(c) ==
    \/ PassStarted(c)
    \/ LastCheck(c)
    \/ DuringPass(c)
    \/ SleepRest(c)

TimedNext ==
    \/ Tick
    \/ \E c \in Collectors : TimedSamplerStep(c)
    \/ \E c \in Collectors : (AddSkips(c) \/ AddBegins(c)) /\ UNCHANGED clocks
    \/ AddStep /\ UNCHANGED clocks
    \/ \E dropped \in BOOLEAN :
           ShutdownCalled(dropped) /\ waited' = 0 /\ UNCHANGED <<age, nap>>
    \/ ShutdownStep /\ UNCHANGED clocks

TimedSpec == TimedInit /\ [][TimedNext]_timedVars

(* Time passes, and the threads are scheduled as in MetricsFramework.      *)
FairTimedSpec ==
    /\ TimedSpec
    /\ WF_timedVars(Tick)
    /\ WF_timedVars(AddStep /\ UNCHANGED clocks)
    /\ WF_timedVars(ShutdownStep /\ UNCHANGED clocks)
    /\ \A c \in Collectors : WF_timedVars(TimedSamplerStep(c))

(***************************************************************************)
(* Properties                                                              *)
(***************************************************************************)
Longer(s, t) == IF s >= t THEN s ELSE t

(* The longest time from the start of a pass to the next look at the flag. *)
Period(c) == Longer(MaxCollect, Interval[c] + MaxLag)

(* The type of the clocks.  Subtracting a slow pass from its interval      *)
(* would leave it: Duration has no negative values, and the subtraction    *)
(* panics.                                                                 *)
ClocksTypeOK ==
    /\ age \in [Collectors -> Nat]
    /\ nap \in [Collectors -> Nat]
    /\ waited \in Nat

(* Passes keep the interval of their collector: the next one begins no     *)
(* sooner than one interval after the last, however short that was, and no *)
(* later than the pass or the interval took, whichever is longer - the two *)
(* are not added.                                                          *)
PassesKeepTheInterval ==
    [][\A c \in Collectors :
           pass[c] > 0 /\ pass'[c] # pass[c] => age[c] \in Interval[c]..Period(c)]_timedVars

(* The time a shutdown has waited in its joins is at most one period of    *)
(* the slowest collector, not the sum over the collectors: all the flags   *)
(* are set before the first join, so the threads wind down in parallel.    *)
ShutdownTakesOnePeriod ==
    waited > 0 => \E c \in Collectors : waited <= Period(c)
=============================================================================
