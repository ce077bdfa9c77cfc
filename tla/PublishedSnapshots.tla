------------------------ MODULE PublishedSnapshots ------------------------
(***************************************************************************)
(* What the metrics framework promises the two sides it connects, without  *)
(* its threads, locks and buffers:                                         *)
(*                                                                         *)
(*   - a collector publishes its passes one after the other, each snapshot *)
(*     made of groups of that one pass and replacing the one before;       *)
(*   - a callback delivers, in one indivisible step, what the snapshot     *)
(*     that is current when it ends holds for its item;                    *)
(*   - once a collector has been asked to stop, at most one more snapshot  *)
(*     of it appears: that of the pass that was under way.                 *)
(*                                                                         *)
(* MetricsFramework implements this specification.                         *)
(***************************************************************************)
EXTENDS SampleGroups

CONSTANTS
    Collectors,  \* the metric sources
    Readers,     \* the threads that collect the instruments
    Items,       \* the item definitions of each collector
    None         \* "nothing delivered yet"

VARIABLES
    snap,        \* the snapshot each collector has published last
    ver,         \* how many snapshots each collector has published
    mode,        \* "open", then "last" (one more may come) or "quiet"
    delivered    \* what the last callback of each reader delivered

vars == <<snap, ver, mode, delivered>>

Init ==
    /\ snap = [c \in Collectors |-> <<>>]
    /\ ver = [c \in Collectors |-> 0]
    /\ mode = [c \in Collectors |-> "open"]
    /\ delivered = [r \in Readers |-> None]

Publish(c) ==
    /\ mode[c] # "quiet"
    /\ ver' = [ver EXCEPT ![c] = @ + 1]
    /\ snap'[c] \in Seq(GroupsOfPass(ver[c] + 1))
    /\ snap' = [snap EXCEPT ![c] = snap'[c]]
    /\ mode' = [mode EXCEPT ![c] = IF @ = "last" THEN "quiet" ELSE @]
    /\ UNCHANGED delivered

Stop(c) ==
    /\ mode[c] = "open"
    /\ \E m \in {"last", "quiet"} : mode' = [mode EXCEPT ![c] = m]
    /\ UNCHANGED <<snap, ver, delivered>>

Deliver(r, c, item) ==
    /\ delivered' = [delivered EXCEPT ![r] =
            [owner |-> c, item |-> item, points |-> Observed(item, snap[c])]]
    /\ UNCHANGED <<snap, ver, mode>>

Next ==
    \/ \E c \in Collectors : Publish(c) \/ Stop(c)
    \/ \E r \in Readers, c \in Collectors : \E item \in Items[c] : Deliver(r, c, item)

Spec == Init /\ [][Next]_vars
=============================================================================
