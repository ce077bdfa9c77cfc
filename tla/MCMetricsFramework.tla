------------------------ MODULE MCMetricsFramework ------------------------
(* Instances of MetricsFramework for TLC.                                  *)
EXTENDS MetricsFramework

CONSTANTS c1, c2, c3, r1, r2

MCNames == {"reads", "load"}

Reads == [name |-> "reads", kind |-> "CounterU64"]
Load == [name |-> "load", kind |-> "GaugeF64"]

(* A group with both values, and one whose load is in the wrong variant.   *)
MCShapes == {
    {[name |-> "reads", number |-> "U64"], [name |-> "load", number |-> "F64"]},
    {[name |-> "load", number |-> "U64"]}}

(* Every collector has both items.                                         *)
SnapshotItems == [c \in Collectors |-> {Reads, Load}]

(* Every collector has one item, and c3 none.                              *)
LoadItems == [c \in Collectors |-> {Load}]
RegistryItems == [c \in Collectors |-> IF c = c3 THEN {} ELSE {Load}]

(* Groups of one shape, for the runs that are not about the data.          *)
LoadShape == {{[name |-> "load", number |-> "F64"]}}
=============================================================================
