--------------------------- MODULE SampleGroups ---------------------------
(***************************************************************************)
(* The data that flows through the metrics framework                      *)
(* (crates/metrics-framework/src/lib.rs, lines 27 to 88 and 255 to 287):   *)
(* item definitions, sampled values, sample groups, and what one           *)
(* observable-instrument callback reports of a slice of groups.            *)
(*                                                                         *)
(* A number is abstracted to the variant it is stored in, and to the       *)
(* sampling pass that read it: the framework never looks at the value, it  *)
(* only has to deliver the values of one pass together.  The attribute set *)
(* of a group is abstracted to the position of the group in its snapshot.  *)
(***************************************************************************)
EXTENDS Naturals, Sequences

CONSTANTS
    Names,   \* the metric names
    Shapes   \* the sets of values a collector may put in one group

Number == {"U64", "F64"}
ItemKind == {"CounterU64", "CounterF64", "GaugeU64", "GaugeF64"}

MetricItem == [name : Names, kind : ItemKind]
SampleValue == [name : Names, number : Number]

ASSUME ShapesAssumption == Shapes \subseteq SUBSET SampleValue

(* A batch of values that share an attribute set; `pass` is the number of  *)
(* the sampling pass that pushed them.                                     *)
SampleGroup == [pass : Nat, values : Shapes]
GroupsOfPass(p) == [pass : {p}, values : Shapes]

(* register_item chooses the callback by the kind: observe_u64 for the two *)
(* U64 kinds, observe_f64 for the two F64 kinds.                           *)
NumberObserved(kind) ==
    IF kind \in {"CounterU64", "GaugeU64"} THEN "U64" ELSE "F64"

(* A callback reports a value iff the name is the one it was built with    *)
(* and the value is stored in the variant it asks for; a value of the      *)
(* right name in the other variant is passed over in silence.              *)
Reports(item, group) ==
    [name |-> item.name, number |-> NumberObserved(item.kind)] \in group.values

(* The data points a callback has reported after n groups of a snapshot.   *)
ObservedUpTo(item, groups, n) ==
    {[at |-> k, group |-> groups[k]] :
        k \in {j \in 1 .. n : Reports(item, groups[j])}}

Observed(item, groups) == ObservedUpTo(item, groups, Len(groups))
=============================================================================
