--------------------------- MODULE MCExporterApp ---------------------------
(* An instance of ExporterApp for TLC: two items, one of them of F64 kind. *)
EXTENDS ExporterApp

MCNames == {"reads", "load"}
Reads == [name |-> "reads", kind |-> "CounterU64"]
Load == [name |-> "load", kind |-> "GaugeF64"]
MCItems == [c \in Collectors |-> {Reads, Load}]
MCShapes == {
    {[name |-> "reads", number |-> "U64"], [name |-> "load", number |-> "F64"]},
    {[name |-> "reads", number |-> "U64"]}}
=============================================================================
