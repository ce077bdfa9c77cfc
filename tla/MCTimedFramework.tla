------------------------- MODULE MCTimedFramework -------------------------
(* The instance of TimedFramework for TLC: a collector whose passes may be *)
(* longer than its interval, and one whose interval is longer than any.    *)
EXTENDS TimedFramework

CONSTANTS c1, c2

MCNames == {"load"}
MCItems == [c \in Collectors |-> {[name |-> "load", kind |-> "GaugeF64"]}]
MCShapes == {{[name |-> "load", number |-> "F64"]}}
MCInterval == [c \in Collectors |-> IF c = c1 THEN 2 ELSE 4]
=============================================================================
