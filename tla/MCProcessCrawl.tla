--------------------------- MODULE MCProcessCrawl ---------------------------
(* Instances of ProcessCrawl for TLC.                                      *)
EXTENDS ProcessCrawl, TLC

CONSTANTS t1, t2, t3

(* The ids of tasks are interchangeable. *)
TaskSymmetry == Permutations({t1, t2, t3})
=============================================================================
