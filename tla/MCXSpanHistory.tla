--------------------------- MODULE MCXSpanHistory ---------------------------
(* Small instances of XSpanHistory. *)
EXTENDS XSpanHistory, TLC

(* Goroutines are interchangeable. *)
Symmetry == Permutations(Procs)
=============================================================================
