------------------------------ MODULE MCXSpan ------------------------------
(***************************************************************************)
(* Small instances of XSpan.                                               *)
(***************************************************************************)
EXTENDS XSpan, TLC

(* Goroutines are interchangeable. *)
Symmetry == Permutations(Procs)
=============================================================================
