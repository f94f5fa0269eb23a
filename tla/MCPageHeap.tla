----------------------------- MODULE MCPageHeap -----------------------------
(* Two goroutines that are alike; the sizes are in PageHeap*.cfg.          *)
EXTENDS PageHeap, TLC

Symmetry == Permutations(Procs)
=============================================================================
