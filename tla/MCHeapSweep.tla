---------------------------- MODULE MCHeapSweep ----------------------------
(***************************************************************************)
(* Small instances of HeapSweep.                                           *)
(***************************************************************************)
EXTENDS HeapSweep
=============================================================================
