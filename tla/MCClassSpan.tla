---------------------------- MODULE MCClassSpan ----------------------------
(***************************************************************************)
(* A small instance of ClassSpan.                                          *)
(***************************************************************************)
EXTENDS ClassSpan
=============================================================================
