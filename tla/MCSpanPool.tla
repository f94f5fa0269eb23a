----------------------------- MODULE MCSpanPool -----------------------------
(***************************************************************************)
(* Small instances of SpanPoolHistory.  With SpanBytes = 6 and             *)
(* ClassSize = 2 a span has three slots that fill it, as in a third of the *)
(* size classes: isFull is true of a span with one slot left.  The real    *)
(* values of the two are in SizeClasses, whose assumptions TLC evaluates   *)
(* with this module.                                                       *)
(***************************************************************************)
EXTENDS SpanPoolHistory, SizeClasses
=============================================================================
