--------------------------- MODULE SlotAllocator ---------------------------
(***************************************************************************)
(* What a span promises its callers: a fixed set of equal slots, of which  *)
(* some may be handed out next (free) and some are in the hands of a       *)
(* caller (live).  A slot is never both.  Slots that a caller gave back    *)
(* become free again only when the sweeper recycles them, and it may take  *)
(* any number of them, or none.                                            *)
(*                                                                         *)
(* XSpan is shown to implement this module.                                *)
(***************************************************************************)
CONSTANT Slots

VARIABLES free, live

vars == << free, live >>

Init ==
  /\ free = Slots
  /\ live = {}

(* A caller obtains a slot that nobody holds. *)
Grab(i) ==
  /\ i \in free
  /\ free' = free \ {i}
  /\ live' = live \cup {i}

(* A caller gives up a slot; it is not free yet. *)
Release(i) ==
  /\ i \in live
  /\ live' = live \ {i}
  /\ UNCHANGED free

(* Given-up slots, and only those, join the free ones (or leave them). *)
Recycle ==
  /\ free' \in SUBSET (Slots \ live)
  /\ UNCHANGED live

Next ==
  \/ \E i \in Slots : Grab(i) \/ Release(i)
  \/ Recycle

Spec == Init /\ [][Next]_vars
=============================================================================
