----------------------------- MODULE PageStore -----------------------------
(***************************************************************************)
(* What the page heap promises: a set of free chunks and a set of chunks   *)
(* in the hands of spans.  No page is in two chunks.  A request of n pages *)
(* is cut from the smallest free chunk that holds n, the lowest one of     *)
(* those, and what is left of it stays free.  A chunk disappears only when *)
(* the heap reports it lost.                                               *)
(*                                                                         *)
(* PageHeap is shown to implement this module.                             *)
(***************************************************************************)
EXTENDS Naturals

CONSTANTS Pages, Needs

VARIABLES
  free,  \* the chunks a request may be cut from
  held,  \* the chunks of spans, and of spans to be
  lost   \* pages that an error dropped

vars == << free, held, lost >>

PagesOf(c) == c.start .. c.start + c.npages - 1
Covered(chunks) == UNION {PagesOf(c) : c \in chunks}

(* Smaller chunks first, lower ones first among those of one size. *)
Before(c, d) == c.npages < d.npages \/ (c.npages = d.npages /\ c.start < d.start)

BestFit(c, n) ==
  /\ c \in free /\ c.npages >= n
  /\ \A d \in free \ {c} : d.npages >= n => Before(c, d)

Cut(c, n) == [start |-> c.start, npages |-> n]
Rest(c, n) ==
  IF c.npages = n THEN {} ELSE {[start |-> c.start + n, npages |-> c.npages - n]}

Init == free = {} /\ held = {} /\ lost = {}

(* Pages that nobody has become a chunk. *)
Unowned == Pages \ (Covered(free) \cup Covered(held) \cup lost)
Grow ==
  /\ UNCHANGED << held, lost >>
  /\ \E first, final \in Unowned :
       /\ first <= final /\ first .. final \subseteq Unowned
       /\ free' = free \cup {[start |-> first, npages |-> final - first + 1]}

Take(c, n) ==
  /\ BestFit(c, n)
  /\ free' = (free \ {c}) \cup Rest(c, n)
  /\ held' = held \cup {Cut(c, n)}
  /\ UNCHANGED lost

Put(c) ==
  /\ c \in held
  /\ held' = held \ {c}
  /\ free' = free \cup {c}
  /\ UNCHANGED lost

(* An error leaves a chunk, or one that was cut and its rest, with nobody. *)
Lose(chunks) ==
  /\ free' = free \ chunks
  /\ held' = held \ chunks
  /\ lost' = lost \cup Covered(chunks)

Next ==
  \/ Grow
  \/ \E c \in free, n \in Needs : Take(c, n)
  \/ \E c \in held : Put(c)
  \/ \E c, d \in free \cup held : Lose({c, d})

Spec == Init /\ [][Next]_vars
=============================================================================
