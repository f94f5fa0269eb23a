----------------------------- MODULE ClassSpan -----------------------------
(***************************************************************************)
(* xClassSpan: the spans of one size class that the pool does not hold.    *)
(* full lists the ones the pool released, free the ones a sweep found      *)
(* slots in.  Both lists are linked through the same field, span.next.     *)
(*                                                                         *)
(* A span is full or has room; which slots are marked is the subject of    *)
(* XSpan, and whether there are any is all a sweep asks.                   *)
(***************************************************************************)
EXTENDS Naturals, FiniteSets

CONSTANTS
  Procs,   \* goroutines: Alloc releases and takes spans, Free sweeps
  Spans,   \* the spans of the class
  Nil      \* the nil *xSpan, none of them

VARIABLES
  fullFirst, freeFirst,   \* full.first and free.first
  fullLock, freeLock,     \* whether the lock of the list is free
  next,                   \* next[s]: span.next
  isFull,                 \* isFull[s]: allocCount has reached nelems
  marked,                 \* marked[s]: some mark bit is set
  pool,                   \* the spans that the pool holds
  pc, span,               \* where each goroutine is, the span it works on
  first,                  \* the list's first that its insert replaced
  released                \* history: released spans that no sweep took since

lists == << fullFirst, freeFirst, fullLock, freeLock >>
state == << isFull, marked >>
vars == << lists, next, state, pool, pc, span, first, released >>

Init ==
  /\ fullFirst = Nil /\ freeFirst = Nil
  /\ fullLock = TRUE /\ freeLock = TRUE
  /\ next = [s \in Spans |-> Nil]
  /\ isFull = [s \in Spans |-> FALSE]
  /\ marked = [s \in Spans |-> FALSE]
  /\ pool = Spans
  /\ pc = [p \in Procs |-> "idle"]
  /\ span = [p \in Procs |-> Nil]
  /\ first = [p \in Procs |-> Nil]
  /\ released = {}

Goto(p, l) == pc' = [pc EXCEPT ![p] = l]

-----------------------------------------------------------------------------
(* The slots of a span are handed out while the pool holds it, and given   *)
(* back at any time.                                                       *)
Use(s) ==
  /\ s \in pool /\ ~ isFull[s]
  /\ isFull' = [isFull EXCEPT ![s] = TRUE]
  /\ UNCHANGED << lists, next, marked, pool, pc, span, first, released >>

Mark(s) ==
  /\ ~ marked[s]
  /\ marked' = [marked EXCEPT ![s] = TRUE]
  /\ UNCHANGED << lists, next, isFull, pool, pc, span, first, released >>

(* growSpan releases and takes spans under the lock of the class. *)
ClassUnlocked == \A p \in Procs : pc[p] \notin {"release", "released"}

(* allocSpan takes the head of the free list.  (Without one it makes a new *)
(* span, which Init has put into the pool.)                                *)
AllocSpan ==
  /\ ClassUnlocked
  /\ freeLock /\ freeFirst # Nil
  /\ freeFirst' = next[freeFirst]
  /\ pool' = pool \cup {freeFirst}
  /\ UNCHANGED << fullFirst, fullLock, freeLock, next, state, pc, span, first, released >>

-----------------------------------------------------------------------------
(* releaseSpan and freeSpan insert at the head of a list.  span.next is    *)
(* cleared before the lock is taken; the list is published before the span *)
(* is linked to what it held.                                              *)
Release(p) ==
  /\ ClassUnlocked
  /\ pc[p] = "idle"
  /\ \E s \in pool :
       /\ isFull[s]
       /\ pool' = pool \ {s}
       /\ released' = released \cup {s}
       /\ span' = [span EXCEPT ![p] = s]
       /\ next' = [next EXCEPT ![s] = Nil]
  /\ Goto(p, "release")
  /\ UNCHANGED << lists, state, first >>

ReleasePublish(p) ==
  /\ pc[p] = "release" /\ fullLock
  /\ fullLock' = FALSE
  /\ first' = [first EXCEPT ![p] = fullFirst]
  /\ fullFirst' = span[p]
  /\ Goto(p, "released")
  /\ UNCHANGED << freeFirst, freeLock, next, state, pool, span, released >>

ReleaseLink(p) ==
  /\ pc[p] = "released"
  /\ next' = IF first[p] = Nil THEN next ELSE [next EXCEPT ![span[p]] = first[p]]
  /\ fullLock' = TRUE
  /\ span' = [span EXCEPT ![p] = Nil]
  /\ first' = [first EXCEPT ![p] = Nil]
  /\ Goto(p, "idle")
  /\ UNCHANGED << fullFirst, freeFirst, freeLock, state, pool, released >>

-----------------------------------------------------------------------------
(* The loop of sweep over the full list.  One goroutine at a time claims a *)
(* class (ClaimedOnce of HeapSweep).                                       *)
SweepStart(p) ==
  /\ \A q \in Procs : pc[q] \in {"idle", "release", "released"}
  /\ pc[p] = "idle" /\ fullFirst # Nil
  /\ span' = [span EXCEPT ![p] = fullFirst]
  /\ Goto(p, "sweep")
  /\ UNCHANGED << lists, next, state, pool, first, released >>

(* freeSpan: nothing to take from this one. *)
SweepSkip(p) ==
  /\ pc[p] = "sweep"
  /\ ~ (isFull[span[p]] /\ marked[span[p]])
  /\ Goto(p, "next")
  /\ UNCHANGED << lists, next, state, pool, span, first, released >>

(* freeSpan: the marked slots are free again; free.insert begins. *)
SweepSpan(p) ==
  LET s == span[p] IN
  /\ pc[p] = "sweep"
  /\ isFull[s] /\ marked[s]
  /\ isFull' = [isFull EXCEPT ![s] = FALSE]
  /\ marked' = [marked EXCEPT ![s] = FALSE]
  /\ released' = released \ {s}
  /\ next' = [next EXCEPT ![s] = Nil]
  /\ Goto(p, "free")
  /\ UNCHANGED << lists, pool, span, first >>

FreePublish(p) ==
  /\ pc[p] = "free" /\ freeLock
  /\ freeLock' = FALSE
  /\ first' = [first EXCEPT ![p] = freeFirst]
  /\ freeFirst' = span[p]
  /\ Goto(p, "freed")
  /\ UNCHANGED << fullFirst, fullLock, next, state, pool, span, released >>

FreeLink(p) ==
  /\ pc[p] = "freed"
  /\ next' = IF first[p] = Nil THEN next ELSE [next EXCEPT ![span[p]] = first[p]]
  /\ freeLock' = TRUE
  /\ first' = [first EXCEPT ![p] = Nil]
  /\ Goto(p, "move")
  /\ UNCHANGED << fullFirst, freeFirst, fullLock, state, pool, span, released >>

(* full.move unlinks the span with what its next is by now.  While the     *)
(* span is not on the list it searches again, with the lock held.          *)
Reach(from) ==
  LET R[n \in Nat] == IF n = 0 THEN {from} \ {Nil}
                      ELSE R[n - 1] \cup ({next[s] : s \in R[n - 1]} \ {Nil})
  IN R[Cardinality(Spans)]

Moves(p) ==
  /\ pc[p] = "spin" \/ (pc[p] = "move" /\ fullLock)
  /\ fullLock' = TRUE
  /\ Goto(p, "next")
  /\ UNCHANGED << freeFirst, freeLock, state, pool, span, first, released >>

MoveHead(p) ==
  /\ Moves(p)
  /\ fullFirst = span[p]
  /\ fullFirst' = next[span[p]]
  /\ UNCHANGED next

MoveInner(p) ==
  /\ Moves(p)
  /\ fullFirst # span[p]
  /\ \E pre \in Reach(fullFirst) :
       /\ next[pre] = span[p]
       /\ next' = [next EXCEPT ![pre] = next[span[p]]]
  /\ UNCHANGED fullFirst

MoveSpins(p) ==
  /\ pc[p] = "move" /\ fullLock
  /\ span[p] \notin Reach(fullFirst)
  /\ fullLock' = FALSE
  /\ Goto(p, "spin")
  /\ UNCHANGED << fullFirst, freeFirst, freeLock, next, state, pool, span, first, released >>

SweepNext(p) ==
  /\ pc[p] = "next"
  /\ span' = [span EXCEPT ![p] = next[span[p]]]
  /\ Goto(p, IF next[span[p]] = Nil THEN "idle" ELSE "sweep")
  /\ UNCHANGED << lists, next, state, pool, first, released >>

-----------------------------------------------------------------------------
Proc(p) ==
  \/ Release(p) \/ ReleasePublish(p) \/ ReleaseLink(p)
  \/ SweepStart(p) \/ SweepSkip(p) \/ SweepSpan(p) \/ FreePublish(p) \/ FreeLink(p)
  \/ MoveHead(p) \/ MoveInner(p) \/ MoveSpins(p) \/ SweepNext(p)

Next ==
  \/ \E s \in Spans : Use(s) \/ Mark(s)
  \/ AllocSpan
  \/ \E p \in Procs : Proc(p)

Spec == Init /\ [][Next]_vars

(* A goroutine at work on the lists runs on, and gets a lock that is given *)
(* back again and again.                                                   *)
FairSpec == Spec /\ \A p \in Procs : SF_vars(pc[p] # "idle" /\ Proc(p))

(* The full list holds the full spans (class_span.go:32): while nobody is  *)
(* at work on the lists, a released span is on it until a sweep takes it.  *)
FullSpansListed ==
  (\A p \in Procs : pc[p] = "idle") => released \subseteq Reach(fullFirst)

(* "mSpanList supports concurrent operations" (common.go:118): a move that *)
(* has the lock gives it back.                                             *)
MoveReturns == \A p \in Procs : pc[p] = "spin" ~> pc[p] = "next"
=============================================================================
