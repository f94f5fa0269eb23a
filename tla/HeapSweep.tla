----------------------------- MODULE HeapSweep -----------------------------
(***************************************************************************)
(* xHeap.free: every Free marks its slot and then tries to sweep.  The     *)
(* goroutines agree on who sweeps what through three words that they read  *)
(* and swap without a lock:                                                *)
(*                                                                         *)
(*   freeCapacity  bytes that callers gave back and no sweep took yet;     *)
(*   sweepCtl      0, or sweepCtlStatus plus the helpers of a sweep;       *)
(*   sweepIndex    the next size class to sweep.                           *)
(*                                                                         *)
(* A class of slots is one span here, since a sweep treats the spans of a  *)
(* full list alike.  Which slot is which is the subject of XSpan; this     *)
(* module counts them.  Class 0 is the list of large objects, each of one  *)
(* slot in a span of its own: allocCount[0], held[0] and marks[0] count    *)
(* those objects.                                                          *)
(***************************************************************************)
EXTENDS Integers, FiniteSets, Functions

CONSTANTS
  Procs,      \* the goroutines
  NClasses,   \* _NumSizeClasses (67 in the code)
  MaxHelpers, \* - sweepCtlStatus (68 in the code)
  NElems,     \* slots of a span; bound: large objects at a time
  SlotSize,   \* bytes of a slot
  LargeBytes, \* bytes of a large object, whole pages
  Threshold,  \* totalCapacity * TotalGCFactor, in bytes
  MaxFrees    \* bound: Free calls in a behaviour

ASSUME SweepAssumption ==
  /\ IsFiniteSet(Procs)
  /\ NClasses \in Nat \ {0} /\ MaxHelpers \in Nat \ {0} /\ NElems \in Nat \ {0}
  /\ SlotSize \in Nat \ {0} /\ LargeBytes \in Nat \ {0}
  /\ Threshold \in Nat /\ MaxFrees \in Nat

VARIABLES
  freeCapacity, sweepCtl, sweepIndex,
  recent,      \* less than a second has passed since sweepLastTime
  allocCount,  \* allocCount[c] of the span of class c
  held,        \* held[c]: its slots in callers' hands
  marks,       \* marks[c]: bits set in its gcmarkBits
  broken,      \* its gcmarkBits are nil: newMarkBits failed in a sweep
  pc,          \* where each goroutine is
  class,       \* the class whose slot it frees, then the class it sweeps
  stale,       \* a sweep has swapped the bitmap it is about to mark
  loaded,      \* the value of sweepCtl or sweepIndex it loaded
  total,       \* bytes its sweep reclaimed
  frees,       \* history: Free calls so far
  lost,        \* history: bytes in freeCapacity that no sweep will take off it
  claims       \* history: claims of each class since sweepIndex was reset

heap == << freeCapacity, sweepCtl, sweepIndex, recent >>
spans == << allocCount, held, marks, broken >>
locals == << class, stale, loaded, total >>
history == << frees, lost, claims >>
vars == << heap, spans, pc, locals, history >>

Classes == 0 .. NClasses - 1
sweepCtlStatus == - MaxHelpers

(* What a Free adds to freeCapacity: the span's classSize, which           *)
(* allocRawSpan leaves 0 for a large object.                               *)
Credit(c) == IF c = 0 THEN 0 ELSE SlotSize

Init ==
  /\ freeCapacity = 0 /\ sweepCtl = 0 /\ sweepIndex = 0
  /\ recent = FALSE
  /\ allocCount = [c \in Classes |-> 0]
  /\ held = [c \in Classes |-> 0]
  /\ marks = [c \in Classes |-> 0]
  /\ broken = [c \in Classes |-> FALSE]
  /\ pc = [p \in Procs |-> "idle"]
  /\ class = [p \in Procs |-> 0]
  /\ stale = [p \in Procs |-> FALSE]
  /\ loaded = [p \in Procs |-> 0]
  /\ total = [p \in Procs |-> 0]
  /\ frees = 0 /\ lost = 0
  /\ claims = [c \in Classes |-> 0]

Goto(p, l) == pc' = [pc EXCEPT ![p] = l]

-----------------------------------------------------------------------------
(* The callers' side.                                                      *)

(* A slot of class c is handed out; the last one makes the span full.  In  *)
(* class 0: an object of its own, and its span is full at once.            *)
Alloc(c) ==
  /\ allocCount[c] < NElems
  /\ allocCount' = [allocCount EXCEPT ![c] = @ + 1]
  /\ held' = [held EXCEPT ![c] = @ + 1]
  /\ UNCHANGED << heap, marks, broken, pc, locals, history >>

(* A second passes after the last sweep. *)
Tick ==
  /\ recent
  /\ recent' = FALSE
  /\ UNCHANGED << freeCapacity, sweepCtl, sweepIndex, spans, pc, locals, history >>

-----------------------------------------------------------------------------
(* mark: setMarkBitsForIndex resolves the bitmap, adds to freeCapacity and *)
(* sets the bit.                                                           *)
MarkResolve(p) ==
  /\ pc[p] = "idle" /\ frees < MaxFrees
  /\ \E c \in Classes :
       /\ held[c] > 0
       /\ held' = [held EXCEPT ![c] = @ - 1]
       /\ class' = [class EXCEPT ![p] = c]
  /\ stale' = [stale EXCEPT ![p] = FALSE]
  /\ frees' = frees + 1
  /\ Goto(p, "add")
  /\ UNCHANGED << heap, allocCount, marks, broken, loaded, total, lost, claims >>

MarkAdd(p) ==
  /\ pc[p] = "add"
  /\ freeCapacity' = freeCapacity + Credit(class[p])
  /\ Goto(p, "mark")
  /\ UNCHANGED << sweepCtl, sweepIndex, recent, spans, locals, history >>

(* A bit set in a bitmap that a sweep has taken over is not seen by the    *)
(* next count; where there is no bitmap the call panics.                   *)
MarkSet(p) ==
  LET c == class[p] IN
  /\ pc[p] = "mark"
  /\ IF stale[p] \/ broken[c]
     THEN lost' = lost + Credit(c) /\ UNCHANGED marks
     ELSE marks' = [marks EXCEPT ![c] = @ + 1] /\ UNCHANGED lost
  /\ Goto(p, IF broken[c] /\ ~ stale[p] THEN "idle" ELSE "need")
  /\ UNCHANGED << heap, allocCount, held, broken, locals, frees, claims >>

-----------------------------------------------------------------------------
(* needSweep: four tests, each on a value that may change right after it.  *)
NeedCapacity(p) ==
  /\ pc[p] = "need"
  /\ Goto(p, IF Threshold > freeCapacity THEN "idle" ELSE "time")
  /\ UNCHANGED << heap, spans, locals, history >>

NeedTime(p) ==
  /\ pc[p] = "time"
  /\ Goto(p, IF recent THEN "idle" ELSE "ctl")
  /\ UNCHANGED << heap, spans, locals, history >>

NeedLoad(p) ==
  /\ pc[p] = "ctl"
  /\ loaded' = [loaded EXCEPT ![p] = sweepCtl]
  /\ Goto(p, CASE sweepCtl < 0 -> "join" [] sweepCtl = 0 -> "lead" [] OTHER -> "idle")
  /\ UNCHANGED << heap, spans, class, stale, total, history >>

(* Slip: an atomic add instead of the compare-and-swap. *)
JoinByAdd(p) ==
  /\ pc[p] = "join"
  /\ sweepCtl' = sweepCtl + 1
  /\ Goto(p, "claim")
  /\ UNCHANGED << freeCapacity, sweepIndex, recent, spans, locals, history >>

(* A sweep runs: count in.  When sweepCtl has changed, the code goes on to *)
(* the swap meant for a leader, with the value it loaded.                  *)
Join(p) ==
  /\ pc[p] = "join"
  /\ IF sweepCtl = loaded[p]
     THEN sweepCtl' = loaded[p] + 1 /\ Goto(p, "claim")
     ELSE UNCHANGED sweepCtl /\ Goto(p, "lead")
  /\ UNCHANGED << freeCapacity, sweepIndex, recent, spans, locals, history >>

Lead(p) ==
  /\ pc[p] = "lead"
  /\ IF sweepCtl = loaded[p]
     THEN sweepCtl' = sweepCtlStatus /\ Goto(p, "claim")
     ELSE UNCHANGED sweepCtl /\ Goto(p, "idle")
  /\ UNCHANGED << freeCapacity, sweepIndex, recent, spans, locals, history >>

-----------------------------------------------------------------------------
(* sweep: claim one class after the other.                                 *)
ClaimLoad(p) ==
  /\ pc[p] = "claim"
  /\ loaded' = [loaded EXCEPT ![p] = sweepIndex]
  /\ Goto(p, IF sweepIndex < NClasses THEN "swap" ELSE "done")
  /\ UNCHANGED << heap, spans, class, stale, total, history >>

(* Slips: a plain store instead of the compare-and-swap, and a retry that  *)
(* does not load the index again.                                          *)
ClaimStore(p) ==
  /\ pc[p] = "swap"
  /\ sweepIndex' = loaded[p] + 1
  /\ class' = [class EXCEPT ![p] = loaded[p]]
  /\ claims' = [claims EXCEPT ![loaded[p]] = @ + 1]
  /\ Goto(p, "test")
  /\ UNCHANGED << freeCapacity, sweepCtl, recent, spans, stale, loaded, total, frees, lost >>

ClaimSwapStale(p) ==
  /\ pc[p] = "swap"
  /\ sweepIndex = loaded[p]
  /\ sweepIndex' = sweepIndex + 1
  /\ class' = [class EXCEPT ![p] = loaded[p]]
  /\ claims' = [claims EXCEPT ![loaded[p]] = @ + 1]
  /\ Goto(p, "test")
  /\ UNCHANGED << freeCapacity, sweepCtl, recent, spans, stale, loaded, total, frees, lost >>

ClaimSwap(p) ==
  /\ pc[p] = "swap"
  /\ IF sweepIndex = loaded[p]
     THEN /\ sweepIndex' = sweepIndex + 1
          /\ class' = [class EXCEPT ![p] = loaded[p]]
          /\ claims' = [claims EXCEPT ![loaded[p]] = @ + 1]
          /\ Goto(p, "test")
     ELSE Goto(p, "claim") /\ UNCHANGED << sweepIndex, class, claims >>
  /\ UNCHANGED << freeCapacity, sweepCtl, recent, spans, stale, loaded, total, frees, lost >>

(* freeSpan, before the lock: only a full span with marks is swept. *)
SpanTest(p) ==
  /\ pc[p] = "test" /\ class[p] # 0 /\ ~ broken[class[p]]
  /\ Goto(p, IF marks[class[p]] > 0 /\ allocCount[class[p]] >= NElems
             THEN "span" ELSE "claim")
  /\ UNCHANGED << heap, spans, locals, history >>

(* Both counts of the marks panic where there is no bitmap: the Free ends, *)
(* counts nobody out and takes nothing off freeCapacity.                   *)
SpanPanics(p) ==
  /\ pc[p] \in {"test", "span"} /\ broken[class[p]]
  /\ lost' = lost + total[p]
  /\ total' = [total EXCEPT ![p] = 0]
  /\ Goto(p, "idle")
  /\ UNCHANGED << heap, spans, class, stale, loaded, frees, claims >>

(* freeSpan, under the lock: freeCapacity loses allocCount, a number of    *)
(* slots, before the second test.                                          *)
SpanRecount(p) ==
  /\ pc[p] = "span" /\ ~ broken[class[p]]
  /\ freeCapacity' = freeCapacity - allocCount[class[p]]
  /\ Goto(p, "claim")
  /\ UNCHANGED << sweepCtl, sweepIndex, recent, held, class, loaded, frees, claims >>

(* The marks become the alloc bits.  The Frees that hold the old bitmap    *)
(* are late.                                                               *)
SpanSwap(c) ==
  /\ allocCount' = [allocCount EXCEPT ![c] = NElems - marks[c]]
  /\ marks' = [marks EXCEPT ![c] = 0]
  /\ stale' = [q \in Procs |-> stale[q] \/ (pc[q] \in {"add", "mark"} /\ class[q] = c)]

SpanSweep(p) ==
  LET c == class[p] IN
  /\ SpanRecount(p)
  /\ IF allocCount[c] >= NElems
     THEN SpanSwap(c) /\ total' = [total EXCEPT ![p] = @ + marks[c] * SlotSize]
     ELSE UNCHANGED << allocCount, marks, stale, total >>
  /\ UNCHANGED << broken, lost >>

(* newMarkBits finds no memory after the marks were taken over: the span   *)
(* stays on the full list without a bitmap, its slots are not in total,    *)
(* and sweep goes on with the next span.                                   *)
SpanSweepFails(p) ==
  LET c == class[p] IN
  /\ SpanRecount(p)
  /\ allocCount[c] >= NElems
  /\ SpanSwap(c)
  /\ broken' = [broken EXCEPT ![c] = TRUE]
  /\ lost' = lost + marks[c] * SlotSize
  /\ UNCHANGED total

(* sweepFullSpan of a large object: its pages go back to the heap and its  *)
(* span leaves the list.                                                   *)
LargeSweep(p) ==
  /\ pc[p] = "test" /\ class[p] = 0 /\ marks[0] > 0
  /\ allocCount' = [allocCount EXCEPT ![0] = @ - 1]
  /\ marks' = [marks EXCEPT ![0] = @ - 1]
  /\ total' = [total EXCEPT ![p] = @ + LargeBytes]
  /\ UNCHANGED << heap, held, broken, pc, class, stale, loaded, history >>

(* The walk is over.  An object marked behind it is still on the list, and *)
(* so is one for which chunkAllocator.alloc or ChunkInsert failed.         *)
LargeDone(p) ==
  /\ pc[p] = "test" /\ class[p] = 0
  /\ Goto(p, "claim")
  /\ UNCHANGED << heap, spans, locals, history >>

(* No class is left.  A sweep that reclaimed nothing returns here. *)
SweepDone(p) ==
  /\ pc[p] = "done"
  /\ recent' = TRUE
  /\ Goto(p, IF total[p] < 1 THEN "idle" ELSE "subtract")
  /\ UNCHANGED << freeCapacity, sweepCtl, sweepIndex, spans, locals, history >>

(* Slip: what the sweep reclaimed is not taken off freeCapacity. *)
SubtractNothing(p) ==
  /\ pc[p] = "subtract"
  /\ total' = [total EXCEPT ![p] = 0]
  /\ Goto(p, "end")
  /\ UNCHANGED << heap, spans, class, stale, loaded, history >>

Subtract(p) ==
  /\ pc[p] = "subtract"
  /\ freeCapacity' = freeCapacity - total[p]
  /\ total' = [total EXCEPT ![p] = 0]
  /\ Goto(p, "end")
  /\ UNCHANGED << sweepCtl, sweepIndex, recent, spans, class, stale, loaded, history >>

(* Count out; the one that finds sweepCtlStatus ends the sweep. *)
EndLoad(p) ==
  /\ pc[p] = "end"
  /\ loaded' = [loaded EXCEPT ![p] = sweepCtl]
  /\ Goto(p, IF sweepCtl >= 0 THEN "idle" ELSE "out")
  /\ UNCHANGED << heap, spans, class, stale, total, history >>

EndSwap(p) ==
  /\ pc[p] = "out"
  /\ IF sweepCtl = loaded[p]
     THEN /\ sweepCtl' = loaded[p] - 1
          /\ Goto(p, IF loaded[p] # sweepCtlStatus THEN "idle" ELSE "clear")
     ELSE UNCHANGED sweepCtl /\ Goto(p, "end")
  /\ UNCHANGED << freeCapacity, sweepIndex, recent, spans, locals, history >>

ClearCtl(p) ==
  /\ pc[p] = "clear"
  /\ sweepCtl' = 0
  /\ Goto(p, "rewind")
  /\ UNCHANGED << freeCapacity, sweepIndex, recent, spans, locals, history >>

ClearIndex(p) ==
  /\ pc[p] = "rewind"
  /\ sweepIndex' = 0
  /\ claims' = [c \in Classes |-> 0]
  /\ Goto(p, "idle")
  /\ UNCHANGED << freeCapacity, sweepCtl, recent, spans, locals, frees, lost >>

-----------------------------------------------------------------------------
Mark(p) == MarkResolve(p) \/ MarkAdd(p) \/ MarkSet(p)
NeedSweep(p) == NeedCapacity(p) \/ NeedTime(p) \/ NeedLoad(p) \/ Join(p) \/ Lead(p)
Sweep(p) ==
  \/ ClaimLoad(p) \/ ClaimSwap(p)
  \/ SpanTest(p) \/ SpanPanics(p) \/ SpanSweep(p) \/ SpanSweepFails(p)
  \/ LargeSweep(p) \/ LargeDone(p)
  \/ SweepDone(p) \/ Subtract(p) \/ EndLoad(p) \/ EndSwap(p)
  \/ ClearCtl(p) \/ ClearIndex(p)
Free(p) == Mark(p) \/ NeedSweep(p) \/ Sweep(p)

Next == (\E c \in Classes : Alloc(c)) \/ Tick \/ \E p \in Procs : Free(p)

Spec == Init /\ [][Next]_vars

(* A goroutine inside Free runs on; nobody has to call it. *)
FairSpec == Spec /\ \A p \in Procs : WF_vars(pc[p] # "idle" /\ Free(p))

-----------------------------------------------------------------------------
(* Properties.                                                             *)

PcValues ==
  {"idle", "add", "mark", "need", "time", "ctl", "join", "lead", "claim", "swap",
   "test", "span", "done", "subtract", "end", "out", "clear", "rewind"}
Sweeping == {"claim", "swap", "test", "span", "done", "subtract", "end", "out",
             "clear", "rewind"}

(* Every variable has its type; sweepCtl never gets positive, however many *)
(* helpers count in.                                                       *)
TypeOK ==
  /\ freeCapacity \in Int /\ sweepCtl \in Int /\ sweepCtl <= 0
  /\ sweepIndex \in 0 .. NClasses
  /\ recent \in BOOLEAN
  /\ allocCount \in [Classes -> 0 .. NElems]
  /\ held \in [Classes -> 0 .. NElems]
  /\ marks \in [Classes -> 0 .. NElems]
  /\ broken \in [Classes -> BOOLEAN]
  /\ pc \in [Procs -> PcValues]
  /\ class \in [Procs -> Classes]
  /\ stale \in [Procs -> BOOLEAN]
  /\ loaded \in [Procs -> Int]
  /\ total \in [Procs -> Nat]
  /\ frees \in 0 .. MaxFrees /\ lost \in Nat
  /\ claims \in [Classes -> Nat]

(* A class is claimed by at most one of the goroutines that sweep between  *)
(* two resets of sweepIndex, and the classes below sweepIndex have been.   *)
ClaimedOnce == \A c \in Classes : claims[c] = IF c < sweepIndex THEN 1 ELSE 0

(* freeCapacity never promises more than a sweep could reclaim: the marked *)
(* bytes, those about to be marked, those swept and not subtracted yet -   *)
(* and, for ever after, those lost to every sweep: marked too late to be   *)
(* counted, swept from a span that got no new bitmap, or in the total of a *)
(* sweep that met such a span.                                             *)
NeverOverclaims ==
  freeCapacity <= SumFunction([c \in Classes |-> marks[c] * Credit(c)])
                  + SlotSize * Cardinality({p \in Procs : pc[p] = "mark" /\ class[p] # 0})
                  + SumFunction(total)
                  + lost

(* A Free returns: its claims and its way out of the sweep do not retry    *)
(* for ever, whatever the other goroutines do.                             *)
FreeReturns == \A p \in Procs : pc[p] # "idle" ~> pc[p] = "idle"

(* "sweepCtl < 0: a sweep runs" (heap.go:60). *)
CtlMeansSweeping == sweepCtl < 0 => \E p \in Procs : pc[p] \in Sweeping
=============================================================================
