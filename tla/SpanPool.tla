------------------------------ MODULE SpanPool ------------------------------
(***************************************************************************)
(* xSpanPool for one size class: the short slice of spans that Alloc walks,*)
(* and the ways it changes.                                                *)
(*                                                                         *)
(*   Alloc        walks a snapshot of the slice, without a lock, and takes *)
(*                a slot of the first span that has one;                   *)
(*   RemoveHead   releases the first span once Alloc went past it;         *)
(*   ExpendAsync  a goroutine appends a span before the last one is used   *)
(*                up;                                                      *)
(*   ExpendSync   Alloc found no slot, appends a span and starts again.    *)
(*                                                                         *)
(* The slice is replaced, never changed in place, under the lock of the    *)
(* class.  spanGen is swapped without the lock and stored under it; only   *)
(* its sign matters, and a generation is 0 here: every store writes a      *)
(* number the goroutine loaded earlier plus one, so that two generations   *)
(* may or may not be equal, and the swap that compares them takes either   *)
(* outcome.                                                                *)
(*                                                                         *)
(* A span is its count of slots here: XSpan says which slot freeOffset     *)
(* returns, and that it returns one as long as the count allows.  Spans    *)
(* are numbered in the order allocClassSpan returns them; a recycled one   *)
(* comes with slots taken.                                                 *)
(***************************************************************************)
EXTENDS Integers, Sequences

CONSTANTS
  Procs,      \* the goroutines that allocate
  SpanBytes,  \* bytes of a span (npages * _PageSize)
  ClassSize,  \* bytes of a slot
  MaxSpans,   \* bound: spans that allocClassSpan returns in a behaviour
  NoProc,     \* the lock of the class is free
  Grower,     \* the goroutine of growSpan(ExpendAsync) that holds the lock
  Refused     \* a goroutine that the kernel refuses memory holds the lock

ASSUME PoolAssumption ==
  /\ SpanBytes \in Nat /\ ClassSize \in Nat \ {0} /\ ClassSize <= SpanBytes
  /\ MaxSpans \in Nat
  /\ Procs \cap {NoProc, Grower, Refused} = {}
  /\ NoProc # Grower /\ NoProc # Refused /\ Grower # Refused

VARIABLES
  spans,       \* spans[sizeClass], a sequence of spans
  spanGen,     \* spanGen[sizeClass]: ExpendAsync, or 0 for any generation
  lock,        \* holder of lock[sizeClass]
  growers,     \* goroutines started to run growSpan(ExpendAsync)
  allocCount,  \* allocCount[s]: slots of s handed out
  full,        \* spans released to the full list of the class
  used,        \* spans 1 .. used exist
  pc,          \* where each goroutine is
  seen,        \* the slice its Alloc walks
  idex         \* the position in that slice

class == << spans, spanGen, growers >>
spanState == << allocCount, full, used >>
walk == << seen, idex >>
vars == << class, lock, spanState, pc, walk >>

Spans == 1 .. MaxSpans
ExpendAsync == -3

(* layout and Init: the number of slots and 0.75 of it. *)
nelems == SpanBytes \div ClassSize
extensionPoint == (3 * nelems) \div 4

(* The tests that growth and removal rest on. *)
needGrow(s) == extensionPoint <= allocCount[s]

(* Slip: off by another one. *)
isFullEarly(s) == (allocCount[s] + 2) * ClassSize >= SpanBytes

isFull(s) == (allocCount[s] + 1) * ClassSize >= SpanBytes

Init ==
  /\ spans = << >> /\ spanGen = 0 /\ lock = NoProc /\ growers = 0
  /\ allocCount = [s \in Spans |-> 0] /\ full = {} /\ used = 0
  /\ pc = [p \in Procs |-> "idle"]
  /\ seen = [p \in Procs |-> << >>]
  /\ idex = [p \in Procs |-> 0]

Goto(p, l) == pc' = [pc EXCEPT ![p] = l]

(* The walk is over: its locals are not used again. *)
Leave(p, l) ==
  /\ Goto(p, l)
  /\ seen' = [seen EXCEPT ![p] = << >>]
  /\ idex' = [idex EXCEPT ![p] = 0]

-----------------------------------------------------------------------------
(* Alloc: getSpan loads the slice. *)
AllocStart(p) ==
  /\ pc[p] \in {"idle", "again"}
  /\ seen' = [seen EXCEPT ![p] = spans]
  /\ idex' = [idex EXCEPT ![p] = 1]
  /\ Goto(p, "walk")
  /\ UNCHANGED << class, lock, spanState >>

(* Slip: the span is asked for one slot too many. *)
AllocTakePastEnd(p) ==
  LET s == seen[p][idex[p]] IN
  /\ pc[p] = "walk"
  /\ idex[p] <= Len(seen[p])
  /\ allocCount[s] <= nelems
  /\ allocCount' = [allocCount EXCEPT ![s] = @ + 1]
  /\ Goto(p, "need")
  /\ UNCHANGED << class, lock, full, used, walk >>

(* freeOffset returns a slot of the span. *)
AllocTake(p) ==
  LET s == seen[p][idex[p]] IN
  /\ pc[p] = "walk"
  /\ idex[p] <= Len(seen[p])
  /\ allocCount[s] < nelems
  /\ allocCount' = [allocCount EXCEPT ![s] = @ + 1]
  /\ Goto(p, "need")
  /\ UNCHANGED << class, lock, full, used, walk >>

(* It returns none: try the next one. *)
AllocPass(p) ==
  /\ pc[p] = "walk"
  /\ idex[p] <= Len(seen[p])
  /\ allocCount[seen[p][idex[p]]] >= nelems
  /\ idex' = [idex EXCEPT ![p] = @ + 1]
  /\ UNCHANGED << class, lock, spanState, pc, seen >>

(* Slip: the last span is not asked. *)
AllocMissEarly(p) ==
  /\ pc[p] = "walk"
  /\ idex[p] >= Len(seen[p])
  /\ Leave(p, "expand")
  /\ UNCHANGED << class, lock, spanState >>

(* There is no next one: expand, and wait for it. *)
AllocMiss(p) ==
  /\ pc[p] = "walk"
  /\ idex[p] > Len(seen[p])
  /\ Leave(p, "expand")
  /\ UNCHANGED << class, lock, spanState >>

(* The slot is returned at once, or after an attempt to remove the head. *)
Return(p) == Leave(p, IF idex[p] > 1 THEN "remove" ELSE "idle")

AllocNeed(p) ==
  /\ pc[p] = "need"
  /\ IF needGrow(seen[p][idex[p]]) THEN Goto(p, "load") /\ UNCHANGED walk ELSE Return(p)
  /\ UNCHANGED << class, lock, spanState >>

(* needExpendAsync: the goroutine that swaps spanGen to -3 starts another  *)
(* one that grows the slice; the swap fails when spanGen has changed since.*)
AsyncLoad(p) ==
  /\ pc[p] = "load"
  /\ IF spanGen < 0 THEN Return(p) ELSE Goto(p, "swap") /\ UNCHANGED walk
  /\ UNCHANGED << class, lock, spanState >>

AsyncSwap(p) ==
  /\ pc[p] = "swap"
  /\ spanGen >= 0
  /\ spanGen' = ExpendAsync
  /\ growers' = growers + 1
  /\ Return(p)
  /\ UNCHANGED << spans, lock, spanState >>

AsyncSwapFails(p) ==
  /\ pc[p] = "swap"
  /\ Return(p)
  /\ UNCHANGED << class, lock, spanState >>

-----------------------------------------------------------------------------
(* growSpan.  The tests and the store of the slice are one step: nothing   *)
(* but a count can change between them, and counts only grow.  spanGen is  *)
(* stored in a step of its own, since needExpendAsync may swap it before.  *)

(* growClassSpan: a copy of the slice and a span that nobody has. *)
Expend(s) ==
  /\ s = used + 1
  /\ used' = s
  /\ \E n \in 0 .. nelems - 1 : allocCount' = [allocCount EXCEPT ![s] = n]
  /\ spans' = Append(spans, s)

(* Slip: any span will do. *)
SomeSpan == Len(spans) > 0

LastHasRoom == Len(spans) > 0 /\ ~ needGrow(spans[Len(spans)])

(* Slip: the head is not released. *)
RemoveHeadOnly(p) ==
  /\ pc[p] = "remove" /\ lock = NoProc
  /\ IF Len(spans) < 1 \/ ~ isFull(spans[1])
     THEN Goto(p, "idle") /\ UNCHANGED << spans, lock >>
     ELSE /\ spans' = Tail(spans)
          /\ lock' = p
          /\ Goto(p, "removed")
  /\ UNCHANGED << spanGen, growers, full, allocCount, used, walk >>

RemoveHead(p) ==
  /\ pc[p] = "remove" /\ lock = NoProc
  /\ IF Len(spans) < 1 \/ ~ isFull(spans[1])
     THEN Goto(p, "idle") /\ UNCHANGED << spans, lock, full >>
     ELSE /\ full' = full \cup {spans[1]}
          /\ spans' = Tail(spans)
          /\ lock' = p
          /\ Goto(p, "removed")
  /\ UNCHANGED << spanGen, growers, allocCount, used, walk >>

(* Slip: the last span is not looked at again under the lock. *)
ExpendSyncBlind(p) ==
  /\ pc[p] = "expand" /\ lock = NoProc
  /\ \E s \in Spans : Expend(s)
  /\ lock' = p
  /\ Goto(p, "expanded")
  /\ UNCHANGED << spanGen, growers, full, walk >>

ExpendSync(p) ==
  /\ pc[p] = "expand" /\ lock = NoProc
  /\ ~ LastHasRoom
  /\ \E s \in Spans : Expend(s)
  /\ lock' = p
  /\ Goto(p, "expanded")
  /\ UNCHANGED << spanGen, growers, full, walk >>

(* Someone else has appended a span: start again. *)
ExpendSyncSkip(p) ==
  /\ pc[p] = "expand" /\ lock = NoProc
  /\ LastHasRoom
  /\ Goto(p, "again")
  /\ UNCHANGED << class, lock, spanState, walk >>

(* No node, metadata or bitmap for the span: Alloc returns the error. *)
ExpendSyncFails(p) ==
  /\ pc[p] = "expand" /\ lock = NoProc
  /\ ~ LastHasRoom
  /\ Goto(p, "idle")
  /\ UNCHANGED << class, lock, spanState, walk >>

(* spanGen = the generation loaded by Alloc, or 1, plus one. *)
StoreGen(p) ==
  /\ pc[p] \in {"removed", "expanded"}
  /\ spanGen' = 0
  /\ lock' = NoProc
  /\ Goto(p, IF pc[p] = "removed" THEN "idle" ELSE "again")
  /\ UNCHANGED << spans, growers, spanState, walk >>

(* The kernel refuses memory to whoever grows: grow2 calls itself again and *)
(* again, with the locks of the class and of the heap held.                *)
MemoryRefused ==
  /\ lock = NoProc
  /\ growers > 0 \/ \E p \in Procs : pc[p] = "expand"
  /\ ~ LastHasRoom
  /\ lock' = Refused
  /\ UNCHANGED << class, spanState, pc, walk >>

(* The goroutine of ExpendAsync.  It leaves spanGen as it is when the last *)
(* span has room; when it gets an error it only logs that.                 *)
GrowSkip ==
  /\ growers > 0 /\ lock = NoProc
  /\ LastHasRoom
  /\ growers' = growers - 1
  /\ UNCHANGED << spans, spanGen, lock, spanState, pc, walk >>

GrowAsync ==
  /\ growers > 0 /\ lock = NoProc
  /\ ~ LastHasRoom
  /\ \E s \in Spans : Expend(s)
  /\ growers' = growers - 1
  /\ lock' = Grower
  /\ UNCHANGED << spanGen, full, pc, walk >>

GrowFails ==
  /\ growers > 0 /\ lock = NoProc
  /\ ~ LastHasRoom
  /\ growers' = growers - 1
  /\ lock' = Grower
  /\ UNCHANGED << spans, spanGen, spanState, pc, walk >>

GrowStoreGen ==
  /\ lock = Grower
  /\ spanGen' = 0
  /\ lock' = NoProc
  /\ UNCHANGED << spans, growers, spanState, pc, walk >>

-----------------------------------------------------------------------------
Alloc(p) ==
  \/ AllocStart(p) \/ AllocTake(p) \/ AllocPass(p) \/ AllocMiss(p)
  \/ AllocNeed(p) \/ AsyncLoad(p) \/ AsyncSwap(p) \/ AsyncSwapFails(p)
  \/ RemoveHead(p) \/ ExpendSync(p) \/ ExpendSyncSkip(p) \/ ExpendSyncFails(p)
  \/ StoreGen(p)
Grow == GrowSkip \/ GrowAsync \/ GrowFails \/ GrowStoreGen

Next == Grow \/ MemoryRefused \/ \E p \in Procs : Alloc(p)

Spec == Init /\ [][Next]_vars

(* A goroutine inside Alloc runs on and gets the lock in the end (the      *)
(* starvation mode of sync.Mutex); one that grows the slice does so too.   *)
(* Nothing makes the kernel refuse, or stop refusing.                      *)
Fairness ==
  /\ SF_vars(Grow)
  /\ \A p \in Procs : SF_vars(pc[p] # "idle" /\ Alloc(p))

-----------------------------------------------------------------------------
(* Properties.                                                             *)

PcValues == {"idle", "again", "walk", "need", "load", "swap", "remove", "expand",
             "removed", "expanded"}

(* Every variable has its type; a span never hands out more than it has.   *)
TypeOK ==
  /\ spans \in Seq(Spans) /\ spanGen \in {0, ExpendAsync}
  /\ lock \in Procs \cup {Grower, NoProc, Refused}
  /\ growers \in Nat
  /\ allocCount \in [Spans -> 0 .. nelems] /\ full \in SUBSET Spans
  /\ used \in 0 .. MaxSpans
  /\ pc \in [Procs -> PcValues]
  /\ seen \in [Procs -> Seq(Spans)]
  /\ idex \in [Procs -> Nat]

InPool == {spans[i] : i \in DOMAIN spans}

(* Every span is in one place, the slice or the full list, and spans leave *)
(* the slice in the order they joined it: no copy that growClassSpan makes *)
(* brings a removed span back or drops one that was just appended.         *)
NoSpanLost ==
  /\ InPool \cup full = 1 .. used
  /\ \A i \in DOMAIN spans : \A s \in full : s < spans[i]
  /\ \A i, j \in DOMAIN spans : i < j => spans[i] < spans[j]

(* However many goroutines find that the class has to grow, it grows once: *)
(* every span but the last is past its extension point.                    *)
OneSpare == \A i \in 1 .. Len(spans) - 1 : needGrow(spans[i])

(* "What is before idex is used up, remove the full ones" (span_pool.go:   *)
(* 159).  A sweep skips a span that has a slot left and no later Alloc     *)
(* walks it, so a slot that is left is lost.  isFull looks one slot ahead: *)
(* a released span has none left, or one where the slots fill the span.    *)
Slack == IF SpanBytes % ClassSize = 0 THEN 1 ELSE 0
ReleasedIsFull == \A s \in full : nelems - allocCount[s] <= Slack

(* As long as the class does not grow, every Alloc returns: no goroutine   *)
(* walks, waits for the lock or starts over for ever unless others use up  *)
(* new spans all the time (span_pool.go:170) or the kernel refuses memory. *)
ReturnsOrGrows ==
  \A p \in Procs, n \in 0 .. MaxSpans - 1 :
    (pc[p] # "idle" /\ used = n) ~> (pc[p] = "idle" \/ used > n \/ lock = Refused)
=============================================================================
