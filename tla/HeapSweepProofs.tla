--------------------------- MODULE HeapSweepProofs ---------------------------
(***************************************************************************)
(* What HeapSweep promises for any number of goroutines and size classes.  *)
(***************************************************************************)
EXTENDS HeapSweep, FiniteSetTheorems, TLAPS

(* For LeastNat, the induction that sums need. *)
T == INSTANCE SearchTrees

(* The part of the state that the claims depend on has its type. *)
ClaimTypes ==
  /\ sweepCtl \in Int /\ sweepCtl <= 0
  /\ sweepIndex \in 0 .. NClasses
  /\ pc \in [Procs -> PcValues]
  /\ class \in [Procs -> Classes]
  /\ loaded \in [Procs -> Int]
  /\ claims \in [Classes -> Nat]

(* A goroutine swaps sweepIndex only with a class that exists, and counts  *)
(* itself into a sweep only when one was running.                          *)
LoadedInv ==
  \A p \in Procs :
    /\ pc[p] = "swap" => loaded[p] \in Classes
    /\ pc[p] = "join" => loaded[p] < 0

ClaimInv == ClaimTypes /\ LoadedInv /\ ClaimedOnce

-----------------------------------------------------------------------------
LEMMA ClaimInit == Init => ClaimInv
BY SweepAssumption
   DEF Init, ClaimInv, ClaimTypes, LoadedInv, ClaimedOnce, Classes, PcValues

(* Only ClaimSwap and ClearIndex touch the claims; the other actions move  *)
(* a goroutine on, some with a value it loaded.                            *)
LEMMA ClaimNext == ClaimInv /\ [Next]_vars => ClaimInv'
<1> SUFFICES ASSUME ClaimInv, [Next]_vars PROVE ClaimInv'
  OBVIOUS
<1> USE SweepAssumption
        DEF ClaimInv, ClaimTypes, LoadedInv, ClaimedOnce, Classes, PcValues
<1>1. CASE \E c \in Classes : Alloc(c)
  BY <1>1 DEF Alloc, heap, locals, history
<1>2. CASE Tick
  BY <1>2 DEF Tick, spans, locals, history
<1>3. CASE \E p \in Procs : Free(p)
  <2> PICK p \in Procs : Free(p)
    BY <1>3
  <2>1. CASE MarkResolve(p)
    BY <2>1 DEF MarkResolve, Goto, heap
  <2>2. CASE MarkAdd(p)
    BY <2>2 DEF MarkAdd, Goto, locals, history
  <2>3. CASE MarkSet(p)
    BY <2>3 DEF MarkSet, Goto, heap, locals
  <2>4. CASE NeedCapacity(p)
    BY <2>4 DEF NeedCapacity, Goto, heap, locals, history
  <2>5. CASE NeedTime(p)
    BY <2>5 DEF NeedTime, Goto, heap, locals, history
  <2>6. CASE NeedLoad(p)
    BY <2>6 DEF NeedLoad, Goto, heap, history
  <2>7. CASE Join(p)
    <3>1. CASE sweepCtl = loaded[p]
      <4>1. sweepCtl' \in Int /\ sweepCtl' <= 0
        BY <2>7, <3>1 DEF Join
      <4>2. pc' = [pc EXCEPT ![p] = "claim"] /\ UNCHANGED << sweepIndex, class, loaded, claims >>
        BY <2>7, <3>1 DEF Join, Goto, locals, history
      <4> QED
        BY <4>1, <4>2
    <3>2. CASE ~ (sweepCtl = loaded[p])
      BY <2>7, <3>2 DEF Join, Goto, locals, history
    <3> QED
      BY <3>1, <3>2
  <2>8. CASE Lead(p)
    <3>1. CASE sweepCtl = loaded[p]
      BY <2>8, <3>1 DEF Lead, Goto, locals, history, sweepCtlStatus
    <3>2. CASE ~ (sweepCtl = loaded[p])
      BY <2>8, <3>2 DEF Lead, Goto, locals, history, sweepCtlStatus
    <3> QED
      BY <3>1, <3>2
  <2>9. CASE ClaimLoad(p)
    BY <2>9 DEF ClaimLoad, Goto, heap, history
  <2>10. CASE ClaimSwap(p)
    <3>1. CASE sweepIndex = loaded[p]
      <4>1. sweepIndex \in Classes
        BY <2>10, <3>1 DEF ClaimSwap
      <4>2. /\ sweepIndex' = sweepIndex + 1
            /\ claims' = [claims EXCEPT ![sweepIndex] = @ + 1]
            /\ pc' = [pc EXCEPT ![p] = "test"]
            /\ class' = [class EXCEPT ![p] = sweepIndex]
            /\ UNCHANGED << sweepCtl, loaded >>
        BY <2>10, <3>1 DEF ClaimSwap, Goto
      <4>3. claims[sweepIndex] = 0
        BY <4>1
      <4>4. ClaimedOnce'
        BY <4>1, <4>2, <4>3
      <4>5. ClaimTypes'
        BY <4>1, <4>2, <4>3
      <4>6. LoadedInv'
        BY <4>2
      <4> QED
        BY <4>4, <4>5, <4>6
    <3>2. CASE ~ (sweepIndex = loaded[p])
      BY <2>10, <3>2 DEF ClaimSwap, Goto
    <3> QED
      BY <3>1, <3>2
  <2>11. CASE SpanTest(p)
    BY <2>11 DEF SpanTest, Goto, heap, locals, history
  <2>12. CASE SpanSweep(p) \/ SpanSweepFails(p)
    BY <2>12 DEF SpanSweep, SpanSweepFails, SpanRecount, Goto
  <2>13. CASE SweepDone(p)
    BY <2>13 DEF SweepDone, Goto, locals, history
  <2>14. CASE Subtract(p)
    BY <2>14 DEF Subtract, Goto, history
  <2>15. CASE EndLoad(p)
    BY <2>15 DEF EndLoad, Goto, heap, history
  <2>16. CASE EndSwap(p)
    <3>1. CASE sweepCtl = loaded[p]
      <4>1. sweepCtl' \in Int /\ sweepCtl' <= 0
        BY <2>16, <3>1 DEF EndSwap
      <4>2. /\ \E l \in {"idle", "clear"} : pc' = [pc EXCEPT ![p] = l]
            /\ UNCHANGED << sweepIndex, class, loaded, claims >>
        BY <2>16, <3>1 DEF EndSwap, Goto, locals, history
      <4> QED
        BY <4>1, <4>2
    <3>2. CASE ~ (sweepCtl = loaded[p])
      BY <2>16, <3>2 DEF EndSwap, Goto, locals, history
    <3> QED
      BY <3>1, <3>2
  <2>17. CASE ClearCtl(p)
    BY <2>17 DEF ClearCtl, Goto, locals, history
  <2>18. CASE ClearIndex(p)
    BY <2>18 DEF ClearIndex, Goto, locals
  <2>19. CASE SpanPanics(p)
    BY <2>19 DEF SpanPanics, Goto, heap
  <2>20. CASE LargeSweep(p)
    BY <2>20 DEF LargeSweep, heap, history
  <2>21. CASE LargeDone(p)
    BY <2>21 DEF LargeDone, Goto, heap, locals, history
  <2> QED
    BY <2>1, <2>2, <2>3, <2>4, <2>5, <2>6, <2>7, <2>8, <2>9, <2>10, <2>11, <2>12,
       <2>13, <2>14, <2>15, <2>16, <2>17, <2>18, <2>19, <2>20, <2>21
       DEF Free, Mark, NeedSweep, Sweep
<1>4. CASE UNCHANGED vars
  BY <1>4 DEF vars, heap, locals, history
<1> QED
  BY <1>1, <1>2, <1>3, <1>4 DEF Next

(* However many Frees sweep at once, and although a new sweep may begin    *)
(* before the last one has reset sweepIndex: no class is claimed twice in  *)
(* a round, and none below sweepIndex is passed over.                      *)
THEOREM ClaimsAreSingle == Spec => []ClaimedOnce
<1>1. Init => ClaimInv
  BY ClaimInit
<1>2. ClaimInv /\ [Next]_vars => ClaimInv'
  BY ClaimNext
<1>3. ClaimInv => ClaimedOnce
  BY DEF ClaimInv
<1> QED
  BY <1>1, <1>2, <1>3, PTL DEF Spec

(* sweepCtl never gets positive: helpers cannot count in beyond the number *)
(* that sweepCtlStatus allows, so that needSweep never finds a positive    *)
(* value, the one state in which it would refuse every sweep.              *)
THEOREM CtlStaysDown == Spec => [](sweepCtl <= 0)
<1>1. Init => ClaimInv
  BY ClaimInit
<1>2. ClaimInv /\ [Next]_vars => ClaimInv'
  BY ClaimNext
<1>3. ClaimInv => sweepCtl <= 0
  BY DEF ClaimInv, ClaimTypes
<1> QED
  BY <1>1, <1>2, <1>3, PTL DEF Spec

-----------------------------------------------------------------------------
(* The Frees of a slot of class c that are on their way to set its mark in *)
(* the bitmap in use.                                                      *)
Pending(c) == {p \in Procs : pc[p] \in {"add", "mark"} /\ class[p] = c /\ ~ stale[p]}

(* A slot that callers hold, that is marked or about to be is allocated;   *)
(* a sweep that takes the marks over cannot bring this out of balance, and *)
(* a late mark leaves its slot allocated for ever.                         *)
Balance == \A c \in Classes : held[c] + marks[c] + Cardinality(Pending(c)) <= allocCount[c]

SlotTypes ==
  /\ freeCapacity \in Int /\ recent \in BOOLEAN
  /\ allocCount \in [Classes -> 0 .. NElems]
  /\ held \in [Classes -> Nat] /\ marks \in [Classes -> Nat]
  /\ broken \in [Classes -> BOOLEAN] /\ stale \in [Procs -> BOOLEAN]
  /\ total \in [Procs -> Nat]
  /\ frees \in 0 .. MaxFrees /\ lost \in Nat

SlotInv == SlotTypes /\ Balance

LEMMA PendingFinite ==
  ASSUME NEW c
  PROVE  IsFiniteSet(Pending(c)) /\ Cardinality(Pending(c)) \in Nat
<1>1. Pending(c) \in SUBSET Procs
  BY DEF Pending
<1>2. IsFiniteSet(Pending(c))
  BY <1>1, FS_Subset, SweepAssumption
<1> QED
  BY <1>2, FS_CardinalityType

LEMMA Products == \A m, n \in Nat : m * n \in Nat
BY SMTT(30)

(* Steps that no Free on its way to a mark notices. *)
LEMMA PendingSame ==
  ASSUME NEW p \in Procs, NEW l, pc' = [pc EXCEPT ![p] = l], pc \in [Procs -> PcValues],
         l \notin {"add", "mark"} \/ (pc[p] = "add" /\ l = "mark" /\ class'[p] = class[p]),
         pc[p] # "mark", pc[p] = "add" => l = "mark",
         \A q \in Procs \ {p} : class'[q] = class[q], stale' = stale, NEW c
  PROVE  Pending(c)' = Pending(c)
BY DEF Pending

LEMMA BalanceSame ==
  ASSUME Balance, UNCHANGED spans, \A c \in Classes : Pending(c)' = Pending(c)
  PROVE  Balance'
BY DEF Balance, spans

LEMMA BalanceResolve ==
  ASSUME ClaimTypes, SlotInv, NEW p \in Procs, MarkResolve(p)
  PROVE  SlotInv'
<1>1. PICK c \in Classes : /\ held[c] > 0
                           /\ held' = [held EXCEPT ![c] = @ - 1]
                           /\ class' = [class EXCEPT ![p] = c]
  BY DEF MarkResolve
<1>2. pc[p] = "idle" /\ pc' = [pc EXCEPT ![p] = "add"] /\ stale' = [stale EXCEPT ![p] = FALSE]
      /\ UNCHANGED << allocCount, marks, broken >>
  BY DEF MarkResolve, Goto
<1>3. Pending(c)' = Pending(c) \cup {p} /\ p \notin Pending(c)
  BY <1>1, <1>2 DEF Pending, ClaimTypes, SlotInv, SlotTypes
<1>4. \A d \in Classes \ {c} : Pending(d)' = Pending(d)
  BY <1>1, <1>2 DEF Pending, ClaimTypes, SlotInv, SlotTypes
<1>5. Cardinality(Pending(c)') = Cardinality(Pending(c)) + 1
  BY <1>3, FS_AddElement, PendingFinite
<1>6. Balance'
  <2> SUFFICES ASSUME NEW d \in Classes
               PROVE  (held[d] + marks[d] + Cardinality(Pending(d)) <= allocCount[d])'
    BY DEF Balance
  <2>1. /\ held[d] \in Nat /\ marks[d] \in Nat /\ allocCount[d] \in Nat /\ Cardinality(Pending(d)) \in Nat
        /\ held[d] + marks[d] + Cardinality(Pending(d)) <= allocCount[d]
        /\ held'[d] = IF d = c THEN held[d] - 1 ELSE held[d]
    BY <1>1, PendingFinite DEF SlotInv, SlotTypes, Balance
  <2> QED
    BY <1>2, <1>4, <1>5, <2>1
<1>7. SlotTypes'
  <2>1. held' \in [Classes -> Nat]
    BY <1>1 DEF SlotInv, SlotTypes
  <2>2. frees' \in 0 .. MaxFrees
    BY SweepAssumption DEF MarkResolve, SlotInv, SlotTypes
  <2> QED
    BY <1>2, <2>1, <2>2 DEF MarkResolve, SlotInv, SlotTypes, heap
<1> QED
  BY <1>6, <1>7 DEF SlotInv

(* Fewer Frees on their way to a mark cannot bring a class out of balance. *)
LEMMA BalanceLess ==
  ASSUME SlotInv, UNCHANGED << allocCount, held, marks >>, \A c \in Classes : Pending(c)' \subseteq Pending(c)
  PROVE  Balance'
<1> SUFFICES ASSUME NEW c \in Classes
             PROVE  (held[c] + marks[c] + Cardinality(Pending(c)) <= allocCount[c])'
  BY DEF Balance
<1>1. Cardinality(Pending(c)') <= Cardinality(Pending(c)) /\ Cardinality(Pending(c)') \in Nat
      /\ Cardinality(Pending(c)) \in Nat
  BY PendingFinite, FS_Subset, FS_CardinalityType
<1>2. /\ held[c] \in Nat /\ marks[c] \in Nat /\ allocCount[c] \in Nat
      /\ held[c] + marks[c] + Cardinality(Pending(c)) <= allocCount[c]
  BY DEF SlotInv, SlotTypes, Balance
<1> QED
  BY <1>1, <1>2

LEMMA CreditNat == \A c \in Classes : Credit(c) \in Nat
BY SweepAssumption DEF Credit

LEMMA BalanceMark ==
  ASSUME ClaimTypes, SlotInv, NEW p \in Procs, MarkSet(p)
  PROVE  SlotInv'
<1> DEFINE c == class[p]
<1>1. /\ c \in Classes /\ pc[p] = "mark" /\ UNCHANGED << allocCount, held, broken, class, stale >>
      /\ \E l \in {"idle", "need"} : pc' = [pc EXCEPT ![p] = l]
  BY DEF MarkSet, Goto, ClaimTypes, locals
<1>2. CASE stale[p] \/ broken[c]
  <2>1. UNCHANGED << allocCount, held, marks >> /\ lost' = lost + Credit(c)
    BY <1>2 DEF MarkSet
  <2>2. \A d \in Classes : Pending(d)' \subseteq Pending(d)
    BY <1>1 DEF Pending, ClaimTypes
  <2>3. lost' \in Nat
    BY <1>1, <2>1, CreditNat DEF SlotInv, SlotTypes
  <2>4. Balance'
    BY <2>1, <2>2, BalanceLess
  <2> QED
    BY <2>1, <2>3, <2>4 DEF SlotInv, SlotTypes, MarkSet, heap, locals
<1>3. CASE ~ (stale[p] \/ broken[c])
  <2>1. marks' = [marks EXCEPT ![c] = @ + 1] /\ lost' = lost
    BY <1>3 DEF MarkSet
  <2>2. Pending(c)' = Pending(c) \ {p} /\ p \in Pending(c)
    BY <1>1, <1>3 DEF Pending, ClaimTypes
  <2>3. \A d \in Classes \ {c} : Pending(d)' = Pending(d)
    BY <1>1 DEF Pending, ClaimTypes
  <2>4. Cardinality(Pending(c)') = Cardinality(Pending(c)) - 1
    BY <2>2, FS_RemoveElement, PendingFinite
  <2>5. Balance'
    <3> SUFFICES ASSUME NEW d \in Classes
                 PROVE  (held[d] + marks[d] + Cardinality(Pending(d)) <= allocCount[d])'
      BY DEF Balance
    <3>1. /\ held[d] \in Nat /\ marks[d] \in Nat /\ allocCount[d] \in Nat /\ Cardinality(Pending(d)) \in Nat
          /\ held[d] + marks[d] + Cardinality(Pending(d)) <= allocCount[d]
          /\ marks'[d] = IF d = c THEN marks[d] + 1 ELSE marks[d]
      BY <2>1, PendingFinite DEF SlotInv, SlotTypes, Balance
    <3> QED
      BY <1>1, <2>3, <2>4, <3>1
  <2>6. SlotTypes'
    BY <1>1, <2>1 DEF SlotInv, SlotTypes, MarkSet, heap, locals
  <2> QED
    BY <2>5, <2>6 DEF SlotInv
<1> QED
  BY <1>2, <1>3

(* A sweep that takes over the marks of a class: the marked slots are no   *)
(* longer allocated, and the Frees on their way to a mark come too late.   *)
LEMMA BalanceSwap ==
  ASSUME ClaimTypes, SlotInv, NEW p \in Procs, SpanRecount(p),
         allocCount[class[p]] >= NElems, SpanSwap(class[p])
  PROVE  /\ Balance'
         /\ allocCount' \in [Classes -> 0 .. NElems] /\ marks' \in [Classes -> Nat]
         /\ stale' \in [Procs -> BOOLEAN]
<1> DEFINE c == class[p]
<1>1. /\ c \in Classes /\ pc[p] = "span" /\ pc' = [pc EXCEPT ![p] = "claim"]
      /\ UNCHANGED << held, class >>
  BY DEF SpanRecount, Goto, ClaimTypes
<1>2. /\ held[c] \in Nat /\ marks[c] \in Nat /\ allocCount[c] \in 0 .. NElems /\ NElems \in Nat
      /\ Cardinality(Pending(c)) \in Nat
      /\ held[c] + marks[c] + Cardinality(Pending(c)) <= allocCount[c]
  BY <1>1, PendingFinite, SweepAssumption DEF SlotInv, SlotTypes, Balance
<1>3. /\ allocCount' = [allocCount EXCEPT ![c] = NElems - marks[c]]
      /\ marks' = [marks EXCEPT ![c] = 0]
      /\ stale' = [q \in Procs |-> stale[q] \/ (pc[q] \in {"add", "mark"} /\ class[q] = c)]
  BY DEF SpanSwap
<1>4. Pending(c)' = {} /\ \A d \in Classes \ {c} : Pending(d)' = Pending(d)
  BY <1>1, <1>3 DEF Pending, ClaimTypes, SlotInv, SlotTypes
<1>5. Cardinality(Pending(c)') = 0
  BY <1>4, FS_EmptySet
<1>6. Balance'
  <2> SUFFICES ASSUME NEW d \in Classes
               PROVE  (held[d] + marks[d] + Cardinality(Pending(d)) <= allocCount[d])'
    BY DEF Balance
  <2>1. CASE d = c
    BY <1>1, <1>2, <1>3, <1>5, <2>1 DEF SlotInv, SlotTypes
  <2>2. CASE d # c
    BY <1>1, <1>3, <1>4, <2>2 DEF SlotInv, SlotTypes, Balance
  <2> QED
    BY <2>1, <2>2
<1>7. allocCount' \in [Classes -> 0 .. NElems]
  <2>1. NElems - marks[c] \in 0 .. NElems
    BY <1>2
  <2> QED
    BY <1>3, <2>1 DEF SlotInv, SlotTypes
<1>8. marks' \in [Classes -> Nat] /\ stale' \in [Procs -> BOOLEAN]
  BY <1>3 DEF SlotInv, SlotTypes
<1> QED
  BY <1>6, <1>7, <1>8

LEMMA BalanceSweep ==
  ASSUME ClaimTypes, SlotInv, NEW p \in Procs, SpanSweep(p) \/ SpanSweepFails(p)
  PROVE  SlotInv'
<1> DEFINE c == class[p]
           x == marks[c] * SlotSize
<1>1. /\ c \in Classes /\ pc[p] = "span" /\ pc' = [pc EXCEPT ![p] = "claim"]
      /\ freeCapacity' = freeCapacity - allocCount[c]
      /\ UNCHANGED << held, class, recent, frees >> /\ SpanRecount(p)
  BY DEF SpanSweep, SpanSweepFails, SpanRecount, Goto, ClaimTypes
<1>2. marks[c] \in Nat /\ allocCount[c] \in 0 .. NElems /\ NElems \in Nat /\ x \in Nat
  BY <1>1, SweepAssumption, Products DEF SlotInv, SlotTypes
<1>3. freeCapacity' \in Int
  BY <1>1, <1>2 DEF SlotInv, SlotTypes
<1> HIDE DEF x
<1>4. total[p] + x \in Nat /\ lost + x \in Nat
  BY <1>2 DEF SlotInv, SlotTypes
<1>5. CASE ~ (allocCount[c] >= NElems)
  <2>1. UNCHANGED << total, allocCount, marks, stale, broken, lost >>
    BY <1>5 DEF SpanSweep, SpanSweepFails
  <2>2. \A d \in Classes : Pending(d)' = Pending(d)
    BY <1>1, <2>1 DEF Pending, ClaimTypes
  <2>3. Balance'
    BY <1>1, <2>1, <2>2, BalanceSame DEF SlotInv, spans
  <2> QED
    BY <1>1, <1>3, <2>1, <2>3 DEF SlotInv, SlotTypes
<1>6. CASE allocCount[c] >= NElems
  <2>1. SpanSwap(c)
    BY <1>6 DEF SpanSweep, SpanSweepFails
  <2>2. /\ Balance' /\ allocCount' \in [Classes -> 0 .. NElems] /\ marks' \in [Classes -> Nat]
        /\ stale' \in [Procs -> BOOLEAN]
    BY <1>1, <1>6, <2>1, BalanceSwap
  <2>3. CASE SpanSweep(p)
    <3>1. total' = [total EXCEPT ![p] = @ + x] /\ UNCHANGED << broken, lost >>
      BY <1>6, <2>3 DEF SpanSweep, x
    <3> QED
      BY <1>1, <1>3, <1>4, <2>2, <3>1 DEF SlotInv, SlotTypes
  <2>4. CASE SpanSweepFails(p)
    <3>1. broken' = [broken EXCEPT ![c] = TRUE] /\ lost' = lost + x /\ total' = total
      BY <2>4 DEF SpanSweepFails, x
    <3>2. broken' \in [Classes -> BOOLEAN]
      BY <1>1, <3>1, Zenon DEF SlotInv, SlotTypes
    <3> QED
      BY <1>1, <1>3, <1>4, <2>2, <3>1, <3>2 DEF SlotInv, SlotTypes
  <2> QED
    BY <2>3, <2>4
<1> QED
  BY <1>5, <1>6

(* A large object's mark and its span go together. *)
LEMMA BalanceLarge ==
  ASSUME ClaimTypes, SlotInv, NEW p \in Procs, LargeSweep(p)
  PROVE  SlotInv'
<1>1. /\ 0 \in Classes /\ marks[0] > 0 /\ UNCHANGED << heap, held, broken, pc, class, stale, frees, lost >>
      /\ allocCount' = [allocCount EXCEPT ![0] = @ - 1]
      /\ marks' = [marks EXCEPT ![0] = @ - 1]
      /\ total' = [total EXCEPT ![p] = @ + LargeBytes]
  BY DEF LargeSweep, ClaimTypes, history
<1>2. \A c \in Classes : Pending(c)' = Pending(c)
  BY <1>1 DEF Pending
<1>3. \A c \in Classes :
        /\ held[c] \in Nat /\ marks[c] \in Nat /\ allocCount[c] \in 0 .. NElems
        /\ Cardinality(Pending(c)) \in Nat
        /\ held[c] + marks[c] + Cardinality(Pending(c)) <= allocCount[c]
  BY PendingFinite DEF SlotInv, SlotTypes, Balance
<1>4. Balance'
  BY <1>1, <1>2, <1>3 DEF Balance, SlotInv, SlotTypes
<1>5. allocCount[0] - 1 \in 0 .. NElems /\ marks[0] - 1 \in Nat
  BY <1>1, <1>3, SweepAssumption
<1>6. allocCount' \in [Classes -> 0 .. NElems] /\ marks' \in [Classes -> Nat]
  BY <1>1, <1>5 DEF SlotInv, SlotTypes
<1>7. total' \in [Procs -> Nat]
  BY <1>1, SweepAssumption DEF SlotInv, SlotTypes
<1> QED
  BY <1>1, <1>4, <1>6, <1>7 DEF SlotInv, SlotTypes, heap

LEMMA BalanceAlloc ==
  ASSUME SlotInv, NEW c \in Classes, Alloc(c)
  PROVE  SlotInv'
<1>1. /\ allocCount[c] < NElems /\ allocCount' = [allocCount EXCEPT ![c] = @ + 1]
      /\ held' = [held EXCEPT ![c] = @ + 1] /\ UNCHANGED << heap, marks, broken, pc, locals, history >>
  BY DEF Alloc
<1>2. \A d \in Classes : Pending(d)' = Pending(d)
  BY <1>1 DEF Pending, locals
<1>3. Balance'
  <2> SUFFICES ASSUME NEW d \in Classes
               PROVE  (held[d] + marks[d] + Cardinality(Pending(d)) <= allocCount[d])'
    BY DEF Balance
  <2>1. /\ held[d] \in Nat /\ marks[d] \in Nat /\ allocCount[d] \in Nat /\ Cardinality(Pending(d)) \in Nat
        /\ held[d] + marks[d] + Cardinality(Pending(d)) <= allocCount[d]
    BY PendingFinite DEF SlotInv, SlotTypes, Balance
  <2> QED
    BY <1>1, <1>2, <2>1 DEF SlotInv, SlotTypes
<1> QED
  BY <1>1, <1>3, SweepAssumption DEF SlotInv, SlotTypes, heap, locals, history

LEMMA SlotInit == Init => SlotInv
<1> SUFFICES ASSUME Init
             PROVE  SlotInv
  OBVIOUS
<1>1. ASSUME NEW c \in Classes
      PROVE  held[c] + marks[c] + Cardinality(Pending(c)) <= allocCount[c]
  <2>1. Pending(c) = {}
    BY DEF Init, Pending
  <2>2. Cardinality(Pending(c)) = 0
    BY <2>1, FS_EmptySet
  <2> QED
    BY <2>2 DEF Init
<1>2. Balance
  BY <1>1 DEF Balance
<1>3. SlotTypes
  <2>1. recent \in BOOLEAN /\ stale \in [Procs -> BOOLEAN] /\ broken \in [Classes -> BOOLEAN]
    BY Zenon DEF Init
  <2>2. /\ freeCapacity \in Int /\ frees \in 0 .. MaxFrees /\ lost \in Nat
        /\ allocCount \in [Classes -> 0 .. NElems]
        /\ held \in [Classes -> Nat] /\ marks \in [Classes -> Nat]
        /\ total \in [Procs -> Nat]
    BY SweepAssumption DEF Init
  <2> QED
    BY <2>1, <2>2 DEF SlotTypes
<1> QED
  BY <1>2, <1>3 DEF SlotInv

(* The other actions leave the slots alone and move on from no mark. *)
LEMMA SlotNext == ClaimTypes /\ SlotInv /\ [Next]_vars => SlotInv'
<1> SUFFICES ASSUME ClaimTypes, SlotInv, [Next]_vars
             PROVE  SlotInv'
  OBVIOUS
<1>1. ASSUME NEW p \in Procs, NEW l, pc' = [pc EXCEPT ![p] = l],
             l \notin {"add", "mark"} \/ (pc[p] = "add" /\ l = "mark"), pc[p] # "mark", pc[p] = "add" => l = "mark",
             class' = class \/ (pc[p] \notin {"add", "mark"} /\ \A q \in Procs \ {p} : class'[q] = class[q]),
             UNCHANGED << spans, stale, frees >>,
             freeCapacity' \in Int, recent' \in BOOLEAN, total' \in [Procs -> Nat], lost' \in Nat
      PROVE  SlotInv'
  <2>1. pc[p] = "add" => class'[p] = class[p]
    BY <1>1
  <2>2. \A c \in Classes : Pending(c)' = Pending(c)
    BY <1>1, <2>1, PendingSame DEF ClaimTypes
  <2> QED
    BY <1>1, <2>2, BalanceSame DEF SlotInv, SlotTypes, spans
<1>2. /\ freeCapacity \in Int /\ recent \in BOOLEAN /\ total \in [Procs -> Nat] /\ lost \in Nat
  BY DEF SlotInv, SlotTypes
<1>3. CASE Tick
  <2>1. \A c \in Classes : Pending(c)' = Pending(c)
    BY <1>3 DEF Tick, Pending, locals
  <2> QED
    BY <1>3, <2>1, BalanceSame DEF SlotInv, SlotTypes, Tick, spans, locals, history
<1>4. ASSUME NEW p \in Procs, Free(p)
      PROVE  SlotInv'
  <2>1. CASE MarkAdd(p)
    <3>1. pc' = [pc EXCEPT ![p] = "mark"] /\ pc[p] = "add" /\ freeCapacity' \in Int
      BY <1>2, <2>1, CreditNat DEF MarkAdd, Goto, ClaimTypes
    <3>2. UNCHANGED << recent, spans, class, stale, total, frees, lost >>
      BY <2>1 DEF MarkAdd, locals, history
    <3> QED
      BY <1>1, <1>2, <3>1, <3>2
  <2>2. CASE NeedCapacity(p) \/ NeedTime(p) \/ SpanTest(p) \/ LargeDone(p)
    <3>1. PICK l \in {"idle", "time", "ctl", "span", "claim"} : pc' = [pc EXCEPT ![p] = l]
      BY <2>2 DEF NeedCapacity, NeedTime, SpanTest, LargeDone, Goto
    <3>2. pc[p] \in {"need", "time", "test"} /\ UNCHANGED << heap, spans, locals, history >>
      BY <2>2 DEF NeedCapacity, NeedTime, SpanTest, LargeDone
    <3> QED
      BY <1>1, <1>2, <3>1, <3>2 DEF heap, locals, history
  <2>3. CASE NeedLoad(p) \/ ClaimLoad(p) \/ EndLoad(p)
    <3>1. \E l \in {"join", "lead", "idle", "swap", "done", "out"} : pc' = [pc EXCEPT ![p] = l]
      BY <2>3 DEF NeedLoad, ClaimLoad, EndLoad, Goto
    <3>2. pc[p] \in {"ctl", "claim", "end"} /\ UNCHANGED << heap, spans, class, stale, total, history >>
      BY <2>3 DEF NeedLoad, ClaimLoad, EndLoad
    <3> QED
      BY <1>1, <1>2, <3>1, <3>2 DEF heap, history
  <2>4. CASE Join(p) \/ Lead(p) \/ EndSwap(p) \/ ClearCtl(p)
    <3>1. \E l \in {"claim", "lead", "idle", "end", "clear", "rewind"} : pc' = [pc EXCEPT ![p] = l]
      BY <2>4 DEF Join, Lead, EndSwap, ClearCtl, Goto
    <3>2. pc[p] \in {"join", "lead", "out", "clear"} /\ UNCHANGED << freeCapacity, recent, spans, locals, history >>
      BY <2>4 DEF Join, Lead, EndSwap, ClearCtl
    <3> QED
      BY <1>1, <1>2, <3>1, <3>2 DEF locals, history
  <2>5. CASE ClaimSwap(p)
    <3>1. \E l \in {"test", "claim"} : pc' = [pc EXCEPT ![p] = l]
      BY <2>5 DEF ClaimSwap, Goto
    <3>2. pc[p] = "swap" /\ UNCHANGED << freeCapacity, recent, spans, stale, total, frees, lost >>
      BY <2>5 DEF ClaimSwap
    <3>3. \A q \in Procs \ {p} : class'[q] = class[q]
      BY <2>5 DEF ClaimSwap, ClaimTypes
    <3> QED
      BY <1>1, <1>2, <3>1, <3>2, <3>3
  <2>6. CASE SweepDone(p)
    <3>1. \E l \in {"idle", "subtract"} : pc' = [pc EXCEPT ![p] = l]
      BY <2>6 DEF SweepDone, Goto
    <3> QED
      BY <1>1, <1>2, <2>6, <3>1 DEF SweepDone, locals, history
  <2>7. CASE Subtract(p)
    <3>1. pc' = [pc EXCEPT ![p] = "end"] /\ pc[p] = "subtract" /\ freeCapacity' \in Int /\ total' \in [Procs -> Nat]
      BY <1>2, <2>7 DEF Subtract, Goto
    <3>2. UNCHANGED << recent, spans, class, stale, frees, lost >>
      BY <2>7 DEF Subtract, history
    <3> QED
      BY <1>1, <1>2, <3>1, <3>2
  <2>8. CASE ClearIndex(p)
    <3>1. pc' = [pc EXCEPT ![p] = "idle"] /\ pc[p] = "rewind"
      BY <2>8 DEF ClearIndex, Goto
    <3>2. UNCHANGED << freeCapacity, recent, spans, class, stale, total, frees, lost >>
      BY <2>8 DEF ClearIndex, locals
    <3> QED
      BY <1>1, <1>2, <3>1, <3>2
  <2>9. CASE SpanPanics(p)
    <3>1. pc' = [pc EXCEPT ![p] = "idle"] /\ pc[p] \in {"test", "span"}
      BY <2>9 DEF SpanPanics, Goto
    <3>2. UNCHANGED << heap, spans, class, stale, frees >>
      BY <2>9 DEF SpanPanics
    <3>3. total' \in [Procs -> Nat] /\ lost' \in Nat
      BY <1>2, <2>9 DEF SpanPanics
    <3> QED
      BY <1>1, <1>2, <3>1, <3>2, <3>3 DEF heap
  <2> QED
    BY <1>4, <2>1, <2>2, <2>3, <2>4, <2>5, <2>6, <2>7, <2>8, <2>9,
       BalanceResolve, BalanceMark, BalanceSweep, BalanceLarge
       DEF Free, Mark, NeedSweep, Sweep
<1>5. CASE UNCHANGED vars
  <2>1. \A c \in Classes : Pending(c)' = Pending(c)
    BY <1>5 DEF vars, Pending, locals
  <2> QED
    BY <1>5, <2>1, BalanceSame DEF SlotInv, SlotTypes, vars, heap, spans, locals, history
<1> QED
  BY <1>3, <1>4, <1>5, BalanceAlloc DEF Next

LEMMA SweepAlways == Spec => [](ClaimInv /\ SlotInv)
<1>1. ClaimInv /\ SlotInv /\ [Next]_vars => (ClaimInv /\ SlotInv)'
  BY ClaimNext, SlotNext DEF ClaimInv
<1>2. Init => ClaimInv /\ SlotInv
  BY ClaimInit, SlotInit
<1> QED
  BY <1>1, <1>2, PTL DEF Spec

(* No slot is handed out beyond the span, marked twice or counted out      *)
(* below zero, for any number of Frees and sweeps between the two tests of *)
(* freeSpan (class_span.go:96): what callers hold, what is marked and what is   *)
(* about to be marked never exceed what is allocated.                      *)
THEOREM SweepTypes == Spec => [](TypeOK /\ Balance)
<1>1. ASSUME ClaimInv, SlotInv
      PROVE  TypeOK /\ Balance
  <2>1. ASSUME NEW c \in Classes
        PROVE  held[c] \in 0 .. NElems /\ marks[c] \in 0 .. NElems
    <3>1. /\ held[c] \in Nat /\ marks[c] \in Nat /\ allocCount[c] \in 0 .. NElems
          /\ Cardinality(Pending(c)) \in Nat /\ NElems \in Nat
          /\ held[c] + marks[c] + Cardinality(Pending(c)) <= allocCount[c]
      BY <1>1, PendingFinite, SweepAssumption DEF SlotInv, SlotTypes, Balance
    <3> QED
      BY <3>1
  <2> QED
    BY <1>1, <2>1 DEF TypeOK, ClaimInv, ClaimTypes, SlotInv, SlotTypes
<1> QED
  BY <1>1, SweepAlways, PTL

-----------------------------------------------------------------------------
(* Sums of the values of a function with a finite domain.                  *)

(* A smallest of some finite sets. *)
LEMMA SmallestSet ==
  ASSUME NEW S, IsFiniteSet(S), NEW Bad, Bad \subseteq SUBSET S, Bad # {}
  PROVE  \E s \in Bad : \A t \in Bad : Cardinality(s) <= Cardinality(t)
<1> DEFINE Sizes == {Cardinality(s) : s \in Bad}
<1>1. \A s \in Bad : Cardinality(s) \in Nat
  BY FS_Subset, FS_CardinalityType
<1>2. Sizes \subseteq Nat /\ Sizes # {}
  BY <1>1
<1>3. PICK m \in Sizes : \A n \in Sizes : m <= n
  <2> HIDE DEF Sizes
  <2> QED
    BY <1>2, T!LeastNat
<1> QED
  BY <1>3

Some(s) == CHOOSE x \in s : TRUE
Part(f, sum, s) == IF s = {} THEN 0 ELSE f[Some(s)] + sum[s \ {Some(s)}]
Sums(f, S, sum) == sum = [s \in SUBSET S |-> Part(f, sum, s)]

LEMMA SomeIn ==
  ASSUME NEW s, s # {}
  PROVE  Some(s) \in s
BY DEF Some

LEMMA Smaller ==
  ASSUME NEW S, IsFiniteSet(S), NEW s \in SUBSET S, NEW x \in s
  PROVE  /\ s \ {x} \in SUBSET S
         /\ Cardinality(s) \in Nat /\ Cardinality(s \ {x}) \in Nat /\ Cardinality(s \ {x}) < Cardinality(s)
<1>1. IsFiniteSet(s)
  BY FS_Subset
<1>2. Cardinality(s) \in Nat /\ Cardinality(s \ {x}) = Cardinality(s) - 1 /\ Cardinality(s \ {x}) \in Nat
  BY <1>1, FS_RemoveElement, FS_CardinalityType
<1> QED
  BY <1>2

(* The recursive function that adds up the values of f exists. *)
LEMMA SumsExist ==
  ASSUME NEW S, IsFiniteSet(S), NEW f
  PROVE  \E sum : Sums(f, S, sum)
<1> DEFINE Upto(n, g) == \A s \in SUBSET S : Cardinality(s) <= n => g[s] = Part(f, g, s)
           Bad == {n \in Nat : \A g : DOMAIN g = SUBSET S => ~ Upto(n, g)}
<1>1. Bad = {}
  <2> SUFFICES ASSUME Bad # {}
               PROVE  FALSE
    OBVIOUS
  <2>1. PICK n \in Bad : \A k \in Bad : n <= k
    <3>1. Bad \subseteq Nat
      OBVIOUS
    <3> HIDE DEF Bad
    <3> QED
      BY <3>1, T!LeastNat
  <2>2. \E g : DOMAIN g = SUBSET S /\ \A s \in SUBSET S : Cardinality(s) < n => g[s] = Part(f, g, s)
    <3>1. CASE n = 0
      <4>1. \A s \in SUBSET S : ~ (Cardinality(s) < 0)
        BY FS_Subset, FS_CardinalityType
      <4> DEFINE g == [s \in SUBSET S |-> 0]
      <4>2. DOMAIN g = SUBSET S
        OBVIOUS
      <4> QED
        BY <3>1, <4>1, <4>2
    <3>2. CASE n # 0
      <4>1. n \in Nat /\ n - 1 \in Nat /\ n - 1 \notin Bad
        <5>1. n \in Nat
          BY <2>1
        <5>2. n - 1 \in Nat /\ ~ (n <= n - 1)
          BY <3>2, <5>1
        <5> HIDE DEF Bad
        <5> QED
          BY <2>1, <5>1, <5>2
      <4>2. PICK g : DOMAIN g = SUBSET S /\ Upto(n - 1, g)
        BY <4>1
      <4>3. \A s \in SUBSET S : Cardinality(s) < n => Cardinality(s) <= n - 1
        BY <4>1, FS_Subset, FS_CardinalityType
      <4> QED
        BY <4>2, <4>3
    <3> QED
      BY <3>1, <3>2
  <2>3. PICK g : DOMAIN g = SUBSET S /\ \A s \in SUBSET S : Cardinality(s) < n => g[s] = Part(f, g, s)
    BY <2>2
  <2> DEFINE h == [s \in SUBSET S |-> IF Cardinality(s) < n THEN g[s] ELSE Part(f, g, s)]
  <2>4. DOMAIN h = SUBSET S
    OBVIOUS
  <2>5. ASSUME NEW s \in SUBSET S, Cardinality(s) <= n
        PROVE  h[s] = Part(f, h, s)
    <3>1. h[s] = Part(f, g, s)
      BY <2>3
    <3>2. CASE s = {}
      BY <3>1, <3>2 DEF Part
    <3>3. CASE s # {}
      <4>1. Some(s) \in s
        BY <3>3, SomeIn
      <4>2. s \ {Some(s)} \in SUBSET S /\ Cardinality(s \ {Some(s)}) < n
        BY <2>1, <2>5, <4>1, Smaller
      <4>3. h[s \ {Some(s)}] = g[s \ {Some(s)}]
        BY <4>2
      <4> QED
        BY <3>1, <3>3, <4>3 DEF Part
    <3> QED
      BY <3>2, <3>3
  <2>6. Upto(n, h)
    <3> HIDE DEF h
    <3> QED
      BY <2>5
  <2> QED
    <3> HIDE DEF h, Upto
    <3> QED
      BY <2>1, <2>4, <2>6
<1>2. Cardinality(S) \in Nat
  BY FS_CardinalityType
<1>3. PICK g : DOMAIN g = SUBSET S /\ Upto(Cardinality(S), g)
  BY <1>1, <1>2
<1>4. \A s \in SUBSET S : g[s] = Part(f, g, s)
  BY <1>3, FS_Subset
<1> DEFINE h == [s \in SUBSET S |-> g[s]]
<1>5. ASSUME NEW s \in SUBSET S
      PROVE  h[s] = Part(f, h, s)
  <2>1. s # {} => s \ {Some(s)} \in SUBSET S
    OBVIOUS
  <2> QED
    BY <1>4, <2>1 DEF Part
<1>6. Sums(f, S, h)
  <2>1. h = [s \in SUBSET S |-> h[s]]
    OBVIOUS
  <2> HIDE DEF h
  <2> QED
    BY <1>5, <2>1 DEF Sums
<1> QED
  BY <1>6

LEMMA SumIs ==
  ASSUME NEW f, IsFiniteSet(DOMAIN f)
  PROVE  \E sum : Sums(f, DOMAIN f, sum) /\ SumFunction(f) = sum[DOMAIN f]
<1> DEFINE sum == CHOOSE it : it = [s \in SUBSET (DOMAIN f) |->
                    IF s = {} THEN 0 ELSE f[CHOOSE x \in s : TRUE] + it[s \ {CHOOSE x \in s : TRUE}]]
<1>1. SumFunction(f) = sum[DOMAIN f]
  BY DEF SumFunction, SumFunctionOnSet, FoldFunctionOnSet, MapThenFoldSet
<1>2. \E it : Sums(f, DOMAIN f, it)
  BY SumsExist
<1>3. Sums(f, DOMAIN f, sum)
  BY <1>2 DEF Sums, Part, Some
<1> QED
  BY <1>1, <1>3

(* The order in which the values are added does not matter. *)
LEMMA SumAny ==
  ASSUME NEW S, IsFiniteSet(S), NEW f \in [S -> Nat], NEW sum, Sums(f, S, sum)
  PROVE  \A s \in SUBSET S : sum[s] \in Nat /\ \A x \in s : sum[s] = f[x] + sum[s \ {x}]
<1>1. \A s \in SUBSET S : sum[s] = Part(f, sum, s)
  BY DEF Sums
<1>2. \A s \in SUBSET S : sum[s] \in Nat
  <2> DEFINE Bad == {s \in SUBSET S : sum[s] \notin Nat}
  <2> SUFFICES ASSUME Bad # {}
               PROVE  FALSE
    OBVIOUS
  <2>1. PICK s \in Bad : \A t \in Bad : Cardinality(s) <= Cardinality(t)
    <3>1. Bad \subseteq SUBSET S
      OBVIOUS
    <3> HIDE DEF Bad
    <3> QED
      BY <3>1, SmallestSet
  <2>2. s # {} /\ s \in SUBSET S
    <3>1. Part(f, sum, {}) = 0 /\ sum[s] \notin Nat /\ s \in SUBSET S /\ sum[s] = Part(f, sum, s)
      BY <1>1, <2>1 DEF Part
    <3> QED
      BY <3>1
  <2> DEFINE c == Some(s)
             t == s \ {c}
  <2>3. c \in s /\ c \in S
    BY <2>2, SomeIn
  <2>4. t \in SUBSET S /\ t \notin Bad
    BY <2>1, <2>2, <2>3, Smaller
  <2>5. sum[s] = f[c] + sum[t] /\ sum[t] \in Nat
    BY <1>1, <2>2, <2>4 DEF Part
  <2>6. f[c] \in Nat
    BY <2>3
  <2> QED
    BY <2>1, <2>5, <2>6
<1>3. \A s \in SUBSET S : \A x \in s : sum[s] = f[x] + sum[s \ {x}]
  <2> DEFINE Bad == {s \in SUBSET S : \E x \in s : sum[s] # f[x] + sum[s \ {x}]}
  <2> SUFFICES ASSUME Bad # {}
               PROVE  FALSE
    OBVIOUS
  <2>1. PICK s \in Bad : \A t \in Bad : Cardinality(s) <= Cardinality(t)
    <3>1. Bad \subseteq SUBSET S
      OBVIOUS
    <3> HIDE DEF Bad
    <3> QED
      BY <3>1, SmallestSet
  <2>2. PICK x \in s : sum[s] # f[x] + sum[s \ {x}]
    BY <2>1
  <2> DEFINE c == Some(s)
  <2>3. c \in s /\ s \in SUBSET S
    BY <2>2, SomeIn
  <2>4. sum[s] = f[c] + sum[s \ {c}]
    BY <1>1, <2>3 DEF Part
  <2>5. x # c
    BY <2>2, <2>4
  <2> HIDE DEF c
  <2>6. s \ {c} \in SUBSET S /\ s \ {x} \in SUBSET S /\ s \ {c} \notin Bad /\ s \ {x} \notin Bad
    <3>1. \A y \in s : /\ s \ {y} \in SUBSET S /\ Cardinality(s) \in Nat /\ Cardinality(s \ {y}) \in Nat
                       /\ Cardinality(s \ {y}) < Cardinality(s)
      BY <2>3, Smaller
    <3>2. \A y \in s : s \ {y} \notin Bad
      <4> HIDE DEF Bad
      <4> QED
        BY <2>1, <3>1
    <3> QED
      BY <2>2, <2>3, <3>1, <3>2
  <2>7. sum[s \ {c}] = f[x] + sum[(s \ {c}) \ {x}]
    BY <2>2, <2>5, <2>6
  <2>8. sum[s \ {x}] = f[c] + sum[(s \ {x}) \ {c}]
    BY <2>3, <2>5, <2>6
  <2>9. (s \ {c}) \ {x} = (s \ {x}) \ {c} /\ (s \ {c}) \ {x} \in SUBSET S
    BY <2>3
  <2>10. f[c] \in Nat /\ f[x] \in Nat /\ sum[(s \ {c}) \ {x}] \in Nat
    BY <1>2, <2>2, <2>3, <2>9
  <2>11. sum[s] = f[x] + sum[s \ {x}]
    <3> DEFINE k == sum[(s \ {c}) \ {x}]
               m == sum[s \ {c}]
               n == sum[s \ {x}]
    <3>1. sum[s] = f[c] + m /\ m = f[x] + k /\ n = f[c] + k
      BY <2>4, <2>7, <2>8, <2>9
    <3>2. f[c] \in Nat /\ f[x] \in Nat /\ k \in Nat
      BY <2>10
    <3> HIDE DEF k, m, n
    <3>3. sum[s] = f[x] + n
      BY <3>1, <3>2
    <3> QED
      BY <3>3 DEF n
  <2> QED
    BY <2>2, <2>11
<1> QED
  BY <1>2, <1>3

LEMMA SumSame ==
  ASSUME NEW S, IsFiniteSet(S), NEW f, NEW g, NEW sum, NEW tot, Sums(f, S, sum), Sums(g, S, tot),
         NEW s \in SUBSET S, \A x \in s : f[x] = g[x]
  PROVE  sum[s] = tot[s]
<1>1. \A t \in SUBSET S : sum[t] = Part(f, sum, t) /\ tot[t] = Part(g, tot, t)
  BY DEF Sums
<1> DEFINE Bad == {t \in SUBSET s : sum[t] # tot[t]}
<1> SUFFICES ASSUME Bad # {}
             PROVE  FALSE
  OBVIOUS
<1>2. PICK t \in Bad : \A u \in Bad : Cardinality(t) <= Cardinality(u)
  <2>1. Bad \subseteq SUBSET S
    OBVIOUS
  <2> HIDE DEF Bad
  <2> QED
    BY <2>1, SmallestSet
<1>3. t \in SUBSET S /\ t # {}
  BY <1>1, <1>2 DEF Part
<1> DEFINE c == Some(t)
<1>4. c \in t
  BY <1>3, SomeIn
<1>5. t \ {c} \in SUBSET s /\ t \ {c} \notin Bad
  BY <1>2, <1>3, <1>4, Smaller
<1>6. sum[t] = f[c] + sum[t \ {c}] /\ tot[t] = g[c] + tot[t \ {c}]
  BY <1>1, <1>3 DEF Part
<1> QED
  BY <1>2, <1>4, <1>5, <1>6

(* What a sum is after one of its values has changed. *)
LEMMA SumChange ==
  ASSUME NEW S, IsFiniteSet(S), NEW f \in [S -> Nat], NEW x \in S, NEW v \in Nat
  PROVE  /\ SumFunction(f) \in Nat /\ SumFunction(f) >= f[x]
         /\ SumFunction([f EXCEPT ![x] = v]) = SumFunction(f) - f[x] + v
<1> DEFINE g == [f EXCEPT ![x] = v]
<1>1. g \in [S -> Nat] /\ DOMAIN f = S /\ DOMAIN g = S /\ g[x] = v /\ \A y \in S \ {x} : g[y] = f[y]
  OBVIOUS
<1> HIDE DEF g
<1>2. PICK sum : Sums(f, S, sum) /\ SumFunction(f) = sum[S]
  BY <1>1, SumIs
<1>3. PICK tot : Sums(g, S, tot) /\ SumFunction(g) = tot[S]
  BY <1>1, SumIs
<1>4. sum[S] = f[x] + sum[S \ {x}] /\ sum[S \ {x}] \in Nat
  <2>1. \A s \in SUBSET S : sum[s] \in Nat /\ \A y \in s : sum[s] = f[y] + sum[s \ {y}]
    BY <1>2, SumAny
  <2> QED
    BY <2>1
<1>5. tot[S] = g[x] + tot[S \ {x}]
  <2>1. \A s \in SUBSET S : tot[s] \in Nat /\ \A y \in s : tot[s] = g[y] + tot[s \ {y}]
    BY <1>1, <1>3, SumAny
  <2> QED
    BY <2>1
<1>6. sum[S \ {x}] = tot[S \ {x}]
  BY <1>1, <1>2, <1>3, SumSame
<1>7. f[x] \in Nat
  OBVIOUS
<1>8. SumFunction(g) = SumFunction(f) - f[x] + v
  BY <1>1, <1>2, <1>3, <1>4, <1>5, <1>6, <1>7
<1> QED
  BY <1>2, <1>4, <1>7, <1>8 DEF g

LEMMA SumZero ==
  ASSUME NEW S, IsFiniteSet(S)
  PROVE  SumFunction([x \in S |-> 0]) = 0
<1> DEFINE f == [x \in S |-> 0]
<1>1. f \in [S -> Nat] /\ DOMAIN f = S /\ \A x \in S : f[x] = 0
  OBVIOUS
<1> HIDE DEF f
<1>2. PICK sum : Sums(f, S, sum) /\ SumFunction(f) = sum[S]
  BY <1>1, SumIs
<1>3. \A s \in SUBSET S : sum[s] = Part(f, sum, s)
  BY <1>2 DEF Sums
<1> DEFINE Bad == {s \in SUBSET S : sum[s] # 0}
<1>4. Bad = {}
  <2> SUFFICES ASSUME Bad # {}
               PROVE  FALSE
    OBVIOUS
  <2>1. PICK s \in Bad : \A t \in Bad : Cardinality(s) <= Cardinality(t)
    <3>1. Bad \subseteq SUBSET S
      OBVIOUS
    <3> HIDE DEF Bad
    <3> QED
      BY <3>1, SmallestSet
  <2>2. s # {} /\ s \in SUBSET S
    BY <1>3, <2>1 DEF Part
  <2>3. Some(s) \in s
    BY <2>2, SomeIn
  <2>4. s \ {Some(s)} \in SUBSET S /\ s \ {Some(s)} \notin Bad
    BY <2>1, <2>2, <2>3, Smaller
  <2>5. sum[s] = f[Some(s)] + sum[s \ {Some(s)}] /\ sum[s \ {Some(s)}] = 0 /\ f[Some(s)] = 0
    BY <1>1, <1>3, <2>2, <2>3, <2>4 DEF Part
  <2> QED
    BY <2>1, <2>5
<1> QED
  BY <1>2, <1>4 DEF f

-----------------------------------------------------------------------------
(* What freeCapacity may promise. *)
Bytes == [c \in Classes |-> marks[c] * Credit(c)]
Marking == {p \in Procs : pc[p] = "mark" /\ class[p] # 0}

LEMMA Sizes ==
  ASSUME SlotTypes
  PROVE  /\ IsFiniteSet(Classes) /\ IsFiniteSet(Procs)
         /\ Bytes \in [Classes -> Nat] /\ total \in [Procs -> Nat]
         /\ IsFiniteSet(Marking) /\ Cardinality(Marking) \in Nat
         /\ SlotSize \in Nat
<1>1. IsFiniteSet(Classes)
  BY FS_Interval, SweepAssumption DEF Classes
<1>2. Bytes \in [Classes -> Nat]
  BY Products, CreditNat DEF Bytes, SlotTypes
<1>3. IsFiniteSet(Procs) /\ SlotSize \in Nat
  BY SweepAssumption
<1>4. IsFiniteSet(Marking)
  BY <1>3, FS_Subset DEF Marking
<1> QED
  BY <1>1, <1>2, <1>3, <1>4, FS_CardinalityType DEF SlotTypes

(* Sums over the empty set are 0, the others are natural numbers. *)
LEMMA SumNat ==
  ASSUME NEW S, IsFiniteSet(S), NEW f \in [S -> Nat]
  PROVE  SumFunction(f) \in Nat
<1>1. DOMAIN f = S
  OBVIOUS
<1>2. PICK sum : Sums(f, S, sum) /\ SumFunction(f) = sum[S]
  BY <1>1, SumIs
<1>3. \A s \in SUBSET S : sum[s] \in Nat
  BY <1>2, SumAny
<1> QED
  BY <1>2, <1>3

LEMMA Overclaims ==
  ASSUME SlotTypes
  PROVE  /\ SumFunction(Bytes) \in Nat /\ SumFunction(total) \in Nat
         /\ SlotSize * Cardinality(Marking) \in Nat
         /\ NeverOverclaims <=>
              freeCapacity <= SumFunction(Bytes) + SlotSize * Cardinality(Marking) + SumFunction(total) + lost
<1>1. SumFunction(Bytes) \in Nat /\ SumFunction(total) \in Nat
  BY Sizes, SumNat
<1>2. SlotSize * Cardinality(Marking) \in Nat
  BY Sizes, Products
<1> QED
  BY <1>1, <1>2 DEF NeverOverclaims, Bytes, Marking

LEMMA OverSame ==
  ASSUME SlotTypes, NeverOverclaims, Bytes' = Bytes, UNCHANGED << total, lost >>, freeCapacity' \in Int,
         freeCapacity' <= freeCapacity, Marking' = Marking
  PROVE  NeverOverclaims'
<1> DEFINE a == SumFunction(Bytes)
           b == SlotSize * Cardinality(Marking)
           t == SumFunction(total)
<1>1. a \in Nat /\ b \in Nat /\ t \in Nat /\ freeCapacity <= a + b + t + lost /\ lost \in Nat /\ freeCapacity \in Int
  BY Overclaims DEF SlotTypes
<1> HIDE DEF a, b, t
<1>2. freeCapacity' <= a + b + t + lost
  BY <1>1
<1> QED
  BY <1>2 DEF NeverOverclaims, Marking, Bytes, a, b, t

LEMMA OneMore ==
  ASSUME NEW x \in Nat, NEW n \in Nat
  PROVE  x * (n + 1) = x * n + x
BY SMTT(30)

(* MarkAdd promises what MarkSet will mark. *)
LEMMA OverAdd ==
  ASSUME ClaimTypes, SlotTypes, NeverOverclaims, NEW p \in Procs, MarkAdd(p)
  PROVE  NeverOverclaims'
<1> DEFINE a == SumFunction(Bytes)
           n == Cardinality(Marking)
           b == SlotSize * n
           t == SumFunction(total)
           x == SlotSize
<1>1. a \in Nat /\ b \in Nat /\ t \in Nat /\ freeCapacity <= a + b + t + lost /\ lost \in Nat /\ freeCapacity \in Int
      /\ n \in Nat /\ x \in Nat
  BY Overclaims, Sizes DEF SlotTypes
<1>2. /\ pc[p] = "add" /\ pc' = [pc EXCEPT ![p] = "mark"] /\ UNCHANGED << marks, class, total, lost >>
      /\ freeCapacity' = freeCapacity + Credit(class[p])
  BY DEF MarkAdd, Goto, spans, locals, history
<1>3. CASE class[p] = 0
  <2>1. Marking' = Marking /\ freeCapacity' = freeCapacity
    BY <1>1, <1>2, <1>3 DEF Marking, Credit, ClaimTypes
  <2> QED
    BY <1>1, <1>2, <2>1, OverSame DEF Bytes
<1>4. CASE class[p] # 0
  <2>1. Marking' = Marking \cup {p} /\ p \notin Marking
    BY <1>2, <1>4 DEF Marking, ClaimTypes
  <2>2. Cardinality(Marking') = n + 1
    BY <2>1, Sizes, FS_AddElement
  <2>3. freeCapacity' = freeCapacity + x
    BY <1>2, <1>4 DEF Credit
  <2>4. x * (n + 1) = b + x
    BY <1>1, OneMore
  <2> HIDE DEF a, b, t, x, n
  <2>5. freeCapacity' <= a + (b + x) + t + lost
    BY <1>1, <2>3
  <2>6. freeCapacity' <= a + x * Cardinality(Marking') + t + lost
    BY <2>2, <2>4, <2>5
  <2> QED
    BY <1>2, <2>6 DEF NeverOverclaims, Marking, Bytes, a, t, x
<1> QED
  BY <1>3, <1>4

LEMMA OverMark ==
  ASSUME ClaimTypes, SlotTypes, NeverOverclaims, NEW p \in Procs, MarkSet(p)
  PROVE  NeverOverclaims'
<1> DEFINE c == class[p]
           a == SumFunction(Bytes)
           n == Cardinality(Marking')
           b == SlotSize * n
           t == SumFunction(total)
           x == Credit(c)
<1>1. /\ c \in Classes /\ pc[p] = "mark" /\ UNCHANGED << freeCapacity, class, total >>
      /\ \E l \in {"idle", "need"} : pc' = [pc EXCEPT ![p] = l]
  BY DEF MarkSet, Goto, ClaimTypes, heap, locals
<1>2. x \in Nat
  BY <1>1, CreditNat
<1>3. b \in Nat /\ SlotSize * Cardinality(Marking) = b + x
  <2>1. CASE c = 0
    <3>1. Marking' = Marking /\ x = 0
      BY <1>1, <2>1 DEF Marking, ClaimTypes, Credit
    <3>2. b = SlotSize * Cardinality(Marking) /\ b \in Nat
      BY <3>1, Overclaims
    <3> HIDE DEF b, x
    <3> QED
      BY <3>1, <3>2
  <2>2. CASE c # 0
    <3>1. Marking' = Marking \ {p} /\ p \in Marking
      BY <1>1, <2>2 DEF Marking, ClaimTypes
    <3>2. n = Cardinality(Marking) - 1 /\ IsFiniteSet(Marking')
      BY <3>1, Sizes, FS_RemoveElement
    <3>3. n \in Nat /\ Cardinality(Marking) \in Nat
      BY <3>2, Sizes, FS_CardinalityType
    <3>4. Cardinality(Marking) = n + 1
      <4> HIDE DEF n
      <4> QED
        BY <3>2, <3>3
    <3>5. x = SlotSize /\ SlotSize \in Nat
      BY <2>2, SweepAssumption DEF Credit
    <3> QED
      BY <3>3, <3>4, <3>5, OneMore, Products
  <2> QED
    BY <2>1, <2>2
<1>4. a \in Nat /\ t \in Nat /\ freeCapacity <= a + (b + x) + t + lost /\ lost \in Nat /\ freeCapacity \in Int
  BY <1>3, Overclaims DEF SlotTypes
<1>5. CASE stale[p] \/ broken[c]
  <2>1. lost' = lost + x /\ marks' = marks
    BY <1>5 DEF MarkSet
  <2> HIDE DEF a, b, t, x, n
  <2>2. freeCapacity' <= a + b + t + lost'
    BY <1>1, <1>2, <1>3, <1>4, <2>1
  <2> QED
    BY <1>1, <2>1, <2>2 DEF NeverOverclaims, Marking, Bytes, a, b, t, n
<1>6. CASE ~ (stale[p] \/ broken[c])
  <2>1. marks' = [marks EXCEPT ![c] = @ + 1] /\ lost' = lost
    BY <1>6 DEF MarkSet
  <2>2. (marks[c] + 1) * x = marks[c] * x + x /\ marks[c] * x \in Nat
    <3>1. \A i, j \in Nat : i * j = j * i
      BY SMTT(30)
    <3>2. marks[c] \in Nat /\ marks[c] + 1 \in Nat
      BY <1>1 DEF SlotTypes
    <3> HIDE DEF x
    <3> QED
      BY <1>2, <3>1, <3>2, OneMore, Products
  <2> DEFINE y == marks[c] * x
  <2>3. Bytes' = [Bytes EXCEPT ![c] = y + x] /\ Bytes[c] = y
    BY <1>1, <2>1, <2>2 DEF Bytes, SlotTypes
  <2>4. y \in Nat /\ y + x \in Nat
    <3>1. y \in Nat
      BY <2>2
    <3> HIDE DEF y, x
    <3> QED
      BY <1>2, <3>1
  <2>5. SumFunction(Bytes') = a + x
    <3> DEFINE v == y + x
    <3>1. SumFunction([Bytes EXCEPT ![c] = v]) = a - Bytes[c] + v
      <4>1. v \in Nat /\ c \in Classes /\ IsFiniteSet(Classes) /\ Bytes \in [Classes -> Nat]
        BY <1>1, <2>4, Sizes
      <4> HIDE DEF v, c
      <4> QED
        BY <4>1, SumChange
    <3>2. SumFunction(Bytes') = a - y + (y + x)
      BY <2>3, <3>1
    <3> HIDE DEF y, a, x
    <3>3. a - y + (y + x) = a + x
      BY <1>2, <1>4, <2>4
    <3> QED
      BY <3>2, <3>3
  <2> HIDE DEF a, b, t, x, n
  <2>6. freeCapacity' <= (a + x) + b + t + lost'
    BY <1>1, <1>2, <1>3, <1>4, <2>1
  <2>7. freeCapacity' <= SumFunction(Bytes') + b + t + lost'
    BY <2>5, <2>6
  <2> QED
    BY <1>1, <2>7 DEF NeverOverclaims, Marking, Bytes, b, t, n
<1> QED
  BY <1>5, <1>6

(* What a sweep gets goes into its total, or is lost with its total. *)
LEMMA OverTotal ==
  ASSUME SlotTypes, NEW p \in Procs, NEW v \in Nat, total' = [total EXCEPT ![p] = v]
  PROVE  /\ SumFunction(total) \in Nat /\ total[p] \in Nat /\ SumFunction(total) >= total[p]
         /\ SumFunction(total') = SumFunction(total) - total[p] + v
<1>1. IsFiniteSet(Procs) /\ total \in [Procs -> Nat]
  BY Sizes
<1> QED
  BY <1>1, SumChange

(* A sweep takes allocCount off freeCapacity, and what it counts moves     *)
(* from the marks into its total, or is lost with the bitmap.              *)
LEMMA OverSweep ==
  ASSUME ClaimTypes, SlotTypes, NeverOverclaims, NEW p \in Procs, SpanSweep(p) \/ SpanSweepFails(p)
  PROVE  NeverOverclaims'
<1> DEFINE c == class[p]
           y == marks[c] * SlotSize
           a == SumFunction(Bytes)
           b == SlotSize * Cardinality(Marking)
           t == SumFunction(total)
           k == total[p]
<1>1. /\ c \in Classes /\ pc[p] = "span" /\ pc' = [pc EXCEPT ![p] = "claim"]
      /\ freeCapacity' = freeCapacity - allocCount[c] /\ class' = class
  BY DEF SpanSweep, SpanSweepFails, SpanRecount, Goto, ClaimTypes
<1>2. Marking' = Marking
  BY <1>1 DEF Marking, ClaimTypes
<1>3. freeCapacity' \in Int /\ freeCapacity \in Int /\ freeCapacity' <= freeCapacity /\ marks[c] \in Nat
  BY <1>1, SweepAssumption DEF SlotTypes
<1>4. CASE ~ (allocCount[c] >= NElems)
  <2>1. UNCHANGED << marks, total, lost >>
    BY <1>4 DEF SpanSweep, SpanSweepFails
  <2> QED
    BY <1>2, <1>3, <2>1, OverSame DEF Bytes
<1>5. CASE allocCount[c] >= NElems
  <2>1. /\ marks' = [marks EXCEPT ![c] = 0]
        /\ \/ total' = [total EXCEPT ![p] = k + y] /\ lost' = lost
           \/ total' = total /\ lost' = lost + y
    BY <1>5 DEF SpanSweep, SpanSweepFails, SpanSwap
  <2>2. y \in Nat /\ k \in Nat /\ Bytes[c] \in Nat /\ Bytes[c] <= y
    <3>1. y \in Nat /\ k \in Nat
      BY <1>3, SweepAssumption, Products DEF SlotTypes
    <3>2. Bytes[c] = y \/ Bytes[c] = 0
      BY <1>1, <1>3 DEF Bytes, Credit
    <3> HIDE DEF y
    <3> QED
      BY <3>1, <3>2
  <2>3. Bytes' = [Bytes EXCEPT ![c] = 0]
    <3>1. 0 * Credit(c) = 0
      BY <1>1, CreditNat
    <3> QED
      BY <1>1, <2>1, <3>1 DEF Bytes, SlotTypes
  <2>4. SumFunction(Bytes') = a - Bytes[c] + 0 /\ a >= Bytes[c] /\ a \in Nat
    <3>1. c \in Classes /\ IsFiniteSet(Classes) /\ Bytes \in [Classes -> Nat] /\ 0 \in Nat
      BY <1>1, Sizes
    <3> HIDE DEF c
    <3>2. a \in Nat /\ a >= Bytes[c] /\ SumFunction([Bytes EXCEPT ![c] = 0]) = a - Bytes[c] + 0
      BY <3>1, SumChange
    <3> QED
      BY <2>3, <3>2
  <2>5. b \in Nat /\ t \in Nat /\ freeCapacity <= a + b + t + lost /\ lost \in Nat
    BY Overclaims DEF SlotTypes
  <2>6. freeCapacity' <= (a - Bytes[c] + 0) + b + (t + y) + lost
    <3> DEFINE z == Bytes[c]
    <3>1. z \in Nat /\ z <= y /\ y \in Nat
      BY <2>2
    <3> HIDE DEF y, a, b, t, z
    <3>2. freeCapacity' <= (a - z + 0) + b + (t + y) + lost
      BY <1>3, <2>5, <2>4, <3>1
    <3> QED
      BY <3>2 DEF z
  <2>7. SumFunction(total') + lost' = (t + y) + lost
    <3>1. CASE total' = [total EXCEPT ![p] = k + y] /\ lost' = lost
      <4> DEFINE v == k + y
      <4>1. v \in Nat
        <5> HIDE DEF y, k
        <5> QED
          BY <2>2
      <4>2. SumFunction(total') = t - total[p] + v
        <5>1. total' = [total EXCEPT ![p] = v]
          BY <3>1
        <5> HIDE DEF v
        <5> QED
          BY <4>1, <5>1, OverTotal
      <4>3. SumFunction(total') = t - k + (k + y)
        BY <4>2
      <4> HIDE DEF y, t, k
      <4> QED
        BY <2>2, <2>5, <3>1, <4>3
    <3>2. CASE total' = total /\ lost' = lost + y
      <4> HIDE DEF y
      <4>1. t + (lost + y) = (t + y) + lost
        <5> HIDE DEF t
        <5> QED
          BY <2>2, <2>5
      <4> QED
        BY <3>2, <4>1
    <3> QED
      BY <2>1, <3>1, <3>2
  <2>8. SumFunction(total') \in Int /\ lost' \in Int
    <3>1. lost' \in Int
      <4> HIDE DEF y
      <4> QED
        BY <2>1, <2>2, <2>5
    <3>2. total' \in [Procs -> Nat]
      <4>1. k + y \in Nat
        <5> HIDE DEF k, y
        <5> QED
          BY <2>2
      <4> HIDE DEF k, y
      <4> QED
        BY <2>1, <4>1 DEF SlotTypes
    <3> QED
      BY <3>1, <3>2, Sizes, SumNat
  <2>9. freeCapacity' <= SumFunction(Bytes') + b + SumFunction(total') + lost'
    <3> DEFINE m == a - Bytes[c] + 0
               u == SumFunction(total')
    <3>1. m \in Int /\ u \in Int /\ u + lost' = (t + y) + lost /\ freeCapacity' <= m + b + (t + y) + lost
      <4>1. m \in Int
        BY <2>2, <2>4
      <4> QED
        BY <2>6, <2>7, <2>8, <4>1
    <3>2. SumFunction(Bytes') = m
      BY <2>4
    <3>3. freeCapacity' <= m + b + u + lost'
      <4> DEFINE w == lost'
                 f == freeCapacity'
      <4>1. w \in Int /\ f \in Int /\ u + w = (t + y) + lost /\ f <= m + b + (t + y) + lost
        BY <1>3, <2>8, <3>1
      <4> HIDE DEF m, u, b, t, y, w, f
      <4>2. f <= m + b + u + w
        BY <2>2, <2>5, <3>1, <4>1
      <4> QED
        BY <4>2 DEF w, f
    <3> QED
      BY <3>2, <3>3 DEF u
  <2>10. freeCapacity' <= SumFunction(Bytes') + SlotSize * Cardinality(Marking') + SumFunction(total') + lost'
    BY <1>2, <2>9
  <2> QED
    BY <2>10 DEF NeverOverclaims, Marking, Bytes
<1> QED
  BY <1>4, <1>5

(* Steps that move bytes between the totals and what is lost, or add to    *)
(* them: a large object, and the end of a sweep without a bitmap.          *)
LEMMA OverMore ==
  ASSUME SlotTypes, SlotTypes', NeverOverclaims, UNCHANGED freeCapacity, Bytes' = Bytes, Marking' = Marking,
         SumFunction(total') + lost' >= SumFunction(total) + lost
  PROVE  NeverOverclaims'
<1> DEFINE a == SumFunction(Bytes)
           b == SlotSize * Cardinality(Marking)
           t == SumFunction(total)
           u == SumFunction(total')
<1>1. a \in Nat /\ b \in Nat /\ t \in Nat /\ freeCapacity <= a + b + t + lost /\ lost \in Nat /\ freeCapacity \in Int
  BY Overclaims DEF SlotTypes
<1>2. u \in Nat /\ lost' \in Nat /\ u + lost' >= t + lost /\ freeCapacity' = freeCapacity
  BY Sizes, SumNat DEF SlotTypes
<1>3. freeCapacity' <= a + b + u + lost'
  <2> DEFINE w == lost'
             f == freeCapacity'
  <2>1. w \in Nat /\ u + w >= t + lost /\ f = freeCapacity
    BY <1>2
  <2> HIDE DEF a, b, t, u, w, f
  <2>2. f <= a + b + u + w
    BY <1>1, <1>2, <2>1
  <2> QED
    BY <2>2 DEF w, f
<1>4. freeCapacity' <= SumFunction(Bytes') + SlotSize * Cardinality(Marking') + SumFunction(total') + lost'
  BY <1>3 DEF a, b, u
<1> QED
  BY <1>4 DEF NeverOverclaims, Marking, Bytes

LEMMA OverPanics ==
  ASSUME ClaimTypes, SlotTypes, SlotTypes', NeverOverclaims, NEW p \in Procs, SpanPanics(p)
  PROVE  NeverOverclaims'
<1>1. /\ pc[p] \in {"test", "span"} /\ pc' = [pc EXCEPT ![p] = "idle"]
      /\ UNCHANGED << freeCapacity, marks, class >>
      /\ total' = [total EXCEPT ![p] = 0] /\ lost' = lost + total[p]
  BY DEF SpanPanics, Goto, heap, spans
<1>2. Marking' = Marking /\ Bytes' = Bytes
  BY <1>1 DEF Marking, ClaimTypes, Bytes
<1> DEFINE t == SumFunction(total)
           u == SumFunction(total')
<1>3. t \in Nat /\ total[p] \in Nat /\ t >= total[p] /\ u = t - total[p] + 0 /\ lost \in Nat
  BY <1>1, OverTotal DEF SlotTypes
<1> HIDE DEF t, u
<1>4. u + lost' >= t + lost
  BY <1>1, <1>3
<1> QED
  BY <1>1, <1>2, <1>4, OverMore DEF t, u

LEMMA OverLarge ==
  ASSUME ClaimTypes, SlotTypes, SlotTypes', NeverOverclaims, NEW p \in Procs, LargeSweep(p)
  PROVE  NeverOverclaims'
<1>1. /\ 0 \in Classes /\ UNCHANGED << freeCapacity, pc, class, lost >>
      /\ marks' = [marks EXCEPT ![0] = @ - 1]
      /\ total' = [total EXCEPT ![p] = @ + LargeBytes]
  BY DEF LargeSweep, ClaimTypes, heap, history
<1>2. Marking' = Marking
  BY <1>1 DEF Marking
<1>3. Bytes' = Bytes
  <2>1. \A c \in Classes : marks'[c] * Credit(c) = marks[c] * Credit(c)
    <3>1. marks[0] \in Nat /\ marks'[0] \in Int
      BY <1>1 DEF SlotTypes
    <3>2. marks[0] * 0 = 0 /\ marks'[0] * 0 = 0
      BY <3>1
    <3> QED
      BY <1>1, <3>2 DEF Credit, SlotTypes
  <2> QED
    BY <2>1 DEF Bytes
<1> DEFINE t == SumFunction(total)
           u == SumFunction(total')
           v == total[p] + LargeBytes
<1>4. v \in Nat /\ total' = [total EXCEPT ![p] = v] /\ total[p] \in Nat /\ LargeBytes \in Nat /\ lost \in Nat
  BY <1>1, SweepAssumption DEF SlotTypes
<1>5. t \in Nat /\ t >= total[p] /\ u = t - total[p] + v
  <2> HIDE DEF v
  <2> QED
    BY <1>4, OverTotal
<1> HIDE DEF t, u
<1>6. u + lost' >= t + lost
  BY <1>1, <1>4, <1>5
<1> QED
  BY <1>1, <1>2, <1>3, <1>6, OverMore DEF t, u

LEMMA OverSubtract ==
  ASSUME ClaimTypes, SlotTypes, SlotTypes', NeverOverclaims, NEW p \in Procs, Subtract(p)
  PROVE  NeverOverclaims'
<1> DEFINE a == SumFunction(Bytes)
           b == SlotSize * Cardinality(Marking)
           t == SumFunction(total)
<1>1. /\ pc[p] = "subtract" /\ pc' = [pc EXCEPT ![p] = "end"] /\ UNCHANGED << marks, lost >>
      /\ freeCapacity' = freeCapacity - total[p] /\ total' = [total EXCEPT ![p] = 0]
  BY DEF Subtract, Goto, spans, history
<1>2. Marking' = Marking /\ Bytes' = Bytes
  <2>1. class' = class
    BY DEF Subtract
  <2> QED
    BY <1>1, <2>1 DEF Marking, ClaimTypes, Bytes
<1>3. total[p] \in Nat
  BY DEF SlotTypes
<1>4. SumFunction(total') = t - total[p] + 0 /\ t >= total[p]
  <2>1. IsFiniteSet(Procs) /\ total \in [Procs -> Nat] /\ 0 \in Nat
    BY Sizes
  <2>2. t >= total[p] /\ SumFunction([total EXCEPT ![p] = 0]) = t - total[p] + 0
    BY <2>1, SumChange
  <2> QED
    BY <1>1, <2>2
<1>5. a \in Nat /\ b \in Nat /\ t \in Nat /\ freeCapacity <= a + b + t + lost /\ lost \in Nat /\ freeCapacity \in Int
  BY Overclaims DEF SlotTypes
<1> HIDE DEF a, b, t
<1>6. freeCapacity' <= a + b + (t - total[p] + 0) + lost'
  BY <1>1, <1>3, <1>5
<1>7. freeCapacity' <= a + b + SumFunction(total') + lost'
  BY <1>4, <1>6
<1>8. freeCapacity' <= SumFunction(Bytes') + SlotSize * Cardinality(Marking') + SumFunction(total') + lost'
  BY <1>2, <1>7 DEF a, b
<1> QED
  BY <1>8 DEF NeverOverclaims, Marking, Bytes

LEMMA OverInit == Init => NeverOverclaims
<1> SUFFICES ASSUME Init
             PROVE  NeverOverclaims
  OBVIOUS
<1>1. Bytes = [c \in Classes |-> 0]
  <2>1. \A c \in Classes : 0 * Credit(c) = 0
    BY CreditNat
  <2> QED
    BY <2>1 DEF Init, Bytes
<1>2. SlotTypes
  BY SlotInit DEF SlotInv
<1>3. SumFunction(Bytes) = 0
  BY <1>1, <1>2, Sizes, SumZero
<1>4. SumFunction(total) \in Nat /\ SlotSize * Cardinality(Marking) \in Nat
  BY <1>2, Overclaims
<1> DEFINE b == SlotSize * Cardinality(Marking)
           t == SumFunction(total)
<1> HIDE DEF b, t
<1>5. 0 <= 0 + b + t + 0
  BY <1>4 DEF b, t
<1> QED
  BY <1>2, <1>3, <1>5, Overclaims DEF Init, b, t

(* The other actions leave freeCapacity, the marks and the totals alone,   *)
(* and go neither to a mark nor away from one.                             *)
LEMMA OverNext ==
  ASSUME ClaimTypes, SlotTypes, SlotTypes', NeverOverclaims, [Next]_vars
  PROVE  NeverOverclaims'
<1>1. freeCapacity' \in Int /\ freeCapacity \in Int
  BY DEF SlotTypes
<1>2. ASSUME NEW p \in Procs, NEW l, pc' = [pc EXCEPT ![p] = l], l # "mark", pc[p] # "mark",
             \A q \in Procs \ {p} : class'[q] = class[q],
             UNCHANGED << freeCapacity, marks, total, lost >>
      PROVE  NeverOverclaims'
  <2>1. Marking' = Marking
    BY <1>2 DEF Marking, ClaimTypes
  <2> QED
    BY <1>1, <1>2, <2>1, OverSame DEF Bytes
<1>3. CASE \E c \in Classes : Alloc(c)
  BY <1>1, <1>3, OverSame DEF Alloc, heap, locals, history, Marking, Bytes
<1>4. CASE Tick \/ UNCHANGED vars
  BY <1>1, <1>4, OverSame DEF Tick, vars, heap, spans, locals, history, Marking, Bytes
<1>5. ASSUME NEW p \in Procs, Free(p)
      PROVE  NeverOverclaims'
  <2>1. CASE MarkResolve(p)
    <3>1. pc' = [pc EXCEPT ![p] = "add"] /\ pc[p] = "idle"
      BY <2>1 DEF MarkResolve, Goto
    <3>2. UNCHANGED << heap, marks, total, lost >> /\ \A q \in Procs \ {p} : class'[q] = class[q]
      BY <2>1 DEF MarkResolve, ClaimTypes
    <3> QED
      BY <1>2, <3>1, <3>2 DEF heap
  <2>2. CASE NeedCapacity(p) \/ NeedTime(p) \/ SpanTest(p) \/ LargeDone(p)
    <3>1. PICK l \in {"idle", "time", "ctl", "span", "claim"} : pc' = [pc EXCEPT ![p] = l]
      BY <2>2 DEF NeedCapacity, NeedTime, SpanTest, LargeDone, Goto
    <3>2. pc[p] \in {"need", "time", "test"} /\ UNCHANGED << heap, spans, locals, history >>
      BY <2>2 DEF NeedCapacity, NeedTime, SpanTest, LargeDone
    <3> QED
      BY <1>2, <3>1, <3>2 DEF heap, spans, locals, history
  <2>3. CASE NeedLoad(p) \/ ClaimLoad(p) \/ EndLoad(p)
    <3>1. \E l \in {"join", "lead", "idle", "swap", "done", "out"} : pc' = [pc EXCEPT ![p] = l]
      BY <2>3 DEF NeedLoad, ClaimLoad, EndLoad, Goto
    <3>2. pc[p] \in {"ctl", "claim", "end"} /\ UNCHANGED << heap, spans, class, stale, total, history >>
      BY <2>3 DEF NeedLoad, ClaimLoad, EndLoad
    <3> QED
      BY <1>2, <3>1, <3>2 DEF heap, spans, history
  <2>4. CASE Join(p) \/ Lead(p) \/ EndSwap(p) \/ ClearCtl(p)
    <3>1. \E l \in {"claim", "lead", "idle", "end", "clear", "rewind"} : pc' = [pc EXCEPT ![p] = l]
      BY <2>4 DEF Join, Lead, EndSwap, ClearCtl, Goto
    <3>2. pc[p] \in {"join", "lead", "out", "clear"} /\ UNCHANGED << freeCapacity, recent, spans, locals, history >>
      BY <2>4 DEF Join, Lead, EndSwap, ClearCtl
    <3> QED
      BY <1>2, <3>1, <3>2 DEF spans, locals, history
  <2>5. CASE ClaimSwap(p)
    <3>1. \E l \in {"test", "claim"} : pc' = [pc EXCEPT ![p] = l]
      BY <2>5 DEF ClaimSwap, Goto
    <3>2. pc[p] = "swap" /\ UNCHANGED << freeCapacity, recent, spans, stale, total, frees, lost >>
         /\ \A q \in Procs \ {p} : class'[q] = class[q]
      BY <2>5 DEF ClaimSwap, ClaimTypes
    <3> QED
      BY <1>2, <3>1, <3>2 DEF spans
  <2>6. CASE SweepDone(p)
    <3>1. \E l \in {"idle", "subtract"} : pc' = [pc EXCEPT ![p] = l]
      BY <2>6 DEF SweepDone, Goto
    <3> QED
      BY <1>2, <2>6, <3>1 DEF SweepDone, spans, locals, history
  <2>7. CASE ClearIndex(p)
    BY <1>2, <2>7 DEF ClearIndex, Goto, spans, locals
  <2> QED
    BY <1>5, <2>1, <2>2, <2>3, <2>4, <2>5, <2>6, <2>7,
       OverAdd, OverMark, OverSweep, OverPanics, OverLarge, OverSubtract
       DEF Free, Mark, NeedSweep, Sweep
<1> QED
  BY <1>3, <1>4, <1>5 DEF Next

(* freeCapacity never promises a sweep more than is there: every byte that *)
(* setMarkBitsForIndex adds (span.go:167) is marked, about to be, in the   *)
(* total of a sweep that has not subtracted it yet, or lost: marked too    *)
(* late, swept from a span whose new bitmap found no memory                *)
(* (class_span.go:120), or in the total of a sweep that panicked there.    *)
(* The sum runs over any number of classes and Frees; that freeSpan takes  *)
(* slots off for bytes (class_span.go:106), and a sweep the pages of large *)
(* objects whose Free added nothing (heap.go:386), err on the safe side.   *)
THEOREM PromiseIsCovered == Spec => []NeverOverclaims
<1> DEFINE I == ClaimInv /\ SlotInv /\ NeverOverclaims
<1>1. Init => I
  BY ClaimInit, SlotInit, OverInit
<1>2. I /\ [Next]_vars => I'
  <2> SUFFICES ASSUME I, [Next]_vars
               PROVE  I'
    OBVIOUS
  <2>1. ClaimInv' /\ SlotInv'
    BY ClaimNext, SlotNext DEF ClaimInv
  <2>2. NeverOverclaims'
    BY <2>1, OverNext DEF ClaimInv, SlotInv
  <2> QED
    BY <2>1, <2>2
<1>3. I => NeverOverclaims
  OBVIOUS
<1> QED
  BY <1>1, <1>2, <1>3, PTL DEF Spec
=============================================================================
