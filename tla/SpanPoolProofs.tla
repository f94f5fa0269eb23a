--------------------------- MODULE SpanPoolProofs ---------------------------
(***************************************************************************)
(* What SpanPool promises for any number of goroutines and spans.          *)
(***************************************************************************)
EXTENDS SpanPoolHistory, TLAPS

(* A goroutine that has a slot, or looks for one, is at a position of the  *)
(* slice it walks.                                                         *)
WalkInv ==
  \A p \in Procs :
    /\ pc[p] \in {"walk", "need", "load", "swap"} => idex[p] \in Nat \ {0}
    /\ pc[p] \in {"need", "load", "swap"} => idex[p] <= Len(seen[p])

PoolInv == TypeOK /\ WalkInv /\ NoSpanLost /\ OneSpare

-----------------------------------------------------------------------------
LEMMA NelemsType == nelems \in Nat /\ nelems > 0
<1>1. SpanBytes \in Nat /\ ClassSize \in Nat \ {0} /\ ClassSize <= SpanBytes
  BY PoolAssumption
<1> QED
  BY <1>1 DEF nelems

LEMMA ExtensionPointType == extensionPoint \in Nat
BY NelemsType DEF extensionPoint

(* The effect of growClassSpan on the slice. *)
LEMMA ExpendKeeps ==
  ASSUME PoolInv, NEW s \in Spans, Expend(s), ~ LastHasRoom, UNCHANGED full
  PROVE  /\ spans' \in Seq(Spans) /\ used' \in 0 .. MaxSpans
         /\ allocCount' \in [Spans -> 0 .. nelems]
         /\ NoSpanLost' /\ OneSpare'
<1> DEFINE n == Len(spans)
<1>1. spans \in Seq(Spans) /\ n \in Nat /\ used \in Nat /\ s = used + 1
  BY DEF PoolInv, TypeOK, Expend
<1>2. /\ spans' = Append(spans, s) /\ Len(spans') = n + 1
      /\ \A i \in 1 .. n : spans'[i] = spans[i]
      /\ spans'[n + 1] = s
      /\ spans' \in Seq(Spans) /\ DOMAIN spans' = 1 .. n + 1 /\ DOMAIN spans = 1 .. n
  BY <1>1 DEF Expend
<1>3. used' \in 0 .. MaxSpans
  BY <1>1 DEF Expend, Spans
<1>4. PICK k \in 0 .. nelems - 1 : allocCount' = [allocCount EXCEPT ![s] = k]
  BY DEF Expend
<1>5. allocCount' \in [Spans -> 0 .. nelems]
  BY <1>4, NelemsType DEF PoolInv, TypeOK
<1>6. /\ \A i \in 1 .. n : spans[i] \in 1 .. used
      /\ full \subseteq 1 .. used
  BY <1>2 DEF PoolInv, NoSpanLost, InPool
<1>7. InPool' = InPool \cup {s}
  BY <1>1, <1>2 DEF InPool
<1>8. NoSpanLost'
  <2>1. (InPool \cup full = 1 .. used)'
    BY <1>1, <1>7 DEF PoolInv, NoSpanLost, Expend
  <2>2. \A i \in 1 .. n + 1 : \A t \in full : t < spans'[i]
    <3> SUFFICES ASSUME NEW i \in 1 .. n + 1, NEW t \in full PROVE t < spans'[i]
      OBVIOUS
    <3>1. CASE i \in 1 .. n
      BY <3>1, <1>2 DEF PoolInv, NoSpanLost
    <3>2. CASE i = n + 1
      BY <3>2, <1>1, <1>2, <1>6
    <3> QED
      BY <3>1, <3>2, <1>1
  <2>3. \A i, j \in 1 .. n + 1 : i < j => spans'[i] < spans'[j]
    <3> SUFFICES ASSUME NEW i \in 1 .. n + 1, NEW j \in 1 .. n + 1, i < j
                 PROVE  spans'[i] < spans'[j]
      OBVIOUS
    <3>1. CASE j \in 1 .. n
      BY <3>1, <1>1, <1>2 DEF PoolInv, NoSpanLost
    <3>2. CASE j = n + 1
      <4>1. i \in 1 .. n
        BY <3>2, <1>1
      <4> QED
        BY <4>1, <3>2, <1>1, <1>2, <1>6
    <3> QED
      BY <3>1, <3>2, <1>1
  <2> QED
    BY <2>1, <2>2, <2>3, <1>2 DEF NoSpanLost
<1>9. OneSpare'
  <2> SUFFICES ASSUME NEW i \in 1 .. n PROVE needGrow(spans[i])'
    BY <1>1, <1>2 DEF OneSpare
  <2>1. spans'[i] = spans[i] /\ spans[i] \in Spans /\ spans[i] # s
    BY <1>1, <1>2, <1>6
  <2>2. allocCount'[spans[i]] = allocCount[spans[i]]
    BY <2>1, <1>4 DEF PoolInv, TypeOK
  <2>3. needGrow(spans[i])
    <3>1. CASE i = n
      BY <3>1, <1>1 DEF LastHasRoom
    <3>2. CASE i \in 1 .. n - 1
      BY <3>2 DEF PoolInv, OneSpare
    <3> QED
      BY <3>1, <3>2, <1>1
  <2> QED
    BY <2>1, <2>2, <2>3 DEF needGrow, extensionPoint, nelems
<1> QED
  BY <1>2, <1>3, <1>5, <1>8, <1>9

(* The effect of removing the head. *)
LEMMA RemoveKeeps ==
  ASSUME PoolInv, Len(spans) > 0, spans' = Tail(spans), full' = full \cup {spans[1]},
         UNCHANGED << allocCount, used >>
  PROVE  /\ spans' \in Seq(Spans) /\ full' \in SUBSET Spans
         /\ NoSpanLost' /\ OneSpare'
<1> DEFINE n == Len(spans)
<1>1. spans \in Seq(Spans) /\ n \in Nat /\ n >= 1 /\ full \in SUBSET Spans
  BY DEF PoolInv, TypeOK
<1>2. /\ spans' \in Seq(Spans) /\ Len(spans') = n - 1
      /\ \A i \in 1 .. n - 1 : spans'[i] = spans[i + 1]
      /\ DOMAIN spans' = 1 .. n - 1 /\ DOMAIN spans = 1 .. n
  BY <1>1
<1>3. \A i \in 1 .. n : spans[i] \in Spans
  BY <1>1
<1>4. InPool = InPool' \cup {spans[1]}
  <2>1. InPool' \subseteq InPool
    <3> SUFFICES ASSUME NEW i \in 1 .. n - 1 PROVE spans'[i] \in InPool
      BY <1>2 DEF InPool
    <3>1. i + 1 \in 1 .. n /\ spans'[i] = spans[i + 1]
      BY <1>1, <1>2
    <3> QED
      BY <3>1, <1>2 DEF InPool
  <2>2. spans[1] \in InPool
    BY <1>1, <1>2 DEF InPool
  <2>3. ASSUME NEW i \in 1 .. n, i # 1 PROVE spans[i] \in InPool'
    <3>1. i - 1 \in 1 .. n - 1 /\ spans'[i - 1] = spans[i]
      BY <2>3, <1>1, <1>2
    <3> QED
      BY <3>1, <1>2 DEF InPool
  <2> QED
    BY <2>1, <2>2, <2>3, <1>2 DEF InPool
<1>5. NoSpanLost'
  <2>1. (InPool \cup full = 1 .. used)'
    BY <1>4 DEF PoolInv, NoSpanLost
  <2>2. \A i \in 1 .. n - 1 : \A t \in full' : t < spans'[i]
    <3> SUFFICES ASSUME NEW i \in 1 .. n - 1, NEW t \in full' PROVE t < spans'[i]
      OBVIOUS
    <3>1. i + 1 \in 1 .. n /\ 1 \in 1 .. n /\ 1 < i + 1 /\ spans'[i] = spans[i + 1]
      BY <1>1, <1>2
    <3>2. CASE t \in full
      BY <3>1, <3>2, <1>2 DEF PoolInv, NoSpanLost
    <3>3. CASE t = spans[1]
      BY <3>1, <3>3, <1>2 DEF PoolInv, NoSpanLost
    <3> QED
      BY <3>2, <3>3
  <2>3. \A i, j \in 1 .. n - 1 : i < j => spans'[i] < spans'[j]
    <3> SUFFICES ASSUME NEW i \in 1 .. n - 1, NEW j \in 1 .. n - 1, i < j
                 PROVE  spans'[i] < spans'[j]
      OBVIOUS
    <3>1. i + 1 \in 1 .. n /\ j + 1 \in 1 .. n /\ i + 1 < j + 1
      BY <1>1
    <3> QED
      BY <3>1, <1>2 DEF PoolInv, NoSpanLost
  <2> QED
    BY <2>1, <2>2, <2>3, <1>2 DEF NoSpanLost
<1>6. OneSpare'
  <2> SUFFICES ASSUME NEW i \in 1 .. n - 2 PROVE needGrow(spans[i])'
    BY <1>1, <1>2 DEF OneSpare
  <2>1. i + 1 \in 1 .. n - 1 /\ spans'[i] = spans[i + 1]
    BY <1>1, <1>2
  <2>2. needGrow(spans[i + 1])
    BY <2>1 DEF PoolInv, OneSpare
  <2> QED
    BY <2>1, <2>2 DEF needGrow, extensionPoint, nelems
<1> QED
  BY <1>1, <1>2, <1>3, <1>5, <1>6

-----------------------------------------------------------------------------
LEMMA PoolInit == Init => PoolInv
<1> SUFFICES ASSUME Init PROVE PoolInv
  OBVIOUS
<1>1. TypeOK
  BY NelemsType, PoolAssumption DEF Init, TypeOK, Spans, PcValues
<1>2. WalkInv
  BY DEF Init, WalkInv
<1>3. NoSpanLost /\ OneSpare
  BY DEF Init, NoSpanLost, OneSpare, InPool
<1> QED
  BY <1>1, <1>2, <1>3 DEF PoolInv

(* Steps that leave the spans alone and move one goroutine on. *)
LEMMA QuietStep ==
  ASSUME PoolInv, TypeOK', WalkInv', UNCHANGED << spans, spanState >>
  PROVE  PoolInv'
<1>1. NoSpanLost'
  BY DEF PoolInv, NoSpanLost, InPool, spanState
<1>2. OneSpare'
  BY DEF PoolInv, OneSpare, needGrow, extensionPoint, nelems, spanState
<1> QED
  BY <1>1, <1>2 DEF PoolInv

(* The way out of needGrow and needExpendAsync. *)
LEMMA ReturnTypes ==
  ASSUME TypeOK, NEW p \in Procs, Return(p)
  PROVE  /\ pc' \in [Procs -> PcValues]
         /\ seen' \in [Procs -> Seq(Spans)]
         /\ idex' \in [Procs -> Nat]
<1>1. PICK l \in {"remove", "idle"} : Leave(p, l)
  BY DEF Return
<1> QED
  BY <1>1 DEF Leave, Goto, TypeOK, PcValues

LEMMA PoolNext == PoolInv /\ [Next]_vars => PoolInv'
<1> SUFFICES ASSUME PoolInv, [Next]_vars PROVE PoolInv'
  OBVIOUS
<1> USE PoolAssumption, NelemsType
<1>t. TypeOK /\ WalkInv
  BY DEF PoolInv
<1>1. ASSUME NEW p \in Procs, Alloc(p) PROVE PoolInv'
  <2>1. CASE AllocStart(p)
    <3>1. TypeOK'
      BY <2>1, <1>t DEF TypeOK, AllocStart, Goto, class, spanState, PcValues
    <3>2. WalkInv'
      BY <2>1, <1>t DEF TypeOK, WalkInv, AllocStart, Goto
    <3> QED
      BY <3>1, <3>2, <2>1, QuietStep DEF AllocStart, class
  <2>2. CASE AllocTake(p)
    <3> DEFINE s == seen[p][idex[p]]
    <3>1. s \in Spans
      BY <2>2, <1>t DEF TypeOK, WalkInv, AllocTake
    <3>2. allocCount' = [allocCount EXCEPT ![s] = @ + 1] /\ allocCount[s] < nelems
      BY <2>2 DEF AllocTake
    <3>3. allocCount' \in [Spans -> 0 .. nelems]
      BY <3>1, <3>2, <1>t DEF TypeOK
    <3>4. TypeOK'
      BY <2>2, <3>3, <1>t DEF TypeOK, AllocTake, Goto, class, walk, PcValues
    <3>5. WalkInv'
      BY <2>2, <1>t DEF TypeOK, WalkInv, AllocTake, Goto, walk
    <3>6. NoSpanLost'
      BY <2>2 DEF AllocTake, PoolInv, NoSpanLost, InPool, class
    <3>7. OneSpare'
      <4> SUFFICES ASSUME NEW i \in 1 .. Len(spans) - 1 PROVE needGrow(spans[i])'
        BY <2>2 DEF OneSpare, AllocTake, class
      <4>1. spans[i] \in Spans /\ spans' = spans
        BY <2>2, <1>t DEF TypeOK, AllocTake, class
      <4>2. needGrow(spans[i])
        BY DEF PoolInv, OneSpare
      <4>3. allocCount[spans[i]] <= allocCount'[spans[i]]
        <5>1. allocCount \in [Spans -> Nat]
          BY <1>t DEF TypeOK
        <5> QED
          BY <3>1, <3>2, <4>1, <5>1
      <4>4. allocCount[spans[i]] \in Nat /\ allocCount'[spans[i]] \in Nat
        BY <4>1, <3>3, <1>t DEF TypeOK
      <4>5. needGrow(spans[i])' <=> extensionPoint <= allocCount'[spans'[i]]
        BY DEF needGrow, extensionPoint, nelems
      <4>6. extensionPoint <= allocCount[spans[i]]
        BY <4>2 DEF needGrow
      <4>7. extensionPoint <= allocCount'[spans[i]]
        BY <4>3, <4>4, <4>6, ExtensionPointType
      <4> QED
        BY <4>1, <4>5, <4>7
    <3> QED
      BY <3>4, <3>5, <3>6, <3>7 DEF PoolInv
  <2>3. CASE AllocPass(p)
    <3>1. TypeOK'
      BY <2>3, <1>t DEF TypeOK, AllocPass, class, spanState
    <3>2. WalkInv'
      BY <2>3, <1>t DEF TypeOK, WalkInv, AllocPass
    <3> QED
      BY <3>1, <3>2, <2>3, QuietStep DEF AllocPass, class
  <2>4. CASE AllocMiss(p)
    <3>1. TypeOK'
      BY <2>4, <1>t DEF TypeOK, AllocMiss, Leave, Goto, class, spanState, PcValues
    <3>2. WalkInv'
      BY <2>4, <1>t DEF TypeOK, WalkInv, AllocMiss, Leave, Goto
    <3> QED
      BY <3>1, <3>2, <2>4, QuietStep DEF AllocMiss, class
  <2>5. CASE AllocNeed(p)
    <3>1. CASE needGrow(seen[p][idex[p]])
      <4>1. TypeOK'
        BY <2>5, <3>1, <1>t DEF TypeOK, AllocNeed, Goto, class, spanState, walk, PcValues
      <4>2. WalkInv'
        BY <2>5, <3>1, <1>t DEF TypeOK, WalkInv, AllocNeed, Goto, walk
      <4> QED
        BY <4>1, <4>2, <2>5, QuietStep DEF AllocNeed, class
    <3>2. CASE ~ needGrow(seen[p][idex[p]])
      <4>1. TypeOK'
        BY <2>5, <3>2, <1>t, ReturnTypes DEF TypeOK, AllocNeed, class, spanState
      <4>2. WalkInv'
        BY <2>5, <3>2, <1>t DEF TypeOK, WalkInv, AllocNeed, Return, Leave, Goto
      <4> QED
        BY <4>1, <4>2, <2>5, QuietStep DEF AllocNeed, class
    <3> QED
      BY <3>1, <3>2
  <2>6. CASE AsyncLoad(p)
    <3>1. CASE spanGen < 0
      <4>1. TypeOK'
        BY <2>6, <3>1, <1>t, ReturnTypes DEF TypeOK, AsyncLoad, class, spanState
      <4>2. WalkInv'
        BY <2>6, <3>1, <1>t DEF TypeOK, WalkInv, AsyncLoad, Return, Leave, Goto
      <4> QED
        BY <4>1, <4>2, <2>6, QuietStep DEF AsyncLoad, class
    <3>2. CASE ~ (spanGen < 0)
      <4>1. TypeOK'
        BY <2>6, <3>2, <1>t DEF TypeOK, AsyncLoad, Goto, class, spanState, walk, PcValues
      <4>2. WalkInv'
        BY <2>6, <3>2, <1>t DEF TypeOK, WalkInv, AsyncLoad, Goto, walk
      <4> QED
        BY <4>1, <4>2, <2>6, QuietStep DEF AsyncLoad, class
    <3> QED
      BY <3>1, <3>2
  <2>7. CASE AsyncSwap(p)
    <3>1. TypeOK'
      BY <2>7, <1>t, ReturnTypes DEF TypeOK, AsyncSwap, spanState
    <3>2. WalkInv'
      BY <2>7, <1>t DEF TypeOK, WalkInv, AsyncSwap, Return, Leave, Goto
    <3> QED
      BY <3>1, <3>2, <2>7, QuietStep DEF AsyncSwap
  <2>8. CASE AsyncSwapFails(p)
    <3>1. TypeOK'
      BY <2>8, <1>t, ReturnTypes DEF TypeOK, AsyncSwapFails, class, spanState
    <3>2. WalkInv'
      BY <2>8, <1>t DEF TypeOK, WalkInv, AsyncSwapFails, Return, Leave, Goto
    <3> QED
      BY <3>1, <3>2, <2>8, QuietStep DEF AsyncSwapFails, class
  <2>9. CASE RemoveHead(p)
    <3>1. CASE Len(spans) < 1 \/ ~ isFull(spans[1])
      <4>1. TypeOK'
        BY <2>9, <3>1, <1>t DEF TypeOK, RemoveHead, Goto, walk, PcValues
      <4>2. WalkInv'
        BY <2>9, <3>1, <1>t DEF TypeOK, WalkInv, RemoveHead, Goto, walk
      <4> QED
        BY <4>1, <4>2, <2>9, <3>1, QuietStep DEF RemoveHead, spanState
    <3>2. CASE ~ (Len(spans) < 1 \/ ~ isFull(spans[1]))
      <4>1. /\ spans' = Tail(spans) /\ full' = full \cup {spans[1]}
            /\ UNCHANGED << allocCount, used >>
        BY <2>9, <3>2 DEF RemoveHead
      <4>2. Len(spans) > 0
        BY <3>2, <1>t DEF TypeOK
      <4>3. /\ spans' \in Seq(Spans) /\ full' \in SUBSET Spans
            /\ NoSpanLost' /\ OneSpare'
        BY <4>1, <4>2, RemoveKeeps
      <4>4. TypeOK'
        BY <2>9, <3>2, <4>3, <1>t DEF TypeOK, RemoveHead, Goto, walk, PcValues
      <4>5. WalkInv'
        BY <2>9, <3>2, <1>t DEF TypeOK, WalkInv, RemoveHead, Goto, walk
      <4> QED
        BY <4>3, <4>4, <4>5 DEF PoolInv
    <3> QED
      BY <3>1, <3>2
  <2>10. CASE ExpendSync(p)
    <3>1. PICK s \in Spans : Expend(s)
      BY <2>10 DEF ExpendSync
    <3>2. /\ spans' \in Seq(Spans) /\ used' \in 0 .. MaxSpans
          /\ allocCount' \in [Spans -> 0 .. nelems]
          /\ NoSpanLost' /\ OneSpare'
      BY <2>10, <3>1, ExpendKeeps DEF ExpendSync
    <3>3. TypeOK'
      BY <2>10, <3>2, <1>t DEF TypeOK, ExpendSync, Goto, walk, PcValues
    <3>4. WalkInv'
      BY <2>10, <1>t DEF TypeOK, WalkInv, ExpendSync, Goto, walk
    <3> QED
      BY <3>2, <3>3, <3>4 DEF PoolInv
  <2>11. CASE ExpendSyncSkip(p)
    <3>1. TypeOK'
      BY <2>11, <1>t DEF TypeOK, ExpendSyncSkip, Goto, class, spanState, walk, PcValues
    <3>2. WalkInv'
      BY <2>11, <1>t DEF TypeOK, WalkInv, ExpendSyncSkip, Goto, walk
    <3> QED
      BY <3>1, <3>2, <2>11, QuietStep DEF ExpendSyncSkip, class
  <2>12. CASE ExpendSyncFails(p)
    <3>1. TypeOK'
      BY <2>12, <1>t DEF TypeOK, ExpendSyncFails, Goto, class, spanState, walk, PcValues
    <3>2. WalkInv'
      BY <2>12, <1>t DEF TypeOK, WalkInv, ExpendSyncFails, Goto, walk
    <3> QED
      BY <3>1, <3>2, <2>12, QuietStep DEF ExpendSyncFails, class
  <2>13. CASE StoreGen(p)
    <3>1. TypeOK'
      BY <2>13, <1>t DEF TypeOK, StoreGen, Goto, spanState, walk, PcValues
    <3>2. WalkInv'
      BY <2>13, <1>t DEF TypeOK, WalkInv, StoreGen, Goto, walk
    <3> QED
      BY <3>1, <3>2, <2>13, QuietStep DEF StoreGen
  <2> QED
    BY <1>1, <2>1, <2>2, <2>3, <2>4, <2>5, <2>6, <2>7, <2>8, <2>9, <2>10, <2>11, <2>12,
       <2>13 DEF Alloc
<1>2. ASSUME Grow PROVE PoolInv'
  <2>1. CASE GrowAsync
    <3>1. PICK s \in Spans : Expend(s)
      BY <2>1 DEF GrowAsync
    <3>2. /\ spans' \in Seq(Spans) /\ used' \in 0 .. MaxSpans
          /\ allocCount' \in [Spans -> 0 .. nelems]
          /\ NoSpanLost' /\ OneSpare'
      BY <2>1, <3>1, ExpendKeeps DEF GrowAsync
    <3>3. TypeOK'
      BY <2>1, <3>2, <1>t DEF TypeOK, GrowAsync, walk
    <3>4. WalkInv'
      BY <2>1, <1>t DEF WalkInv, GrowAsync, walk
    <3> QED
      BY <3>2, <3>3, <3>4 DEF PoolInv
  <2>2. CASE GrowSkip \/ GrowFails \/ GrowStoreGen
    <3>1. TypeOK'
      BY <2>2, <1>t DEF TypeOK, GrowSkip, GrowFails, GrowStoreGen, spanState, walk
    <3>2. WalkInv'
      BY <2>2, <1>t DEF WalkInv, GrowSkip, GrowFails, GrowStoreGen, walk
    <3> QED
      BY <3>1, <3>2, <2>2, QuietStep DEF GrowSkip, GrowFails, GrowStoreGen
  <2> QED
    BY <1>2, <2>1, <2>2 DEF Grow
<1>3. ASSUME MemoryRefused PROVE PoolInv'
  <2>1. TypeOK'
    BY <1>3, <1>t DEF TypeOK, MemoryRefused, class, spanState, walk
  <2>2. WalkInv'
    BY <1>3, <1>t DEF WalkInv, MemoryRefused, walk
  <2> QED
    BY <1>3, <2>1, <2>2, QuietStep DEF MemoryRefused, class
<1>4. ASSUME UNCHANGED vars PROVE PoolInv'
  <2>1. TypeOK' /\ WalkInv'
    BY <1>4, <1>t DEF TypeOK, WalkInv, vars, class, spanState, walk
  <2> QED
    BY <2>1, <1>4, QuietStep DEF vars, class
<1> QED
  BY <1>1, <1>2, <1>3, <1>4 DEF Next

-----------------------------------------------------------------------------
(* Every variable keeps its type; no span hands out more slots than it has.*)
THEOREM PoolTypeCorrect == Spec => []TypeOK
<1>1. PoolInv => TypeOK
  BY DEF PoolInv
<1> QED
  BY <1>1, PoolInit, PoolNext, PTL DEF Spec

(* Whatever copies of the slice the growing goroutines make, no span is    *)
(* dropped, kept after its removal, or taken out of order.                 *)
THEOREM SpansAreKept == Spec => []NoSpanLost
<1>1. PoolInv => NoSpanLost
  BY DEF PoolInv
<1> QED
  BY <1>1, PoolInit, PoolNext, PTL DEF Spec

(* Any number of goroutines may ask for growth at once: all spans but the  *)
(* last are past their extension point.                                    *)
THEOREM GrowsOnce == Spec => []OneSpare
<1>1. PoolInv => OneSpare
  BY DEF PoolInv
<1> QED
  BY <1>1, PoolInit, PoolNext, PTL DEF Spec

-----------------------------------------------------------------------------
(* isFull looks one slot ahead: that is exact when the slots do not fill   *)
(* the span to its last byte, and one slot early when they do.             *)
LEMMA IsFullNearly ==
  ASSUME NEW s, allocCount[s] \in Nat, isFull(s)
  PROVE  nelems - allocCount[s] <= Slack
<1> DEFINE a == allocCount[s]
           rest == SpanBytes % ClassSize
<1>1. SpanBytes \in Nat /\ ClassSize \in Nat /\ ClassSize > 0 /\ a \in Nat
  BY PoolAssumption
<1>2. (a + 1) * ClassSize >= SpanBytes
  BY DEF isFull
<1>3. SpanBytes = (ClassSize * nelems) + rest /\ rest \in Nat
  BY <1>1 DEF nelems
<1>4. a + 1 >= nelems
  <2>1. ASSUME a + 2 <= nelems PROVE FALSE
    <3>1. (a + 2) * ClassSize <= nelems * ClassSize
      BY <2>1, <1>1, NelemsType
    <3> QED
      BY <3>1, <1>1, <1>2, <1>3, NelemsType
  <2> QED
    BY <2>1, <1>1, NelemsType
<1>5. CASE rest = 0
  BY <1>1, <1>4, <1>5, NelemsType DEF Slack
<1>6. CASE rest # 0
  <2>1. SpanBytes > ClassSize * nelems
    BY <1>1, <1>3, <1>6, NelemsType
  <2>2. a + 1 # nelems
    <3>1. a + 1 = nelems => (a + 1) * ClassSize = ClassSize * nelems
      BY <1>1, NelemsType
    <3> QED
      BY <3>1, <2>1, <1>1, <1>2, NelemsType
  <2> QED
    BY <2>2, <1>1, <1>4, <1>6, NelemsType DEF Slack
<1> QED
  BY <1>5, <1>6

(* A span goes to the full list only when its last slot has been handed    *)
(* out, or, in the classes whose slots fill the span, the last but one:    *)
(* one slot of a span is the most a removal can lose.                      *)
THEOREM ReleasesFullOnly == Spec => []ReleasedIsFull
<1>1. Init => ReleasedIsFull
  BY DEF Init, ReleasedIsFull
<1>2. PoolInv /\ ReleasedIsFull /\ [Next]_vars => ReleasedIsFull'
  <2> SUFFICES ASSUME PoolInv, ReleasedIsFull, [Next]_vars, NEW s \in full'
               PROVE  nelems - allocCount'[s] <= Slack
    BY DEF ReleasedIsFull, nelems, Slack
  <2>t. TypeOK /\ NoSpanLost
    BY DEF PoolInv
  <2>1. s \in full \/ (\E p \in Procs : RemoveHead(p))
    BY DEF Next, Alloc, Grow, MemoryRefused, vars, spanState, AllocStart, AllocTake, AllocPass, AllocMiss,
           AllocNeed, AsyncLoad, AsyncSwap, AsyncSwapFails, ExpendSync, ExpendSyncSkip,
           ExpendSyncFails, StoreGen, GrowSkip, GrowAsync, GrowFails, GrowStoreGen
  <2>2. CASE s \in full
    <3>1. s \in Spans /\ s \in 1 .. used /\ allocCount[s] \in Nat /\ nelems - allocCount[s] <= Slack
      BY <2>2, <2>t DEF TypeOK, NoSpanLost, ReleasedIsFull
    <3>2. ASSUME NEW t \in Spans, Expend(t) PROVE allocCount'[s] = allocCount[s]
      BY <3>1, <3>2, <2>t DEF Expend, TypeOK
    <3>3. ASSUME NEW p \in Procs, AllocTake(p) PROVE allocCount'[s] >= allocCount[s]
      BY <3>1, <3>3, <2>t DEF AllocTake, TypeOK
    <3>4. \/ UNCHANGED allocCount
          \/ \E t \in Spans : Expend(t)
          \/ \E p \in Procs : AllocTake(p)
      BY DEF Next, Alloc, Grow, MemoryRefused, vars, spanState, AllocStart, AllocPass, AllocMiss,
             AllocNeed, AsyncLoad, AsyncSwap, AsyncSwapFails, RemoveHead, ExpendSync,
             ExpendSyncSkip, ExpendSyncFails, StoreGen, GrowSkip, GrowAsync, GrowFails,
             GrowStoreGen
    <3>5. allocCount'[s] \in Nat
      <4>1. TypeOK'
        BY PoolNext DEF PoolInv
      <4> QED
        BY <3>1, <4>1, NelemsType DEF TypeOK, nelems
    <3>6. allocCount'[s] >= allocCount[s]
      BY <3>1, <3>2, <3>3, <3>4
    <3> QED
      BY <3>1, <3>5, <3>6, NelemsType DEF Slack
  <2>3. CASE \E p \in Procs : RemoveHead(p) /\ s \notin full
    <3>1. PICK p \in Procs : RemoveHead(p) /\ s \notin full
      BY <2>3
    <3>2. s = spans[1] /\ isFull(s) /\ Len(spans) >= 1 /\ UNCHANGED allocCount
      BY <3>1, <2>t DEF RemoveHead, TypeOK
    <3>3. s \in Spans
      BY <3>2, <2>t DEF TypeOK
    <3>4. allocCount[s] \in Nat
      BY <3>3, <2>t, NelemsType DEF TypeOK
    <3> QED
      BY <3>2, <3>4, IsFullNearly
  <2> QED
    BY <2>1, <2>2, <2>3
<1> QED
  BY <1>1, <1>2, PoolInit, PoolNext, PTL DEF Spec
-----------------------------------------------------------------------------
(* What a walk has seen.  The history variable only looks on, so that the  *)
(* invariants above hold of a behaviour that has it.                       *)
LEMMA RecordsOnly == [HistoryNext]_hvars => [Next]_vars
BY DEF HistoryNext, Look, Onward, Alloc, Next, hvars

(* A behaviour of SpanPoolHistory is one of the pool.                      *)
LEMMA HistoryLooksOn == HistorySpec => Spec
<1>1. HistoryInit => Init
  BY DEF HistoryInit
<1> QED
  BY <1>1, RecordsOnly, PTL DEF HistorySpec, Spec

(* What a step does to the spans: they grow in number, those that exist    *)
(* hand out slots and join the full list, and none takes a step back.      *)
LEMMA SpansOnlyGrow ==
  ASSUME PoolInv, [Next]_vars
  PROVE  used <= used' /\ \A s \in 1 .. used : Gone(s) => Gone(s)'
<1> USE NelemsType
<1>1. TypeOK /\ TypeOK' /\ used \in Nat
  BY PoolNext, PoolAssumption DEF PoolInv, TypeOK
<1>2. ASSUME NEW s \in 1 .. used
      PROVE  s \in Spans /\ allocCount[s] \in Nat /\ allocCount'[s] \in Nat
  <2>1. s \in Spans
    BY <1>1, PoolAssumption DEF TypeOK, Spans
  <2> QED
    BY <2>1, <1>1 DEF TypeOK, nelems
<1>3. full \subseteq full'
  BY DEF Next, Alloc, Grow, MemoryRefused, vars, spanState, AllocStart, AllocTake, AllocPass, AllocMiss,
         AllocNeed, AsyncLoad, AsyncSwap, AsyncSwapFails, RemoveHead, ExpendSync,
         ExpendSyncSkip, ExpendSyncFails, StoreGen, GrowSkip, GrowAsync, GrowFails,
         GrowStoreGen
<1>4. CASE \E t \in Spans : Expend(t)
  <2>1. PICK t \in Spans : Expend(t)
    BY <1>4
  <2>2. used' = used + 1
    BY <2>1 DEF Expend
  <2>3. ASSUME NEW s \in 1 .. used PROVE allocCount'[s] = allocCount[s]
    BY <2>1, <1>1, <1>2 DEF Expend, TypeOK
  <2> QED
    BY <2>2, <2>3, <1>1, <1>3 DEF Gone, nelems
<1>5. CASE \E p \in Procs : AllocTake(p)
  <2>1. used' = used
    BY <1>5 DEF AllocTake
  <2>2. ASSUME NEW s \in 1 .. used PROVE allocCount'[s] >= allocCount[s]
    <3>1. PICK t : allocCount' = [allocCount EXCEPT ![t] = @ + 1]
      BY <1>5 DEF AllocTake
    <3>2. s \in DOMAIN allocCount
      BY <1>1, <1>2 DEF TypeOK
    <3>3. allocCount'[s] = IF t = s THEN allocCount[s] + 1 ELSE allocCount[s]
      BY <3>1, <3>2
    <3> QED
      BY <3>3, <1>2
  <2>3. ASSUME NEW s \in 1 .. used, Gone(s) PROVE Gone(s)'
    BY <2>2, <2>3, <1>2, <1>3 DEF Gone, nelems
  <2> QED
    BY <2>1, <2>3, <1>1
<1>6. CASE UNCHANGED << allocCount, used >>
  BY <1>6, <1>1, <1>3 DEF Gone, nelems
<1> QED
  BY <1>4, <1>5, <1>6 DEF Next, Alloc, Grow, MemoryRefused, vars, spanState, AllocStart, AllocPass,
     AllocMiss, AllocNeed, AsyncLoad, AsyncSwap, AsyncSwapFails, RemoveHead, ExpendSync,
     ExpendSyncSkip, ExpendSyncFails, StoreGen, GrowSkip, GrowAsync, GrowFails,
     GrowStoreGen

(* The last span is not one of those a walk found used up when it has room.*)
LEMMA RoomIsNew ==
  ASSUME PoolInv, LastHasRoom, NEW n \in Nat, n <= used, \A s \in 1 .. n : Gone(s)
  PROVE  used > n
<1> DEFINE s == spans[Len(spans)]
<1>1. TypeOK /\ NoSpanLost /\ Len(spans) \in DOMAIN spans /\ used \in Nat
  BY DEF PoolInv, LastHasRoom, TypeOK
<1>2. s \in 1 .. used /\ s \notin full /\ s \in Spans
  <2>1. s \in InPool
    BY <1>1 DEF InPool
  <2>2. s \in Spans
    BY <1>1 DEF TypeOK
  <2>3. s \in full => s < s
    BY <1>1 DEF NoSpanLost
  <2> QED
    BY <2>1, <2>2, <2>3, <1>1 DEF NoSpanLost, Spans
<1>3. allocCount[s] < nelems
  <2>1. allocCount[s] \in Nat /\ allocCount[s] < extensionPoint
    BY <1>1, <1>2, NelemsType, ExtensionPointType DEF LastHasRoom, needGrow, TypeOK
  <2>2. extensionPoint <= nelems
    BY NelemsType DEF extensionPoint
  <2> QED
    BY <2>1, <2>2, NelemsType, ExtensionPointType
<1>4. s \notin 1 .. n
  BY <1>2, <1>3, <1>1, NelemsType DEF Gone, TypeOK
<1> QED
  BY <1>2, <1>4, <1>1

(* HistoryInv for one goroutine.                                           *)
Walked(q) ==
  /\ pc[q] = "walk" => \A s \in 1 .. known[q] : Gone(s) \/ s \in Ahead(q)
  /\ pc[q] = "expand" => \A s \in 1 .. known[q] : Gone(s)
  /\ pc[q] \in {"expanded", "again"} => used > known[q]

LEMMA InitPoolHistory == HistoryInit => PoolInv /\ HistoryInv
<1> SUFFICES ASSUME HistoryInit PROVE PoolInv /\ HistoryInv
  OBVIOUS
<1>1. Init /\ PoolInv
  BY PoolInit DEF HistoryInit
<1>2. /\ known = [p \in Procs |-> 0] /\ used = 0
      /\ \A p \in Procs : pc[p] = "idle"
  BY <1>1 DEF HistoryInit, Init
<1> QED
  BY <1>1, <1>2 DEF HistoryInv, HistoryType, WalkedUp, AgainMeansGrown

(* What another goroutine knows stays so.                                  *)
LEMMA OthersKnow ==
  ASSUME PoolInv, HistoryInv, [Next]_vars, NEW q \in Procs, known'[q] = known[q],
         pc'[q] = pc[q], seen'[q] = seen[q], idex'[q] = idex[q]
  PROVE  known'[q] <= used' /\ Walked(q)'
<1>1. used \in Nat /\ used' \in Nat /\ known[q] \in Nat /\ known[q] <= used
  BY PoolNext, PoolAssumption DEF PoolInv, TypeOK, HistoryInv, HistoryType
<1>2. used <= used'
  BY SpansOnlyGrow
<1>3. \A s \in 1 .. known[q] : Gone(s) => Gone(s)'
  BY <1>1, SpansOnlyGrow
<1>4. Ahead(q)' = Ahead(q)
  BY DEF Ahead
<1>5. Walked(q)
  BY DEF HistoryInv, WalkedUp, AgainMeansGrown, Walked
<1> QED
  BY <1>1, <1>2, <1>3, <1>4, <1>5 DEF Walked

(* A step of p: what it passed, or others released, is used up.            *)
LEMMA WalkStep ==
  ASSUME PoolInv, HistoryInv, [Next]_vars, NEW p \in Procs, Onward(p), known'[p] = known[p]
  PROVE  known'[p] <= used' /\ Walked(p)'
<1> DEFINE n == known[p]
<1>1. /\ TypeOK /\ WalkInv /\ used \in Nat /\ used' \in Nat /\ n \in Nat /\ n <= used
  <2>1. TypeOK /\ TypeOK' /\ WalkInv
    BY PoolNext DEF PoolInv
  <2>2. MaxSpans \in Nat /\ used \in 0 .. MaxSpans /\ used' \in 0 .. MaxSpans
    BY <2>1, PoolAssumption DEF TypeOK
  <2> QED
    BY <2>1, <2>2 DEF HistoryInv, HistoryType
<1>2. used <= used' /\ \A s \in 1 .. n : Gone(s) => Gone(s)'
  BY <1>1, SpansOnlyGrow
<1>3. Walked(p)
  BY DEF HistoryInv, WalkedUp, AgainMeansGrown, Walked
<1>4. ASSUME pc'[p] \notin {"walk", "expand", "expanded", "again"} PROVE Walked(p)'
  BY <1>4 DEF Walked
<1>5. CASE AllocPass(p)
  <2>1. /\ pc[p] = "walk" /\ pc'[p] = "walk" /\ seen' = seen /\ full' = full
        /\ idex[p] \in Nat \ {0} /\ idex[p] <= Len(seen[p])
        /\ idex'[p] = idex[p] + 1 /\ allocCount' = allocCount
        /\ allocCount[seen[p][idex[p]]] >= nelems
    BY <1>5, <1>1 DEF AllocPass, TypeOK, WalkInv, spanState
  <2>2. seen[p] \in Seq(Spans) /\ Len(seen[p]) \in Nat
    BY <1>1 DEF TypeOK
  <2>3. ASSUME NEW s \in 1 .. n, s \in Ahead(p), ~ Gone(s) PROVE s \in Ahead(p)'
    <3>1. PICK i \in idex[p] .. Len(seen[p]) : seen[p][i] = s
      BY <2>3 DEF Ahead
    <3>2. i # idex[p]
      BY <3>1, <2>1, <2>3 DEF Gone
    <3>3. i \in idex'[p] .. Len(seen'[p])
      BY <3>1, <3>2, <2>1, <2>2
    <3> QED
      BY <3>1, <3>3, <2>1 DEF Ahead
  <2> QED
    BY <2>1, <2>3, <1>1, <1>2, <1>3 DEF Walked
<1>6. CASE AllocMiss(p)
  <2>1. pc[p] = "walk" /\ pc'[p] = "expand" /\ idex[p] > Len(seen[p])
    BY <1>6, <1>1 DEF AllocMiss, Leave, Goto, TypeOK
  <2>2. Ahead(p) = {}
    <3>1. idex[p] \in Nat /\ Len(seen[p]) \in Nat
      BY <1>1 DEF TypeOK
    <3> QED
      BY <2>1, <3>1 DEF Ahead
  <2> QED
    BY <2>1, <2>2, <1>1, <1>2, <1>3 DEF Walked
<1>7. CASE ExpendSync(p)
  <2>1. pc'[p] = "expanded" /\ used' = used + 1
    BY <1>7, <1>1 DEF ExpendSync, Expend, Goto, TypeOK
  <2> QED
    BY <2>1, <1>1 DEF Walked
<1>8. CASE ExpendSyncSkip(p)
  <2>1. pc[p] = "expand" /\ pc'[p] = "again" /\ used' = used /\ LastHasRoom
    BY <1>8, <1>1 DEF ExpendSyncSkip, Goto, TypeOK, spanState
  <2>2. used > n
    BY <2>1, <1>1, <1>3, RoomIsNew DEF Walked
  <2> QED
    BY <2>1, <2>2, <1>1 DEF Walked
<1>9. CASE StoreGen(p)
  <2>1. /\ pc[p] \in {"removed", "expanded"} /\ used' = used
        /\ pc'[p] = IF pc[p] = "removed" THEN "idle" ELSE "again"
    BY <1>9, <1>1 DEF StoreGen, Goto, TypeOK, spanState
  <2> QED
    BY <2>1, <1>1, <1>3 DEF Walked
<1>10. CASE \/ AllocTake(p) \/ AllocNeed(p) \/ AsyncLoad(p) \/ AsyncSwap(p) \/ AsyncSwapFails(p)
            \/ RemoveHead(p) \/ ExpendSyncFails(p)
  <2>1. pc'[p] \notin {"walk", "expand", "expanded", "again"}
    BY <1>10, <1>1 DEF AllocTake, AllocNeed, AsyncLoad, AsyncSwap, AsyncSwapFails, Return,
       Leave, RemoveHead, ExpendSyncFails, Goto, TypeOK
  <2> QED
    BY <2>1, <1>1, <1>2, <1>4
<1> QED
  BY <1>5, <1>6, <1>7, <1>8, <1>9, <1>10, <1>1, <1>2 DEF Onward

LEMMA NextPoolHistory == PoolInv /\ HistoryInv /\ [HistoryNext]_hvars => HistoryInv'
<1> SUFFICES ASSUME PoolInv, HistoryInv, [HistoryNext]_hvars PROVE HistoryInv'
  OBVIOUS
<1>1. [Next]_vars /\ TypeOK /\ NoSpanLost /\ HistoryType /\ used \in Nat
  BY RecordsOnly, PoolAssumption DEF PoolInv, TypeOK, HistoryInv
<1>2. SUFFICES /\ known' \in [Procs -> Nat]
               /\ \A q \in Procs : known'[q] <= used' /\ Walked(q)'
  BY DEF HistoryInv, HistoryType, WalkedUp, AgainMeansGrown, Walked
<1>3. ASSUME NEW p \in Procs, Look(p), NEW q \in Procs PROVE known'[q] <= used' /\ Walked(q)'
  <2>1. CASE q # p
    BY <1>1, <1>3, <2>1, OthersKnow
       DEF Look, AllocStart, Goto, TypeOK, HistoryType
  <2>2. CASE q = p
    <3>1. /\ known'[q] = used /\ used' = used /\ full' = full /\ allocCount' = allocCount
          /\ seen'[q] = spans /\ idex'[q] = 1 /\ pc'[q] = "walk"
      BY <1>1, <1>3, <2>2 DEF Look, AllocStart, Goto, TypeOK, HistoryType, spanState
    <3>2. ASSUME NEW s \in 1 .. used PROVE s \in full \/ s \in Ahead(q)'
      <4>1. s \in full \/ s \in InPool
        BY <1>1 DEF NoSpanLost
      <4>2. DOMAIN spans = 1 .. Len(spans)
        BY <1>1 DEF TypeOK
      <4> QED
        BY <4>1, <4>2, <3>1 DEF InPool, Ahead
    <3> QED
      BY <3>1, <3>2, <1>1 DEF Walked, Gone
  <2> QED
    BY <2>1, <2>2
<1>4. ASSUME NEW p \in Procs, Onward(p), UNCHANGED known, NEW q \in Procs
      PROVE  known'[q] <= used' /\ Walked(q)'
  <2>1. CASE q = p
    BY <1>1, <1>4, <2>1, WalkStep
  <2>2. CASE q # p
    <3>1. pc'[q] = pc[q] /\ seen'[q] = seen[q] /\ idex'[q] = idex[q]
      BY <1>1, <1>4, <2>2 DEF Onward, AllocTake, AllocPass, AllocMiss, AllocNeed, AsyncLoad,
         AsyncSwap, AsyncSwapFails, Return, Leave, RemoveHead, ExpendSync, ExpendSyncSkip,
         ExpendSyncFails, StoreGen, Goto, walk, TypeOK
    <3> QED
      BY <1>1, <1>4, <3>1, OthersKnow
  <2> QED
    BY <2>1, <2>2
<1>5. ASSUME Grow \/ MemoryRefused \/ UNCHANGED vars, UNCHANGED known, NEW q \in Procs
      PROVE  known'[q] <= used' /\ Walked(q)'
  <2>1. pc' = pc /\ seen' = seen /\ idex' = idex
    BY <1>5 DEF Grow, GrowSkip, GrowAsync, GrowFails, GrowStoreGen, MemoryRefused, walk,
       vars
  <2> QED
    BY <1>1, <1>5, <2>1, OthersKnow
<1>6. known' \in [Procs -> Nat]
  BY <1>1 DEF HistoryNext, Look, HistoryType, hvars
<1> QED
  BY <1>3, <1>4, <1>5, <1>6 DEF HistoryNext, hvars

(* A goroutine calls Alloc again (span_pool.go:170) only after the class   *)
(* has got a span since it looked: with the spans bounded no Alloc starts  *)
(* over for ever, whatever sizes, heads removed and other goroutines.      *)
THEOREM AgainOnlyIfGrown == HistorySpec => []AgainMeansGrown
<1>1. PoolInv /\ HistoryInv => AgainMeansGrown
  BY DEF HistoryInv
<1>2. PoolInv /\ [HistoryNext]_hvars => PoolInv'
  BY RecordsOnly, PoolNext
<1> QED
  BY <1>1, <1>2, InitPoolHistory, NextPoolHistory, PTL DEF HistorySpec

(* A goroutine that goes to growSpan for a span (span_pool.go:167) has     *)
(* found every slot handed out of every span that was there when it began, *)
(* but for those isFull released early: none of the spans is hidden by a   *)
(* head that was removed or a copy that was replaced.                      *)
THEOREM GrowsOnlyForNeed == HistorySpec => []GrowsForNeed
<1>1. ReleasedIsFull /\ HistoryInv => GrowsForNeed
  BY DEF HistoryInv, WalkedUp, ReleasedIsFull, GrowsForNeed, Gone
<1>2. PoolInv /\ [HistoryNext]_hvars => PoolInv'
  BY RecordsOnly, PoolNext
<1>3. HistorySpec => []ReleasedIsFull
  BY HistoryLooksOn, ReleasesFullOnly
<1> QED
  BY <1>1, <1>2, <1>3, InitPoolHistory, NextPoolHistory, PTL DEF HistorySpec
=============================================================================
