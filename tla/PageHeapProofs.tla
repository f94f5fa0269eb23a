--------------------------- MODULE PageHeapProofs ---------------------------
(***************************************************************************)
(* What PageHeap promises for every number of goroutines, regions, sizes   *)
(* and failures, as long as the kernel reserves at the address it is asked *)
(* for or refuses (HintKept):                                              *)
(*                                                                         *)
(*   LinearInv      the linear allocator hands out reserved memory only;   *)
(*   Trees          the treap is one, but for the place at which the lock  *)
(*                  holder is at work;                                     *)
(*   HeapInvariant  both, and where in the code a chunk is between being   *)
(*                  cut and being known to addrMap.                        *)
(*                                                                         *)
(* That pages are apart is proved of PageStore (PageStoreProofs), and of   *)
(* the heap through the refinement.  SearchTrees has the facts on trees.   *)
(***************************************************************************)
EXTENDS PageHeap, SearchTrees, Integers

(* What expand and alloc rest on: next has not passed end, so that an      *)
(* allocator that reserves behind end leaves no gap, and one of no pages   *)
(* at all (both are 0) is used up.                                         *)
LinearInv ==
  /\ need \in [Procs -> Nat]
  /\ next \in Nat /\ end \in Nat /\ next <= end
  /\ EndIsReserved

(* A region boundary at or after x. *)
LEMMA RoundUpUp ==
  ASSUME NEW x \in Nat
  PROVE  RoundUp(x) \in Nat /\ RoundUp(x) >= x
<1> DEFINE y == x + RawPages - 1
<1>1. RawPages \in Nat \ {0} /\ y \in Nat
  BY HeapAssumption
<1>2. /\ y \div RawPages \in Nat
      /\ (y % RawPages) \in 0 .. RawPages - 1
      /\ y = RawPages * (y \div RawPages) + (y % RawPages)
  <2> HIDE DEF y
  <2> QED
    BY <1>1, SMTT(30)
<1>3. RoundUp(x) = (y \div RawPages) * RawPages
  BY DEF RoundUp
<1> DEFINE q == y \div RawPages
           m == y % RawPages
           t == q * RawPages
<1>4. t \in Nat /\ t = RawPages * q
  BY <1>1, <1>2, SMTT(30)
<1>5. y = t + m
  BY <1>2, <1>4
<1>6. t >= x
  <2> HIDE DEF t, m, q
  <2>1. m \in 0 .. RawPages - 1
    BY <1>2 DEF m
  <2> QED
    BY <1>1, <1>4, <1>5, <2>1
<1> QED
  BY <1>3, <1>4, <1>6

(* Growing by what was asked for moves next forward, and not past end. *)
LEMMA NextAdvances ==
  ASSUME LinearInv, NEW p \in Procs, GrowFits(p),
         next' = RoundUp(next) + GrowSize(need[p]), end' = end, reserved' = reserved,
         need' \in [Procs -> Nat]
  PROVE  LinearInv'
<1>1. RoundUp(next) \in Nat /\ RoundUp(next) >= next
  BY RoundUpUp DEF LinearInv
<1>2. GrowSize(need[p]) \in Nat
  BY HeapAssumption DEF LinearInv, GrowSize
<1>3. next' \in Nat /\ next' >= next /\ next' <= end
  BY <1>1, <1>2 DEF GrowFits, LinearInv
<1> QED
  BY <1>3 DEF LinearInv, EndIsReserved

LEMMA LeaveNeeds ==
  ASSUME NEW p \in Procs, need \in [Procs -> Nat], Leave(p)
  PROVE  need' \in [Procs -> Nat]
BY DEF Leave

(* A reservation of some pages, at a page. *)
LEMMA Reserved ==
  ASSUME NEW b \in Pages, NEW s \in ArenaSizes, Reserve(b, s)
  PROVE  /\ b \in Nat /\ s \in Nat
         /\ reserved' = reserved \cup b .. b + s - 1
BY HeapAssumption DEF Pages, Reserve

LEMMA ExpandStep ==
  ASSUME HintKept, LinearInv, NEW p \in Procs, GrowExpand(p)
  PROVE  LinearInv'
<1>1. PICK r \in Offer :
        /\ Reserve(r[1], r[2])
        /\ IF next = end
           THEN next' = r[1] /\ end' = r[1] + r[2]
           ELSE end' = end + r[2] /\ UNCHANGED next
  BY DEF GrowExpand
<1>2. r[1] \in Pages /\ r[2] \in ArenaSizes
  BY DEF Offer
<1>3. /\ r[1] \in Nat /\ r[2] \in Nat
      /\ reserved' = reserved \cup r[1] .. r[1] + r[2] - 1
  BY <1>1, <1>2, Reserved
<1>4. need' = need
  BY DEF GrowExpand, proc
<1>5. CASE next = end
  <2>1. next' = r[1] /\ end' = r[1] + r[2]
    BY <1>1, <1>5
  <2> QED
    BY <1>3, <1>4, <2>1 DEF LinearInv, EndIsReserved
<1>6. CASE next # end
  <2>1. next' = next /\ end' = end + r[2]
    BY <1>1, <1>6
  <2>2. end # 0
    BY <1>6 DEF LinearInv
  <2>3. r[1] = end
    BY <2>2 DEF Offer
  <2>4. end + r[2] \in Nat /\ next <= end + r[2]
    BY <1>3 DEF LinearInv
  <2>5. next .. end + r[2] - 1 \subseteq reserved \cup end .. end + r[2] - 1
    <3> SUFFICES ASSUME NEW g \in next .. end + r[2] - 1
                 PROVE  g \in reserved \/ g \in end .. end + r[2] - 1
      OBVIOUS
    <3>1. next \in Nat /\ end \in Nat /\ r[2] \in Nat
      BY <1>3 DEF LinearInv
    <3>2. g \in Int /\ next <= g /\ g <= end + r[2] - 1
      BY <3>1
    <3>3. CASE g < end
      BY <3>1, <3>2, <3>3 DEF LinearInv, EndIsReserved
    <3>4. CASE ~ (g < end)
      BY <3>1, <3>2, <3>4
    <3> QED
      BY <3>3, <3>4
  <2> QED
    BY <1>3, <1>4, <2>1, <2>3, <2>4, <2>5 DEF LinearInv, EndIsReserved
<1> QED
  BY <1>5, <1>6

LEMMA AnewStep ==
  ASSUME LinearInv, NEW p \in Procs, GrowAnew(p)
  PROVE  LinearInv'
<1>1. need' = need
  BY DEF GrowAnew, proc
<1>2. ASSUME NEW base \in Pages, NEW size \in ArenaSizes,
             Reserve(base, size), next' = base, end' = base + size
      PROVE  LinearInv'
  <2>1. /\ base \in Nat /\ size \in Nat
        /\ reserved' = reserved \cup base .. base + size - 1
    BY <1>2, Reserved
  <2> QED
    BY <1>1, <1>2, <2>1 DEF LinearInv, EndIsReserved
<1>3. CASE next' = 0 /\ end' = 0
  BY <1>1, <1>3 DEF LinearInv, EndIsReserved
<1> QED
  BY <1>2, <1>3 DEF GrowAnew

LEMMA LinearStep ==
  ASSUME HintKept, LinearInv, [Next]_vars
  PROVE  LinearInv'
<1>1. ASSUME UNCHANGED linear, need' \in [Procs -> Nat]
      PROVE  LinearInv'
  BY <1>1 DEF linear, LinearInv, EndIsReserved
<1>2. need \in [Procs -> Nat]
  BY DEF LinearInv
<1>3. ASSUME NEW p \in Procs, AllocSpan(p)
      PROVE  LinearInv'
  BY <1>1, <1>2, <1>3, HeapAssumption DEF AllocSpan, AllocLock, SetSpans, SetSpansPanics
<1>4. ASSUME NEW p \in Procs, Find(p)
      PROVE  LinearInv'
  BY <1>1, <1>2, <1>4, LeaveNeeds DEF Find, FindStep, FindMiss, FindHit, proc
<1>5. ASSUME NEW p \in Procs, Remove(p)
      PROVE  LinearInv'
  BY <1>1, <1>2, <1>5 DEF Remove, RemoveRotate, RemoveLeaf, proc
<1>6. ASSUME NEW p \in Procs, Insert(p)
      PROVE  LinearInv'
  BY <1>1, <1>2, <1>6, LeaveNeeds
     DEF Insert, InsertDown, InsertLeaf, InsertUp, InsertDone, InsertFails, proc
<1>7. ASSUME NEW p \in Procs, Grow(p)
      PROVE  LinearInv'
  <2>1. CASE GrowAlloc(p)
    BY <2>1, <1>2, NextAdvances DEF GrowAlloc
  <2>2. CASE GrowChunkFails(p)
    BY <2>2, <1>2, LeaveNeeds, NextAdvances DEF GrowChunkFails
  <2>3. CASE GrowExpand(p)
    BY <2>3, ExpandStep
  <2>4. CASE GrowAnew(p)
    BY <2>4, AnewStep
  <2>5. CASE GrowMap(p) \/ GrowMapFails(p)
    BY <2>5, <1>1, <1>2, LeaveNeeds DEF GrowMap, GrowMapFails
  <2> QED
    BY <1>7, <2>1, <2>2, <2>3, <2>4, <2>5 DEF Grow
<1>8. ASSUME NEW p \in Procs, SweepLarge(p)
      PROVE  LinearInv'
  BY <1>1, <1>2, <1>8 DEF SweepLarge
<1>9. CASE UNCHANGED vars
  BY <1>1, <1>2, <1>9 DEF vars, linear, proc
<1> QED
  BY <1>3, <1>4, <1>5, <1>6, <1>7, <1>8, <1>9 DEF Next

LEMMA LinearInit == Init => LinearInv
<1> SUFFICES ASSUME Init
             PROVE  LinearInv
  OBVIOUS
<1>1. PICK base \in Pages, size \in ArenaSizes :
        next = base /\ end = base + size /\ reserved = base .. base + size - 1
  BY DEF Init
<1>2. base \in Nat /\ size \in Nat
  BY HeapAssumption DEF Pages
<1> QED
  BY <1>1, <1>2 DEF Init, LinearInv, EndIsReserved

(* Where the kernel reserves at the address it is asked for or refuses,    *)
(* all that the linear allocator will hand out next is reserved, however   *)
(* it grows and whatever fails: expand (linear_alloc.go:57) may then add   *)
(* to end without a look at the address it got.                            *)
LEMMA EndStaysReserved ==
  ASSUME HintKept
  PROVE  Spec => []EndIsReserved
<1>1. LinearInv /\ [Next]_vars => LinearInv'
  BY LinearStep
<1>2. LinearInv => EndIsReserved
  BY DEF LinearInv
<1> QED
  BY LinearInit, <1>1, <1>2, PTL DEF Spec

-----------------------------------------------------------------------------
(* Where the holder of heap.lock is.                                       *)
At == IF lock = NoProc THEN "free" ELSE pc[lock]

Working == {"find", "remove", "insert", "up", "grow", "map"}
Inserting == {"insert", "up"}

(* What a goroutine has in its hands, by where it is. *)
Hand(p) ==
  /\ pc[p] \in Working <=> lock = p
  /\ need[p] # 0 <=> pc[p] \in {"find", "remove", "grow", "map"} \/ (pc[p] \in Inserting /\ then = "map")
  /\ got[p] # NoChunk <=> pc[p] = "set" \/ (pc[p] \in Inserting /\ then = "set")

(* Under the lock is one goroutine, and where it is says what the variables *)
(* of the loop can be.                                                     *)
Round ==
  /\ At \in Inserting => then \in {"idle", "set", "map"}
  /\ At = "find" => then \in {"idle", "grown"}
  /\ At = "map" => then = "map"
  /\ At \in {"free", "remove", "grow"} => then = "idle"
  /\ item # NoChunk <=> At \in Inserting \cup {"map"}
  /\ At \notin {"find", "insert"} => last = Nil
  /\ At \in {"free", "grow"} => cursor = Nil

Control ==
  /\ pc \in [Procs -> Working \cup {"idle", "set"}] /\ lock \in Procs \cup {NoProc}
  /\ need \in [Procs -> Needs \cup {0}] /\ DOMAIN got = Procs
  /\ \A p \in Procs : Hand(p)
  /\ Round

(* What the hands and the loop hold, apart from the pages. *)
Hands ==
  /\ got \in [Procs -> [start : Pages \cup {0}, npages : Needs \cup {0}]]
  /\ live \in SUBSET [start : Pages, npages : Needs]
  /\ item \in [start : Pages \cup {0}, npages : Nat]
  /\ \A p \in Procs : got[p] # NoChunk => got[p].start \in Pages /\ got[p].npages \in Needs
  /\ item # NoChunk => item.start \in Pages /\ item.npages \in Nat \ {0}
  /\ \A p \in Procs : got[p] \notin live
  /\ \A p, q \in Procs : got[p] = got[q] => p = q \/ got[p] = NoChunk
  /\ At = "insert" => npagesKey[item.start] = 0

Links ==
  /\ root \in Nodes \cup {Nil} /\ cursor \in Nodes \cup {Nil} /\ last \in Nodes \cup {Nil}
  /\ {left, right, parent} \subseteq [Nodes -> Nodes \cup {Nil}]
  /\ npagesKey \in [Nodes -> Nat]
  /\ \A n \in Nodes \ InTree : left[n] = Nil /\ right[n] = Nil /\ parent[n] = Nil

(* The chunk to remove is the smallest that fits, the lowest of those.     *)
Fitting ==
  At = "remove" =>
    /\ cursor \in InTree /\ npagesKey[cursor] >= need[lock]
    /\ \A d \in InTree \ {cursor} : npagesKey[d] >= need[lock] => Before(ChunkOf(cursor), ChunkOf(d))

LEMMA Numbers ==
  /\ Pages \subseteq Nat /\ 0 \notin Pages /\ Nil \notin Nodes /\ Needs \subseteq Nat \ {0}
  /\ NoProc \notin Procs /\ RawPages \in Nat \ {0}
BY HeapAssumption DEF Pages, Nodes, Nil

(* A step of p leaves the hands of the others alone. *)
Alone(p) ==
  /\ pc' \in [Procs -> Working \cup {"idle", "set"}] /\ need' \in [Procs -> Needs \cup {0}]
  /\ DOMAIN got' = Procs
  /\ \A q \in Procs \ {p} : pc'[q] = pc[q] /\ need'[q] = need[q] /\ got'[q] = got[q]
  /\ (lock \in {p, NoProc} /\ lock' \in {p, NoProc}) \/ (lock' = lock /\ then' = then)

LEMMA Others ==
  ASSUME Control, NEW p \in Procs, Alone(p), Hand(p)', Round'
  PROVE  Control'
<1>1. ASSUME NEW q \in Procs \ {p}
      PROVE  Hand(q)'
  BY <1>1, Numbers DEF Alone, Control, Hand, Inserting, Working
<1>2. lock' \in Procs \cup {NoProc}
  BY DEF Alone, Control
<1> QED
  BY <1>1, <1>2 DEF Control, Alone

LEMMA ControlAlloc ==
  ASSUME Control, NEW p \in Procs, AllocSpan(p)
  PROVE  Control'
<1> USE Numbers DEF Control, Hand, Round, At, Inserting, Working
<1>1. CASE AllocLock(p)
  <2>1. Alone(p)
    BY <1>1 DEF AllocLock, Goto, Alone
  <2>2. Hand(p)'
    BY <1>1 DEF AllocLock, Goto
  <2>3. Round'
    BY <1>1 DEF AllocLock, Goto
  <2> QED
    BY <2>1, <2>2, <2>3, Others
<1>2. ASSUME got' = [got EXCEPT ![p] = NoChunk], Goto(p, "idle"), UNCHANGED << loop, lock, need >>,
             pc[p] = "set"
      PROVE  Control'
  <2>1. Alone(p)
    BY <1>2 DEF Goto, Alone, loop
  <2>2. Hand(p)'
    BY <1>2 DEF Goto, loop
  <2>3. lock # p /\ At' = At
    BY <1>2 DEF Goto
  <2>4. Round'
    BY <1>2, <2>3 DEF loop
  <2> QED
    BY <2>1, <2>2, <2>4, Others
<1> QED
  BY <1>1, <1>2 DEF AllocSpan, SetSpans, SetSpansPanics

LEMMA ControlFind ==
  ASSUME Control, NEW p \in Procs, Find(p)
  PROVE  Control'
<1> USE Numbers DEF Control, Hand, Round, At, Inserting, Working
<1>1. CASE FindStep(p)
  <2>1. Alone(p) /\ Hand(p)'
    BY <1>1 DEF FindStep, proc, Alone
  <2>2. Round'
    BY <1>1 DEF FindStep, proc
  <2> QED
    BY <2>1, <2>2, Others
<1>2. CASE FindMiss(p) /\ then = "grown"
  <2>1. Alone(p) /\ Hand(p)'
    BY <1>2 DEF FindMiss, Alone, Leave, Goto
  <2>2. Round'
    BY <1>2 DEF FindMiss, Leave, Goto
  <2> QED
    BY <2>1, <2>2, Others
<1>3. CASE FindMiss(p) /\ then # "grown"
  <2>1. Alone(p) /\ Hand(p)'
    BY <1>3 DEF FindMiss, Alone, Goto
  <2>2. Round'
    BY <1>3 DEF FindMiss, Goto
  <2> QED
    BY <2>1, <2>2, Others
<1>4. CASE FindHit(p)
  <2>1. Alone(p) /\ Hand(p)'
    BY <1>4 DEF FindHit, Alone, Goto
  <2>2. Round'
    BY <1>4 DEF FindHit, Goto
  <2> QED
    BY <2>1, <2>2, Others
<1> QED
  BY <1>1, <1>2, <1>3, <1>4 DEF Find

LEMMA ControlRemove ==
  ASSUME Control, Links, Fitting, NEW p \in Procs, Remove(p)
  PROVE  Control'
<1> USE Numbers DEF Control, Hand, Round, At, Inserting, Working
<1>1. CASE RemoveRotate(p)
  <2>1. Alone(p) /\ Hand(p)'
    BY <1>1 DEF RemoveRotate, Alone, loop, proc
  <2>2. Round'
    BY <1>1 DEF RemoveRotate, loop, proc
  <2> QED
    BY <2>1, <2>2, Others
<1>2. CASE RemoveLeaf(p)
  <2>1. cursor \in Nat \ {0} /\ need[p] \in Nat \ {0}
    BY <1>2 DEF RemoveLeaf, Fitting, InTree, Nodes, Nil
  <2>2. Cut(ChunkOf(cursor), need[p]) # NoChunk /\ Rest(ChunkOf(cursor), need[p]) # NoChunk
    <3>1. Cut(ChunkOf(cursor), need[p]).npages # 0
      BY <2>1 DEF Cut
    <3>2. Rest(ChunkOf(cursor), need[p]).start # 0
      BY <2>1 DEF Rest, ChunkOf
    <3> QED
      BY <3>1, <3>2 DEF NoChunk
  <2>3. CASE ChunkOf(cursor).npages = need[p]
    <3>1. Alone(p) /\ Hand(p)'
      BY <1>2, <2>2, <2>3 DEF RemoveLeaf, Alone, Goto, ResetLoop
    <3>2. Round'
      BY <1>2, <2>3 DEF RemoveLeaf, Goto, ResetLoop
    <3> QED
      BY <3>1, <3>2, Others
  <2>4. CASE ChunkOf(cursor).npages # need[p]
    <3>1. Alone(p) /\ Hand(p)'
      BY <1>2, <2>2, <2>4 DEF RemoveLeaf, Alone, Goto
    <3>2. Round'
      BY <1>2, <2>2, <2>4 DEF RemoveLeaf, Goto
    <3> QED
      BY <3>1, <3>2, Others
  <2> QED
    BY <2>3, <2>4
<1> QED
  BY <1>1, <1>2 DEF Remove

LEMMA ControlInsert ==
  ASSUME Control, NEW p \in Procs, Insert(p)
  PROVE  Control'
<1> USE Numbers DEF Control, Hand, Round, At, Inserting, Working
<1>1. CASE InsertDown(p)
  <2>1. Alone(p) /\ Hand(p)'
    BY <1>1 DEF InsertDown, Alone, proc
  <2>2. Round'
    BY <1>1 DEF InsertDown, proc
  <2> QED
    BY <2>1, <2>2, Others
<1>2. CASE InsertLeaf(p)
  <2>1. Alone(p) /\ Hand(p)'
    BY <1>2 DEF InsertLeaf, Alone, Goto
  <2>2. Round'
    BY <1>2 DEF InsertLeaf, Goto
  <2> QED
    BY <2>1, <2>2, Others
<1>3. CASE InsertUp(p)
  <2>1. Alone(p) /\ Hand(p)'
    BY <1>3 DEF InsertUp, Alone, loop, proc
  <2>2. Round'
    BY <1>3 DEF InsertUp, loop, proc
  <2> QED
    BY <2>1, <2>2, Others
<1>4. CASE InsertDone(p) /\ then = "map"
  <2>1. Alone(p) /\ Hand(p)'
    BY <1>4 DEF InsertDone, Alone, Goto, loop
  <2>2. Round'
    BY <1>4 DEF InsertDone, Goto, loop
  <2> QED
    BY <2>1, <2>2, Others
<1>5. CASE InsertDone(p) /\ then # "map"
  <2>1. Alone(p) /\ Hand(p)'
    BY <1>5 DEF InsertDone, Alone, Goto, ResetLoop
  <2>2. Round'
    BY <1>5 DEF InsertDone, Goto, ResetLoop
  <2> QED
    BY <2>1, <2>2, Others
<1>6. CASE InsertFails(p) /\ then = "map"
  <2>1. Alone(p) /\ Hand(p)'
    BY <1>6 DEF InsertFails, Alone, Goto
  <2>2. Round'
    BY <1>6 DEF InsertFails, Goto
  <2> QED
    BY <2>1, <2>2, Others
<1>7. CASE InsertFails(p) /\ then # "map"
  <2>1. Alone(p) /\ Hand(p)'
    BY <1>7 DEF InsertFails, Alone, Leave, Goto, ResetLoop
  <2>2. Round'
    BY <1>7 DEF InsertFails, Leave, Goto, ResetLoop
  <2> QED
    BY <2>1, <2>2, Others
<1> QED
  BY <1>1, <1>2, <1>3, <1>4, <1>5, <1>6, <1>7 DEF Insert

LEMMA ControlGrow ==
  ASSUME Control, LinearInv, NEW p \in Procs, Grow(p)
  PROVE  Control'
<1> USE Numbers DEF Control, Hand, Round, At, Inserting, Working
<1>1. CASE GrowAlloc(p)
  <2>1. Alone(p) /\ Hand(p)'
    BY <1>1 DEF GrowAlloc, Alone, Goto
  <2>2. item' # NoChunk
    <3>1. item'.npages = GrowSize(need[p])
      BY <1>1 DEF GrowAlloc
    <3>2. need[p] \in Nat \ {0}
      BY <1>1 DEF GrowAlloc
    <3> QED
      BY <3>1, <3>2 DEF GrowSize, NoChunk
  <2>3. Round'
    BY <1>1, <2>2 DEF GrowAlloc, Goto
  <2> QED
    BY <2>1, <2>3, Others
<1>2. CASE GrowChunkFails(p)
  <2>1. Alone(p) /\ Hand(p)'
    BY <1>2 DEF GrowChunkFails, Alone, Leave, Goto, ResetLoop
  <2>2. Round'
    BY <1>2 DEF GrowChunkFails, Leave, Goto, ResetLoop
  <2> QED
    BY <2>1, <2>2, Others
<1>3. CASE GrowExpand(p) \/ GrowAnew(p)
  <2>1. UNCHANGED << loop, proc >>
    BY <1>3 DEF GrowExpand, GrowAnew
  <2>2. Control'
    BY <2>1 DEF loop, proc
  <2> QED
    BY <2>2
<1>4. CASE GrowMap(p)
  <2>1. Alone(p) /\ Hand(p)'
    BY <1>4 DEF GrowMap, Alone, Goto
  <2>2. Round'
    BY <1>4 DEF GrowMap, Goto
  <2> QED
    BY <2>1, <2>2, Others
<1>5. CASE GrowMapFails(p)
  <2>1. Alone(p) /\ Hand(p)'
    BY <1>5 DEF GrowMapFails, Alone, Leave, Goto, ResetLoop
  <2>2. Round'
    BY <1>5 DEF GrowMapFails, Leave, Goto, ResetLoop
  <2> QED
    BY <2>1, <2>2, Others
<1> QED
  BY <1>1, <1>2, <1>3, <1>4, <1>5 DEF Grow

LEMMA ControlStep ==
  ASSUME Control, LinearInv, Hands, Links, Fitting, [Next]_vars
  PROVE  Control'
<1>1. ASSUME NEW p \in Procs, SweepLarge(p)
      PROVE  Control'
  <2> USE Numbers DEF Control, Hand, Round, At, Inserting, Working
  <2>1. PICK c \in live : item' = c
    BY <1>1 DEF SweepLarge
  <2>2. item' # NoChunk
    BY <2>1 DEF Hands, NoChunk
  <2>3. Alone(p) /\ Hand(p)'
    BY <1>1 DEF SweepLarge, Alone, Goto
  <2>4. Round'
    BY <1>1, <2>2 DEF SweepLarge, Goto
  <2> QED
    BY <2>3, <2>4, Others
<1>2. CASE UNCHANGED vars
  BY <1>2 DEF vars, loop, proc, Control, Hand, Round, At
<1> QED
  BY <1>1, <1>2, ControlAlloc, ControlFind, ControlRemove, ControlInsert, ControlGrow DEF Next

-----------------------------------------------------------------------------
(* The abstract store that the page heap is.                               *)
TreeChunks == {ChunkOf(n) : n \in InTree}
Got == {got[p] : p \in Procs} \ {NoChunk}
Free == TreeChunks \cup Pending
Held == live \cup Got
S == INSTANCE PageStoreProofs WITH free <- Free, held <- Held

(* PageStoreProofs says the same of the store as PageStore, by other names. *)
LEMMA SameStore ==
  /\ Store!vars = S!vars /\ (Store!Init <=> S!Init) /\ (Store!Next <=> S!Next)
<1> USE DEF Free, Held, TreeChunks, Got
<1>1. Store!vars = S!vars /\ (Store!Init <=> S!Init)
  BY DEF Store!vars, S!vars, Store!Init, S!Init
<1>2. \A c : Store!PagesOf(c) = S!PagesOf(c)
  BY DEF Store!PagesOf, S!PagesOf
<1>3. \A cs : Store!Covered(cs) = S!Covered(cs)
  BY <1>2 DEF Store!Covered, S!Covered
<1>4. \A c, d : Store!Before(c, d) <=> S!Before(c, d)
  BY DEF Store!Before, S!Before
<1>5. \A c, n : Store!Cut(c, n) = S!Cut(c, n) /\ Store!Rest(c, n) = S!Rest(c, n)
  BY DEF Store!Cut, S!Cut, Store!Rest, S!Rest
<1>6. Store!Unowned = S!Unowned
  BY <1>3 DEF Store!Unowned, S!Unowned
<1>7. Store!Grow <=> S!Grow
  BY <1>6 DEF Store!Grow, S!Grow
<1>8. \A c, n : Store!Take(c, n) <=> S!Take(c, n)
  BY <1>4, <1>5 DEF Store!Take, S!Take, Store!BestFit, S!BestFit
<1>9. \A c : Store!Put(c) <=> S!Put(c)
  BY DEF Store!Put, S!Put
<1>10. \A cs : Store!Lose(cs) <=> S!Lose(cs)
  BY <1>3 DEF Store!Lose, S!Lose
<1> QED
  BY <1>1, <1>7, <1>8, <1>9, <1>10 DEF Store!Next, S!Next

LEMMA PendingAt ==
  ASSUME Control
  PROVE  Pending = IF At = "insert" THEN {item} ELSE {}
BY Numbers DEF Control, Hand, At, Pending, Working

LEMMA PendingThen ==
  ASSUME Control'
  PROVE  Pending' = IF At' = "insert" THEN {item'} ELSE {}
BY Numbers DEF Control, Hand, At, Pending, Working

(* Steps that change no chunk of the heap. *)
LEMMA Quiet ==
  ASSUME Control, Control', UNCHANGED << npagesKey, live, lost >>, Got' = Got,
         IF At = "insert" THEN At' = "insert" /\ item' = item ELSE At' # "insert"
  PROVE  UNCHANGED S!vars
<1>1. TreeChunks' = TreeChunks
  BY DEF TreeChunks, InTree, ChunkOf
<1>2. Pending' = Pending
  BY PendingAt, PendingThen
<1> QED
  BY <1>1, <1>2 DEF S!vars, Free, Held

LEMMA LeaveGot ==
  ASSUME Control, NEW p \in Procs, got[p] = NoChunk, got' = [got EXCEPT ![p] = NoChunk]
  PROVE  Got' = Got
BY DEF Got, Control
LEMMA SetGot ==
  ASSUME Control, NEW p \in Procs, NEW c, c # NoChunk, got[p] = NoChunk, got' = [got EXCEPT ![p] = c]
  PROVE  Got' = Got \cup {c}
<1>1. got'[p] = c /\ \A q \in Procs \ {p} : got'[q] = got[q]
  BY DEF Control
<1>2. \A x : x \in Got' <=> x \in Got \cup {c}
  BY <1>1 DEF Got
<1> QED
  BY <1>2

LEMMA DropGot ==
  ASSUME Control, Hands, NEW p \in Procs, got' = [got EXCEPT ![p] = NoChunk]
  PROVE  Got' = Got \ {got[p]}
<1>1. got'[p] = NoChunk /\ \A q \in Procs \ {p} : got'[q] = got[q]
  BY DEF Control
<1>2. \A x : x \in Got' <=> x \in Got \ {got[p]}
  BY <1>1 DEF Got, Hands
<1> QED
  BY <1>2

(* The chunk that fits best is cut (treap.find and treap.removeSpan).      *)
LEMMA LeafTakes ==
  ASSUME Control, Control', Hands, Links, Fitting, NEW p \in Procs, RemoveLeaf(p)
  PROVE  \E c \in Free, n \in Needs : S!Take(c, n)
<1> DEFINE c == ChunkOf(cursor)
           n == need[p]
<1>1. /\ pc[p] = "remove" /\ lock = p /\ p # NoProc /\ At = "remove"
      /\ n \in Needs /\ n \in Nat \ {0} /\ got[p] = NoChunk
      /\ cursor \in InTree /\ cursor \in Nat \ {0}
  <2>1. pc[p] = "remove" /\ p # NoProc
    BY Numbers DEF RemoveLeaf
  <2>2. lock = p /\ n # 0 /\ n \in Needs \cup {0} /\ got[p] = NoChunk
    BY <2>1 DEF Control, Hand, Working, Inserting
  <2>3. At = "remove"
    BY <2>1, <2>2 DEF At
  <2>4. cursor \in InTree
    BY <2>3 DEF Fitting
  <2>5. cursor \in Pages
    BY <2>4 DEF InTree, Nodes
  <2> QED
    BY <2>1, <2>2, <2>3, <2>4, <2>5, Numbers
<1>2. c.start = cursor /\ c.npages = npagesKey[cursor] /\ c.npages \in Nat /\ c.npages >= n
  BY <1>1 DEF ChunkOf, Fitting, Links, InTree
<1>3. Free = TreeChunks /\ c \in TreeChunks
  BY <1>1, PendingAt DEF Free, TreeChunks
<1>4. S!BestFit(c, n)
  <2>1. ASSUME NEW d \in Free \ {c}, d.npages >= n
        PROVE  S!Before(c, d)
    <3>1. PICK m \in InTree : d = ChunkOf(m)
      BY <1>3, <2>1 DEF TreeChunks
    <3>2. Before(c, d)
      BY <1>1, <2>1, <3>1 DEF Fitting, ChunkOf
    <3> QED
      BY <3>2 DEF Before, S!Before
  <2> QED
    BY <1>2, <1>3, <2>1 DEF S!BestFit
<1>5. TreeChunks' = TreeChunks \ {c}
  <2>1. npagesKey' = [npagesKey EXCEPT ![cursor] = 0]
    BY DEF RemoveLeaf, Unlink
  <2>2. InTree' = InTree \ {cursor} /\ \A m \in InTree' : ChunkOf(m)' = ChunkOf(m)
    BY <2>1 DEF InTree, ChunkOf, Links
  <2>3. \A m \in InTree : ChunkOf(m) = c => m = cursor
    BY DEF ChunkOf
  <2> QED
    BY <2>2, <2>3 DEF TreeChunks
<1>6. Pending' = S!Rest(c, n)
  <2>1. CASE c.npages = n
    <3>1. At' = "free"
      BY <2>1 DEF RemoveLeaf, At
    <3> QED
      BY <2>1, <3>1, PendingThen DEF S!Rest
  <2>2. CASE c.npages # n
    <3>1. At' = "insert" /\ item' = Rest(c, n)
      BY <1>1, <2>2 DEF RemoveLeaf, At, Goto, Control
    <3> QED
      BY <2>2, <3>1, PendingThen DEF S!Rest, Rest
  <2> QED
    BY <2>1, <2>2
<1>7. Held' = Held \cup {S!Cut(c, n)}
  <2>1. Cut(c, n) # NoChunk /\ Cut(c, n) = S!Cut(c, n)
    <3>1. Cut(c, n).npages # 0
      BY <1>1 DEF Cut
    <3> QED
      BY <3>1 DEF Cut, S!Cut, NoChunk
  <2>2. live' = live /\ got' = [got EXCEPT ![p] = Cut(c, n)]
    BY DEF RemoveLeaf
  <2>3. Got' = Got \cup {Cut(c, n)}
    BY <1>1, <2>1, <2>2, SetGot
  <2> QED
    BY <2>1, <2>2, <2>3 DEF Held
<1>8. lost' = lost
  BY DEF RemoveLeaf
<1>9. S!Take(c, n)
  BY <1>3, <1>4, <1>5, <1>6, <1>7, <1>8 DEF S!Take, Free
<1> QED
  BY <1>1, <1>3, <1>9

(* An error drops the chunk to insert, and the pages cut from it. *)
LEMMA FailLoses ==
  ASSUME Control, Control', Hands, Links, S!Apart, NEW p \in Procs, InsertFails(p)
  PROVE  \E c, d \in Free \cup Held : S!Lose({c, d})
<1>1. /\ pc[p] = "insert" /\ lock = p /\ At = "insert" /\ p # NoProc
      /\ (got[p] # NoChunk <=> then = "set")
  BY Numbers DEF InsertFails, Control, Hand, At, Working, Inserting
<1>2. Pending = {item} /\ item \in Free /\ item \notin Held
  BY <1>1, PendingAt DEF Free, S!Apart
<1>3. item \notin TreeChunks
  BY <1>1 DEF Hands, TreeChunks, ChunkOf, InTree
<1>4. Pending' = {}
  <2>1. At' # "insert"
    BY <1>1 DEF InsertFails, Goto, Leave, At, Control
  <2> QED
    BY <2>1, PendingThen
<1>5. TreeChunks' = TreeChunks /\ live' = live
  BY DEF InsertFails, tree, TreeChunks, InTree, ChunkOf
<1>6. \A x : S!Covered({item, x}) = PagesOf(item) \cup PagesOf(x)
  BY DEF S!Covered, S!PagesOf, PagesOf
<1>7. CASE got[p] = NoChunk
  <2>1. Got' = Got
    BY <1>7, <1>1, LeaveGot DEF InsertFails, Leave, Got
  <2>2. lost' = lost \cup S!Covered({item, item})
    BY <1>6, <1>7 DEF InsertFails
  <2>3. Free' = Free \ {item, item} /\ Held' = Held \ {item, item}
    BY <1>2, <1>3, <1>4, <1>5, <2>1 DEF Free, Held
  <2> QED
    BY <1>2, <2>2, <2>3 DEF S!Lose
<1>8. CASE got[p] # NoChunk
  <2>1. Got' = Got \ {got[p]}
    BY <1>8, <1>1, DropGot DEF InsertFails, Leave
  <2>2. lost' = lost \cup S!Covered({item, got[p]})
    BY <1>6, <1>8 DEF InsertFails
  <2>3. got[p] \in Held /\ got[p] \notin live /\ got[p] \notin Free
    BY <1>8 DEF Held, Got, Hands, S!Apart
  <2>4. Free' = Free \ {item, got[p]} /\ Held' = Held \ {item, got[p]}
    BY <1>2, <1>3, <1>4, <1>5, <2>1, <2>3 DEF Free, Held
  <2> QED
    BY <1>2, <2>2, <2>3, <2>4 DEF S!Lose
<1> QED
  BY <1>7, <1>8

LEMMA PanicLoses ==
  ASSUME Control, Control', Hands, S!Apart, NEW p \in Procs, SetSpansPanics(p)
  PROVE  \E c, d \in Free \cup Held : S!Lose({c, d})
<1>1. pc[p] = "set" /\ lock # p /\ got[p] # NoChunk
  BY DEF SetSpansPanics, Control, Hand, Working
<1>2. got[p] \in Held /\ got[p] \notin live /\ got[p] \notin Free
  BY <1>1 DEF Held, Got, Hands, S!Apart
<1>3. Got' = Got \ {got[p]} /\ live' = live
  BY DropGot DEF SetSpansPanics
<1>4. Free' = Free
  <2>1. At' = At /\ item' = item
    BY <1>1 DEF SetSpansPanics, At, Goto, Control, loop
  <2>2. TreeChunks' = TreeChunks
    BY DEF SetSpansPanics, tree, TreeChunks, InTree, ChunkOf
  <2> QED
    BY <2>1, <2>2, PendingAt, PendingThen DEF Free
<1>5. lost' = lost \cup S!Covered({got[p], got[p]})
  BY DEF SetSpansPanics, S!Covered, S!PagesOf, PagesOf
<1> QED
  BY <1>2, <1>3, <1>4, <1>5 DEF S!Lose, Held

(* The span of a large object freed gives its chunk back. *)
LEMMA SweepPuts ==
  ASSUME Control, Control', Hands, NEW p \in Procs, SweepLarge(p)
  PROVE  \E c \in Held : S!Put(c)
<1>1. PICK c \in live : live' = live \ {c} /\ item' = c
  BY DEF SweepLarge
<1>2. c \in Held /\ c \notin Got
  BY <1>1 DEF Held, Got, Hands
<1>3. At = "free" /\ At' = "insert"
  BY Numbers DEF SweepLarge, At, Goto, Control
<1>4. Pending = {} /\ Pending' = {c}
  BY <1>1, <1>3, PendingAt, PendingThen
<1>5. TreeChunks' = TreeChunks /\ Got' = Got /\ lost' = lost
  BY DEF SweepLarge, tree, TreeChunks, InTree, ChunkOf, Got
<1> QED
  BY <1>1, <1>2, <1>4, <1>5 DEF S!Put, Free, Held
(* The linear allocator has handed out nothing of what it will hand out    *)
(* next, and reserves whole regions.                                       *)
Fresh ==
  /\ S!Owned \subseteq reserved /\ reserved \subseteq Pages
  /\ (next .. end - 1) \cap S!Owned = {}
  /\ (end % RawPages) = 0

(* What grow2 takes from the linear allocator. *)
LEMMA TakenPages ==
  ASSUME LinearInv, Fresh, NEW p \in Procs, GrowFits(p), need[p] \in Nat \ {0}
  PROVE  /\ RoundUp(next) \in Pages
         /\ GrowSize(need[p]) \in Nat \ {0} /\ RoundUp(next) + GrowSize(need[p]) - 1 \in Pages
         /\ RoundUp(next) .. RoundUp(next) + GrowSize(need[p]) - 1 \subseteq next .. end - 1
         /\ next .. end - 1 \subseteq S!Unowned
<1> DEFINE b == RoundUp(next)
           n == GrowSize(need[p])
<1>1. b \in Nat /\ b >= next /\ next \in Nat /\ end \in Nat
  BY RoundUpUp DEF LinearInv
<1>2. n \in Nat \ {0}
  BY Numbers DEF GrowSize
<1>3. b + n <= end
  BY DEF GrowFits
<1> HIDE DEF b, n
<1>4. b .. b + n - 1 \subseteq next .. end - 1 /\ b \in b .. b + n - 1 /\ b + n - 1 \in b .. b + n - 1
  BY <1>1, <1>2, <1>3
<1>5. next .. end - 1 \subseteq S!Unowned /\ next .. end - 1 \subseteq Pages
  BY DEF LinearInv, EndIsReserved, Fresh, S!Owned, S!Unowned
<1> QED
  BY <1>2, <1>4, <1>5 DEF b, n

LEMMA AllocGrows ==
  ASSUME Control, Control', LinearInv, Fresh, NEW p \in Procs, GrowAlloc(p)
  PROVE  S!Grow /\ S!Owned' = S!Owned \cup PagesOf(item')
<1> DEFINE b == RoundUp(next)
           n == GrowSize(need[p])
<1>1. pc[p] = "grow" /\ need[p] \in Nat \ {0} /\ lock = p /\ GrowFits(p)
  BY Numbers DEF GrowAlloc, Control, Hand, Working
<1>2. /\ n \in Nat \ {0} /\ b \in Pages /\ b + n - 1 \in Pages
      /\ b .. b + n - 1 \subseteq S!Unowned
  BY <1>1, TakenPages
<1>3. item' = [start |-> b, npages |-> n]
  BY DEF GrowAlloc
<1> HIDE DEF b, n
<1>4. b \in Nat /\ b <= b + n - 1 /\ (b + n - 1) - b + 1 = n
  BY <1>2, Numbers
<1>5. At = "grow" /\ At' = "insert"
  BY <1>1, Numbers DEF GrowAlloc, Goto, At, Control
<1>6. Pending = {} /\ Pending' = {item'}
  BY <1>5, PendingAt, PendingThen
<1>7. TreeChunks' = TreeChunks /\ Held' = Held /\ lost' = lost
  BY DEF GrowAlloc, tree, TreeChunks, InTree, ChunkOf, Held, Got
<1>8. b \in S!Unowned /\ b + n - 1 \in S!Unowned
  BY <1>2, <1>4
<1>9. Free' = Free \cup {[start |-> b, npages |-> (b + n - 1) - b + 1]}
  BY <1>3, <1>4, <1>6, <1>7 DEF Free
<1>10. S!Grow
  BY <1>2, <1>4, <1>7, <1>8, <1>9 DEF S!Grow
<1>11. Free' = Free \cup {item'}
  BY <1>6, <1>7 DEF Free
<1>12. S!Owned' = S!Owned \cup PagesOf(item')
  BY <1>7, <1>11 DEF S!Owned, S!Covered, S!PagesOf, PagesOf
<1> QED
  BY <1>10, <1>12

(* The new leaf is the chunk that was to be inserted. *)
LEMMA LeafQuiet ==
  ASSUME Control, Control', Hands, Links, NEW p \in Procs, InsertLeaf(p)
  PROVE  UNCHANGED S!vars
<1>1. pc[p] = "insert" /\ lock = p /\ p # NoProc /\ At = "insert" /\ At' = "up"
  BY Numbers DEF InsertLeaf, Control, Hand, At, Working, Goto
<1>2. Pending = {item} /\ Pending' = {}
  BY <1>1, PendingAt, PendingThen
<1>3. PICK t \in Nodes \ InTree : t = item.start /\ npagesKey' = [npagesKey EXCEPT ![t] = item.npages]
  BY DEF InsertLeaf
<1>4. item \in [start : Pages \cup {0}, npages : Nat] /\ item.npages # 0
  BY <1>1 DEF Hands, Control, Round, Inserting
<1>5. InTree' = InTree \cup {t}
  BY <1>3, <1>4 DEF InTree, Links
<1>6. ChunkOf(t)' = item /\ \A n \in InTree : ChunkOf(n)' = ChunkOf(n)
  BY <1>3, <1>4 DEF ChunkOf, Links, InTree
<1>7. TreeChunks' = TreeChunks \cup {item}
  BY <1>5, <1>6 DEF TreeChunks
<1>8. Held' = Held /\ lost' = lost
  BY DEF InsertLeaf, Held, Got
<1> QED
  BY <1>2, <1>7, <1>8 DEF S!vars, Free

LEMMA SetQuiet ==
  ASSUME Control, Control', Hands, NEW p \in Procs, SetSpans(p)
  PROVE  UNCHANGED S!vars
<1>1. pc[p] = "set" /\ lock # p /\ got[p] # NoChunk
  BY DEF SetSpans, Control, Hand, Working
<1>2. Got' = Got \ {got[p]} /\ live' = live \cup {got[p]} /\ got[p] \in Got /\ lost' = lost
  BY <1>1, DropGot DEF SetSpans, Got
<1>3. At' = At /\ item' = item
  BY <1>1 DEF SetSpans, At, Goto, Control, loop
<1>4. TreeChunks' = TreeChunks
  BY DEF SetSpans, tree, TreeChunks, InTree, ChunkOf
<1> QED
  BY <1>2, <1>3, <1>4, PendingAt, PendingThen DEF S!vars, Free, Held

(* Every step of the page heap is one of the store, or changes no chunk.   *)
LEMMA StepMoves ==
  ASSUME Control, Control', Hands, Links, Fitting, LinearInv, Fresh, S!Apart, [Next]_vars
  PROVE  S!Move \/ (S!Grow /\ \E q \in Procs : GrowAlloc(q))
<1> USE Numbers
<1>0. UNCHANGED S!vars => S!Move
  BY DEF S!Move
<1>1. ASSUME NEW p \in Procs, AllocSpan(p)
      PROVE  S!Move \/ (S!Grow /\ \E q \in Procs : GrowAlloc(q))
  <2>1. CASE AllocLock(p)
    BY <1>0, <2>1, Quiet DEF AllocLock, tree, At, Control, Goto, Got
  <2>2. CASE SetSpans(p)
    BY <1>0, <2>2, SetQuiet
  <2>3. CASE SetSpansPanics(p)
    BY <2>3, PanicLoses DEF S!Move
  <2> QED
    BY <1>1, <2>1, <2>2, <2>3 DEF AllocSpan
<1>2. ASSUME NEW p \in Procs, Find(p)
      PROVE  S!Move \/ (S!Grow /\ \E q \in Procs : GrowAlloc(q))
  <2>1. pc[p] = "find" /\ lock = p /\ p # NoProc /\ At = "find" /\ got[p] = NoChunk
    BY <1>2 DEF Find, FindStep, FindMiss, FindHit, Control, Hand, Working, Inserting, At
  <2>2. At' # "insert"
    BY <1>2, <2>1 DEF Find, FindStep, FindMiss, FindHit, Leave, Goto, At, proc, Control
  <2>3. UNCHANGED << npagesKey, live, lost >>
    BY <1>2 DEF Find, FindStep, FindMiss, FindHit, tree
  <2>4. got' = got \/ got' = [got EXCEPT ![p] = NoChunk]
    BY <1>2 DEF Find, FindStep, FindMiss, FindHit, Leave, proc
  <2>5. Got' = Got
    BY <2>1, <2>4, LeaveGot DEF Got
  <2> QED
    BY <1>0, <2>1, <2>2, <2>3, <2>5, Quiet
<1>3. ASSUME NEW p \in Procs, Remove(p)
      PROVE  S!Move \/ (S!Grow /\ \E q \in Procs : GrowAlloc(q))
  <2>1. CASE RemoveRotate(p)
    <3>1. UNCHANGED << npagesKey, live, lost, got, lock, pc >> /\ At' = At
      BY <2>1 DEF RemoveRotate, RotateLeft, RotateRight, proc, At
    <3>2. At # "insert"
      BY <2>1 DEF RemoveRotate, Control, Hand, Working, At
    <3> QED
      BY <1>0, <3>1, <3>2, Quiet DEF Got
  <2>2. CASE RemoveLeaf(p)
    BY <2>2, LeafTakes DEF S!Move
  <2> QED
    BY <1>3, <2>1, <2>2 DEF Remove
<1>4. ASSUME NEW p \in Procs, Insert(p)
      PROVE  S!Move \/ (S!Grow /\ \E q \in Procs : GrowAlloc(q))
  <2>1. CASE InsertDown(p)
    <3>1. UNCHANGED << npagesKey, live, lost, got, item >> /\ At' = At
      BY <2>1 DEF InsertDown, tree, proc, At
    <3> QED
      BY <1>0, <3>1, Quiet DEF Got
  <2>2. CASE InsertLeaf(p)
    BY <1>0, <2>2, LeafQuiet
  <2>3. CASE InsertUp(p)
    <3>1. UNCHANGED << npagesKey, live, lost, got, item >> /\ At' = At
      BY <2>3 DEF InsertUp, RotateLeft, RotateRight, loop, proc, At
    <3> QED
      BY <1>0, <3>1, Quiet DEF Got
  <2>4. CASE InsertDone(p)
    <3>1. UNCHANGED << npagesKey, live, lost, got >> /\ At # "insert" /\ At' # "insert"
      BY <2>4 DEF InsertDone, tree, Goto, Control, Hand, Round, Working, Inserting, At
    <3> QED
      BY <1>0, <3>1, Quiet DEF Got
  <2>5. CASE InsertFails(p)
    BY <2>5, FailLoses DEF S!Move
  <2> QED
    BY <1>4, <2>1, <2>2, <2>3, <2>4, <2>5 DEF Insert
<1>5. ASSUME NEW p \in Procs, Grow(p)
      PROVE  S!Move \/ (S!Grow /\ \E q \in Procs : GrowAlloc(q))
  <2>1. CASE GrowAlloc(p)
    BY <2>1, AllocGrows
  <2>2. CASE ~ GrowAlloc(p)
    <3>1. pc[p] \in {"grow", "map"} /\ lock = p /\ p # NoProc /\ At # "insert" /\ got[p] = NoChunk
      BY <1>5, <2>2 DEF Grow, GrowAlloc, GrowChunkFails, GrowExpand, GrowAnew, GrowMap, GrowMapFails, Control,
                        Hand, Working, Inserting, At
    <3>2. At' # "insert"
      BY <1>5, <2>2, <3>1
         DEF Grow, GrowChunkFails, GrowExpand, GrowAnew, GrowMap, GrowMapFails, Leave, Goto, At, proc, Control
    <3>3. UNCHANGED << npagesKey, live, lost >>
      BY <1>5, <2>2 DEF Grow, GrowChunkFails, GrowExpand, GrowAnew, GrowMap, GrowMapFails, tree
    <3>4. got' = got \/ got' = [got EXCEPT ![p] = NoChunk]
      BY <1>5, <2>2 DEF Grow, GrowChunkFails, GrowExpand, GrowAnew, GrowMap, GrowMapFails, Leave, proc
    <3>5. Got' = Got
      BY <3>1, <3>4, LeaveGot DEF Got
    <3> QED
      BY <1>0, <3>1, <3>2, <3>3, <3>5, Quiet
  <2> QED
    BY <2>1, <2>2
<1>6. ASSUME NEW p \in Procs, SweepLarge(p)
      PROVE  S!Move \/ (S!Grow /\ \E q \in Procs : GrowAlloc(q))
  BY <1>6, SweepPuts DEF S!Move
<1>7. CASE UNCHANGED vars
  BY <1>0, <1>7, Quiet DEF vars, tree, loop, proc, At, Got
<1> QED
  BY <1>1, <1>2, <1>3, <1>4, <1>5, <1>6, <1>7 DEF Next

LEMMA MovesRefine ==
  ASSUME S!Move \/ (S!Grow /\ \E q \in Procs : GrowAlloc(q))
  PROVE  [S!Next]_S!vars
BY DEF S!Move, S!Next

LEMMA ApartStep ==
  ASSUME S!Apart, S!Move \/ (S!Grow /\ \E q \in Procs : GrowAlloc(q))
  PROVE  /\ S!Apart' /\ S!Owned \subseteq S!Owned'
         /\ S!Owned' = S!Owned \/ \E q \in Procs : GrowAlloc(q)
<1>1. S!Move => S!Apart' /\ S!Owned' = S!Owned
  BY Numbers, S!MoveStep
<1>2. S!Grow => S!Apart' /\ S!Owned \subseteq S!Owned'
  BY Numbers, S!GrowApart
<1> QED
  BY <1>1, <1>2

LEMMA MultiplesAdd ==
  ASSUME NEW r \in Nat \ {0}, NEW x \in Nat, NEW y \in Nat, (x % r) = 0, (y % r) = 0
  PROVE  ((x + y) % r) = 0
<1> DEFINE j == x \div r
           k == y \div r
<1>1. j \in Nat /\ x = r * j
  BY SMTT(30)
<1>2. k \in Nat /\ y = r * k
  BY SMTT(30)
<1> HIDE DEF j, k
<1>3. x + y = r * (j + k)
  BY <1>1, <1>2, SMTT(30)
<1> DEFINE m == j + k
<1>4. m \in Nat
  BY <1>1, <1>2
<1> HIDE DEF m
<1>5. ((r * m) % r) = 0
  BY <1>4, SMTT(30)
<1> QED
  BY <1>3, <1>5 DEF m

LEMMA FreshStep ==
  ASSUME HintKept, Control, Control', LinearInv, Fresh, [Next]_vars, S!Owned \subseteq S!Owned',
         S!Owned' = S!Owned \/ \E q \in Procs : GrowAlloc(q)
  PROVE  Fresh'
<1>1. ASSUME NEW p \in Procs, GrowAlloc(p)
      PROVE  Fresh'
  <2> DEFINE b == RoundUp(next)
             n == GrowSize(need[p])
  <2>1. GrowFits(p) /\ need[p] \in Nat \ {0}
    BY <1>1, Numbers DEF GrowAlloc, Control, Hand
  <2>2. /\ b \in Pages /\ n \in Nat \ {0}
        /\ b .. b + n - 1 \subseteq next .. end - 1
    BY <2>1, TakenPages
  <2>3. S!Owned' = S!Owned \cup (b .. b + n - 1)
    BY <1>1, AllocGrows DEF GrowAlloc, PagesOf
  <2>4. next' = b + n /\ end' = end /\ reserved' = reserved
    BY <1>1 DEF GrowAlloc
  <2>5. b >= next /\ next \in Nat /\ end \in Nat
    BY RoundUpUp DEF LinearInv
  <2> HIDE DEF b, n
  <2>6. b \in Nat
    BY <2>2, Numbers
  <2>7. b .. b + n - 1 \subseteq reserved
    BY <2>2 DEF LinearInv, EndIsReserved
  <2>8. next' .. end' - 1 \subseteq next .. end - 1 /\ (next' .. end' - 1) \cap (b .. b + n - 1) = {}
    BY <2>2, <2>4, <2>5, <2>6
  <2> QED
    BY <2>3, <2>4, <2>7, <2>8 DEF Fresh
<1>2. CASE S!Owned' = S!Owned /\ UNCHANGED linear
  BY <1>2 DEF Fresh, linear
<1>3. ASSUME NEW p \in Procs, GrowChunkFails(p), S!Owned' = S!Owned
      PROVE  Fresh'
  <2>1. need[p] \in Nat \ {0}
    BY <1>3, Numbers DEF GrowChunkFails, Control, Hand
  <2>2. RoundUp(next) \in Nat /\ RoundUp(next) >= next /\ next \in Nat /\ end \in Nat
    BY RoundUpUp DEF LinearInv
  <2>3. next' = RoundUp(next) + GrowSize(need[p]) /\ end' = end /\ reserved' = reserved
    BY <1>3 DEF GrowChunkFails
  <2>4. next' .. end' - 1 \subseteq next .. end - 1
    BY <2>1, <2>2, <2>3, Numbers DEF GrowSize
  <2> QED
    BY <1>3, <2>3, <2>4 DEF Fresh
<1>4. ASSUME NEW b \in Pages, NEW k \in ArenaSizes, Reserve(b, k)
      PROVE  /\ b \in Nat /\ k \in Nat /\ (b % RawPages) = 0 /\ (k % RawPages) = 0
             /\ reserved' = reserved \cup (b .. b + k - 1) /\ (b .. b + k - 1) \cap reserved = {}
             /\ b .. b + k - 1 \subseteq Pages /\ ((b + k) % RawPages) = 0
  <2>1. /\ b \in Nat /\ k \in Nat /\ (b % RawPages) = 0 /\ (k % RawPages) = 0
        /\ reserved' = reserved \cup (b .. b + k - 1) /\ (b .. b + k - 1) \cap reserved = {}
        /\ b .. b + k - 1 \subseteq Pages
    BY <1>4, Numbers, HeapAssumption DEF Reserve, Reservable
  <2> QED
    BY <2>1, Numbers, MultiplesAdd
<1>5. ASSUME NEW p \in Procs, GrowExpand(p), S!Owned' = S!Owned
      PROVE  Fresh'
  <2>1. PICK r \in Offer :
          /\ Reserve(r[1], r[2])
          /\ IF next = end
             THEN next' = r[1] /\ end' = r[1] + r[2]
             ELSE end' = end + r[2] /\ UNCHANGED next
    BY <1>5 DEF GrowExpand
  <2> DEFINE b == r[1]
             k == r[2]
  <2>2. b \in Pages /\ k \in ArenaSizes /\ (end # 0 => b = end)
    BY DEF Offer
  <2> HIDE DEF b, k
  <2>3. /\ b \in Nat /\ k \in Nat /\ (b % RawPages) = 0 /\ (k % RawPages) = 0
        /\ reserved' = reserved \cup (b .. b + k - 1) /\ (b .. b + k - 1) \cap reserved = {}
        /\ b .. b + k - 1 \subseteq Pages /\ ((b + k) % RawPages) = 0
    BY <1>4, <2>1, <2>2 DEF b, k
  <2>4. S!Owned' \subseteq reserved' /\ reserved' \subseteq Pages
    BY <1>5, <2>3 DEF Fresh
  <2>5. CASE next = end
    <3>1. next' = b /\ end' = b + k
      BY <2>1, <2>5 DEF b, k
    <3> QED
      BY <1>5, <2>3, <2>4, <3>1 DEF Fresh
  <2>6. CASE next # end
    <3>1. next' = next /\ end' = end + k /\ b = end /\ next \in Nat /\ end \in Nat
      BY <2>1, <2>2, <2>6 DEF b, k, LinearInv
    <3>2. next' .. end' - 1 \subseteq (next .. end - 1) \cup (b .. b + k - 1)
      BY <2>3, <3>1
    <3> QED
      BY <1>5, <2>3, <2>4, <3>1, <3>2 DEF Fresh
  <2> QED
    BY <2>5, <2>6
<1>6. ASSUME NEW p \in Procs, GrowAnew(p), S!Owned' = S!Owned
      PROVE  Fresh'
  <2>1. ASSUME NEW b \in Pages, NEW k \in ArenaSizes, Reserve(b, k), next' = b, end' = b + k
        PROVE  Fresh'
    BY <1>4, <1>6, <2>1 DEF Fresh
  <2>2. CASE next' = 0 /\ end' = 0 /\ reserved' = reserved
    BY <1>6, <2>2, Numbers DEF Fresh
  <2> QED
    BY <1>6, <2>1, <2>2 DEF GrowAnew
<1>7. CASE S!Owned' = S!Owned
  <2>1. CASE \E p \in Procs : GrowChunkFails(p) \/ GrowExpand(p) \/ GrowAnew(p) \/ GrowAlloc(p)
    BY <1>1, <1>3, <1>5, <1>6, <1>7, <2>1
  <2>2. CASE ~ \E p \in Procs : GrowChunkFails(p) \/ GrowExpand(p) \/ GrowAnew(p) \/ GrowAlloc(p)
    <3>1. UNCHANGED linear
      BY <2>2 DEF Next, vars, AllocSpan, AllocLock, SetSpans, SetSpansPanics, Find, FindStep, FindMiss, FindHit,
                  Remove, RemoveRotate, RemoveLeaf, Insert, InsertDown, InsertLeaf, InsertUp, InsertDone,
                  InsertFails, Grow, GrowMap, GrowMapFails, SweepLarge
    <3> QED
      BY <1>2, <1>7, <3>1
  <2> QED
    BY <2>1, <2>2
<1> QED
  BY <1>1, <1>7

(* A node is a page of its chunk, so it is in nobody else's hands. *)
LEMMA TreePages ==
  ASSUME Links, NEW n \in InTree
  PROVE  ChunkOf(n) \in Free /\ n \in PagesOf(ChunkOf(n)) /\ n \in S!Owned /\ n \in Nat
<1>1. n \in Nat /\ npagesKey[n] \in Nat \ {0}
  BY Numbers DEF Links, InTree, Nodes
<1>2. ChunkOf(n) \in Free /\ n \in PagesOf(ChunkOf(n))
  BY <1>1 DEF Free, TreeChunks, PagesOf, ChunkOf
<1> QED
  BY <1>1, <1>2 DEF S!Owned, S!Covered, S!PagesOf, PagesOf

LEMMA SamePages == \A c : S!PagesOf(c) = PagesOf(c)
BY DEF S!PagesOf, PagesOf

(* The pages of a chunk are pages of the heap. *)
LEMMA ChunkInPages ==
  ASSUME Fresh, NEW c \in Free \cup Held
  PROVE  PagesOf(c) \subseteq S!Owned /\ PagesOf(c) \subseteq Pages
BY SamePages DEF Fresh, S!Owned, S!Covered

LEMMA HandsRemove ==
  ASSUME Control, Control', Hands, Links, Fitting, Fresh, S!Apart, NEW p \in Procs, RemoveLeaf(p)
  PROVE  Hands'
<1> DEFINE c == ChunkOf(cursor)
           n == need[p]
<1>1. /\ pc[p] = "remove" /\ lock = p /\ p # NoProc /\ At = "remove"
      /\ n \in Needs /\ n \in Nat \ {0}
      /\ cursor \in InTree /\ cursor \in Nat \ {0} /\ cursor \in Pages
  <2>1. pc[p] = "remove" /\ p # NoProc
    BY Numbers DEF RemoveLeaf
  <2>2. lock = p /\ n # 0 /\ n \in Needs \cup {0}
    BY <2>1 DEF Control, Hand, Working
  <2>3. At = "remove"
    BY <2>1, <2>2 DEF At
  <2>4. cursor \in InTree
    BY <2>3 DEF Fitting
  <2>5. cursor \in Pages
    BY <2>4 DEF InTree, Nodes
  <2> QED
    BY <2>1, <2>2, <2>3, <2>4, <2>5, Numbers
<1>2. c.start = cursor /\ c.npages = npagesKey[cursor] /\ c.npages \in Nat /\ c.npages >= n
  BY <1>1 DEF ChunkOf, Fitting, Links, InTree
<1>3. c \in Free /\ PagesOf(c) \subseteq Pages /\ cursor \in PagesOf(c)
  BY <1>1, TreePages, ChunkInPages
<1>4. PagesOf(c) = cursor .. cursor + c.npages - 1
  BY <1>2 DEF PagesOf
<1> HIDE DEF c, n
<1>5. c.npages # n => cursor + n \in PagesOf(c) /\ cursor + n # cursor
  BY <1>1, <1>2, <1>4
<1>6. Cut(c, n) = [start |-> cursor, npages |-> n] /\ Cut(c, n) # NoChunk
  <2>1. Cut(c, n) = [start |-> cursor, npages |-> n] /\ Cut(c, n).npages = n
    BY <1>2 DEF Cut
  <2> QED
    BY <1>1, <2>1 DEF NoChunk
<1>7. Cut(c, n) \notin Held
  <2>1. cursor \in PagesOf(Cut(c, n))
    BY <1>1, <1>6 DEF PagesOf
  <2>2. c \notin Held
    BY <1>3 DEF S!Apart
  <2> QED
    BY <1>3, <2>1, <2>2, SamePages DEF S!Apart
<1>8. got' = [got EXCEPT ![p] = Cut(c, n)] /\ live' = live
  BY DEF RemoveLeaf, c, n
<1>9. got'[p] = Cut(c, n) /\ \A q \in Procs \ {p} : got'[q] = got[q]
  BY <1>8 DEF Control
<1>10. item' # NoChunk => /\ At' = "insert" /\ c.npages # n
                          /\ item' = [start |-> cursor + n, npages |-> c.npages - n]
  <2>1. c.npages = n => item' = NoChunk
    BY DEF RemoveLeaf, ResetLoop, c, n
  <2>2. c.npages # n => item' = Rest(c, n) /\ lock' = lock /\ pc' = [pc EXCEPT ![p] = "insert"]
    BY DEF RemoveLeaf, c, n, Goto
  <2> QED
    BY <1>1, <1>2, <2>1, <2>2 DEF Rest, At, Control
<1>11. At' = "insert" => item' # NoChunk
  BY DEF Control, Round, Inserting
<1>12. /\ item' \in [start : Pages \cup {0}, npages : Nat]
       /\ item' # NoChunk => item'.start \in Pages /\ item'.npages \in Nat \ {0}
  <2>1. CASE item' = NoChunk
    BY <2>1 DEF NoChunk
  <2>2. CASE item' # NoChunk
    BY <2>2, <1>1, <1>2, <1>3, <1>5, <1>10
  <2> QED
    BY <2>1, <2>2
<1>13. At' = "insert" => npagesKey'[item'.start] = 0
  <2> SUFFICES ASSUME At' = "insert"
               PROVE  npagesKey'[item'.start] = 0
    OBVIOUS
  <2>1. c.npages # n /\ item'.start = cursor + n /\ cursor + n \in PagesOf(c) /\ cursor + n \in Nodes
    BY <1>3, <1>5, <1>10, <1>11 DEF Nodes
  <2>2. npagesKey' = [npagesKey EXCEPT ![cursor] = 0]
    BY DEF RemoveLeaf, Unlink
  <2>3. ASSUME npagesKey[cursor + n] # 0
        PROVE  FALSE
    <3>1. cursor + n \in InTree
      BY <2>1, <2>3 DEF InTree
    <3>2. ChunkOf(cursor + n) \in Free /\ cursor + n \in PagesOf(ChunkOf(cursor + n))
      BY <3>1, TreePages
    <3>3. ChunkOf(cursor + n) # c
      BY <1>2, <1>5, <2>1 DEF ChunkOf
    <3> QED
      BY <1>3, <2>1, <3>2, <3>3, SamePages DEF S!Apart
  <2> QED
    BY <1>5, <2>1, <2>2, <2>3 DEF Links
<1>14. got' \in [Procs -> [start : Pages \cup {0}, npages : Needs \cup {0}]]
  BY <1>1, <1>6, <1>8 DEF Hands
<1>15. \A q \in Procs : got'[q] # NoChunk => got'[q].start \in Pages /\ got'[q].npages \in Needs
  BY <1>1, <1>6, <1>9 DEF Hands
<1>16. \A q \in Procs : got'[q] \notin live
  BY <1>7, <1>9 DEF Hands, Held
<1>17. \A q, r \in Procs : got'[q] = got'[r] => q = r \/ got'[q] = NoChunk
  BY <1>6, <1>7, <1>9 DEF Hands, Held, Got
<1> QED
  BY <1>8, <1>12, <1>13, <1>14, <1>15, <1>16, <1>17 DEF Hands

LEMMA HandsStep ==
  ASSUME Control, Control', Hands, Links, Fitting, LinearInv, Fresh, S!Apart, [Next]_vars
  PROVE  Hands'
<1>1. ASSUME NEW p \in Procs, pc[p] = "set", UNCHANGED << item, lock, npagesKey >>, Goto(p, "idle"),
             got' = [got EXCEPT ![p] = NoChunk], live' = live \/ live' = live \cup {got[p]}
      PROVE  Hands'
  <2>1. got[p] # NoChunk /\ lock # p /\ At' = At
    BY <1>1, Numbers DEF Control, Hand, Working, At, Goto
  <2>2. got'[p] = NoChunk /\ \A q \in Procs \ {p} : got'[q] = got[q]
    BY <1>1 DEF Control
  <2>3. got[p] \in [start : Pages, npages : Needs]
    BY <2>1 DEF Hands
  <2>4. NoChunk \notin [start : Pages, npages : Needs] /\ NoChunk \in [start : Pages \cup {0}, npages : Needs \cup {0}]
    BY Numbers DEF NoChunk
  <2>5. \A q \in Procs : got'[q] \notin live'
    BY <1>1, <2>1, <2>2, <2>3, <2>4 DEF Hands
  <2>6. got' \in [Procs -> [start : Pages \cup {0}, npages : Needs \cup {0}]]
    BY <1>1, <2>4 DEF Hands
  <2> QED
    BY <1>1, <2>1, <2>2, <2>3, <2>5, <2>6 DEF Hands
(* Steps that change no chunk in hand. *)
<1>2. ASSUME NEW p \in Procs, got' = got \/ got' = [got EXCEPT ![p] = NoChunk], live' = live,
             item' = item \/ item' = NoChunk, At' = "insert" => At = "insert" /\ npagesKey' = npagesKey
      PROVE  Hands'
  <2>1. NoChunk \in [start : Pages \cup {0}, npages : Needs \cup {0}] /\ NoChunk \in [start : Pages \cup {0}, npages : Nat]
    BY Numbers DEF NoChunk
  <2>2. got' \in [Procs -> [start : Pages \cup {0}, npages : Needs \cup {0}]]
    BY <1>2, <2>1 DEF Hands
  <2>3. \A q \in Procs : got'[q] = got[q] \/ got'[q] = NoChunk
    BY <1>2 DEF Control
  <2>4. NoChunk \notin live
    BY Numbers DEF Hands, NoChunk
  <2>5. At' = "insert" => item' = item
    BY <1>2 DEF Control, Round, Inserting
  <2> QED
    BY <1>2, <2>1, <2>2, <2>3, <2>4, <2>5 DEF Hands
<1>3. ASSUME NEW p \in Procs, AllocSpan(p)
      PROVE  Hands'
  <2>1. CASE AllocLock(p)
    <3>1. At' = "find"
      BY <2>1, Numbers DEF AllocLock, Goto, At, Control
    <3> QED
      BY <1>2, <2>1, <3>1 DEF AllocLock
  <2> QED
    BY <1>1, <1>3, <2>1 DEF AllocSpan, SetSpans, SetSpansPanics, tree, loop
<1>4. ASSUME NEW p \in Procs, Find(p)
      PROVE  Hands'
  <2>1. At' # "insert"
    BY <1>4, Numbers DEF Find, FindStep, FindMiss, FindHit, Leave, Goto, At, proc, Control, Hand, Working
  <2> QED
    BY <1>2, <1>4, <2>1 DEF Find, FindStep, FindMiss, FindHit, Leave, proc
<1>5. ASSUME NEW p \in Procs, RemoveRotate(p)
      PROVE  Hands'
  <2>1. At' # "insert"
    BY <1>5, Numbers DEF RemoveRotate, At, proc, Control, Hand, Working
  <2> QED
    BY <1>2, <1>5, <2>1 DEF RemoveRotate, loop, proc
<1>6. ASSUME NEW p \in Procs, Insert(p)
      PROVE  Hands'
  <2>1. InsertDown(p) => At = "insert" /\ npagesKey' = npagesKey
    BY Numbers DEF InsertDown, tree, At, Control, Hand, Working
  <2>2. ~ InsertDown(p) => At' # "insert"
    BY <1>6, Numbers DEF Insert, InsertLeaf, InsertUp, InsertDone, InsertFails, Leave, Goto, At, proc, Control,
                         Hand, Round, Working, Inserting
  <2> QED
    BY <1>2, <1>6, <2>1, <2>2
       DEF Insert, InsertDown, InsertLeaf, InsertUp, InsertDone, InsertFails, Leave, ResetLoop, loop, proc
<1>7. ASSUME NEW p \in Procs, Grow(p)
      PROVE  Hands'
  <2>1. CASE GrowAlloc(p)
    <3>1. GrowFits(p) /\ need[p] \in Nat \ {0} /\ live' = live /\ got' = got
      BY <2>1, Numbers DEF GrowAlloc, Control, Hand
    <3>2. /\ RoundUp(next) \in Pages /\ GrowSize(need[p]) \in Nat \ {0}
          /\ RoundUp(next) .. RoundUp(next) + GrowSize(need[p]) - 1 \subseteq S!Unowned
      BY <3>1, TakenPages
    <3>3. item' = [start |-> RoundUp(next), npages |-> GrowSize(need[p])] /\ npagesKey' = npagesKey
      BY <2>1 DEF GrowAlloc, tree
    <3>4. RoundUp(next) \in S!Unowned
      <4>1. RoundUp(next) \in Nat
        BY <3>2, Numbers
      <4>2. RoundUp(next) \in RoundUp(next) .. RoundUp(next) + GrowSize(need[p]) - 1
        BY <3>2, <4>1
      <4> QED
        BY <3>2, <4>2
    <3>5. RoundUp(next) \notin InTree
      BY <3>4, TreePages DEF S!Unowned, S!Owned
    <3>6. npagesKey'[item'.start] = 0
      BY <3>2, <3>3, <3>5 DEF InTree, Nodes
    <3> QED
      BY <3>1, <3>2, <3>3, <3>6 DEF Hands
  <2>2. CASE ~ GrowAlloc(p)
    <3>1. At' # "insert"
      BY <1>7, <2>2, Numbers
         DEF Grow, GrowChunkFails, GrowExpand, GrowAnew, GrowMap, GrowMapFails, Leave, Goto, At, proc, Control, Hand, Working
    <3> QED
      BY <1>2, <1>7, <2>2, <3>1
         DEF Grow, GrowChunkFails, GrowExpand, GrowAnew, GrowMap, GrowMapFails, Leave, ResetLoop, loop, proc
  <2> QED
    BY <2>1, <2>2
<1>8. ASSUME NEW p \in Procs, SweepLarge(p)
      PROVE  Hands'
  <2>1. PICK c \in live : live' = live \ {c} /\ item' = c
    BY <1>8 DEF SweepLarge
  <2>2. got' = got /\ npagesKey' = npagesKey
    BY <1>8 DEF SweepLarge, tree
  <2>3. c \in [start : Pages, npages : Needs] /\ c \in Held /\ c \in [start : Pages \cup {0}, npages : Nat]
    BY <2>1, Numbers DEF Hands, Held
  <2>4. c.start \notin InTree
    <3> SUFFICES ASSUME c.start \in InTree
                 PROVE  FALSE
      OBVIOUS
    <3>1. c.start \in PagesOf(c)
      <4>1. c.start \in Nat /\ c.npages \in Nat \ {0}
        BY <2>3, Numbers
      <4> QED
        BY <4>1 DEF PagesOf
    <3>2. ChunkOf(c.start) \in Free /\ c.start \in PagesOf(ChunkOf(c.start))
      BY TreePages
    <3>3. ChunkOf(c.start) # c
      BY <2>3, <3>2 DEF S!Apart
    <3> QED
      BY <2>3, <3>1, <3>2, <3>3, SamePages DEF S!Apart
  <2>5. npagesKey'[item'.start] = 0
    BY <2>1, <2>2, <2>3, <2>4 DEF InTree, Nodes
  <2> QED
    BY <2>1, <2>2, <2>3, <2>5, Numbers DEF Hands
<1>9. CASE UNCHANGED vars
  BY <1>9 DEF vars, tree, loop, proc, Hands, At
<1> QED
  BY <1>3, <1>4, <1>5, <1>6, <1>7, <1>8, <1>9, HandsRemove DEF Next, Remove

-----------------------------------------------------------------------------
(* While the regions of a new chunk wait to enter addrMap, no span has a   *)
(* page in one of them, so that the new tables cover nobody's pages.       *)
Region ==
  At \in Inserting \cup {"map"} /\ then = "map" =>
    \A c \in Held : \A g \in PagesOf(c), h \in PagesOf(item) : g \div RawPages # h \div RawPages

(* A boundary between two pages separates their regions. *)
LEMMA Boundary ==
  ASSUME NEW r \in Nat \ {0}, NEW x \in Nat, NEW y \in Nat, NEW z \in Nat, (y % r) = 0, x < y, y <= z
  PROVE  x \div r # z \div r
<1> DEFINE k == y \div r
           q == x \div r
           w == z \div r
<1>1. k \in Nat /\ y = r * k
  BY SMTT(30)
<1>2. q \in Nat /\ r * q <= x
  BY SMTT(30)
<1>3. w \in Nat /\ z < r * w + r
  BY SMTT(30)
<1> HIDE DEF k, q, w
<1> SUFFICES ASSUME q = w
             PROVE  FALSE
  BY DEF q, w
<1>4. r * q < r * k
  BY <1>1, <1>2
<1>5. q < k
  <2>1. k <= q => r * k <= r * q
    <3> SUFFICES ASSUME k <= q
                 PROVE  r * k <= r * q
      OBVIOUS
    <3> DEFINE e == q - k
    <3>1. e \in Nat /\ q = k + e
      BY <1>1, <1>2
    <3> HIDE DEF e
    <3>2. r * q = r * k + r * e /\ r * e >= 0 /\ r * k \in Nat /\ r * e \in Nat
      BY <3>1, <1>1, SMTT(30)
    <3> QED
      BY <3>2
  <2> QED
    BY <1>1, <1>2, <1>4, <2>1
<1>6. r * k >= r * q + r
  <2> DEFINE e == k - q - 1
  <2>1. e \in Nat /\ k = q + 1 + e
    BY <1>1, <1>2, <1>5
  <2> HIDE DEF e
  <2>2. r * k = r * q + r + r * e /\ r * e \in Nat /\ r * q \in Nat
    BY <2>1, <1>2, SMTT(30)
  <2> QED
    BY <2>2
<1> QED
  BY <1>1, <1>2, <1>3, <1>6

LEMMA RoundUpMultiple ==
  ASSUME NEW x \in Nat
  PROVE  (RoundUp(x) % RawPages) = 0
<1> DEFINE k == (x + RawPages - 1) \div RawPages
<1>1. RawPages \in Nat \ {0} /\ x + RawPages - 1 \in Nat
  BY Numbers
<1>2. k \in Nat
  <2> DEFINE y == x + RawPages - 1
  <2> HIDE DEF y
  <2>1. y \in Nat => y \div RawPages \in Nat
    BY <1>1, SMTT(30)
  <2> QED
    BY <1>1, <2>1 DEF y
<1> HIDE DEF k
<1>3. ((k * RawPages) % RawPages) = 0
  BY <1>1, <1>2, SMTT(30)
<1> QED
  BY <1>3 DEF RoundUp, k

LEMMA RegionStep ==
  ASSUME Control, Control', Hands, LinearInv, Fresh, Region, [Next]_vars
  PROVE  Region'
<1>1. ASSUME NEW p \in Procs, GrowAlloc(p)
      PROVE  Region'
  <2> DEFINE b == RoundUp(next)
             n == GrowSize(need[p])
  <2>1. GrowFits(p) /\ need[p] \in Nat \ {0} /\ item' = [start |-> b, npages |-> n]
    BY <1>1, Numbers DEF GrowAlloc, Control, Hand
  <2>2. b .. b + n - 1 \subseteq next .. end - 1 /\ b \in Nat /\ b >= next /\ next \in Nat /\ end \in Nat
    BY <2>1, TakenPages, RoundUpUp DEF LinearInv
  <2>3. (b % RawPages) = 0
    BY RoundUpMultiple DEF LinearInv
  <2>4. (end % RawPages) = 0 /\ RawPages \in Nat \ {0}
    BY Numbers DEF Fresh
  <2> HIDE DEF b, n
  <2>5. Held' = Held
    BY <1>1 DEF GrowAlloc, Held, Got
  <2>6. ASSUME NEW c \in Held, NEW g \in PagesOf(c), NEW h \in b .. b + n - 1
        PROVE  g \div RawPages # h \div RawPages
    <3>1. g \in S!Owned /\ g \in Nat
      BY ChunkInPages, Numbers
    <3>2. g < next \/ end <= g
      BY <2>2, <3>1 DEF Fresh
    <3>3. h \in Nat /\ b <= h /\ h < end
      BY <2>2
    <3>4. CASE g < next
      <4>1. g < b
        BY <2>2, <3>1, <3>4
      <4> QED
        BY <2>2, <2>3, <2>4, <3>1, <3>3, <4>1, Boundary
    <3>5. CASE end <= g
      BY <2>2, <2>4, <3>1, <3>3, <3>5, Boundary
    <3> QED
      BY <3>2, <3>4, <3>5
  <2>7. PagesOf(item') = b .. b + n - 1
    BY <2>1 DEF PagesOf
  <2>8. \A c \in Held' : \A g \in PagesOf(c), h \in PagesOf(item') : g \div RawPages # h \div RawPages
    BY <2>5, <2>6, <2>7
  <2> QED
    BY <2>8 DEF Region, PagesOf
(* The chunk to insert is the same and nobody has got another one. *)
<1>2. ASSUME Held' \subseteq Held, item' = item, At' \in Inserting \cup {"map"} /\ then' = "map" =>
               At \in Inserting \cup {"map"} /\ then = "map"
      PROVE  Region'
  BY <1>2 DEF Region, PagesOf
<1>3. ASSUME ~ (At' \in Inserting \cup {"map"} /\ then' = "map")
      PROVE  Region'
  BY <1>3 DEF Region
<1>4. ASSUME NEW p \in Procs, AllocSpan(p)
      PROVE  Region'
  <2>1. CASE AllocLock(p)
    BY <1>3, <2>1, Numbers DEF AllocLock, Goto, At, Control, Inserting
  <2>2. CASE SetSpans(p) \/ SetSpansPanics(p)
    <3>1. pc[p] = "set" /\ lock # p /\ got[p] \in Got /\ item' = item /\ then' = then /\ At' = At
      BY <2>2 DEF SetSpans, SetSpansPanics, Control, Hand, Working, Got, loop, At, Goto
    <3>2. Held' \subseteq Held
      BY <2>2, <3>1, DropGot DEF SetSpans, SetSpansPanics, Held
    <3> QED
      BY <1>2, <3>1, <3>2
  <2> QED
    BY <1>4, <2>1, <2>2 DEF AllocSpan
<1>5. ASSUME NEW p \in Procs, Find(p) \/ Remove(p) \/ SweepLarge(p)
      PROVE  Region'
  <2>1. At' \notin Inserting \cup {"map"} \/ then' # "map"
    BY <1>5, Numbers
       DEF Find, FindStep, FindMiss, FindHit, Remove, RemoveRotate, RemoveLeaf, ResetLoop, SweepLarge, Leave,
           Goto, At, loop, proc, Control, Hand, Working, Inserting
  <2> QED
    BY <1>3, <2>1
<1>6. ASSUME NEW p \in Procs, Insert(p)
      PROVE  Region'
  <2>1. CASE then = "map"
    <3>1. /\ live' = live /\ item' = item /\ (got' = got \/ got' = [got EXCEPT ![p] = NoChunk])
          /\ pc[p] \in Inserting /\ lock = p /\ got[p] = NoChunk /\ At \in Inserting
      BY <1>6, <2>1, Numbers
         DEF Insert, InsertDown, InsertLeaf, InsertUp, InsertDone, InsertFails, loop, proc, Control, Hand,
             Working, Inserting, At
    <3>2. Held' = Held
      BY <3>1, LeaveGot DEF Held, Got
    <3> QED
      BY <1>2, <2>1, <3>1, <3>2
  <2>2. CASE then # "map"
    <3>1. then' # "map"
      BY <1>6, <2>2 DEF Insert, InsertDown, InsertLeaf, InsertUp, InsertDone, InsertFails, ResetLoop, loop
    <3> QED
      BY <1>3, <3>1
  <2> QED
    BY <2>1, <2>2
<1>7. ASSUME NEW p \in Procs, Grow(p), ~ GrowAlloc(p)
      PROVE  Region'
  <2>1. At' \notin Inserting \cup {"map"} \/ then' # "map"
    BY <1>7, Numbers
       DEF Grow, GrowChunkFails, GrowExpand, GrowAnew, GrowMap, GrowMapFails, ResetLoop, Leave,
           Goto, At, loop, proc, Control, Hand, Round, Working, Inserting
  <2> QED
    BY <1>3, <2>1
<1>8. CASE UNCHANGED vars
  BY <1>2, <1>8 DEF vars, loop, proc, At, Held, Got
<1> QED
  BY <1>1, <1>4, <1>5, <1>6, <1>7, <1>8 DEF Next

SpansOK == spans \in [Pages -> Pages \cup {0}] /\ SpanFound

LEMMA MapSpans ==
  ASSUME Control, Fresh, Region, SpansOK, NEW p \in Procs, pc[p] = "map", NEW k, MapRegions(item, k), live' = live
  PROVE  SpansOK'
<1> DEFINE new == {r \in RegionsOf(item) : r < item.start \div RawPages + k}
<1>1. spans' = [g \in Pages |-> IF g \div RawPages \in new THEN 0 ELSE spans[g]]
  BY DEF MapRegions
<1>2. \A r \in new : \E h \in PagesOf(item) : r = h \div RawPages
  BY DEF RegionsOf
<1> HIDE DEF new
<1>3. At = "map" /\ then = "map"
  BY Numbers DEF Control, Hand, Round, Working, At
<1>4. ASSUME NEW c \in live, NEW g \in PagesOf(c)
      PROVE  g \in Pages /\ g \div RawPages \notin new
  <2>1. c \in Held
    BY DEF Held
  <2>2. g \in Pages
    BY <2>1, ChunkInPages
  <2>3. \A h \in PagesOf(item) : g \div RawPages # h \div RawPages
    BY <1>3, <2>1 DEF Region
  <2> QED
    BY <1>2, <2>2, <2>3
<1>5. SpanFound'
  BY <1>1, <1>4 DEF SpansOK, SpanFound, PagesOf
<1> QED
  BY <1>1, <1>5 DEF SpansOK

LEMMA PointSpans ==
  ASSUME Control, Hands, Fresh, S!Apart, SpansOK, NEW p \in Procs, pc[p] = "set", PointPages(got[p]),
         live' = live \/ (live' = live \cup {got[p]} /\ PagesSet(got[p]) = PagesOf(got[p]))
  PROVE  SpansOK'
<1> DEFINE d == got[p]
<1>1. d # NoChunk /\ d \in Held /\ d \notin live /\ d.start \in Pages
  BY DEF Control, Hand, Hands, Held, Got
<1>2. spans' = [g \in Pages |-> IF g \in PagesSet(d) THEN d.start ELSE spans[g]]
  BY DEF PointPages
<1>3. PagesSet(d) \subseteq PagesOf(d)
  BY DEF PagesSet
<1> HIDE DEF d
<1>4. ASSUME NEW c \in live, NEW g \in PagesOf(c)
      PROVE  g \in Pages /\ g \notin PagesSet(d)
  <2>1. c \in Held /\ c # d
    BY <1>1 DEF Held
  <2>2. PagesOf(c) \cap PagesOf(d) = {}
    BY <1>1, <2>1, SamePages DEF S!Apart
  <2> QED
    BY <1>3, <2>1, <2>2, ChunkInPages
<1>5. PagesOf(d) \subseteq Pages
  BY <1>1, ChunkInPages
<1>6. ASSUME NEW c \in live', NEW g \in PagesOf(c)
      PROVE  spans'[g] = c.start
  <2>1. CASE c \in live
    BY <1>2, <1>4, <2>1 DEF SpansOK, SpanFound
  <2>2. CASE c \notin live
    <3>1. c = d /\ PagesSet(d) = PagesOf(d)
      BY <1>6, <2>2 DEF d
    <3> QED
      BY <1>2, <1>5, <1>6, <3>1
  <2> QED
    BY <2>1, <2>2
<1>7. SpanFound'
  BY <1>6 DEF SpanFound, PagesOf
<1> QED
  BY <1>1, <1>2, <1>7 DEF SpansOK

LEMMA SpansStep ==
  ASSUME Control, Hands, Fresh, Region, S!Apart, SpansOK, [Next]_vars
  PROVE  SpansOK'
<1>1. ASSUME NEW p \in Procs, SetSpans(p) \/ SetSpansPanics(p)
      PROVE  SpansOK'
  BY <1>1, PointSpans DEF SetSpans, SetSpansPanics
<1>2. ASSUME NEW p \in Procs, GrowMap(p) \/ GrowMapFails(p)
      PROVE  SpansOK'
  BY <1>2, MapSpans DEF GrowMap, GrowMapFails
<1>3. CASE UNCHANGED spans /\ live' \subseteq live
  BY <1>3 DEF SpansOK, SpanFound, PagesOf
<1>4. CASE ~ \E p \in Procs : SetSpans(p) \/ SetSpansPanics(p) \/ GrowMap(p) \/ GrowMapFails(p)
  <2>1. UNCHANGED spans /\ live' \subseteq live
    BY <1>4 DEF Next, vars, AllocSpan, AllocLock, Find, FindStep, FindMiss, FindHit, Remove, RemoveRotate,
                RemoveLeaf, Insert, InsertDown, InsertLeaf, InsertUp, InsertDone, InsertFails, Grow, GrowAlloc,
                GrowChunkFails, GrowExpand, GrowAnew, SweepLarge
  <2> QED
    BY <1>3, <2>1
<1> QED
  BY <1>1, <1>2, <1>4

-----------------------------------------------------------------------------
(* The treap.  s[n] stands for the nodes from n down; that there is such   *)
(* an s is part of the invariant, and BelowIs shows that it is Below.      *)
Ord(key) ==
  {e \in Nodes \X Nodes : Before([start |-> e[1], npages |-> key[e[1]]], [start |-> e[2], npages |-> key[e[2]]])}
ItemKey == [npagesKey EXCEPT ![item.start] = item.npages]

Treap(s) == SearchTree(InTree, Nil, root, left, right, parent, s, Ord(npagesKey))

(* All chunks that fit are below the cursor, or the best one so far, or    *)
(* after it.                                                               *)
Finding(s) ==
  At = "find" =>
    /\ cursor \in InTree \cup {Nil} /\ last \in InTree \cup {Nil}
    /\ last # Nil => npagesKey[last] >= need[lock] /\ \A d \in s[cursor] : << d, last >> \in Ord(npagesKey)
    /\ \A d \in InTree : npagesKey[d] >= need[lock] =>
         d \in s[cursor] \/ (last # Nil /\ (d = last \/ << last, d >> \in Ord(npagesKey)))

Putting(s) ==
  At = "insert" => Place(InTree, Nil, root, left, right, s, Ord(ItemKey), item.start, last, cursor)

TreapInv == \E s : Treap(s) /\ Finding(s) /\ Putting(s)

Edge(n) == parent[n] # Nil => prio[parent[n]] <= prio[n]

(* The priorities are right but for the node e, which goes up or down. *)
HeapBut(e) ==
  \A n \in InTree \ {e} : IF parent[n] = e THEN parent[e] # Nil => prio[parent[e]] <= prio[n] ELSE Edge(n)
OverKids(e) == \A n \in InTree : parent[n] = e => prio[e] <= prio[n]

HeapInv ==
  /\ prio \in [Nodes -> Nat]
  /\ At \notin {"remove", "up"} => \A n \in InTree : Edge(n)
  /\ At = "remove" => HeapBut(cursor)
  /\ At = "up" => cursor \in InTree /\ HeapBut(cursor) /\ OverKids(cursor)

LEMMA OrdIs ==
  ASSUME NEW key, NEW m \in Nodes, NEW n \in Nodes
  PROVE  << m, n >> \in Ord(key) <=> key[m] < key[n] \/ (key[m] = key[n] /\ m < n)
BY DEF Ord, Before

LEMMA OrdStrict ==
  ASSUME NEW key \in [Nodes -> Nat], NEW N \in SUBSET Nodes
  PROVE  StrictOrder(N, Ord(key)) /\ Ord(key) \subseteq Nodes \X Nodes
<1>1. \A n \in Nodes : n \in Nat /\ key[n] \in Nat
  BY Numbers DEF Nodes
<1>2. \A m, n \in N : << m, n >> \in Ord(key) <=> key[m] < key[n] \/ (key[m] = key[n] /\ m < n)
  BY OrdIs
<1>3. StrictOrder(N, Ord(key))
  BY <1>1, <1>2 DEF StrictOrder
<1> QED
  BY <1>3 DEF Ord

LEMMA TreapStrict ==
  ASSUME Links
  PROVE  StrictOrder(InTree, Ord(npagesKey)) /\ Ord(npagesKey) \subseteq Nodes \X Nodes
BY OrdStrict DEF Links, InTree

(* What the order of the nodes says of their chunks. *)
LEMMA ChunkOrd ==
  ASSUME NEW m \in Nodes, NEW n \in Nodes
  PROVE  << m, n >> \in Ord(npagesKey) <=> Before(ChunkOf(m), ChunkOf(n))
BY DEF Ord, ChunkOf

LEMMA ItemOrd ==
  ASSUME Links, item.start \in Nodes \ InTree, item.npages \in Nat, NEW n \in InTree
  PROVE  /\ << n, item.start >> \in Ord(ItemKey) <=> Before(ChunkOf(n), item)
         /\ << item.start, n >> \in Ord(ItemKey) <=> Before(item, ChunkOf(n))
<1>1. n \in Nodes /\ n # item.start /\ ItemKey[n] = npagesKey[n] /\ ItemKey[item.start] = item.npages
  BY DEF ItemKey, Links, InTree
<1> QED
  BY <1>1, OrdIs DEF Before, ChunkOf

LEMMA ItemTreap ==
  ASSUME Links, item.start \in Nodes \ InTree, item.npages \in Nat, NEW s, Treap(s)
  PROVE  /\ SearchTree(InTree, Nil, root, left, right, parent, s, Ord(ItemKey))
         /\ StrictOrder(InTree \cup {item.start}, Ord(ItemKey)) /\ StrictOrder(InTree, Ord(ItemKey))
         /\ Ord(ItemKey) \subseteq Nodes \X Nodes
<1>1. ItemKey \in [Nodes -> Nat] /\ InTree \subseteq Nodes
  BY DEF ItemKey, Links, InTree
<1>2. \A n \in InTree : ItemKey[n] = npagesKey[n]
  BY DEF ItemKey, Links, InTree
<1>3. \A m, n \in InTree : << m, n >> \in Ord(npagesKey) => << m, n >> \in Ord(ItemKey)
  BY <1>1, <1>2, OrdIs
<1>4. SearchTree(InTree, Nil, root, left, right, parent, s, Ord(ItemKey))
  BY <1>3, TreapStrict, Reorder DEF Treap
<1> QED
  BY <1>1, <1>4, OrdStrict

(* Steps that touch no link. *)
LEMMA TreapSame ==
  ASSUME UNCHANGED tree
  PROVE  /\ InTree' = InTree
         /\ \A s : Treap(s) => Treap(s)'
BY DEF tree, InTree, Treap, Ord
(* x, a child of y, rose to the place of y; b is the subtree between them. *)
Rose(x, y, b) ==
  /\ x \in InTree /\ y \in InTree /\ x # y /\ parent[x] = y /\ parent[y] # x
  /\ b # Nil => b \in InTree /\ parent[b] = x
  /\ parent' = [n \in Nodes |->
       IF n = x THEN parent[y] ELSE IF n = y THEN x ELSE IF n = b THEN y ELSE parent[n]]
  /\ UNCHANGED << prio, npagesKey >>

LEMMA NotUp ==
  ASSUME Links, NEW s, Treap(s), NEW y \in InTree, NEW x \in {left[y], right[y]}, x # Nil
  PROVE  /\ x \in InTree /\ x # y /\ parent[x] = y /\ parent[y] # x
         /\ parent[y] \in InTree \cup {Nil}
         /\ left[x] \in InTree \cup {Nil} /\ right[x] \in InTree \cup {Nil}
         /\ left[x] # Nil => parent[left[x]] = x
         /\ right[x] # Nil => parent[right[x]] = x
<1>1. /\ x \in InTree /\ x # y /\ parent[x] = y /\ x \in s[y]
      /\ parent[y] \in InTree \cup {Nil}
  BY TreapStrict, Node DEF Treap
<1>2. /\ left[x] \in InTree \cup {Nil} /\ right[x] \in InTree \cup {Nil}
      /\ left[x] # Nil => parent[left[x]] = x
      /\ right[x] # Nil => parent[right[x]] = x
  BY <1>1, TreapStrict, Node DEF Treap
<1>3. parent[y] # x
  <2> SUFFICES ASSUME parent[y] = x
               PROVE  FALSE
    OBVIOUS
  <2>1. y \in s[y]
    BY TreapStrict, Node DEF Treap
  <2>2. y # root
    BY <1>1, <2>1, Numbers, TreapStrict, Node DEF Treap, InTree
  <2>3. y \in {left[x], right[x]} /\ s[x] = {x} \cup s[left[x]] \cup s[right[x]]
    BY <1>1, <2>2 DEF Treap, SearchTree, Shape, Linked, Split
  <2>4. y \in s[x]
    BY <2>1, <2>3
  <2> QED
    BY <1>1, <2>4, TreapStrict, NotBothBelow DEF Treap
<1> QED
  BY <1>1, <1>2, <1>3

LEMMA RightRises ==
  ASSUME Links, NEW s, Treap(s), NEW y \in InTree, left[y] # Nil, RotateRight(y), UNCHANGED << cursor, last >>
  PROVE  Rose(left[y], y, right[left[y]]) /\ InTree' = InTree /\ Links' /\ \E t : Treap(t)'
<1> DEFINE x == left[y]
           p == parent[y]
           b == right[x]
<1>1. /\ x \in InTree /\ x # y /\ parent[x] = y /\ p # x /\ p \in InTree \cup {Nil}
      /\ b \in InTree \cup {Nil} /\ (b # Nil => parent[b] = x)
  BY NotUp
<1>2. InTree' = InTree /\ InTree \subseteq Nodes /\ UNCHANGED << prio, npagesKey >>
  BY DEF RotateRight, InTree
<1>3. Rose(x, y, b)
  BY <1>1, <1>2 DEF RotateRight, Rose
<1>4. \A n \in InTree : n = p => (left[n] = y <=> right[n] # y)
  <2> SUFFICES ASSUME p \in InTree
               PROVE  left[p] = y <=> right[p] # y
    OBVIOUS
  <2>1. p # Nil
    BY <1>2, Numbers
  <2> QED
    BY <2>1, TreapStrict, Node DEF Treap
<1>5. Turned(InTree, Nil, y, root, left, right, parent, root', left', right', parent')
  BY <1>1, <1>2, <1>4 DEF RotateRight, Turned
<1>6. PICK t : t = Turn(InTree, Nil, y, left, right, s)
  OBVIOUS
<1>7. SearchTree(InTree, Nil, root', left', right', parent', t, Ord(npagesKey))
  BY <1>5, <1>6, TreapStrict, Rotation DEF Treap
<1>8. Treap(t)'
  BY <1>2, <1>7 DEF Treap
<1>9. Links'
  <2>1. /\ left' \in [Nodes -> Nodes \cup {Nil}] /\ right' \in [Nodes -> Nodes \cup {Nil}]
        /\ parent' \in [Nodes -> Nodes \cup {Nil}]
    BY <1>1, <1>2 DEF Links, RotateRight
  <2>2. ASSUME NEW n \in Nodes \ InTree
        PROVE  left'[n] = Nil /\ right'[n] = Nil /\ parent'[n] = Nil
    BY <1>1, <1>2, <2>2, Numbers DEF Links, RotateRight
  <2>3. root' \in Nodes \cup {Nil}
    BY <1>1, <1>2 DEF Links, RotateRight
  <2> QED
    BY <1>2, <2>1, <2>2, <2>3 DEF Links
<1> QED
  BY <1>2, <1>3, <1>8, <1>9

LEMMA LeftRises ==
  ASSUME Links, NEW s, Treap(s), NEW y \in InTree, right[y] # Nil, RotateLeft(y), UNCHANGED << cursor, last >>
  PROVE  Rose(right[y], y, left[right[y]]) /\ InTree' = InTree /\ Links' /\ \E t : Treap(t)'
<1> DEFINE x == right[y]
           p == parent[y]
           b == left[x]
<1>1. /\ x \in InTree /\ x # y /\ parent[x] = y /\ p # x /\ p \in InTree \cup {Nil}
      /\ b \in InTree \cup {Nil} /\ (b # Nil => parent[b] = x)
  BY NotUp
<1>2. InTree' = InTree /\ InTree \subseteq Nodes /\ UNCHANGED << prio, npagesKey >>
  BY DEF RotateLeft, InTree
<1>3. Rose(x, y, b)
  BY <1>1, <1>2 DEF RotateLeft, Rose
<1>4. \A n \in InTree : n = p => (left[n] = y <=> right[n] # y)
  <2> SUFFICES ASSUME p \in InTree
               PROVE  left[p] = y <=> right[p] # y
    OBVIOUS
  <2>1. p # Nil
    BY <1>2, Numbers
  <2> QED
    BY <2>1, TreapStrict, Node DEF Treap
<1>5. Turned(InTree, Nil, y, root, right, left, parent, root', right', left', parent')
  BY <1>1, <1>2, <1>4 DEF RotateLeft, Turned
<1>6. PICK t : t = Turn(InTree, Nil, y, right, left, s)
  OBVIOUS
<1>7. SearchTree(InTree, Nil, root', left', right', parent', t, Ord(npagesKey))
  BY <1>5, <1>6, TreapStrict, RotationLeft DEF Treap
<1>8. Treap(t)'
  BY <1>2, <1>7 DEF Treap
<1>9. Links'
  <2>1. /\ left' \in [Nodes -> Nodes \cup {Nil}] /\ right' \in [Nodes -> Nodes \cup {Nil}]
        /\ parent' \in [Nodes -> Nodes \cup {Nil}]
    BY <1>1, <1>2 DEF Links, RotateLeft
  <2>2. ASSUME NEW n \in Nodes \ InTree
        PROVE  left'[n] = Nil /\ right'[n] = Nil /\ parent'[n] = Nil
    BY <1>1, <1>2, <2>2, Numbers DEF Links, RotateLeft
  <2>3. root' \in Nodes \cup {Nil}
    BY <1>1, <1>2 DEF Links, RotateLeft
  <2> QED
    BY <1>2, <2>1, <2>2, <2>3 DEF Links
<1> QED
  BY <1>2, <1>3, <1>8, <1>9

LEMMA GoesDown ==
  ASSUME Links, HeapBut(cursor), prio \in [Nodes -> Nat],
         NEW x, NEW b, Rose(x, cursor, b),
         \A n \in InTree : parent[n] = cursor => prio[x] <= prio[n], UNCHANGED cursor
  PROVE  HeapBut(cursor)'
<1>1. InTree' = InTree /\ InTree \subseteq Nodes
  BY DEF Rose, InTree
<1> SUFFICES ASSUME NEW n \in InTree \ {cursor}
             PROVE  IF parent'[n] = cursor THEN parent'[cursor] # Nil => prio[parent'[cursor]] <= prio[n]
                    ELSE parent'[n] # Nil => prio[parent'[n]] <= prio[n]
  BY <1>1 DEF HeapBut, Edge, Rose
<1>2. parent'[cursor] = x /\ parent'[n] = IF n = x THEN parent[cursor] ELSE IF n = b THEN cursor ELSE parent[n]
  BY <1>1 DEF Rose
<1>3. CASE n = x
  BY <1>2, <1>3 DEF Rose, HeapBut, Edge
<1>4. CASE n # x /\ n = b
  BY <1>1, <1>2, <1>4, Numbers DEF Rose, HeapBut, Edge
<1>5. CASE n # x /\ n # b
  BY <1>2, <1>5 DEF Rose, HeapBut, Edge
<1> QED
  BY <1>3, <1>4, <1>5

LEMMA GoesUp ==
  ASSUME Links, HeapBut(cursor), OverKids(cursor), prio \in [Nodes -> Nat],
         NEW y, NEW b, Rose(cursor, y, b), prio[y] > prio[cursor], UNCHANGED cursor
  PROVE  HeapBut(cursor)' /\ OverKids(cursor)'
<1>1. InTree' = InTree /\ InTree \subseteq Nodes /\ y # Nil /\ \A n \in InTree : prio[n] \in Nat
  BY Numbers DEF Rose, InTree
<1>2. \A n \in InTree : parent'[n] = IF n = cursor THEN parent[y] ELSE IF n = y THEN cursor ELSE IF n = b THEN y ELSE parent[n]
  BY <1>1 DEF Rose
<1>3. \A n \in InTree \ {cursor} : parent[n] = cursor => prio[y] <= prio[n] /\ prio[cursor] <= prio[n]
  BY <1>1 DEF Rose, HeapBut, OverKids
<1>4. parent[y] # Nil => prio[parent[y]] <= prio[y] /\ parent[y] \in Nodes
  BY DEF Rose, HeapBut, Edge, Links, InTree
<1>5. \A n \in InTree \ {cursor} : parent'[n] = cursor => n = y \/ parent[n] = cursor
  BY <1>1, <1>2 DEF Rose
<1>6. OverKids(cursor)'
  <2> SUFFICES ASSUME NEW n \in InTree, parent'[n] = cursor
               PROVE  prio[cursor] <= prio[n]
    BY <1>1 DEF OverKids, Rose
  <2>1. n # cursor
    BY <1>2 DEF Rose
  <2> QED
    BY <1>1, <1>3, <1>5, <2>1 DEF Rose
<1>7. HeapBut(cursor)'
  <2> SUFFICES ASSUME NEW n \in InTree \ {cursor}
               PROVE  IF parent'[n] = cursor THEN parent'[cursor] # Nil => prio[parent'[cursor]] <= prio[n]
                      ELSE parent'[n] # Nil => prio[parent'[n]] <= prio[n]
    BY <1>1 DEF HeapBut, Edge, Rose
  <2>1. parent'[cursor] = parent[y]
    BY <1>2 DEF Rose
  <2>2. CASE parent'[n] = cursor
    <3> SUFFICES ASSUME parent[y] # Nil
                 PROVE  prio[parent[y]] <= prio[n]
      BY <2>1, <2>2
    <3>1. prio[parent[y]] \in Nat /\ prio[y] \in Nat /\ prio[n] \in Nat
      BY <1>1, <1>4 DEF Rose
    <3>2. prio[y] <= prio[n]
      BY <1>3, <1>5, <2>2, <3>1
    <3> QED
      BY <1>4, <3>1, <3>2
  <2>3. CASE parent'[n] # cursor
    <3>1. CASE n = b
      BY <1>1, <1>2, <1>3, <2>3, <3>1, Numbers DEF Rose
    <3>2. CASE n # b
      BY <1>2, <2>3, <3>2 DEF HeapBut, Edge
    <3> QED
      BY <3>1, <3>2
  <2> QED
    BY <2>2, <2>3
<1> QED
  BY <1>6, <1>7

Trees == Links /\ Fitting /\ TreapInv /\ HeapInv
Balanced == \A n \in InTree : Edge(n)

(* Another goroutine points the pages of its span at it. *)
LEMMA TreesApart ==
  ASSUME Control, Trees, NEW p \in Procs, pc[p] = "set",
         UNCHANGED << tree, loop, lock, need >>, pc' = [pc EXCEPT ![p] = "idle"]
  PROVE  Trees'
<1>1. lock # p /\ At' = At /\ (At = "remove" \/ At = "find" => lock \in Procs)
  BY Numbers DEF Control, Hand, Working, At
<1>2. InTree' = InTree /\ \A s : Treap(s) => Treap(s)'
  BY TreapSame
<1>3. Links' /\ Fitting' /\ HeapInv'
  BY <1>1, <1>2 DEF Trees, tree, loop, Links, Fitting, HeapInv, HeapBut, OverKids, Edge, ChunkOf
<1>4. PICK s : Treap(s) /\ Finding(s) /\ Putting(s)
  BY DEF Trees, TreapInv
<1>5. Finding(s)' /\ Putting(s)'
  BY <1>1, <1>2, <1>4 DEF tree, loop, Finding, Putting, Ord, ItemKey
<1> QED
  BY <1>2, <1>3, <1>4, <1>5 DEF Trees, TreapInv

LEMMA TreesRest ==
  ASSUME Trees, Balanced, UNCHANGED tree, {cursor', last'} \subseteq Nodes \cup {Nil},
         At' \notin {"find", "insert", "remove", "up"}
  PROVE  Trees'
<1>1. InTree' = InTree /\ \A s : Treap(s) => Treap(s)'
  BY TreapSame
<1>2. Links' /\ Fitting' /\ HeapInv'
  BY <1>1 DEF Trees, Balanced, tree, Links, Fitting, HeapInv, Edge
<1> QED
  BY <1>1, <1>2 DEF Trees, TreapInv, Finding, Putting

LEMMA TreesStart ==
  ASSUME Trees, Balanced, UNCHANGED tree, cursor' = root, last' = Nil, At' \in {"find", "insert"}
  PROVE  Trees'
<1>1. InTree' = InTree /\ \A s : Treap(s) => Treap(s)'
  BY TreapSame
<1>2. Links' /\ Fitting' /\ HeapInv'
  BY <1>1 DEF Trees, Balanced, tree, Links, Fitting, HeapInv, Edge
<1>3. PICK s : Treap(s)
  BY DEF Trees, TreapInv
<1>4. root \in InTree \cup {Nil} /\ s[root] = InTree
  BY <1>3 DEF Treap, SearchTree, Shape, Hung
<1>5. Finding(s)'
  BY <1>1, <1>4 DEF tree, Finding
<1>6. Putting(s)'
  BY DEF tree, Putting, Place
<1> QED
  BY <1>1, <1>2, <1>3, <1>5, <1>6 DEF Trees, TreapInv

(* One round of find. *)
LEMMA FindGoes ==
  ASSUME Control, Trees, NEW p \in Procs, FindStep(p)
  PROVE  Trees'
<1>1. At = "find" /\ At' = "find" /\ lock = p
  BY Numbers DEF FindStep, Control, Hand, Working, At, proc
<1>2. InTree' = InTree /\ \A s : Treap(s) => Treap(s)'
  BY TreapSame DEF FindStep
<1>3. PICK s : Treap(s) /\ Finding(s)
  BY DEF Trees, TreapInv
<1> DEFINE ord == Ord(npagesKey)
<1>4. InTree \subseteq Nodes /\ npagesKey \in [Nodes -> Nat] /\ need[p] \in Nat
  <2>1. need[p] \in Needs \cup {0}
    BY DEF Control
  <2>2. need[p] \in Nat
    <3>1. \A n \in Needs \cup {0} : n \in Nat
      BY Numbers
    <3> QED
      BY <2>1, <3>1
  <2> QED
    BY <2>2 DEF InTree, Trees, Links
<1>5. /\ cursor \in InTree /\ last \in InTree \cup {Nil}
      /\ last # Nil => npagesKey[last] >= need[p] /\ \A d \in s[cursor] : << d, last >> \in ord
      /\ \A d \in InTree : npagesKey[d] >= need[p] =>
           d \in s[cursor] \/ (last # Nil /\ (d = last \/ << last, d >> \in ord))
  BY <1>1, <1>3 DEF Finding, FindStep
<1>6. /\ cursor \in s[cursor] /\ s[cursor] \subseteq InTree
      /\ left[cursor] \in InTree \cup {Nil} /\ right[cursor] \in InTree \cup {Nil}
      /\ s[cursor] = {cursor} \cup s[left[cursor]] \cup s[right[cursor]]
      /\ cursor \in Nodes
  BY <1>3, <1>4, <1>5, TreapStrict, Node DEF Trees, Treap
<1>7. /\ \A d \in s[left[cursor]] : << d, cursor >> \in ord
      /\ \A d \in s[right[cursor]] : << cursor, d >> \in ord
  BY <1>3, <1>5 DEF Treap, SearchTree, Sorted
<1>8. \A k, m, n \in InTree : << k, m >> \in ord /\ << m, n >> \in ord => << k, n >> \in ord
  BY TreapStrict DEF Trees, StrictOrder
<1>9. Finding(s)'
  <2>1. CASE npagesKey[cursor] >= need[p]
    <3>1. last' = cursor /\ cursor' = left[cursor]
      BY <2>1 DEF FindStep
    <3>2. \A d \in InTree : npagesKey[d] >= need[p] => d \in s[left[cursor]] \/ d = cursor \/ << cursor, d >> \in ord
      <4> HIDE DEF ord
      <4> QED
        BY <1>5, <1>6, <1>7, <1>8
    <3> QED
      BY <1>1, <1>2, <1>6, <1>7, <2>1, <3>1, <3>2 DEF Finding, FindStep, tree, proc
  <2>2. CASE ~ (npagesKey[cursor] >= need[p])
    <3>1. last' = last /\ cursor' = right[cursor]
      BY <2>2 DEF FindStep
    <3>2. \A d \in s[left[cursor]] : ~ (npagesKey[d] >= need[p])
      <4> SUFFICES ASSUME NEW d \in s[left[cursor]]
                   PROVE  ~ (npagesKey[d] >= need[p])
        OBVIOUS
      <4>1. d \in Nodes /\ << d, cursor >> \in ord
        BY <1>4, <1>6, <1>7
      <4>2. npagesKey[d] <= npagesKey[cursor] /\ npagesKey[d] \in Nat /\ npagesKey[cursor] \in Nat
        BY <1>4, <1>6, <4>1, OrdIs
      <4> QED
        BY <1>4, <2>2, <4>2
    <3>3. \A d \in InTree : npagesKey[d] >= need[p] =>
            d \in s[right[cursor]] \/ (last # Nil /\ (d = last \/ << last, d >> \in ord))
      BY <1>5, <1>6, <2>2, <3>2
    <3>4. last # Nil => npagesKey[last] >= need[p] /\ \A d \in s[right[cursor]] : << d, last >> \in ord
      BY <1>5, <1>6
    <3> QED
      BY <1>1, <1>2, <1>5, <1>6, <3>1, <3>3, <3>4 DEF Finding, FindStep, tree, proc
  <2> QED
    BY <2>1, <2>2
<1>10. Links'
  BY <1>2, <1>4, <1>6 DEF Trees, Links, FindStep, tree
<1>11. Fitting' /\ HeapInv' /\ Putting(s)'
  BY <1>1, <1>2 DEF Trees, Fitting, HeapInv, Edge, Putting, FindStep, tree
<1> QED
  BY <1>2, <1>3, <1>9, <1>10, <1>11 DEF Trees, TreapInv

LEMMA FindEnds ==
  ASSUME Control, Trees, NEW p \in Procs, FindHit(p)
  PROVE  Trees'
<1>1. At = "find" /\ At' = "remove" /\ lock = p /\ need' = need /\ lock' = lock
  BY Numbers DEF FindHit, Goto, Control, Hand, Working, At
<1>2. InTree' = InTree /\ \A s : Treap(s) => Treap(s)'
  BY TreapSame DEF FindHit
<1>3. PICK s : Treap(s) /\ Finding(s)
  BY DEF Trees, TreapInv
<1>4. /\ last \in InTree /\ npagesKey[last] >= need[p]
      /\ \A d \in InTree : npagesKey[d] >= need[p] => d = last \/ << last, d >> \in Ord(npagesKey)
  BY <1>1, <1>3 DEF Finding, FindHit, Treap, SearchTree, Shape, Hung
<1>5. Fitting'
  <2>1. \A d \in InTree \ {last} : npagesKey[d] >= need[p] => Before(ChunkOf(last), ChunkOf(d))
    BY <1>4, ChunkOrd DEF InTree
  <2> QED
    BY <1>1, <1>2, <1>4, <2>1 DEF Fitting, FindHit, tree, ChunkOf
<1>6. Links' /\ HeapInv'
  BY <1>1, <1>2, <1>4 DEF Trees, Links, HeapInv, HeapBut, Edge, FindHit, tree, InTree
<1> QED
  BY <1>1, <1>2, <1>3, <1>5, <1>6 DEF Trees, TreapInv, Finding, Putting

(* removeNode: the node goes down by a rotation, or leaves as a leaf.      *)
LEMMA RemoveGoes ==
  ASSUME Control, Trees, NEW p \in Procs, RemoveRotate(p)
  PROVE  Trees'
<1>1. At = "remove" /\ At' = "remove" /\ need' = need /\ lock' = lock /\ UNCHANGED << cursor, last >>
  BY Numbers DEF RemoveRotate, Control, Hand, Working, At, proc, loop
<1>2. PICK s : Treap(s)
  BY DEF Trees, TreapInv
<1>3. cursor \in InTree /\ HeapBut(cursor) /\ prio \in [Nodes -> Nat] /\ Links
  BY <1>1 DEF Trees, Fitting, HeapInv
<1>4. /\ left[cursor] \in InTree \cup {Nil} /\ right[cursor] \in InTree \cup {Nil}
      /\ \A n \in InTree : parent[n] = cursor => n \in {left[cursor], right[cursor]} \ {Nil}
  <2>1. /\ left[cursor] \in InTree \cup {Nil} /\ right[cursor] \in InTree \cup {Nil} /\ cursor # Nil
    BY <1>2, <1>3, TreapStrict, Node DEF Treap
  <2>2. ASSUME NEW n \in InTree, parent[n] = cursor
        PROVE  n \in {left[cursor], right[cursor]} \ {Nil}
    BY <1>2, <2>1, <2>2, Numbers DEF Treap, SearchTree, Shape, Linked, InTree
  <2> QED
    BY <2>1, <2>2
<1>5. \E x, b : /\ Rose(x, cursor, b) /\ \A n \in InTree : parent[n] = cursor => prio[x] <= prio[n]
                /\ InTree' = InTree /\ Links' /\ \E t : Treap(t)'
  <2>1. \A n \in InTree : prio[n] \in Nat
    BY <1>3 DEF InTree
  <2>2. CASE GoesRight(cursor)
    <3>1. RotateRight(cursor)
      BY <2>2 DEF RemoveRotate
    <3>2. left[cursor] # Nil
      BY <2>2 DEF RemoveRotate, GoesRight
    <3>3. \A n \in InTree : parent[n] = cursor => prio[left[cursor]] <= prio[n]
      BY <1>4, <2>1, <2>2, <3>2 DEF GoesRight
    <3> QED
      BY <1>1, <1>2, <1>3, <3>1, <3>2, <3>3, RightRises
  <2>3. CASE ~ GoesRight(cursor)
    <3>1. RotateLeft(cursor)
      BY <2>3 DEF RemoveRotate
    <3>2. right[cursor] # Nil
      BY <2>3 DEF RemoveRotate, GoesRight
    <3>3. \A n \in InTree : parent[n] = cursor => prio[right[cursor]] <= prio[n]
      BY <1>4, <2>1, <2>3, <3>2 DEF GoesRight
    <3> QED
      BY <1>1, <1>2, <1>3, <3>1, <3>2, <3>3, LeftRises
  <2> QED
    BY <2>2, <2>3
<1>6. PICK x, b : Rose(x, cursor, b) /\ \A n \in InTree : parent[n] = cursor => prio[x] <= prio[n]
  BY <1>5
<1>7. HeapInv'
  <2>1. HeapBut(cursor)'
    BY <1>1, <1>3, <1>6, GoesDown
  <2> QED
    BY <1>1, <1>3, <2>1 DEF HeapInv, RemoveRotate, RotateLeft, RotateRight
<1>8. Fitting'
  BY <1>1, <1>5 DEF Trees, Fitting, Rose, ChunkOf
<1> QED
  BY <1>1, <1>5, <1>7, <1>8 DEF Trees, TreapInv, Finding, Putting

LEMMA RemoveEnds ==
  ASSUME Control, Trees, NEW p \in Procs, RemoveLeaf(p)
  PROVE  Trees'
<1> DEFINE c == cursor
<1>1. At = "remove" /\ At' \in {"free", "insert"} \cup {"set"} /\ c \in InTree /\ c \in Nodes /\ c # Nil
      /\ prio \in [Nodes -> Nat] /\ Links /\ HeapBut(c)
  BY Numbers DEF RemoveLeaf, Goto, Control, Hand, Working, At, Trees, Fitting, HeapInv, InTree
<1>2. PICK s : Treap(s)
  BY DEF Trees, TreapInv
<1>3. left[c] = Nil /\ right[c] = Nil /\ Unlink(c)
  BY DEF RemoveLeaf
<1>4. InTree' = InTree \ {c} /\ \A n \in InTree' : npagesKey'[n] = npagesKey[n]
  BY <1>1, <1>3 DEF Unlink, InTree, Links
<1>5. LeafGone(InTree, Nil, c, root, left, right, parent, root', left', right', parent')
  BY <1>1, <1>3 DEF LeafGone, Unlink, InTree, Links
<1>6. PICK t : t = Less(InTree, Nil, c, s)
  OBVIOUS
<1>7. SearchTree(InTree \ {c}, Nil, root', left', right', parent', t, Ord(npagesKey))
  BY <1>1, <1>2, <1>5, <1>6, TreapStrict, LeafLeaves DEF Treap
<1>8. Treap(t)'
  <2>1. StrictOrder(InTree \ {c}, Ord(npagesKey))
    BY <1>1, TreapStrict DEF StrictOrder
  <2>2. \A m, n \in InTree \ {c} : << m, n >> \in Ord(npagesKey) => << m, n >> \in Ord(npagesKey')
    BY <1>4, OrdIs DEF InTree
  <2> QED
    BY <1>4, <1>7, <2>1, <2>2, Reorder DEF Treap
<1>9. root' \in InTree' \cup {Nil} /\ t[root'] = InTree'
  BY <1>8 DEF Treap, SearchTree, Shape, Hung
<1>10. IF At' = "insert" THEN cursor' = root' /\ last' = Nil ELSE cursor' = Nil /\ last' = Nil
  BY <1>1, Numbers DEF RemoveLeaf, Goto, ResetLoop, Control, Hand, Working, At, Round
<1>11. Links'
  <2>1. /\ left' \in [Nodes -> Nodes \cup {Nil}] /\ right' \in [Nodes -> Nodes \cup {Nil}]
        /\ parent' \in [Nodes -> Nodes \cup {Nil}] /\ npagesKey' \in [Nodes -> Nat]
    BY <1>1, <1>3 DEF Links, Unlink
  <2>2. ASSUME NEW n \in Nodes \ InTree'
        PROVE  left'[n] = Nil /\ right'[n] = Nil /\ parent'[n] = Nil
    BY <1>1, <1>3, <1>4, <2>2 DEF Links, Unlink
  <2>3. root' \in Nodes \cup {Nil} /\ cursor' \in Nodes \cup {Nil} /\ last' \in Nodes \cup {Nil}
    BY <1>9, <1>10 DEF InTree
  <2> QED
    BY <2>1, <2>2, <2>3 DEF Links
<1>12. \A n \in InTree \ {c} : parent[n] # c
  BY <1>1, <1>2, <1>3, Numbers DEF Treap, SearchTree, Shape, Linked, InTree
<1>13. HeapInv'
  <2>1. prio' \in [Nodes -> Nat]
    BY <1>1, <1>3 DEF Unlink
  <2>2. ASSUME NEW n \in InTree'
        PROVE  Edge(n)'
    <3>1. n \in InTree \ {c} /\ n \in Nodes /\ parent'[n] = parent[n] /\ parent[n] # c /\ prio'[n] = prio[n]
      BY <1>1, <1>3, <1>4, <1>12, <2>2 DEF Unlink, InTree, Links
    <3>2. parent[n] # Nil => parent[n] \in Nodes /\ prio'[parent[n]] = prio[parent[n]]
      BY <1>1, <1>3, <3>1 DEF Unlink, Links
    <3> QED
      BY <1>1, <3>1, <3>2 DEF HeapBut, Edge
  <2> QED
    BY <1>1, <2>1, <2>2 DEF HeapInv
<1>14. Putting(t)'
  BY <1>10 DEF Putting, Place
<1> QED
  BY <1>1, <1>8, <1>11, <1>13, <1>14 DEF Trees, TreapInv, Finding, Fitting

(* The item is not in the tree; the loop is at a node of it or below a leaf. *)
LEMMA AtPlace ==
  ASSUME Control, Hands, Trees, At = "insert"
  PROVE  /\ item.start \in Nodes \ InTree /\ item.npages \in Nat \ {0}
         /\ \A s : Treap(s) /\ Putting(s) => cursor \in InTree \cup {Nil} /\ last \in InTree \cup {Nil}
<1>1. item.start \in Nodes \ InTree /\ item.npages \in Nat \ {0}
  BY DEF Control, Round, Inserting, Hands, Nodes, InTree
<1>2. ASSUME NEW s, Treap(s), Putting(s)
      PROVE  cursor \in InTree \cup {Nil} /\ last \in InTree \cup {Nil}
  <2>1. Place(InTree, Nil, root, left, right, s, Ord(ItemKey), item.start, last, cursor)
    BY <1>2 DEF Putting
  <2> QED
    BY <1>2, <2>1 DEF Place, Treap, SearchTree, Shape, Hung, Split
<1> QED
  BY <1>1, <1>2

LEMMA InsertGoes ==
  ASSUME Control, Hands, Trees, NEW p \in Procs, InsertDown(p)
  PROVE  Trees'
<1>1. At = "insert" /\ At' = "insert" /\ cursor # Nil
  BY Numbers DEF InsertDown, Control, Hand, Working, At, proc
<1>2. InTree' = InTree /\ \A s : Treap(s) => Treap(s)'
  BY TreapSame DEF InsertDown
<1>3. PICK s : Treap(s) /\ Putting(s)
  BY DEF Trees, TreapInv
<1>4. /\ item.start \in Nodes \ InTree /\ item.npages \in Nat \ {0}
      /\ cursor \in InTree /\ Links
  BY <1>1, <1>3, AtPlace DEF Trees
<1>5. left[cursor] \in Nodes \cup {Nil} /\ right[cursor] \in Nodes \cup {Nil} /\ cursor \in Nodes
  BY <1>4 DEF Links, InTree
<1>6. /\ SearchTree(InTree, Nil, root, left, right, parent, s, Ord(ItemKey))
      /\ StrictOrder(InTree, Ord(ItemKey))
  BY <1>3, <1>4, ItemTreap
<1>7. Place(InTree, Nil, root, left, right, s, Ord(ItemKey), item.start, last, cursor)
  BY <1>1, <1>3 DEF Putting
<1>8. \/ << item.start, cursor >> \in Ord(ItemKey) /\ cursor' = left[cursor]
      \/ << cursor, item.start >> \in Ord(ItemKey) /\ cursor' = right[cursor]
  BY <1>4, ItemOrd DEF InsertDown
<1>9. Place(InTree, Nil, root, left, right, s, Ord(ItemKey), item.start, cursor, cursor')
  BY <1>4, <1>6, <1>7, <1>8, PlaceBelow
<1>10. Putting(s)'
  <2>1. cursor # Nil /\ last' = cursor /\ ItemKey' = ItemKey /\ item' = item
    BY <1>1 DEF InsertDown, tree, ItemKey
  <2>2. Ord(ItemKey)' = Ord(ItemKey)
    BY <2>1 DEF Ord
  <2> QED
    BY <1>2, <1>9, <2>1, <2>2 DEF Putting, InsertDown, tree
<1>11. Links'
  BY <1>2, <1>5 DEF Trees, Links, InsertDown, tree
<1>12. Fitting' /\ HeapInv' /\ Finding(s)'
  BY <1>1, <1>2 DEF Trees, Fitting, HeapInv, Edge, Finding, InsertDown, tree
<1> QED
  BY <1>2, <1>3, <1>10, <1>11, <1>12 DEF Trees, TreapInv

LEMMA InsertPuts ==
  ASSUME Control, Hands, Trees, NEW p \in Procs, InsertLeaf(p)
  PROVE  Trees'
<1> DEFINE t == item.start
<1>1. At = "insert" /\ At' = "up" /\ cursor = Nil
  BY Numbers DEF InsertLeaf, Goto, Control, Hand, Working, At
<1>2. PICK s : Treap(s) /\ Putting(s)
  BY DEF Trees, TreapInv
<1>3. /\ t \in Nodes /\ t \notin InTree /\ t # Nil /\ item.npages \in Nat \ {0}
      /\ last \in InTree \cup {Nil} /\ last # t /\ Links /\ prio \in [Nodes -> Nat]
      /\ \A n \in InTree : Edge(n)
  BY <1>1, <1>2, AtPlace, Numbers DEF Trees, HeapInv
<1>4. PICK r \in Prios :
       /\ root' = IF last = Nil THEN t ELSE root
       /\ left' = [n \in Nodes |-> IF n = last /\ Before(item, ChunkOf(n)) THEN t ELSE left[n]]
       /\ right' = [n \in Nodes |-> IF n = last /\ Before(ChunkOf(n), item) THEN t ELSE right[n]]
       /\ parent' = [parent EXCEPT ![t] = last]
       /\ prio' = [prio EXCEPT ![t] = r]
       /\ npagesKey' = [npagesKey EXCEPT ![t] = item.npages]
       /\ cursor' = t
  BY DEF InsertLeaf
<1>5. InTree' = InTree \cup {t} /\ npagesKey' = ItemKey /\ InTree \subseteq Nodes
  BY <1>3, <1>4 DEF InTree, ItemKey, Links
<1>6. /\ SearchTree(InTree, Nil, root, left, right, parent, s, Ord(ItemKey))
      /\ StrictOrder(InTree \cup {t}, Ord(ItemKey)) /\ Ord(ItemKey) \subseteq Nodes \X Nodes
  BY <1>2, <1>3, ItemTreap
<1>7. Place(InTree, Nil, root, left, right, s, Ord(ItemKey), t, last, Nil)
  BY <1>1, <1>2 DEF Putting
<1>8. LeafPut(InTree, Nil, t, last, Ord(ItemKey), root, left, right, parent, root', left', right', parent')
  <2>1. ASSUME NEW n \in InTree
        PROVE  /\ left'[n] = IF n = last /\ << t, n >> \in Ord(ItemKey) THEN t ELSE left[n]
               /\ right'[n] = IF n = last /\ << n, t >> \in Ord(ItemKey) THEN t ELSE right[n]
               /\ parent'[n] = parent[n]
    BY <1>3, <1>4, <1>5, ItemOrd DEF Links
  <2>2. left'[t] = Nil /\ right'[t] = Nil /\ parent'[t] = last
    BY <1>3, <1>4 DEF Links
  <2> QED
    BY <1>4, <2>1, <2>2 DEF LeafPut
<1>9. PICK q : q = WithLeaf(InTree, Nil, t, last, s)
  OBVIOUS
<1>10. SearchTree(InTree \cup {t}, Nil, root', left', right', parent', q, Ord(ItemKey))
  BY <1>3, <1>6, <1>7, <1>8, <1>9, LeafPlaced
<1>11. Treap(q)'
  <2>1. Ord(npagesKey)' = Ord(ItemKey)
    BY <1>5 DEF Ord
  <2> QED
    BY <1>5, <1>10, <2>1 DEF Treap
<1>12. Links'
  <2>1. /\ left' \in [Nodes -> Nodes \cup {Nil}] /\ right' \in [Nodes -> Nodes \cup {Nil}]
        /\ parent' \in [Nodes -> Nodes \cup {Nil}] /\ npagesKey' \in [Nodes -> Nat]
    BY <1>3, <1>4, <1>5 DEF Links
  <2>2. ASSUME NEW n \in Nodes \ InTree'
        PROVE  left'[n] = Nil /\ right'[n] = Nil /\ parent'[n] = Nil
    BY <1>3, <1>4, <1>5, <2>2, Numbers DEF Links
  <2>3. root' \in Nodes \cup {Nil} /\ cursor' \in Nodes \cup {Nil} /\ last' \in Nodes \cup {Nil}
    BY <1>3, <1>4 DEF Links, InsertLeaf
  <2> QED
    BY <2>1, <2>2, <2>3 DEF Links
<1>13. HeapInv'
  <2>1. prio' \in [Nodes -> Nat]
    BY <1>3, <1>4, HeapAssumption
  <2>2. ASSUME NEW n \in InTree
        PROVE  parent'[n] = parent[n] /\ parent[n] # t /\ prio'[n] = prio[n] /\ n # t
    <3>1. parent[n] \in InTree \cup {Nil}
      BY <1>2, <1>3, TreapStrict, Node DEF Treap
    <3> QED
      BY <1>3, <1>4, <1>5, <3>1 DEF Links
  <2>3. ASSUME NEW n \in InTree
        PROVE  Edge(n)'
    <3>1. parent[n] # Nil => parent[n] \in Nodes /\ prio'[parent[n]] = prio[parent[n]]
      BY <1>3, <1>4, <1>5, <2>2, <2>3 DEF Links
    <3> QED
      BY <1>3, <2>2, <2>3, <3>1 DEF Edge
  <2>4. HeapBut(cursor)'
    BY <1>4, <1>5, <2>2, <2>3 DEF HeapBut
  <2>5. OverKids(cursor)'
    BY <1>3, <1>4, <1>5, <2>2 DEF OverKids, Links
  <2> QED
    BY <1>1, <1>4, <1>5, <2>1, <2>4, <2>5 DEF HeapInv
<1> QED
  BY <1>1, <1>11, <1>12, <1>13 DEF Trees, TreapInv, Finding, Putting, Fitting

LEMMA InsertRises ==
  ASSUME Control, Trees, NEW p \in Procs, InsertUp(p)
  PROVE  Trees'
<1>1. At = "up" /\ At' = "up" /\ UNCHANGED << cursor, last >>
  BY Numbers DEF InsertUp, Control, Hand, Working, At, proc, loop
<1>2. PICK s : Treap(s)
  BY DEF Trees, TreapInv
<1>3. /\ cursor \in InTree /\ HeapBut(cursor) /\ OverKids(cursor) /\ prio \in [Nodes -> Nat] /\ Links
      /\ cursor # Nil
  BY <1>1, Numbers DEF Trees, HeapInv, InTree
<1> DEFINE y == parent[cursor]
<1>4. y # Nil /\ prio[y] > prio[cursor]
  BY DEF InsertUp, Rises
<1>5. y \in InTree /\ (left[y] = cursor <=> right[y] # cursor)
  BY <1>2, <1>3, <1>4, TreapStrict, Node DEF Treap
<1>6. \E b : Rose(cursor, y, b) /\ InTree' = InTree /\ Links' /\ \E t : Treap(t)'
  <2>1. CASE left[y] = cursor
    <3>1. RotateRight(y)
      BY <2>1 DEF InsertUp
    <3> QED
      BY <1>1, <1>2, <1>3, <1>5, <2>1, <3>1, RightRises
  <2>2. CASE left[y] # cursor
    <3>1. RotateLeft(y) /\ right[y] = cursor
      BY <1>5, <2>2 DEF InsertUp
    <3> QED
      BY <1>1, <1>2, <1>3, <1>5, <3>1, LeftRises
  <2> QED
    BY <2>1, <2>2
<1>7. PICK b : Rose(cursor, y, b)
  BY <1>6
<1>8. HeapInv'
  <2>1. HeapBut(cursor)' /\ OverKids(cursor)'
    BY <1>1, <1>3, <1>4, <1>7, GoesUp
  <2>2. prio' = prio
    BY <1>7 DEF Rose
  <2> QED
    BY <1>1, <1>3, <1>6, <2>1, <2>2 DEF HeapInv
<1> QED
  BY <1>1, <1>6, <1>8 DEF Trees, TreapInv, Finding, Putting, Fitting

(* A node that rises no more has the priorities right. *)
LEMMA TopReached ==
  ASSUME Trees, At = "up", ~ Rises(cursor)
  PROVE  Balanced
<1>1. PICK s : Treap(s)
  BY DEF Trees, TreapInv
<1>2. cursor \in InTree /\ HeapBut(cursor) /\ OverKids(cursor) /\ prio \in [Nodes -> Nat] /\ Links
  BY DEF Trees, HeapInv
<1>3. \A n \in InTree : parent[n] \in InTree \cup {Nil} /\ n \in Nodes
  BY <1>1, <1>2, TreapStrict, Node DEF Treap, InTree
<1>4. ASSUME NEW n \in InTree
      PROVE  Edge(n)
  <2>1. prio[n] \in Nat /\ (parent[n] # Nil => prio[parent[n]] \in Nat)
    BY <1>2, <1>3, <1>4
  <2>2. CASE n = cursor
    BY <2>1, <2>2 DEF Edge, Rises
  <2>3. CASE n # cursor /\ parent[n] = cursor
    BY <1>2, <2>3 DEF Edge, OverKids
  <2>4. CASE n # cursor /\ parent[n] # cursor
    BY <1>2, <2>4 DEF Edge, HeapBut
  <2> QED
    BY <2>2, <2>3, <2>4
<1> QED
  BY <1>4 DEF Balanced

LEMMA TreesStep ==
  ASSUME Control, Control', Hands, Trees, [Next]_vars
  PROVE  Trees'
<1> USE Numbers
<1>1. CASE UNCHANGED vars
  <2>1. InTree' = InTree /\ (\A s : Treap(s) => Treap(s)') /\ At' = At
    BY <1>1, TreapSame DEF vars, proc, At
  <2>2. Links' /\ Fitting' /\ HeapInv'
    BY <1>1, <2>1 DEF Trees, vars, tree, loop, proc, Links, Fitting, HeapInv, HeapBut, OverKids, Edge, ChunkOf
  <2>3. PICK s : Treap(s) /\ Finding(s) /\ Putting(s)
    BY DEF Trees, TreapInv
  <2>4. Finding(s)' /\ Putting(s)'
    BY <1>1, <2>1, <2>3 DEF vars, tree, loop, proc, Finding, Putting, Ord, ItemKey
  <2> QED
    BY <2>1, <2>2, <2>3, <2>4 DEF Trees, TreapInv
<1>2. ASSUME At \notin {"remove", "up"}
      PROVE  Balanced
  BY <1>2 DEF Trees, HeapInv, Balanced
<1>3. ASSUME NEW p \in Procs, AllocSpan(p)
      PROVE  Trees'
  <2>1. CASE AllocLock(p)
    <3>1. At = "free" /\ At' = "find" /\ last' = Nil
      BY <2>1 DEF AllocLock, Goto, At, Control, Round
    <3> QED
      BY <1>2, <2>1, <3>1, TreesStart DEF AllocLock
  <2>2. CASE SetSpans(p) \/ SetSpansPanics(p)
    BY <2>2, TreesApart DEF SetSpans, SetSpansPanics, Goto
  <2> QED
    BY <1>3, <2>1, <2>2 DEF AllocSpan
<1>4. ASSUME NEW p \in Procs, Find(p)
      PROVE  Trees'
  <2>1. CASE FindMiss(p)
    <3>1. At = "find" /\ At' \in {"free", "grow"}
      BY <2>1 DEF FindMiss, Leave, Goto, At, Control, Hand, Working
    <3>2. {cursor', last'} \subseteq Nodes \cup {Nil}
      BY <2>1 DEF FindMiss
    <3> QED
      BY <1>2, <2>1, <3>1, <3>2, TreesRest DEF FindMiss
  <2> QED
    BY <1>4, <2>1, FindGoes, FindEnds DEF Find
<1>5. ASSUME NEW p \in Procs, Remove(p)
      PROVE  Trees'
  BY <1>5, RemoveGoes, RemoveEnds DEF Remove
<1>6. ASSUME NEW p \in Procs, Insert(p)
      PROVE  Trees'
  <2>1. CASE InsertDone(p)
    <3>1. At = "up" /\ At' \in {"free", "map"} /\ ~ Rises(cursor)
      BY <2>1 DEF InsertDone, Goto, At, Control, Hand, Round, Working, Inserting
    <3>2. {cursor', last'} \subseteq Nodes \cup {Nil}
      BY <2>1 DEF InsertDone, ResetLoop, loop, Trees, Links
    <3> QED
      BY <2>1, <3>1, <3>2, TopReached, TreesRest DEF InsertDone
  <2>2. CASE InsertFails(p)
    <3>1. At = "insert" /\ At' \in {"free", "map"}
      BY <2>2 DEF InsertFails, Leave, Goto, At, Control, Hand, Working
    <3>2. {cursor', last'} \subseteq Nodes \cup {Nil}
      BY <2>2 DEF InsertFails, ResetLoop, Trees, Links
    <3> QED
      BY <1>2, <2>2, <3>1, <3>2, TreesRest DEF InsertFails
  <2> QED
    BY <1>6, <2>1, <2>2, InsertGoes, InsertPuts, InsertRises DEF Insert
<1>7. ASSUME NEW p \in Procs, Grow(p)
      PROVE  Trees'
  <2>1. CASE GrowAlloc(p)
    <3>1. At = "grow" /\ At' = "insert" /\ last' = Nil
      BY <2>1 DEF GrowAlloc, Goto, At, Control, Hand, Round, Working
    <3> QED
      BY <1>2, <2>1, <3>1, TreesStart DEF GrowAlloc
  <2>2. CASE GrowMap(p)
    <3>1. At = "map" /\ At' = "find" /\ last' = Nil
      BY <2>2 DEF GrowMap, Goto, At, Control, Hand, Round, Working
    <3> QED
      BY <1>2, <2>2, <3>1, TreesStart DEF GrowMap
  <2>3. CASE GrowChunkFails(p) \/ GrowMapFails(p)
    <3>1. At \in {"grow", "map"} /\ At' = "free" /\ {cursor', last'} \subseteq Nodes \cup {Nil} /\ UNCHANGED tree
      BY <2>3 DEF GrowChunkFails, GrowMapFails, Leave, ResetLoop, At, Control, Hand, Working
    <3> QED
      BY <1>2, <3>1, TreesRest
  <2>4. CASE GrowExpand(p) \/ GrowAnew(p)
    <3>1. At = "grow" /\ At' = "grow" /\ {cursor', last'} \subseteq Nodes \cup {Nil} /\ UNCHANGED tree
      BY <2>4 DEF GrowExpand, GrowAnew, proc, loop, At, Control, Hand, Working, Trees, Links
    <3> QED
      BY <1>2, <3>1, TreesRest
  <2> QED
    BY <1>7, <2>1, <2>2, <2>3, <2>4 DEF Grow
<1>8. ASSUME NEW p \in Procs, SweepLarge(p)
      PROVE  Trees'
  <2>1. At = "free" /\ At' = "insert" /\ last' = Nil
    BY <1>8 DEF SweepLarge, Goto, At, Control, Round
  <2> QED
    BY <1>2, <1>8, <2>1, TreesStart DEF SweepLarge
<1> QED
  BY <1>1, <1>3, <1>4, <1>5, <1>6, <1>7, <1>8 DEF Next

-----------------------------------------------------------------------------
(* The rest of what the variables hold, and the whole invariant.           *)
Bounds ==
  /\ prio \in [Nodes -> Prios \cup {0}]
  /\ regions \in SUBSET (0 .. Regions)
  /\ fails \in 0 .. MaxFails
  /\ PagesOf(item) \subseteq Pages

HeapInvariant ==
  /\ Control /\ Hands /\ LinearInv
  /\ Fresh /\ S!Apart /\ Region /\ SpansOK
  /\ Trees
  /\ Bounds

LEMMA NoPages == PagesOf(NoChunk) = {}
<1>1. NoChunk.start = 0 /\ NoChunk.npages = 0
  BY DEF NoChunk
<1>2. PagesOf(NoChunk) = 0 .. 0 + 0 - 1
  BY <1>1 DEF PagesOf
<1> QED
  BY <1>2

LEMMA RegionBound ==
  ASSUME NEW g \in Pages
  PROVE  g \div RawPages \in 0 .. Regions
<1> DEFINE w == RawPages
           q == g \div w
           n == Regions
<1>1. w \in Nat \ {0} /\ n \in Nat /\ g \in Nat /\ g \in RawPages .. RawPages * Regions - 1
  BY HeapAssumption DEF Pages
<1>2. w * n \in Nat
  BY <1>1, SMTT(30)
<1>3. g < w * n
  <2> DEFINE x == w * n
  <2>1. g \in w .. x - 1 /\ x \in Nat
    BY <1>1, <1>2
  <2> HIDE DEF x
  <2>2. g < x
    BY <1>1, <2>1
  <2> QED
    BY <2>2 DEF x
<1>4. q \in Nat /\ w * q <= g
  <2> HIDE DEF w
  <2> QED
    BY <1>1, SMTT(30)
<1> HIDE DEF q, w, n
<1>5. ASSUME q > n
      PROVE  FALSE
  <2> DEFINE e == q - n
  <2>1. e \in Nat /\ q = n + e
    BY <1>1, <1>4, <1>5
  <2> HIDE DEF e
  <2>2. w * q = w * n + w * e /\ w * e \in Nat
    BY <1>1, <2>1, SMTT(30)
  <2> QED
    BY <1>1, <1>2, <1>3, <1>4, <2>2
<1>6. q \in 0 .. n
  BY <1>1, <1>4, <1>5
<1> QED
  BY <1>6 DEF q, w, n

LEMMA ItemStep ==
  ASSUME Control, Control', [Next]_vars
  PROVE  item' = item \/ item' = NoChunk \/ At' = "insert"
<1> USE Numbers
<1>1. ASSUME NEW p \in Procs, Remove(p) \/ SweepLarge(p) \/ GrowAlloc(p)
      PROVE  item' = item \/ item' = NoChunk \/ At' = "insert"
  BY <1>1 DEF Remove, RemoveRotate, RemoveLeaf, SweepLarge, GrowAlloc, Goto, ResetLoop, loop,
              Control, Hand, Working, At
<1>2. ASSUME NEW p \in Procs, AllocSpan(p) \/ Find(p) \/ Insert(p) \/ (Grow(p) /\ ~ GrowAlloc(p))
      PROVE  item' = item \/ item' = NoChunk
  BY <1>2 DEF AllocSpan, AllocLock, SetSpans, SetSpansPanics, Find, FindStep, FindMiss, FindHit, Insert, InsertDown,
              InsertLeaf, InsertUp, InsertDone, InsertFails, Grow, GrowChunkFails, GrowExpand, GrowAnew, GrowMap,
              GrowMapFails, ResetLoop, loop
<1> QED
  BY <1>1, <1>2 DEF Next, vars, loop

LEMMA PrioStep ==
  ASSUME prio \in [Nodes -> Prios \cup {0}], [Next]_vars
  PROVE  prio' \in [Nodes -> Prios \cup {0}]
<1>1. ASSUME NEW p \in Procs, Remove(p)
      PROVE  prio' \in [Nodes -> Prios \cup {0}]
  BY <1>1 DEF Remove, RemoveRotate, RemoveLeaf, Unlink, RotateLeft, RotateRight
<1>2. ASSUME NEW p \in Procs, Insert(p)
      PROVE  prio' \in [Nodes -> Prios \cup {0}]
  BY <1>2 DEF Insert, InsertDown, InsertLeaf, InsertUp, InsertDone, InsertFails, RotateLeft, RotateRight, tree
<1>3. ASSUME NEW p \in Procs, AllocSpan(p) \/ Find(p) \/ Grow(p) \/ SweepLarge(p)
      PROVE  prio' = prio
  BY <1>3 DEF AllocSpan, AllocLock, SetSpans, SetSpansPanics, Find, FindStep, FindMiss, FindHit, Grow, GrowAlloc,
              GrowChunkFails, GrowExpand, GrowAnew, GrowMap, GrowMapFails, SweepLarge, tree
<1> QED
  BY <1>1, <1>2, <1>3 DEF Next, vars, tree

LEMMA RegionsStep ==
  ASSUME Bounds, [Next]_vars
  PROVE  regions' \in SUBSET (0 .. Regions)
<1>1. \A k : MapRegions(item, k) => regions' \in SUBSET (0 .. Regions)
  BY RegionBound DEF Bounds, MapRegions, RegionsOf
<1>2. ASSUME NEW p \in Procs, GrowMap(p) \/ GrowMapFails(p)
      PROVE  regions' \in SUBSET (0 .. Regions)
  BY <1>1, <1>2 DEF GrowMap, GrowMapFails
<1>3. ASSUME ~ \E p \in Procs : GrowMap(p) \/ GrowMapFails(p)
      PROVE  regions' = regions
  BY <1>3 DEF Next, vars, AllocSpan, AllocLock, SetSpans, SetSpansPanics, Find, FindStep, FindMiss, FindHit, Remove,
              RemoveRotate, RemoveLeaf, Insert, InsertDown, InsertLeaf, InsertUp, InsertDone, InsertFails, Grow,
              GrowAlloc, GrowChunkFails, GrowExpand, GrowAnew, SweepLarge
<1> QED
  BY <1>2, <1>3 DEF Bounds

LEMMA FailsStep ==
  ASSUME fails \in 0 .. MaxFails, [Next]_vars
  PROVE  fails' \in 0 .. MaxFails
<1>1. Fail => fails' \in 0 .. MaxFails
  BY HeapAssumption DEF Fail
<1>2. Fail \/ fails' = fails
  BY DEF Next, vars, AllocSpan, AllocLock, SetSpans, SetSpansPanics, Find, FindStep, FindMiss, FindHit, Remove,
         RemoveRotate, RemoveLeaf, Insert, InsertDown, InsertLeaf, InsertUp, InsertDone, InsertFails, Grow,
         GrowAlloc, GrowChunkFails, GrowExpand, GrowAnew, GrowMap, GrowMapFails, SweepLarge
<1> QED
  BY <1>1, <1>2

LEMMA BoundsStep ==
  ASSUME Control, Control', Fresh', Bounds, [Next]_vars
  PROVE  Bounds'
<1>1. PagesOf(item') \subseteq Pages
  <2>1. CASE At' = "insert"
    <3>1. item' \in Free'
      BY <2>1, PendingThen DEF Free
    <3>2. PagesOf(item') \subseteq S!Owned'
      BY <3>1, SamePages DEF S!Owned, S!Covered
    <3> QED
      BY <3>2 DEF Fresh
  <2>2. CASE item' = NoChunk
    BY <2>2, NoPages
  <2>3. CASE item' = item
    BY <2>3 DEF Bounds
  <2> QED
    BY <2>1, <2>2, <2>3, ItemStep
<1> QED
  BY <1>1, PrioStep, RegionsStep, FailsStep DEF Bounds, PagesOf

LEMMA HeapInit ==
  ASSUME Init
  PROVE  HeapInvariant
<1> USE Numbers
<1>1. InTree = {} /\ At = "free" /\ item = NoChunk /\ live = {} /\ lost = {} /\ Got = {} /\ Pending = {}
  BY DEF Init, InTree, At, Got, Pending
<1>2. Free = {} /\ Held = {}
  BY <1>1 DEF Free, Held, TreeChunks
<1>3. Control
  BY DEF Init, Control, Hand, Round, At, Working, Inserting
<1>4. Hands
  <2>1. NoChunk \in [start : Pages \cup {0}, npages : Needs \cup {0}] /\ NoChunk \in [start : Pages \cup {0}, npages : Nat]
    BY DEF NoChunk
  <2> QED
    BY <1>1, <2>1 DEF Init, Hands
<1>5. S!Apart /\ S!Owned = {}
  BY <1>1, <1>2, S!StoreInit DEF S!Init
<1>6. Fresh
  <2>1. PICK base \in Pages, size \in ArenaSizes :
          /\ (base % RawPages) = 0 /\ base + size - 1 \in Pages
          /\ next = base /\ end = base + size /\ reserved = base .. base + size - 1
    BY DEF Init
  <2>2. base \in Nat /\ size \in Nat /\ (size % RawPages) = 0
    BY HeapAssumption
  <2>3. reserved \subseteq Pages
    <3>1. \A a, b \in Pages : a .. b \subseteq Pages
      BY HeapAssumption DEF Pages
    <3> QED
      BY <2>1, <3>1
  <2>4. (end % RawPages) = 0
    BY <2>1, <2>2, MultiplesAdd
  <2> QED
    BY <1>5, <2>3, <2>4 DEF Fresh
<1>7. Region /\ SpansOK
  BY <1>1 DEF Init, Region, SpansOK, SpanFound, Inserting
<1>8. Trees
  <2>1. Links /\ Fitting /\ HeapInv
    BY <1>1, HeapAssumption DEF Init, Links, Fitting, HeapInv, Nodes
  <2>2. PICK s : s = [n \in {Nil} |-> {}]
    OBVIOUS
  <2>3. Treap(s)
    BY <1>1, <2>2 DEF Init, Treap, SearchTree, Shape, Hung, Split, Nested, Linked, Sorted
  <2> QED
    BY <1>1, <2>1, <2>3 DEF Trees, TreapInv, Finding, Putting
<1>9. Bounds
  BY <1>1, NoPages, HeapAssumption DEF Init, Bounds
<1> QED
  BY <1>3, <1>4, <1>5, <1>6, <1>7, <1>8, <1>9, LinearInit DEF HeapInvariant

LEMMA HeapStep ==
  ASSUME HintKept, HeapInvariant, [Next]_vars
  PROVE  HeapInvariant' /\ [S!Next]_S!vars /\ S!Owned \subseteq S!Owned'
<1>1. /\ Control /\ Hands /\ LinearInv /\ Fresh /\ S!Apart /\ Region /\ SpansOK /\ Trees /\ Bounds
      /\ Links /\ Fitting
  BY DEF HeapInvariant, Trees
<1>2. Control'
  BY <1>1, ControlStep
<1>3. S!Move \/ (S!Grow /\ \E q \in Procs : GrowAlloc(q))
  BY <1>1, <1>2, StepMoves
<1>4. S!Apart' /\ S!Owned \subseteq S!Owned' /\ (S!Owned' = S!Owned \/ \E q \in Procs : GrowAlloc(q))
  BY <1>1, <1>3, ApartStep
<1>5. Fresh'
  BY <1>1, <1>2, <1>4, FreshStep
<1>6. Hands' /\ Region' /\ SpansOK' /\ Trees' /\ LinearInv'
  BY <1>1, <1>2, HandsStep, RegionStep, SpansStep, TreesStep, LinearStep
<1>7. Bounds'
  BY <1>1, <1>2, <1>5, BoundsStep
<1> QED
  BY <1>2, <1>3, <1>4, <1>5, <1>6, <1>7, MovesRefine DEF HeapInvariant

LEMMA HeapAlways ==
  ASSUME HintKept
  PROVE  Spec => []HeapInvariant
BY HeapInit, HeapStep, PTL DEF Spec

(* Where the kernel reserves at the address it is asked for or refuses,    *)
(* every variable of the page heap (heap.go, trees.go, linear_alloc.go)    *)
(* has its type, whatever the goroutines ask for and whatever fails.       *)
THEOREM HeapTypes ==
  ASSUME HintKept
  PROVE  Spec => []TypeOK
<1>1. ASSUME HeapInvariant
      PROVE  TypeOK
  <2>1. /\ Control /\ Hands /\ LinearInv /\ Fresh /\ spans \in [Pages -> Pages \cup {0}] /\ Links /\ Bounds
    BY <1>1 DEF HeapInvariant, SpansOK, Trees
  <2>2. then \in {"idle", "set", "map", "grown"}
    BY <2>1, Numbers DEF Control, Hand, Round, At, Working, Inserting
  <2>3. lost \in SUBSET Pages /\ reserved \in SUBSET Pages
    BY <2>1 DEF Fresh, S!Owned
  <2>4. pc \in [Procs -> {"idle", "find", "remove", "insert", "up", "grow", "map", "set"}]
    BY <2>1 DEF Control, Working
  <2> QED
    BY <2>1, <2>2, <2>3, <2>4 DEF TypeOK, Control, Hands, LinearInv, Links, Bounds
<1> QED
  BY <1>1, HeapAlways, PTL

(* All the pages of a span in use point at it (heap.go:171), for any       *)
(* number of goroutines and regions: no later allocation, none that        *)
(* fails and no new table of a region covers a page of it.                 *)
THEOREM SpansAreFound ==
  ASSUME HintKept
  PROVE  Spec => []SpanFound
<1>1. HeapInvariant => SpanFound
  BY DEF HeapInvariant, SpansOK
<1> QED
  BY <1>1, HeapAlways, PTL

(* The page heap implements PageStore: the treap, its rotations, the       *)
(* linear allocator and the failures on the way are a set of chunks from   *)
(* which each request takes the best fit, and to which what is left of it  *)
(* and what the sweep frees come back.                                     *)
THEOREM HeapKeepsPromise ==
  ASSUME HintKept
  PROVE  Spec => PromiseKept
<1>1. Init => Store!Init
  <2>1. ASSUME Init
        PROVE  Free = {} /\ Held = {} /\ lost = {}
    BY <2>1, Numbers DEF Init, Free, Held, TreeChunks, Got, InTree, Pending
  <2> QED
    BY <2>1, SameStore DEF S!Init
<1>2. HeapInvariant /\ [Next]_vars => [Store!Next]_(Store!vars)
  <2>1. ASSUME UNCHANGED S!vars
        PROVE  UNCHANGED Store!vars
    BY <2>1 DEF S!vars, Store!vars, Free, Held, TreeChunks, Got
  <2>2. ASSUME HeapInvariant, [Next]_vars
        PROVE  S!Next \/ UNCHANGED S!vars
    BY <2>2, HeapStep
  <2>3. S!Next => Store!Next
    BY SameStore
  <2> QED
    BY <2>1, <2>2, <2>3
<1> QED
  BY <1>1, <1>2, HeapAlways, PTL DEF Spec, PromiseKept, Store!Spec

(* No page is in two chunks of the treap, in the hands of two spans, or in *)
(* use and lost; and what came from the kernel stays with somebody or is   *)
(* known to be lost.                                                       *)
THEOREM HeapPagesApart ==
  ASSUME HintKept
  PROVE  Spec => []S!Apart /\ [][S!Owned \subseteq S!Owned']_vars
<1>1. HeapInvariant => S!Apart
  BY DEF HeapInvariant
<1>2. HeapInvariant /\ [Next]_vars => [S!Owned \subseteq S!Owned']_vars
  BY HeapStep
<1> QED
  BY <1>1, <1>2, HeapAlways, PTL DEF Spec

-----------------------------------------------------------------------------
(* The nodes that Below finds level by level are those of the tree.        *)
LEMMA BelowIs ==
  ASSUME Links, NEW s, Treap(s), NEW t \in InTree \cup {Nil}
  PROVE  Below(t) = s[t]
<1> DEFINE C == Cardinality(Nodes)
           level == CHOOSE g : g = [k \in 0 .. C |->
                      IF k = 0 THEN {t} \ {Nil} ELSE
                      (g[k - 1] \cup {left[n] : n \in g[k - 1]} \cup {right[n] : n \in g[k - 1]}) \ {Nil}]
<1>1. Below(t) = level[C]
  BY DEF Below
<1>2. IsFiniteSet(Nodes) /\ C \in Nat
  <2>1. RawPages \in Int /\ RawPages * Regions - 1 \in Int
    BY HeapAssumption, SMTT(30)
  <2>2. IsFiniteSet(Nodes)
    BY <2>1, FS_Interval DEF Nodes, Pages
  <2> QED
    BY <2>2, FS_CardinalityType
<1>3. IsFiniteSet(InTree) /\ Cardinality(InTree) <= C
  BY <1>2, FS_Subset DEF InTree
<1>4. Levels(Nil, left, right, t, C, level)
  <2>1. \E f : Levels(Nil, left, right, t, C, f)
    BY <1>2, LevelsExist
  <2> QED
    BY <2>1 DEF Levels, NextLevel
<1> HIDE DEF C, level
<1>5. level[C] = s[t]
  BY <1>2, <1>3, <1>4, TreapStrict, LevelsReach DEF Treap
<1> QED
  BY <1>1, <1>5

(* What InTree and Below say when the lock is free, and more: while a      *)
(* chunk is looked for, and while the regions of a new one are entered,    *)
(* the treap is whole too.                                                 *)
LEMMA WholeTreap ==
  ASSUME Control, Trees, At \notin {"remove", "up"}
  PROVE  /\ InTree = Below(root)
         /\ root # Nil => parent[root] = Nil
         /\ \A n \in InTree :
              /\ \A m \in {left[n], right[n]} \ {Nil} : parent[m] = n /\ prio[n] <= prio[m]
              /\ \A m \in Below(left[n]) : Before(ChunkOf(m), ChunkOf(n))
              /\ \A m \in Below(right[n]) : Before(ChunkOf(n), ChunkOf(m))
<1>1. Links /\ \A n \in InTree : Edge(n)
  BY DEF Trees, HeapInv
<1>2. PICK s : Treap(s)
  BY DEF Trees, TreapInv
<1>3. root \in InTree \cup {Nil} /\ s[root] = InTree
  BY <1>2 DEF Treap, SearchTree, Shape, Hung
<1>4. InTree = Below(root)
  BY <1>1, <1>2, <1>3, BelowIs
<1>5. root # Nil => parent[root] = Nil
  BY <1>1, <1>2, <1>3, TreapStrict, Node DEF Treap
<1>6. ASSUME NEW n \in InTree
      PROVE  /\ \A m \in {left[n], right[n]} \ {Nil} : parent[m] = n /\ prio[n] <= prio[m]
             /\ \A m \in Below(left[n]) : Before(ChunkOf(m), ChunkOf(n))
             /\ \A m \in Below(right[n]) : Before(ChunkOf(n), ChunkOf(m))
  <2>1. /\ left[n] \in InTree \cup {Nil} /\ right[n] \in InTree \cup {Nil} /\ n # Nil
        /\ s[left[n]] \subseteq InTree /\ s[right[n]] \subseteq InTree
        /\ left[n] # Nil => parent[left[n]] = n
        /\ right[n] # Nil => parent[right[n]] = n
    BY <1>1, <1>2, TreapStrict, Node DEF Treap
  <2>2. Below(left[n]) = s[left[n]] /\ Below(right[n]) = s[right[n]]
    BY <1>1, <1>2, <2>1, BelowIs
  <2>3. /\ \A m \in s[left[n]] : << m, n >> \in Ord(npagesKey)
        /\ \A m \in s[right[n]] : << n, m >> \in Ord(npagesKey)
    BY <1>2 DEF Treap, SearchTree, Sorted
  <2>4. InTree \subseteq Nodes
    BY DEF InTree
  <2>5. /\ \A m \in s[left[n]] : Before(ChunkOf(m), ChunkOf(n))
        /\ \A m \in s[right[n]] : Before(ChunkOf(n), ChunkOf(m))
    BY <2>1, <2>3, <2>4, ChunkOrd
  <2>6. \A m \in {left[n], right[n]} \ {Nil} : parent[m] = n /\ prio[n] <= prio[m]
    BY <1>1, <2>1 DEF Edge
  <2> QED
    BY <2>2, <2>5, <2>6
<1> QED
  BY <1>4, <1>5, <1>6

(* Whenever the lock is free the treap is whole, for any number of chunks: *)
(* every node hangs below the root and knows its parent, the chunks are in *)
(* order and no priority is lower than the parent's (trees.go:37).         *)
THEOREM TreapIsWhole ==
  ASSUME HintKept
  PROVE  Spec => []TreapOK
<1>1. HeapInvariant => TreapOK
  BY WholeTreap, Zenon DEF HeapInvariant, TreapOK, At
<1> QED
  BY <1>1, HeapAlways, PTL
=============================================================================
