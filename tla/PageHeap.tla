------------------------------ MODULE PageHeap ------------------------------
(***************************************************************************)
(* The page heap of xmm: free chunks of pages in a treap (trees.go), grown *)
(* from a linear allocator (linear_alloc.go) in regions of RawPages pages, *)
(* handed to spans and taken back when the sweep finds a large object      *)
(* freed.  heap.lock covers the treap, the linear allocator and the table  *)
(* of regions; the step that points the pages of a new span at it          *)
(* (setSpans) comes after the lock is given back.                          *)
(*                                                                         *)
(* An address is a page number.  A loop of the treap is one step a round;  *)
(* its cursor and the like are kept once, for the holder of the lock.      *)
(* A node is named by the first page of its chunk; what is out of the tree *)
(* is not looked at again.  npagesKey and chunk.npages are one, since      *)
(* nothing changes a chunk while it is in the tree.  Small spans never     *)
(* give their pages back; here they are the ones that are never swept.     *)
(***************************************************************************)
EXTENDS Naturals, FiniteSets

CONSTANTS
  Procs,       \* the goroutines
  NoProc,      \* heap.lock is free
  RawPages,    \* pages of a region (pagesPerRawMemory)
  Regions,     \* regions of the address space, the one of address 0 included
  ArenaSizes,  \* pages that a reservation can have
  Needs,       \* numbers of pages that callers ask for
  Prios,       \* values of rand.Uint32
  HintKept,    \* TRUE: the kernel reserves where it is asked to, or refuses
  MaxChunks,   \* bound: free chunks beyond which no span is swept
  MaxFails     \* bound: requests for memory that fail without need

ASSUME HeapAssumption ==
  /\ RawPages \in Nat \ {0} /\ Regions \in Nat \ {0}
  /\ \A s \in ArenaSizes : s \in Nat \ {0} /\ s % RawPages = 0
  /\ Needs \subseteq Nat \ {0} /\ Prios \subseteq Nat
  /\ NoProc \notin Procs /\ HintKept \in BOOLEAN /\ MaxChunks \in Nat /\ MaxFails \in Nat

VARIABLES
  root, left, right, parent, prio, npagesKey,  \* the treap
  cursor,    \* the node that the loop under way is at
  last,      \* the node that the loop remembers (best of find, last of insert)
  item,      \* the chunk to insert
  then,      \* where insert returns to
  next, end, \* the linear allocator: next free page, end of what it reserved
  reserved,  \* pages that the kernel gave to the linear allocators
  regions,   \* the regions that addrMap knows
  spans,     \* spans[g]: the span of page g, named by its first page
  live,      \* the chunks of spans in use
  lost,      \* history: pages of the heap that an error left with nobody
  fails,     \* history: requests for memory that failed without need
  lock, pc,
  need,      \* the pages a goroutine asks for
  got        \* the chunk cut for a goroutine

tree == << root, left, right, parent, prio, npagesKey >>
loop == << cursor, last, item, then >>
linear == << next, end, reserved >>
proc == << lock, pc, need, got >>
vars == << tree, loop, linear, regions, spans, live, lost, fails, proc >>

Pages == RawPages .. RawPages * Regions - 1
Nodes == Pages
Nil == 0
NoChunk == [start |-> 0, npages |-> 0]

PagesOf(c) == c.start .. c.start + c.npages - 1
InTree == {n \in Nodes : npagesKey[n] # 0}
ChunkOf(n) == [start |-> n, npages |-> npagesKey[n]]
Before(c, d) == c.npages < d.npages \/ (c.npages = d.npages /\ c.start < d.start)

(* Slip: a chunk begins where the last one ended. *)
NotRounded(x) == x

(* round: a new chunk begins at the start of a region. *)
RoundUp(x) == ((x + RawPages - 1) \div RawPages) * RawPages
GrowSize(n) == IF n < RawPages THEN RawPages ELSE n
RegionsOf(c) == {g \div RawPages : g \in PagesOf(c)}

(* mmap reserves size pages at base, which nobody else has. *)
Reservable(base, size) ==
  base % RawPages = 0 /\ base .. base + size - 1 \subseteq Pages \ reserved
Reserve(base, size) ==
  Reservable(base, size) /\ reserved' = reserved \cup base .. base + size - 1

-----------------------------------------------------------------------------
Init ==
  /\ root = Nil
  /\ left = [n \in Nodes |-> Nil] /\ right = [n \in Nodes |-> Nil]
  /\ parent = [n \in Nodes |-> Nil] /\ prio = [n \in Nodes |-> 0]
  /\ npagesKey = [n \in Nodes |-> 0]
  /\ cursor = Nil /\ last = Nil /\ item = NoChunk /\ then = "idle"
  /\ \E base \in Pages, size \in ArenaSizes :
       /\ base % RawPages = 0 /\ base + size - 1 \in Pages
       /\ next = base /\ end = base + size /\ reserved = base .. base + size - 1
  /\ regions = {} /\ spans = [g \in Pages |-> 0]
  /\ live = {} /\ lost = {} /\ fails = 0
  /\ lock = NoProc /\ pc = [p \in Procs |-> "idle"]
  /\ need = [p \in Procs |-> 0] /\ got = [p \in Procs |-> NoChunk]

Goto(p, l) == pc' = [pc EXCEPT ![p] = l]
ResetLoop == cursor' = Nil /\ last' = Nil /\ item' = NoChunk /\ then' = "idle"

(* The call ends with nothing in the hands of p. *)
Leave(p) ==
  /\ Goto(p, "idle")
  /\ lock' = NoProc
  /\ need' = [need EXCEPT ![p] = 0]
  /\ got' = [got EXCEPT ![p] = NoChunk]

(* A request for memory fails that might have been met. *)
Fail == fails < MaxFails /\ fails' = fails + 1

-----------------------------------------------------------------------------
(* freeChunk, called by allocSpan and allocRawSpan.                        *)

AllocLock(p) ==
  /\ pc[p] = "idle" /\ lock = NoProc
  /\ \E n \in Needs : need' = [need EXCEPT ![p] = n]
  /\ lock' = p
  /\ cursor' = root
  /\ Goto(p, "find")
  /\ UNCHANGED << tree, last, item, then, linear, regions, spans, live, lost, got, fails >>

(* Slip: find stops going left at a chunk of the very size. *)
FindStepExact(p) ==
  /\ pc[p] = "find" /\ cursor # Nil
  /\ IF npagesKey[cursor] >= need[p]
     THEN last' = cursor /\ cursor' = IF npagesKey[cursor] = need[p] THEN Nil ELSE left[cursor]
     ELSE cursor' = right[cursor] /\ UNCHANGED last
  /\ UNCHANGED << tree, item, then, linear, regions, spans, live, lost, proc, fails >>

(* find goes left where the chunk is large enough, also if it fits exactly. *)
FindStep(p) ==
  /\ pc[p] = "find" /\ cursor # Nil
  /\ IF npagesKey[cursor] >= need[p]
     THEN last' = cursor /\ cursor' = left[cursor]
     ELSE cursor' = right[cursor] /\ UNCHANGED last
  /\ UNCHANGED << tree, item, then, linear, regions, spans, live, lost, proc, fails >>

(* A miss grows the heap; a second one (the new chunk was dropped) is the  *)
(* error that freeChunk returns.                                           *)
FindMiss(p) ==
  /\ pc[p] = "find" /\ cursor = Nil /\ last = Nil
  /\ IF then = "grown"
     THEN Leave(p) /\ then' = "idle"
     ELSE Goto(p, "grow") /\ UNCHANGED << then, lock, need, got >>
  /\ UNCHANGED << tree, cursor, last, item, linear, regions, spans, live, lost, fails >>

FindHit(p) ==
  /\ pc[p] = "find" /\ cursor = Nil /\ last # Nil
  /\ cursor' = last
  /\ last' = Nil
  /\ then' = "idle"
  /\ Goto(p, "remove")
  /\ UNCHANGED << tree, item, linear, regions, spans, live, lost, lock, need, got, fails >>

-----------------------------------------------------------------------------
(* The rotations.  Their error branches (a node that is not its parent's   *)
(* child) are ignored by the callers and are not reached.                  *)

(* p -> (x a (y b c)) becomes p -> (y (x a b) c). *)
RotateLeft(x) ==
  LET y == right[x]
      p == parent[x]
      b == left[y]
  IN /\ left' = [n \in Nodes |->
           IF n = y THEN x ELSE IF n = p /\ left[n] = x THEN y ELSE left[n]]
     /\ right' = [n \in Nodes |->
           IF n = x THEN b ELSE IF n = p /\ left[n] # x THEN y ELSE right[n]]
     /\ parent' = [n \in Nodes |->
           IF n = y THEN p ELSE IF n = x THEN y ELSE IF n = b THEN x ELSE parent[n]]
     /\ root' = IF p = Nil THEN y ELSE root
     /\ UNCHANGED << prio, npagesKey >>

(* Slip: the subtree that changes sides keeps its old parent. *)
RotateRightKeepsParent(y) ==
  LET x == left[y]
      p == parent[y]
      b == right[x]
  IN /\ right' = [n \in Nodes |->
           IF n = x THEN y ELSE IF n = p /\ left[n] # y THEN x ELSE right[n]]
     /\ left' = [n \in Nodes |->
           IF n = y THEN b ELSE IF n = p /\ left[n] = y THEN x ELSE left[n]]
     /\ parent' = [n \in Nodes |->
           IF n = x THEN p ELSE IF n = y THEN x ELSE parent[n]]
     /\ root' = IF p = Nil THEN x ELSE root
     /\ UNCHANGED << prio, npagesKey >>

(* p -> (y (x a b) c) becomes p -> (x a (y b c)). *)
RotateRight(y) ==
  LET x == left[y]
      p == parent[y]
      b == right[x]
  IN /\ right' = [n \in Nodes |->
           IF n = x THEN y ELSE IF n = p /\ left[n] # y THEN x ELSE right[n]]
     /\ left' = [n \in Nodes |->
           IF n = y THEN b ELSE IF n = p /\ left[n] = y THEN x ELSE left[n]]
     /\ parent' = [n \in Nodes |->
           IF n = x THEN p ELSE IF n = y THEN x ELSE IF n = b THEN y ELSE parent[n]]
     /\ root' = IF p = Nil THEN x ELSE root
     /\ UNCHANGED << prio, npagesKey >>

-----------------------------------------------------------------------------
(* removeNode: the node goes down until it is a leaf. *)

GoesRight(t) == right[t] = Nil \/ (left[t] # Nil /\ prio[left[t]] < prio[right[t]])

RemoveRotate(p) ==
  /\ pc[p] = "remove"
  /\ left[cursor] # Nil \/ right[cursor] # Nil
  /\ IF GoesRight(cursor) THEN RotateRight(cursor) ELSE RotateLeft(cursor)
  /\ UNCHANGED << loop, linear, regions, spans, live, lost, proc, fails >>

(* Node t, a leaf, leaves the tree. *)
Unlink(t) ==
  /\ root' = IF parent[t] = Nil THEN Nil ELSE root
  /\ left' = [n \in Nodes |-> IF left[n] = t THEN Nil ELSE left[n]]
  /\ right' = [n \in Nodes |-> IF right[n] = t THEN Nil ELSE right[n]]
  /\ parent' = [parent EXCEPT ![t] = Nil]
  /\ prio' = [prio EXCEPT ![t] = 0]
  /\ npagesKey' = [npagesKey EXCEPT ![t] = 0]

Cut(c, n) == [start |-> c.start, npages |-> n]

Rest(c, n) == [start |-> c.start + n, npages |-> c.npages - n]

(* The chunk found is cut; what is left of it goes back to the treap. *)
RemoveLeaf(p) ==
  LET c == ChunkOf(cursor) IN
  /\ pc[p] = "remove"
  /\ left[cursor] = Nil /\ right[cursor] = Nil
  /\ Unlink(cursor)
  /\ got' = [got EXCEPT ![p] = Cut(c, need[p])]
  /\ need' = [need EXCEPT ![p] = 0]
  /\ IF c.npages = need[p]
     THEN Goto(p, "set") /\ lock' = NoProc /\ ResetLoop
     ELSE /\ Goto(p, "insert")
          /\ item' = Rest(c, need[p])
          /\ cursor' = root'
          /\ then' = "set"
          /\ UNCHANGED << last, lock >>
  /\ UNCHANGED << linear, regions, spans, live, lost, fails >>

-----------------------------------------------------------------------------
(* insert: down to the place of the new leaf, then up by priority.  The    *)
(* error for a chunk that is in the treap already is not reached.          *)

InsertDown(p) ==
  /\ pc[p] = "insert" /\ cursor # Nil
  /\ last' = cursor
  /\ \/ Before(ChunkOf(cursor), item) /\ cursor' = right[cursor]
     \/ Before(item, ChunkOf(cursor)) /\ cursor' = left[cursor]
  /\ UNCHANGED << tree, item, then, linear, regions, spans, live, lost, proc, fails >>

InsertLeaf(p) ==
  /\ pc[p] = "insert" /\ cursor = Nil
  /\ \E t \in Nodes \ InTree, r \in Prios :
       /\ t = item.start
       /\ root' = IF last = Nil THEN t ELSE root
       /\ left' = [n \in Nodes |->
            IF n = last /\ Before(item, ChunkOf(n)) THEN t ELSE left[n]]
       /\ right' = [n \in Nodes |->
            IF n = last /\ Before(ChunkOf(n), item) THEN t ELSE right[n]]
       /\ parent' = [parent EXCEPT ![t] = last]
       /\ prio' = [prio EXCEPT ![t] = r]
       /\ npagesKey' = [npagesKey EXCEPT ![t] = item.npages]
       /\ cursor' = t
  /\ last' = Nil
  /\ Goto(p, "up")
  /\ UNCHANGED << item, then, linear, regions, spans, live, lost, lock, need, got, fails >>

Rises(t) == parent[t] # Nil /\ prio[parent[t]] > prio[t]

InsertUp(p) ==
  /\ pc[p] = "up" /\ Rises(cursor)
  /\ IF left[parent[cursor]] = cursor
     THEN RotateRight(parent[cursor])
     ELSE RotateLeft(parent[cursor])
  /\ UNCHANGED << loop, linear, regions, spans, live, lost, proc, fails >>

(* insert returns: to grow2, with the new chunk still to be entered in     *)
(* addrMap, or to freeChunk or ChunkInsert, which give the lock back.      *)
InsertDone(p) ==
  /\ pc[p] = "up" /\ ~ Rises(cursor)
  /\ Goto(p, then)
  /\ IF then = "map"
     THEN UNCHANGED << loop, lock >>
     ELSE ResetLoop /\ lock' = NoProc
  /\ UNCHANGED << tree, linear, regions, spans, live, lost, need, got, fails >>

(* No memory for the node: insert fails and the chunk is in no tree.  A    *)
(* cut chunk is dropped with the pages already cut from it; grow2 ignores  *)
(* the error and goes on.  A large object's span stays on the full list    *)
(* with its mark (heap.go:382) and a later sweep tries again: to the pages *)
(* that is a sweep that has not begun.  Here they may be lost as well.     *)
InsertFails(p) ==
  /\ pc[p] = "insert" /\ cursor = Nil
  /\ Fail
  /\ lost' = lost \cup PagesOf(item) \cup (IF got[p] = NoChunk THEN {} ELSE PagesOf(got[p]))
  /\ IF then = "map"
     THEN /\ Goto(p, "map") /\ last' = Nil
          /\ UNCHANGED << cursor, item, then, lock, need, got >>
     ELSE Leave(p) /\ ResetLoop
  /\ UNCHANGED << tree, linear, regions, spans, live >>

-----------------------------------------------------------------------------
(* grow2.                                                                  *)

(* Slip: the size is not counted. *)
StartFits(p) == RoundUp(next) <= end

GrowFits(p) == RoundUp(next) + GrowSize(need[p]) <= end

(* The linear allocator has the pages: a region, or more if more are asked *)
(* for, from the next region boundary on.                                  *)
GrowAlloc(p) ==
  LET c == [start |-> RoundUp(next), npages |-> GrowSize(need[p])] IN
  /\ pc[p] = "grow" /\ GrowFits(p)
  /\ next' = c.start + c.npages
  /\ item' = c
  /\ cursor' = root
  /\ then' = "map"
  /\ Goto(p, "insert")
  /\ UNCHANGED << tree, last, end, reserved, regions, spans, live, lost, lock, need, got, fails >>

(* No memory for the chunk, or sysMap fails: grow2 fails with the pages    *)
(* taken from the linear allocator; they never enter the heap.             *)
GrowChunkFails(p) ==
  LET c == [start |-> RoundUp(next), npages |-> GrowSize(need[p])] IN
  /\ pc[p] = "grow" /\ GrowFits(p)
  /\ Fail
  /\ next' = c.start + c.npages
  /\ Leave(p) /\ ResetLoop
  /\ UNCHANGED << tree, end, reserved, regions, spans, live, lost >>

(* What the kernel may reserve for expand, which asks for it at end. *)
Offer == {r \in Pages \X ArenaSizes :
            Reservable(r[1], r[2]) /\ (HintKept /\ end # 0 => r[1] = end)}

(* Slip: what was trimmed to align the reservation is counted too. *)
GrowExpandUntrimmed(p) ==
  /\ pc[p] = "grow" /\ ~ GrowFits(p)
  /\ \E r \in Offer :
       /\ Reserve(r[1], r[2])
       /\ IF next = end
          THEN next' = r[1] /\ end' = r[1] + r[2] + RawPages
          ELSE end' = end + r[2] + RawPages /\ UNCHANGED next
  /\ UNCHANGED << tree, loop, regions, spans, live, lost, proc, fails >>

(* expand reserves more.  The size is added to end wherever the kernel put *)
(* it, unless the allocator was used up.                                   *)
GrowExpand(p) ==
  /\ pc[p] = "grow" /\ ~ GrowFits(p)
  /\ \E r \in Offer :
       /\ Reserve(r[1], r[2])
       /\ IF next = end
          THEN next' = r[1] /\ end' = r[1] + r[2]
          ELSE end' = end + r[2] /\ UNCHANGED next
  /\ UNCHANGED << tree, loop, regions, spans, live, lost, proc, fails >>

(* expand returns an error, also if only its first try failed: grow2 takes *)
(* a new linear allocator and ignores the error of its expand, which       *)
(* leaves it empty.                                                        *)
GrowAnew(p) ==
  /\ pc[p] = "grow" /\ ~ GrowFits(p)
  /\ IF Offer = {} THEN UNCHANGED fails ELSE Fail
  /\ \/ \E base \in Pages, size \in ArenaSizes :
          Reserve(base, size) /\ next' = base /\ end' = base + size
     \/ /\ \A base \in Pages, size \in ArenaSizes : ~ Reservable(base, size)
        /\ next' = 0 /\ end' = 0 /\ UNCHANGED reserved
  /\ UNCHANGED << tree, loop, regions, spans, live, lost, proc >>

(* The first k regions of the new chunk enter addrMap, each with a new     *)
(* table, whatever the address had before.                                 *)
MapRegions(c, k) ==
  LET new == {r \in RegionsOf(c) : r < c.start \div RawPages + k}
  IN /\ regions' = regions \cup new
     /\ spans' = [g \in Pages |-> IF g \div RawPages \in new THEN 0 ELSE spans[g]]

(* find is tried once more. *)
GrowMap(p) ==
  /\ pc[p] = "map"
  /\ MapRegions(item, Cardinality(RegionsOf(item)))
  /\ cursor' = root
  /\ item' = NoChunk
  /\ then' = "grown"
  /\ Goto(p, "find")
  /\ UNCHANGED << tree, last, linear, live, lost, lock, need, got, fails >>

(* No memory for the table of some region: the call fails, the chunk stays *)
(* in the treap without it.                                                *)
GrowMapFails(p) ==
  /\ pc[p] = "map"
  /\ Fail
  /\ \E k \in 0 .. Cardinality(RegionsOf(item)) - 1 : MapRegions(item, k)
  /\ Leave(p) /\ ResetLoop
  /\ UNCHANGED << tree, linear, live, lost >>

-----------------------------------------------------------------------------
(* setSpans and the rest of allocSpan, without heap.lock. *)

(* The pages of c that setSpans comes to: up to a region without a table.  *)
PagesSet(c) == {g \in PagesOf(c) : \A r \in RegionsOf(c) : r <= g \div RawPages => r \in regions}
PointPages(c) == spans' = [g \in Pages |-> IF g \in PagesSet(c) THEN c.start ELSE spans[g]]

SetSpans(p) ==
  /\ pc[p] = "set"
  /\ PagesSet(got[p]) = PagesOf(got[p])
  /\ PointPages(got[p])
  /\ live' = live \cup {got[p]}
  /\ got' = [got EXCEPT ![p] = NoChunk]
  /\ Goto(p, "idle")
  /\ UNCHANGED << tree, loop, linear, regions, lost, lock, need, fails >>

(* A region without a table is a nil pointer: setSpans panics, and a       *)
(* caller that recovers has no span.                                       *)
SetSpansPanics(p) ==
  /\ pc[p] = "set"
  /\ PagesSet(got[p]) # PagesOf(got[p])
  /\ PointPages(got[p])
  /\ lost' = lost \cup PagesOf(got[p])
  /\ got' = [got EXCEPT ![p] = NoChunk]
  /\ Goto(p, "idle")
  /\ UNCHANGED << tree, loop, linear, regions, live, lock, need, fails >>

(* sweepFullSpan finds the span of a large object freed and gives its      *)
(* pages back (ChunkInsert).  addrMap goes on pointing at the span.        *)
SweepLarge(p) ==
  /\ pc[p] = "idle" /\ lock = NoProc
  /\ Cardinality(InTree) < MaxChunks
  /\ \E c \in live : live' = live \ {c} /\ item' = c
  /\ cursor' = root
  /\ then' = "idle"
  /\ lock' = p
  /\ Goto(p, "insert")
  /\ UNCHANGED << tree, last, linear, regions, spans, lost, need, got, fails >>

-----------------------------------------------------------------------------
Find(p) == FindStep(p) \/ FindMiss(p) \/ FindHit(p)
Remove(p) == RemoveRotate(p) \/ RemoveLeaf(p)
Insert(p) == InsertDown(p) \/ InsertLeaf(p) \/ InsertUp(p) \/ InsertDone(p) \/ InsertFails(p)
Grow(p) ==
  GrowAlloc(p) \/ GrowChunkFails(p) \/ GrowExpand(p) \/ GrowAnew(p) \/ GrowMap(p) \/ GrowMapFails(p)
AllocSpan(p) == AllocLock(p) \/ SetSpans(p) \/ SetSpansPanics(p)

Next == \E p \in Procs :
  AllocSpan(p) \/ Find(p) \/ Remove(p) \/ Insert(p) \/ Grow(p) \/ SweepLarge(p)

Spec == Init /\ [][Next]_vars

-----------------------------------------------------------------------------
(* Properties.                                                             *)

TypeOK ==
  /\ root \in Nodes \cup {Nil} /\ cursor \in Nodes \cup {Nil} /\ last \in Nodes \cup {Nil}
  /\ {left, right, parent} \subseteq [Nodes -> Nodes \cup {Nil}]
  /\ prio \in [Nodes -> Prios \cup {0}]
  /\ npagesKey \in [Nodes -> Nat]
  /\ item \in [start : Pages \cup {0}, npages : Nat]
  /\ then \in {"idle", "set", "map", "grown"}
  /\ next \in Nat /\ end \in Nat /\ reserved \in SUBSET Pages
  /\ regions \in SUBSET (0 .. Regions)
  /\ spans \in [Pages -> Pages \cup {0}]
  /\ live \in SUBSET [start : Pages, npages : Needs]
  /\ lost \in SUBSET Pages /\ fails \in 0 .. MaxFails
  /\ lock \in Procs \cup {NoProc}
  /\ pc \in [Procs -> {"idle", "find", "remove", "insert", "up", "grow", "map", "set"}]
  /\ need \in [Procs -> Needs \cup {0}]
  /\ got \in [Procs -> [start : Pages \cup {0}, npages : Needs \cup {0}]]

(* The nodes from t down. *)
Below(t) ==
  LET level[k \in 0 .. Cardinality(Nodes)] ==
        IF k = 0 THEN {t} \ {Nil} ELSE
        LET up == level[k - 1]
        IN (up \cup {left[n] : n \in up} \cup {right[n] : n \in up}) \ {Nil}
  IN level[Cardinality(Nodes)]

(* Whenever the lock is free the treap is one: every node hangs below the  *)
(* root and knows its parent, smaller chunks are on its left and larger    *)
(* ones on its right, and no node has a lower priority than its parent.    *)
(* A rotation writes six links in the right order, or a later search       *)
(* misses a chunk that is there.                                           *)
TreapOK ==
  lock = NoProc =>
    /\ InTree = Below(root)
    /\ root # Nil => parent[root] = Nil
    /\ \A n \in InTree :
         /\ \A m \in {left[n], right[n]} \ {Nil} : parent[m] = n /\ prio[n] <= prio[m]
         /\ \A m \in Below(left[n]) : Before(ChunkOf(m), ChunkOf(n))
         /\ \A m \in Below(right[n]) : Before(ChunkOf(n), ChunkOf(m))

(* A Free of an address finds the span that the address lies in: all the   *)
(* pages of a span in use point at it, whatever was allocated there before *)
(* and while others allocate and give back.                                *)
SpanFound == \A c \in live : \A g \in PagesOf(c) : spans[g] = c.start

(* What the linear allocator takes for reserved is (linear_alloc.go:44).   *)
EndIsReserved == next .. end - 1 \subseteq reserved

(* The page heap keeps its promise: no page is in two hands, none is lost  *)
(* but by an error, and a request gets the smallest chunk that holds it,   *)
(* the lowest of those.                                                    *)
Pending == IF \E p \in Procs : pc[p] = "insert" THEN {item} ELSE {}
Store == INSTANCE PageStore WITH
  free <- {ChunkOf(n) : n \in InTree} \cup Pending,
  held <- live \cup ({got[p] : p \in Procs} \ {NoChunk})
PromiseKept == Store!Spec
=============================================================================
