# A TLA+ model of xmm

xmm is an off-heap memory allocator for Go: callers get pointers from `Alloc`,
`From`, `Copy2` and `RawAlloc` and give them back with `Free`. A size-class
allocator in the manner of Go's own runtime is built on chunks of pages that
come from `mmap`. Nothing is given back to the kernel. A `Free` sets a mark
bit; a sweep, run by whichever `Free` finds that enough was given back, turns
marks into free slots.

The code is concurrent almost everywhere and mostly lock-free by intent: Free
takes no lock at all, the walk over the spans of a size class takes none, and
the sweepers agree through three words that they swap. That is what the model
is about. Line numbers below and in `PROJECT.json` are those of `src/`.

## Inventory

| component | state | operations | who else touches it |
|---|---|---|---|
| **span** (`span.go`, `bit_map.go`, `class_span.go` freeSpan) | `freeIndex`, `allocCache`, `allocCount`, `allocBits`, `gcmarkBits`, lock | `freeOffset` (fast and slow), `setMarkBitsForIndex`, `freeSpan` | Alloc under the span lock, Free without, sweep partly under it |
| **sweep protocol** (`heap.go` free, needSweep, sweep) | `freeCapacity`, `sweepCtl`, `sweepIndex`, `sweepLastTime` | `mark`, `needSweep`, `sweep` | every goroutine that frees |
| **span pool** (`span_pool.go`) | per class: slice of spans, `spanGen`, lock | `Alloc`, `needExpendAsync`, `growSpan` (async, sync, remove head), `growClassSpan` | allocating goroutines, a goroutine started to grow |
| **span lists** (`class_span.go`, `common.go` mSpanList) | per class: `full`, `free`, `span.next` | `allocSpan`, `releaseSpan`, `freeSpan` with `insert`, `move`, `moveHead` | the pool releases and takes, the sweep walks and moves |
| **page heap** (`heap.go`, `trees.go`, `chunk.go`, `raw_linear_memory.go`) | the treap `freeChunks`, `addrMap`, lock | `freeChunk`, `grow2`, `ChunkInsert`, `setSpans` | spans are cut from it; the sweep of a large object returns its pages |
| **linear allocator** (`linear_alloc.go`) | `next`, `end`, `mapped` | `alloc`, `expand` | under `heap.lock` |
| **metadata pool** (`raw_memory.go`, `metadata_alloc.go`) | `index`, list of 256 MB blocks | `alloc`, alignment to a page | every header, bitmap, treap node, chunk |
| fixed and slice allocators (`metadata_alloc.go`) | chunk, free list | `alloc`, `grow` | hardly used |
| red-black tree (`entry.go`) | `root`; per entry `left`, `right`, `parent`, `color`, `Value` | `Put`, `Get`, `Delete` | exported, used by no other file; for one goroutine |
| size classes (`metadata.go`) | constant tables | class of a size, pages and slots of a span, index by magic division | pure; every Alloc and Free goes through them |
| strings and facade (`string_alloc.go`, `xmm.go`) | none | length arithmetic, call Alloc and Free | pure |

How they interact. `Alloc` of a small object walks a snapshot of the class's
slice and calls `freeOffset` on one span after the other. When the span it
used is three quarters full it starts a goroutine that appends another; when
it walked past the first span it moves that one to the class's full list; when
it found none it appends one itself and begins again. A new span is either the
head of the class's free list or is cut from the page heap. `Free` looks the
span of the address up in `addrMap`, adds the slot's size to `freeCapacity`,
sets the mark, and calls `needSweep`. A sweep claims size classes one by one
through `sweepIndex`, walks the full list of each, makes the marks of a full
span its new alloc bits, puts the span on the free list and takes it off the
full one; class 0 holds the large objects, whose pages go back to the treap.

What is hard, and where: a Free that resolved its mark array before a sweep
exchanged the arrays; two Frees in one 32-bit word; counts that are read
without the lock that guards them; a snapshot of the slice that is stale by
the time its user acts on it; several goroutines growing, sweeping or
finishing at once; errors in the middle of growth; the boundaries of words,
pages, regions and spans; long sequences of calls that bring a tree into a
shape no test builds. `PROJECT.json` lists each under `hazards` with its
line and the property that would catch it.

What makes each component correct:

- span: a slot has one owner; a mark once set stays until the sweep; the
  count never promises room that is not there; calls return.
- sweep protocol: one sweeper per class and round; `freeCapacity` never claims
  more than there is to take; a Free returns; `sweepCtl` tells the truth.
- span pool: no span is lost by a copied slice; a class grows once for one
  need; a removal loses at most the one slot that `isFull` looks ahead; an
  Alloc returns unless the class grows all the time.
- span lists: a released span stays on the full list until a sweep takes it.
- page heap: no page in two hands, none lost but by an error, best fit; the
  treap is one; all pages of a span in use lead back to it; only reserved
  pages are used.
- metadata pool: no two pieces share a byte; the mark bit of an object is its
  own.
- red-black tree: it is what a dictionary is, in any state; it is red-black
  between calls; each call returns.
- size classes: a size gets the smallest class that holds it, and each byte of
  a slot leads to that slot.

## Modules

| module | models | abstraction |
|---|---|---|
| `SlotAllocator` | what a span promises | a set of free slots and a set of held ones |
| `XSpan` | one span, every step of the three calls that race on it | bit arrays are sets with an identity |
| `XSpanHistory` | `XSpan` with the late marks and the failed swaps counted | history only |
| `XSpanProofs` | theorems about both | |
| `HeapSweep` | Free, needSweep and sweep | a class is one span, a span is its count of slots and marks, class 0 a number of large objects |
| `HeapSweepProofs` | theorems about it | |
| `SpanPool` | the slice of one class | a span is its count of slots; a recycled one comes partly used |
| `SpanPoolHistory` | `SpanPool` with what each Alloc had to look at | history only |
| `SpanPoolProofs` | theorems about both | |
| `ClassSpan` | the two lists of one class | a span is full or not, marked or not |
| `PageStore` | what the page heap promises | sets of free, held and lost chunks of pages |
| `PageHeap` | treap, growth, linear allocator, addrMap, setSpans | an address is a page number |
| `PageStoreProofs`, `PageHeapProofs` | theorems about them | |
| `SearchTrees` | binary trees with links to the parent: the lemmas of `PageHeapProofs` and `RBTreeProofs` on descents, rotations, leaves and removals | a tree is its links, as functions of the node |
| `MetadataPool` | alloc of the metadata pool | a block is a number, the kernel gives it or not |
| `MetadataPoolProofs` | a theorem about it | |
| `LargeObject` | on top of `MetadataPool`: the making of spans, and the bit that a large object's Free flips | a word is its lowest bit |
| `Dictionary` | what a search tree promises | a partial function from keys to values |
| `RBTree` | the red-black tree | a node is its key, left and right are one function |
| `RBTreeRounds` | `RBTree` with the rounds of a repair counted | history only |
| `RBTreeProofs` | theorems about both | |
| `SizeClasses` | the tables of size classes and the arithmetic on them | none |
| `MC...` | small instances for TLC | |

State and names follow the code: a variable has the name of the field it
stands for, `pc[p]` is where goroutine `p` is, and a definition that is not in
the code says in its comment what it is for. Variables marked *history* are
written and never read by a guard (except for the bounds named below). A
definition marked *Slip* is not part of any specification: it is the variant
of the definition after it that a plausible mistake in the code would give, and
is kept to show that the properties notice it.

**XSpan.** `freeOffset` is `AllocCheck` (the unlocked test of `freeIndex`,
span.go:208), then one critical section: `AllocFast`, `AllocFastMiss`,
`AllocSlow` or `AllocExhausted`. A Free is `FreeStart` (span.go:165, the array is resolved),
`FreeLoad`, and `FreeCas` or `FreeRetry` (bit_map.go:157). `freeSpan` is
`SweepCheck` (class_span.go:94, without the lock), `SweepLock`, `SweepSwap` or
`SweepSwapFails` (117 to 124) and `SweepRefill` (126). Arrays are never
given back, so an old array is written by a Free that resolved it long ago:
`BitArrays` are identities, a new array is one to which nothing refers.
`NElems`, `WordBits` and `MarkBits` are independent, so a slot can be in the
last, unfilled word, two slots can share a word of one bitmap and not of the
other.

**HeapSweep.** `MarkResolve`, `MarkAdd`, `MarkSet` (span.go:165 to 169);
`NeedCapacity`, `NeedTime`, `NeedLoad`, `Join`, `Lead` (needSweep, heap.go:264);
`ClaimLoad`, `ClaimSwap`, `SweepDone`, `Subtract`,
`EndLoad`, `EndSwap`, `ClearCtl`, `ClearIndex` (sweep, heap.go:300). `freeSpan`
is `SpanTest` (class_span.go:94, without the lock) and `SpanSweep` (102 to 119
and on); `SpanSweepFails` is the return at line 121: the marks are gone, the
span has no new ones, its slots are not in the sweep's total and sweep goes on
(heap.go:320). From then on the span is `broken`: whoever marks or counts there
panics (`MarkSet`, `SpanPanics`). `freeSpan` takes `allocCount`, a number of
slots, off `freeCapacity` before its second test (line 106), also when it then
sweeps nothing. Class 0 is swept by `LargeSweep` (heap.go:364): each object is
a span of its own, a Free of it adds nothing to `freeCapacity` (`allocRawSpan`
leaves `classSize` 0), its sweep adds whole pages to the total. The race
on `sweepLastTime` is undefined behaviour of a three-word value: `Tick` may
happen at any time. A helper that fails to join falls through to the swap that
makes a leader (heap.go:287), as the code does. Two goroutines that take one
large object (heap.go:368) are not modelled: `LargeSweep` is one step.

**SpanPool.** Each read or write of the slice, of `spanGen` and of the lock is
an action. `spanGen` counts generations; only whether it is `ExpendAsync`
matters, and the swap that compares an old generation succeeds or fails
freely, which covers every pair of generations. `GrowSkip` keeps the early
return that leaves `spanGen` alone (span_pool.go:230). `ExpendSyncFails` and
`GrowFails` are errors of `allocSpan`: no node, chunk, header or bitmap.
`MemoryRefused` is not one of these: when the kernel gives nothing, grow2 calls
itself again (heap.go:413) with the lock of the class and of the heap held, and
nobody gets them any more (`lock` = `Refused`) until the stack ends the program.

**ClassSpan.** `insert` is two steps, publish and link, as in common.go:140;
`move` takes the list's lock. `span.next` is one variable for both lists, as
it is one field. `growSpan` holds the lock of the class while it releases or
takes a span (`ClassUnlocked`), and one goroutine sweeps a class at a time,
which is what *ClaimedOnce* of `HeapSweep` says. A `move` that does not find
its span is `MoveSpins`: it has the lock, and goes on only when a link changes.

**PageHeap.** One round of a loop of the treap is one step, so that `find`,
the descent of `removeNode` and of `insert`, and the rotations upwards are the
code's, link by link. `RotateLeft` and `RotateRight` include the lines that
hang the node that rises where the other one was. `MapRegions` gives each
region of a new chunk a new table, as grow2 does without looking whether there
is one (heap.go:443), so *SpanFound* also says that regions never overlap.
Failures that the code handles are actions: the kernel refuses, a chunk, the
node of the rest of a chunk or the table of a region cannot be allocated,
`sysMap` fails. The sweep of a large object for which `ChunkInsert` fails leaves
the span on the full list with its mark, and a later sweep tries again
(heap.go:382): to the pages that is a `SweepLarge` that has not begun. The model
also lets them be lost (`InsertFails`), which is more than the code does.
`HintKept` says whether the kernel reserves where it is asked to or refuses;
Linux does that as long as the range above is not taken, but nothing obliges it,
since mmap is called without MAP_FIXED (linear_alloc.go:71, 128). The run and
the theorems of `PageHeapProofs` assume it.

**MetadataPool, LargeObject.** `OnPage` and `Place` are `alignOf`
(raw_memory.go:143): the next offset, or the next page, or offset 0, which
makes `alloc` map a new block. `alignOf` moves the index before the block is
mapped, which `AllocFails` keeps. `LargeObject` takes its pieces from an
instance of `MetadataPool` that counts words: a span is made in three
allocations (header, mark bits, alloc bits), between which others allocate. A
bitmap of 0 slots takes no bytes (span_pool.go:118, bit_map.go:33), so it
begins where the next piece does.

**RBTree.** `Put` is one action up to `fixupPut` (`PutRoot`, `PutOver`,
`PutLeaf`), `Delete` one up to `fixupDelete`, and each round of a repair loop
is one: `FixupRecolor` and `FixupRotate` (cases 1 and 2 with 3),
`FixupDelete` (cases 1 to 4), `FixupSpin` (no sibling, entry.go:641 and 675)
and the two ends. The mirrored halves of each function are one, with the
direction as a parameter. `EntryColors` says which colours the entries of
callers have: new ones are red, as `false` is, and one that came out of a
Delete keeps its colour. `clean` is history: it is lost when a Delete leaves
out the repair (entry.go:618) or a black entry is put, and comes back when the
tree is empty.

**XSpanHistory, SpanPoolHistory, RBTreeRounds.** Each adds history variables to
the module it extends: every action is one of that module with a record of it,
so each behaviour is one of the component (lemmas `HistoryLooksOn`,
`RoundsLookOn`). The records turn questions that otherwise need liveness, "does
the loop end", into ones that each state answers, "has it made more rounds than
that". `late` counts the Frees whose swap came after a sweep's recount
(class_span.go:105), up to the slots of the span, which is where the count stops
saying anything; `retries[p]` the failed swaps of bit_map.go:157 in this Free;
`known[p]` the spans of the class when Alloc of `p` loaded the slice; `rounds`
the rounds of the running repair, but those that find no sibling, which may be
any number. No guard reads them and no action adds a condition of its own, so a
behaviour of the component has a record too; this direction is plain from the
definitions and is not stated as a theorem.

**SizeClasses.** The tables of metadata.go:68 to 80. It has no variables: its
four named assumptions are evaluated whenever `MCSpanPool` is. They say that the
class of a size is the best one, that a span has a slot, that division by
multiplying gives the right slot for each byte of each slot, and that it
does not wrap.

**Composition.** `HeapSweep` counts what `XSpan` shows slot by slot, and
`SpanPool` takes the promise of `XSpan` (a slot while the count allows:
`NoPhantomRoom`, theorem `RoomIsReal`) for granted; `LargeObject` says when the mark that
`PageHeap`'s `SweepLarge` relies on is the object's; `SizeClasses` has the
values of `SpanBytes` and `ClassSize` of `SpanPool`: 22 of the 66 classes fill
their span exactly, 8 of them with a single slot. The three refinements are
`XSpan` of `SlotAllocator` with `free <- Candidates`, and `PageHeap` of
`PageStore` with `free` the chunks in the treap or about to be, `held` the
chunks cut or in spans, and `RBTree` of `Dictionary` with `map` what a lookup
finds.

## Runs

Six runs pass. Their bounds are in the `.cfg` files.

- **xspan_safety** (3.2 million states, `XSpanHistory`). Two goroutines, three
  slots, words of two bits, four arrays. *NoDoubleAlloc*, *OnePlace*,
  *NoPhantomRoom*, *MarksKept*, the refinement *PromiseKept*, and of the
  history *LossBounded* (no more slots are lost than marks came late) and
  *FewRetries* (a Free tries its swap at most as often as its word has bits). Three slots in words of two
  give a full word, a half one, a refill in between and a word of marks shared
  by two slots. With two goroutines at most four arrays are referenced (the alloc bits,
  the marks, one for each Free), so four identities stand for any number of
  sweeps: nothing else bounds the run. Goroutines are symmetric.
- **xspan_liveness**. *CallsReturn* with errors of `newMarkBits` allowed and
  two slots: a failed sweep gives the lock back and nobody retries for ever.
- **heap_sweep** (317 thousand states). Two goroutines, two classes (the large
  objects and one of slots), two slots in each, at most `MaxFrees` = 3 calls of
  Free, `newMarkBits` failing in any sweep. *ClaimedOnce*,
  *NeverOverclaims*, *FreeReturns*. Three Frees are enough for a sweep, a
  helper, a mark that misses the swap, and a second round. `MaxHelpers` = 2
  instead of 68 lets `sweepCtl` get back to 0 by counting, which *TypeOK*
  watches. Deadlock is not checked because `MaxFrees` ends a behaviour. Two
  rounds at a time, after a leader that came late has reset the count
  (heap.go:287), need four goroutines: the run does not reach them. The
  theorems of `HeapSweepProofs` hold for any number of goroutines.
- **span_pool** (159 thousand states, `SpanPoolHistory`). Two goroutines, three
  slots that fill their span, three spans (`MaxSpans`). *NoSpanLost*,
  *OneSpare*, *ReleasedIsFull* (a span on the full list has no slot left, or the
  one that `isFull` looks ahead), *ReturnsOrGrows*, and of the history
  *GrowsForNeed* (who asks for a span has overlooked no slot but that one) and
  *AgainMeansGrown* (who starts again has a span more to look at). Three spans
  are a head to remove, one to use and one that a concurrent growth appends.
  *ReturnsOrGrows* says that an Alloc returns as long as no span comes: it is
  about the numbers of spans below `MaxSpans`, so that the end of growth is not
  what makes it true. That others use up each new span first, for ever
  (span_pool.go:170), is possible, and the property leaves it so. Deadlock is
  not checked: a kernel that refuses memory stops every goroutine of the class.
- **page_heap** (1.8 million states). Two goroutines, three regions of two
  pages, reservations of two or four pages, requests for one page and for
  three (a part of a region, more than a region), two priorities, at most
  `MaxChunks` = 3 free chunks before a sweep and `MaxFails` = 1 failure that
  was not forced by lack of space. *TreapOK*, *SpanFound*, *EndIsReserved*,
  *PromiseKept*. Three chunks are every shape of a tree of three, and equal
  priorities are included. The kernel honours hints here.
- **rb_tree** (75 thousand states, `RBTreeRounds`). One goroutine, all trees of eight keys that
  Put and Delete reach as long as they are clean, and of five keys when they
  are not (`UncleanKeys`). *TreeOK*, *RedBlackOK*, *RepairsEnd*, the
  refinement *PromiseKept*, and of the rounds *FewRounds* (fewer than half the
  entries) and *TurnsOnce* (the round that rotates is the last). Eight nodes are the first tree in which the
  repair of Put climbs two levels and then rotates. The loop of Delete's repair
  (entry.go:622) runs in unclean trees only: in a red-black tree the child that
  follows a black node is red, so the loop ends at once, and the repair that is
  missing at entry.go:618 is the one that would be needed. In unclean trees of
  five keys the loop takes each of its four cases. Two values, of
  which one is under one key at a time (`Usual`), are enough to see a value
  move, since the code never looks at one. *TreeOK* and *PromiseKept* are
  checked of unclean trees too: leaving out a repair costs balance, and
  termination, but no entry.

Six runs show that the code does something else than its comments or README
say. Each is a finding in `PROJECT.json`, with the quoted line.

- **xspan_lost_slot**: a Free that resolved its array before a sweep sets its
  bit in the alloc bits; the slot is neither handed out nor marked. This is
  the only thing that the race costs: *OnePlace* holds.
- **heap_sweep_ctl**: a sweep that reclaims nothing returns early and leaves
  `sweepCtl` negative: nothing is swept again.
- **class_span_lists**: the swept span is put on the free list first, which
  overwrites `next`; the spans behind it drop off the full list. One
  goroutine is enough.
- **class_span_move**: where a span is on both lists, Alloc can take it from
  the free list and release it again during a sweep. `insert` clears its
  `next` before it has the lock; the span behind it, which the sweep is about
  to move, is cut off, and `move` searches for it for ever, with the lock of
  the list. Two goroutines and two spans. The run does not check for
  deadlock, since that is where such a system stops.
- **large_object**: the sweep takes a large object from its user when the next
  thing allocated is the alloc bits of a span, all of them set, or a span
  header whose mutex is locked.
- **rb_tree_delete**: a Delete whose black node has no child is not repaired;
  after some of these a Delete that does repair finds no sibling, and spins for
  ever. Six keys and red entries only, eleven calls.

Two more things were met on the way and are hazards. `setMarked` flips the bit
(bit_map.go:158), so a second Free of a slot takes the first one back; callers
of `XSpan` free once. And `isFull` looks one slot ahead (span.go:117), so in a
class that fills its span exactly a goroutine with an old snapshot releases a
head that has a slot left, against span_pool.go:159 (what is before `idex` is
used up, delete the full ones). No later Alloc walks that span, and a sweep
skips one whose `allocCount` is below `nelems` (class_span.go:98), so not the
slot alone but the whole span is out of use for good, unless a goroutine with a
snapshot that has it takes the slot. In the states of **span_pool** this
happens: *ReleasedIsFull* with 0 in the place of `Slack` is violated there.

One divergence of words is outside what a run can show: `docs/XMM-QA.md:33`
gives 75% as the threshold of a sweep, `common.go:78` sets `TotalGCFactor` to
0.0004. In the model it is the constant `Threshold`.

## Bounds

`MaxFrees`, `MaxSpans`, `MaxChunks`, `MaxFails`, `MaxPieces`, `UncleanKeys` and
`Usual` are bounds of the model and not of the code. `MaxFrees` and `MaxSpans` end a behaviour;
`MaxChunks` disables only the sweep; `MaxFails` counts failures that have no
cause in the state (the ones that do have a cause are not bounded);
`MaxPieces` ends the pool; `UncleanKeys` and `Usual` keep keys and values out
of Put. `MaxHelpers`, `NClasses`, `NElems`, `WordBits`,
`MarkBits`, `RawPages`, `PageWords`, `BlockWords` are numbers of the code made
small.

## Fairness

- `XSpan!FairSpec`, `SpanPool!Fairness`: strong fairness of a goroutine that
  is inside a call (`MemoryRefused` is the kernel's and has none). Every step but taking a lock stays enabled once it is, so
  strong and weak fairness agree there; for the lock, `sync.Mutex` turns to
  starvation mode after a millisecond and hands the lock to the waiter. No
  call is ever begun of necessity. `FreeCas` may be overtaken, but every
  round that fails means that another Free set its bit, and there are finitely
  many bits: that is what *CallsReturn* checks, not what fairness assumes.
- `HeapSweep!FairSpec`: weak fairness of a goroutine inside Free. No lock is
  taken in what it models.
- `ClassSpan!FairSpec`: strong fairness of a goroutine that is at work on the
  lists, as for `XSpan`. It has no part in what class_span_move shows: the
  goroutine in `move` takes steps, but none of them changes anything.
- `RBTree!FairSpec`, `RBTreeRounds!FairRoundsSpec`: weak fairness of `Fixup`: a
  call that repairs goes on. The tree is for one goroutine, so nothing else
  runs meanwhile.

Go's scheduler preempts and runs every runnable goroutine in the end, which is
what all of them rest on.

## Proofs

The theorems hold for every number of goroutines, slots, word sizes, classes
and spans that the `ASSUME`s allow.

**XSpanProofs.** `TypeCorrect` needs *SpanInv*: the type, *LockInv* (who is at
`swap` or `refill` holds the lock, and only that goroutine), *CacheInv* (the
cache has no bit beyond the current word) and *FreeInv* (a Free that runs has
a slot and an array). Without *CacheInv* the fast path could hand out a slot
past the word, and `freeIndex` could pass the end. `NeverDoubleAlloc`,
`AlwaysOnePlace`, `MarksAreKept` and `SpanKeepsPromise` need *SafeInv*, which
adds *MarkInv*: the mark array is not the alloc array, and a running Free has
not set its bit yet in whatever array it is about to set it. The argument is
that every slot is in one of four places, and each action moves one slot from
one place to another; the swap of the arrays moves all marks to the candidates
at once. They assume that `newMarkBits` does not fail inside a sweep
(`~ MmapFails`), since then the marks are nil. That callers free a slot once is
part of the model: `FreeStart` takes a slot that its caller holds.

`RoomIsReal` (*NoPhantomRoom*) adds *CountInv*: from a sweep's recount to its
swap the marks can only get more. Each hand-out takes one slot and counts one;
`SearchFindsAll` shows that when `nextFreeIndex` gives up there is no slot left
to count; a late mark can only add a candidate. These hypotheses are needed:
with `MmapFails = TRUE` in `XSpanSafety.cfg` TLC finds *NoDoubleAlloc*,
*OnePlace* and *NoPhantomRoom* violated, because the early return at
class_span.go:121 leaves a cache that does not belong to `freeIndex` 0.

`SweepLossBounded` (*LossBounded*) puts a number on what the finding
xspan_lost_slot costs: over any number of sweeps a span has lost at most as many
slots as marks came late. It adds *LateInv*: the span believes to have handed
out (`allocCount`) no more than what is held, on its way, marked, or was marked
late, and so does a sweep between its recount and its swap. The argument is that
a sweep takes over all marks that it counted, so only a mark that lands behind
the count can leave the sum; a slot that is nowhere is one that the count still
believes in. `FreeIsWaitFree` (*FewRetries*): the loop of `setMarked` ends after
fewer failed swaps than its word has bits, whatever others do. *RetryInv* says
why: a swap fails only when the word has got a mark since it was read, and marks
never leave an array that a running Free refers to (*MarksKept*, and a new array
is one that nobody refers to), so the marks seen are at least the failures. Both
assume `~ MmapFails` as the others do. This is the safety part of
*CallsReturn*: that each of these few rounds is taken is left to fairness.

**HeapSweepProofs.** `ClaimsAreSingle` (*ClaimedOnce*) and `CtlStaysDown`. The
invariant says that `claims` is 1 below `sweepIndex` and 0 from there on: a
claim is a swap from the value loaded, and only a reset goes down. `CtlStaysDown`
bounds the loaded values as well, since a swap writes one of them plus one.
`SweepTypes` (*TypeOK*) needs *Balance*: in each class, slots held, marks set,
and Frees on their way to set one in the bitmap in use are together no more
than `allocCount`. Without it a mark more than there are slots would make
`nelems - gcCount` negative. A sweep takes all marks of the class at once and
turns its pending Frees into late ones, which leave the sum; one that gets no
new bitmap does the same.
`PromiseIsCovered` (*NeverOverclaims*) adds the property itself, which is
inductive together with *Balance*: a Free moves its bytes from one term of the
sum to the next, a sweep moves those of a class into its total, and what no
sweep will ever take off (`lost`: late marks, the slots of a sweep without a new
bitmap, the total of a goroutine that panics) stays in the sum. It rests on
what a sum over a function is after one value has changed (`SumChange`), which
is proved of the fold of the community modules by taking a smallest set of
indices for which it would fail.

**SpanPoolProofs.** `PoolTypeCorrect`, `SpansAreKept`, `GrowsOnce`,
`ReleasesFullOnly`. The slice is always an interval of the spans in order of
creation, and every snapshot a goroutine walks is an earlier interval: what a
removal drops is the head of the current slice, and a growth appends after all
others. `ReleasesFullOnly` (*ReleasedIsFull*) is about every size of span and
slot: where the slots leave a remainder `isFull` is exact (`Slack` = 0), and
where they fill the span it is true one slot early (`IsFullNearly`); after the
removal the count only rises.

`GrowsOnlyForNeed` (*GrowsForNeed*) and `AgainOnlyIfGrown` (*AgainMeansGrown*),
for all sizes too, are about the two ways in which Alloc goes on when its snapshot has no slot. The invariant is *WalkedUp*:
of the spans there were when the slice was loaded, each is used up, on the full
list or still ahead in the snapshot. A head that another goroutine has removed
is on the full list, and by *ReleasedIsFull* it has no slot, or the one that
*GrowsForNeed* excepts. `expendSync` skips the growth only when the last span has
room (span_pool.go:242); those that were known and are still in the slice have
none, so that span is new.
So a goroutine that starts again does it because the class has grown in between:
no two goroutines can keep each other walking without a span more each time.

**MetadataPoolProofs.** `MetadataApart` (*PiecesApart*): what is cut later from
a block lies behind what was cut before. *PiecesApart* alone does not say where
the index is, so *PoolInv* adds *CutBefore*: the pieces of the last block end
at or before the index, and none is of a later block. Align never goes down,
and offset 0, the only place before the index that `alignOf` chooses, is in a
new block. The theorem assumes that the kernel gives each block (`~ MmapFails`):
otherwise the index has moved to the beginning of a block that is in use. It is
what `LargeObject` builds on: pieces overlap there only by having no words.

**PageStoreProofs.** `StoreApart` and `PagesAreKept`: in the abstract store no
page is in two chunks, nor in a chunk and lost, and no page that came in goes
out. They are proved of the four abstract operations, where a chunk is cut and
put back in one step.

**PageHeapProofs.** All of it is under `HintKept`, and says nothing of a kernel
that reserves elsewhere than asked. The first step is *EndIsReserved* (lemma
`EndStaysReserved`). *LinearInv* adds to it that `next` never passes `end`: an allocator at its end
takes a reservation wherever it lies, one in the middle adds to `end` without a
look at the address (linear_alloc.go:57), which is right only as the kernel
gave what was asked for. A chunk is cut from the next region boundary on
(`RoundUpUp`), so what is left is a part of what was reserved before. Without
`HintKept` the property is false (TLC finds it with `HintKept = FALSE` in
`PageHeap.cfg`), since `expand` does not compare the address it got with `end`.

The other theorems are about the heap as a whole, under the same assumption,
and have one inductive invariant, *HeapInvariant*. It has three layers. *Trees*
says that the links are one search tree with heap order, and what is still due
while the holder of the lock is in the middle: in `find` the cursor is the best
so far; while a node sinks or is about to be cut the tree is whole but for the
order of priorities at the cursor; while a new node rises it is the only one
that may be too light. *Bounds* keeps chunks, reservations and pages in the
address space. The rest says which chunk each goroutine has in its hands at
each `pc`, and that the pages of `live` spans lead to them through `addrMap`.
Page by page it cites the store: each step of the heap is a step of `PageStore`
or none (`HeapKeepsPromise`), so `StoreApart` gives that pages are apart before
and after (`HeapPagesApart`), and this is what `SpansAreFound` (*SpanFound*)
needs: `setSpans` writes only pages of the chunk it has, and a new region's
table is for pages that no span has. That `find` really returns the best fit
is the order of the tree: a chunk on the side not taken is too small, or not
as good as the one kept. `HeapTypes` is the type of all variables.
`TreapIsWhole` (*TreapOK*) states the tree by levels from the root, as the run
does, and is reduced to *Trees* by counting: as every node is reached through
its parents, each is within as many levels as there are nodes.

**SearchTrees.** What a rotation, a leaf put in place and a leaf taken off do
to a tree given by its links: the set below each node, the parents, and the
order. Each is stated for one side; the other is the same lemma with left and
right exchanged. `LeastNat` (a set of numbers has a least one) stands in for
induction in all modules: a statement about all levels or all finite sets is
proved by looking at a smallest counterexample.

**RBTreeProofs.** Everything `RBTree` is checked for but the end of its repairs,
for every finite set of integer keys, with no hypothesis on the callers: entries
may come in any colour and repairs may be left out. The inductive invariant is
*TreeInv* (`Inductive`), with four parts:

- *Good*, always: there is a function `s` (the nodes below each node) with which
  the links are a search tree of exactly the keys that have a value, *Whole*,
  and what is out of the tree has no links, *Loose*. It is what makes the
  refinement and *TreeOK* true in trees that are not balanced and in the middle
  of a repair. It is proved helper by helper: `Transplant`, `Rotate` and the two
  ways of `Without` each have a lemma that says link by link what changes, and
  `SearchTrees` says of such a change that the tree stays one.
- *RootBlack*: a root other than the node under repair is black. It holds in
  unclean trees too, and it is needed there: a red node with a red parent has a
  grandparent only because its parent is not the root, and without one the
  rotation of `fixupPut` would take `g` from nil.
- *Repairable*, in clean trees: *Balanced* (a black height for each node, no red
  below red) for `idle`; for `put` with one exception at the cursor, which is
  red; for `delete` of the tree in which the cursor, which is red or the root,
  has been made black. So the repair of Delete ends at its first test:
  `CleanDeleteEndsAtOnce`, which says that the rotations of `fixupDelete` run in
  trees only that have lost their balance already. `RedBlackKept` (*RedBlackOK*)
  is the `idle` case, and needs the other two to be inductive.
- *Typed*: from it and *Good* comes `Types` (*TypeOK*).

`Refines` (*PromiseKept*) maps `PutRoot`, `PutOver` and `PutLeaf` to the Put of
`Dictionary`, `Delete` to its Delete and every repair to no step; it rests on
`LookupIs`: `Lookup` finds exactly the keys of the tree, and where it finds
none it ends at the one place where the key may be hung. `Lookup`, `Minimum`,
`Walk` and `BlackHeights` are recursive functions of the number of steps or
levels. That such a function exists is `IterationExists`; that as many steps as
there are keys are enough is `IterationEnds` and `ByLevels`, since what is below
a child is fewer than what is below its parent (`FewerBelow`). `SearchTreeKept`
(*TreeOK*) then says that `Walk` lists the keys in order, each once
(`ListsJoin`), and `RedBlackKept` that all heights are the same number.

`RepairsAreShort` (*FewRounds*) and `RepairsTurnOnce` (*TurnsOnce*) are about the
loops themselves, with no hypothesis of balance: entries of any colour, repairs
left out. *RoundsInv* (`RoundsInductive`) says that below the cursor and with it
there are more than two nodes for each round made (*Climbed*), or that there is
nothing left for the repair to do (*NothingLeft*). A round of Put that goes on
moves the cursor to its grandparent, past two nodes (`TwoUp`); one of Delete
that goes on moves it to its parent, which has the sibling below it as well
(`SiblingUp`): case 2 is taken only where there is one. Every other round is the
last: case 2 with 3 of Put leaves the cursor below a black node
(`FixupRotateInv`), cases 3 and 4 of Delete end at the root, case 1 followed by
case 2 ends at a red parent (`DeleteRound`). What is left is the round without a
sibling: it leaves one without a sibling (`SpinRound`), which changes nothing and
is repeated for ever (`SpinsForEver`); from the other states with nothing left
the repair can only end (`NothingThenEnds`). So the proofs say that the finding
rb_tree_delete is the only way for a repair not to end, whatever the tree looks
like.

Only model-checked: `ClassSpan`, *NoSlotLost* and the other findings, and
everything about liveness (*CallsReturn*, *FreeReturns*, *ReturnsOrGrows*,
*RepairsEnd*): the prover has no rule for `ENABLED`, so nothing that rests on
fairness can be proved. What can be stated without fairness is:
*FewRetries*, *AgainMeansGrown* and *FewRounds* bound the loops that those
properties say are left. Every invariant, every action property and every
refinement that a passing run checks is proved.

## Not modelled

Fixed and slice allocators, which nothing in the program relies on; the
wrappers that compute lengths; the contents of objects; `RawAlloc` beyond the
cut of its pages; how much of a reservation is committed (`linearAlloc.mapped`);
two goroutines in one tree, which entry.go:22 excludes; Windows.
`PROJECT.json` has the reason for each under `components`.

## Plan

In this order, done first: `SlotAllocator`, `XSpan` and its proofs;
`HeapSweep` and its proofs; `SpanPool` and its proofs; `ClassSpan`;
`PageStore`, `PageHeap` and its first proof; `Dictionary`, `RBTree`;
`SizeClasses`; `MetadataPool` and its proof, and `LargeObject` on top of it.

Next, to extend the model:

1. `SpanReuse`: `SpanPool` with `ClassSpan`, so that a swept span comes back
   to the pool while goroutines still walk old snapshots that have it.
2. `HeapSweep` with more goroutines: the failed join at heap.go:287 lets a
   goroutine reset the count of a sweep that runs, which needs four of them.
3. `ClassSpan` with the order of `insert` and `move` exchanged: what the lists
   would promise then, and whether `move` always ends.

Next, to prove: of `HeapSweep`, a bound on the rounds of a sweep that runs, as a
history variable would count them; of `SpanReuse`, once it is there, what is
proved of `SpanPool` now.
