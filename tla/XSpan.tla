------------------------------- MODULE XSpan -------------------------------
(***************************************************************************)
(* One span of xmm: a run of pages cut into NElems equal slots, shared by  *)
(* all goroutines.  Three kinds of call race on it:                        *)
(*                                                                         *)
(*   freeOffset          hands out the lowest free slot, under span.lock;  *)
(*   Free of a slot      sets the slot's mark bit, without any lock;       *)
(*   freeSpan (sweep)    turns the mark bits into the new alloc bits.      *)
(*                                                                         *)
(* A bitmap is a bit array allocated once and never given back; a running  *)
(* Free keeps the address it computed, so old arrays stay reachable.       *)
(* BitArrays are the identities of such arrays: a new array is the first   *)
(* one that nothing refers to, so any number of sweeps fits in a few       *)
(* identities, and the content of the others is of no interest.            *)
(***************************************************************************)
EXTENDS Naturals, FiniteSets

CONSTANTS
  Procs,      \* the goroutines
  NElems,     \* slots of the span (nelems)
  WordBits,   \* bits of allocCache (64 in the code)
  MarkBits,   \* bits of a word that setMarked swaps (32 in the code)
  BitArrays,  \* identities of bit arrays, numbers
  NoBits,     \* the nil *gcBits
  NoProc,     \* span.lock is free
  MmapFails   \* TRUE: newMarkBits may fail inside freeSpan

ASSUME SizeAssumption ==
  /\ NElems \in Nat \ {0}
  /\ WordBits \in Nat \ {0}
  /\ MarkBits \in Nat \ {0}
ASSUME NilAssumption ==
  /\ BitArrays \subseteq Nat
  /\ NoBits \notin BitArrays
  /\ NoProc \notin Procs
ASSUME FlagAssumption == MmapFails \in BOOLEAN

VARIABLES
  freeIndex,   \* next index the span looks at
  allocCache,  \* free bits of the current word, counted from freeIndex
  allocCount,  \* slots the span believes to be handed out
  allocBits,   \* the array allocCache is refilled from
  gcmarkBits,  \* the array Free marks
  bits,        \* bits[a]: the bits set in array a
  lock,        \* holder of span.lock
  gcCount,     \* the sweeper's recount under the lock
  pc,          \* where each goroutine is
  target,      \* the slot a running Free marks
  ptr,         \* the array a running Free resolved
  val,         \* the bits of the word a running Free loaded
  live         \* history: slots handed out and not freed since

span == << freeIndex, allocCache, allocCount, allocBits, gcmarkBits >>
freeing == << target, ptr, val >>
vars == << span, bits, lock, gcCount, pc, freeing, live >>

Slots == 0 .. NElems - 1
WordsUp == (NElems + WordBits - 1) \div WordBits
BitSpace == 0 .. WordsUp * WordBits - 1
NoSlot == NElems

(* The start of the word after the one that holds index i. *)
NextWord(i) == (i \div WordBits + 1) * WordBits

(* refillAllocCache: the word of allocBits that starts at index i. *)
WordAt(i) == {b \in 0 .. WordBits - 1 : i + b \in bits[allocBits]}

(* allocCache >>= n *)
ShiftRight(cache, n) == {b \in 0 .. WordBits - 1 : b + n \in cache}

(* Ctz64: b is the lowest bit of the cache. *)
IsLowest(b, cache) == b \in cache /\ \A c \in cache : b <= c

(* The bits that one swap of a mark word covers. *)
MarkWord(i) == {j \in BitSpace : j \div MarkBits = i \div MarkBits}

(* The arrays in use: allocBits, gcmarkBits, those of running Frees. *)
Referenced == {a \in BitArrays : a = allocBits \/ a = gcmarkBits \/ \E p \in Procs : a = ptr[p]}

(* newMarkBits returns a: memory that none of the arrays in use occupies. *)
NewArray(a, used) == a \in BitArrays \ used /\ \A b \in BitArrays \ used : a <= b

-----------------------------------------------------------------------------
Init ==
  /\ freeIndex = 0
  /\ allocCache = 0 .. WordBits - 1
  /\ allocCount = 0
  /\ \E a, b \in BitArrays :
       /\ NewArray(a, {}) /\ gcmarkBits = a
       /\ NewArray(b, {a}) /\ allocBits = b
  /\ bits = [a \in BitArrays |-> IF a = allocBits THEN BitSpace ELSE {}]
  /\ lock = NoProc
  /\ gcCount = 0
  /\ pc = [p \in Procs |-> "idle"]
  /\ target = [p \in Procs |-> NoSlot]
  /\ ptr = [p \in Procs |-> NoBits]
  /\ val = [p \in Procs |-> {}]
  /\ live = {}

Goto(p, l) == pc' = [pc EXCEPT ![p] = l]

-----------------------------------------------------------------------------
(* Allocation.  Each critical section is one step: it writes every field   *)
(* once, and what others read without the lock is one of them at a time.   *)

(* freeOffset starts nextFreeFast, whose first test reads freeIndex        *)
(* without the lock: a used-up span goes straight to nextFree.             *)
AllocCheck(p) ==
  /\ pc[p] = "idle"
  /\ Goto(p, IF freeIndex >= NElems THEN "slow" ELSE "fast")
  /\ UNCHANGED << span, bits, lock, gcCount, freeing, live >>

(* The slot that bit b of a cache loaded at index base stands for.         *)
HandOut(p, base, b, cache) ==
  /\ allocCache' = cache
  /\ freeIndex' = base + b + 1
  /\ allocCount' = allocCount + 1
  /\ live' = live \cup {base + b}
  /\ Goto(p, "idle")
  /\ UNCHANGED << allocBits, gcmarkBits, bits, lock, gcCount, freeing >>

(* Slip: the cache is never refilled at a word boundary. *)
NoRefill(next) == FALSE

(* The next index starts a word that the cache does not hold yet. *)
NeedsRefill(next) == next % WordBits = 0 /\ next # NElems

(* Slip: the bit handed out stays in the cache. *)
AllocFastKeepsBit(p) ==
  /\ pc[p] = "fast" /\ lock = NoProc
  /\ freeIndex < NElems
  /\ \E b \in allocCache :
       /\ IsLowest(b, allocCache)
       /\ freeIndex + b < NElems
       /\ ~ NeedsRefill(freeIndex + b + 1)
       /\ HandOut(p, freeIndex, b, ShiftRight(allocCache, b))

(* nextFreeFast finds the lowest cached bit and needs no refill. *)
AllocFast(p) ==
  /\ pc[p] = "fast" /\ lock = NoProc
  /\ freeIndex < NElems
  /\ \E b \in allocCache :
       /\ IsLowest(b, allocCache)
       /\ freeIndex + b < NElems
       /\ ~ NeedsRefill(freeIndex + b + 1)
       /\ HandOut(p, freeIndex, b, ShiftRight(allocCache, b + 1))

(* nextFreeFast returns 0 and freeOffset calls nextFree. *)
AllocFastMiss(p) ==
  /\ pc[p] = "fast" /\ lock = NoProc
  /\ \/ freeIndex >= NElems
     \/ \A b \in allocCache : IsLowest(b, allocCache) =>
          freeIndex + b >= NElems \/ NeedsRefill(freeIndex + b + 1)
  /\ Goto(p, "slow")
  /\ UNCHANGED << span, bits, lock, gcCount, freeing, live >>

(* nextFreeIndex visits the rest of the current word, as cached, then the  *)
(* later words, each refilled from allocBits; it stops at the first one    *)
(* with a bit set.  A used-up span has no word to visit.                   *)
WordStarts == {i \in Slots : i = freeIndex \/ (i > freeIndex /\ i % WordBits = 0)}
CacheAt(i) == IF i = freeIndex THEN allocCache ELSE WordAt(i)
StopsAt(i) ==
  /\ i \in WordStarts
  /\ CacheAt(i) # {}
  /\ \A j \in WordStarts : j < i => CacheAt(j) = {}

(* nextFree: the lowest bit of that word, refilling at a word boundary. *)
AllocSlow(p) ==
  /\ pc[p] = "slow" /\ lock = NoProc
  /\ \E i \in WordStarts : \E b \in CacheAt(i) :
       /\ StopsAt(i)
       /\ IsLowest(b, CacheAt(i))
       /\ i + b < NElems
       /\ HandOut(p, i, b, IF NeedsRefill(i + b + 1)
                           THEN WordAt(i + b + 1)
                           ELSE ShiftRight(CacheAt(i), b + 1))

(* Slip: the index of the next word is not cut to nelems. *)
AllocExhaustedPastEnd(p) ==
  /\ pc[p] = "slow" /\ lock = NoProc
  /\ \A i \in WordStarts : StopsAt(i) => \A b \in CacheAt(i) : i + b >= NElems
  /\ freeIndex' = WordsUp * WordBits
  /\ Goto(p, "idle")
  /\ UNCHANGED << allocCache, allocCount, allocBits, gcmarkBits, bits, lock, gcCount,
                  freeing, live >>

(* nextFree finds no slot and marks the span as used up; the cache keeps   *)
(* the word the search stopped at.                                         *)
AllocExhausted(p) ==
  /\ pc[p] = "slow" /\ lock = NoProc
  /\ \A i \in WordStarts : StopsAt(i) => \A b \in CacheAt(i) : i + b >= NElems
  /\ freeIndex' = NElems
  /\ \/ \E i \in WordStarts : StopsAt(i) /\ allocCache' = CacheAt(i)
     \/ (\A i \in WordStarts : ~ StopsAt(i)) /\ UNCHANGED allocCache
  /\ Goto(p, "idle")
  /\ UNCHANGED << allocCount, allocBits, gcmarkBits, bits, lock, gcCount, freeing, live >>

-----------------------------------------------------------------------------
(* Free of slot i.  The array is resolved (markBitsForIndex, bitp) before  *)
(* the heap's counter is raised; setMarked then loads the word and swaps   *)
(* it with the bit flipped, until the swap succeeds.  With a nil array the *)
(* call panics, which ends it before it changes anything of the span.      *)

(* A caller frees what it holds, once.  setMarked flips the bit, so a      *)
(* second Free of a slot would take the first one's mark back.             *)
FreeStart(p) ==
  /\ pc[p] = "idle"
  /\ gcmarkBits # NoBits
  /\ \E i \in live :
       /\ target' = [target EXCEPT ![p] = i]
       /\ live' = live \ {i}
  /\ ptr' = [ptr EXCEPT ![p] = gcmarkBits]
  /\ Goto(p, "load")
  /\ UNCHANGED << span, bits, lock, gcCount, val >>

FreeLoad(p) ==
  /\ pc[p] = "load"
  /\ val' = [val EXCEPT ![p] = bits[ptr[p]] \cap MarkWord(target[p])]
  /\ Goto(p, "cas")
  /\ UNCHANGED << span, bits, lock, gcCount, target, ptr, live >>

(* val ^ mask *)
Flip(word, i) == (word \ {i}) \cup ({i} \ word)

(* Slip: a plain store instead of the compare-and-swap. *)
FreeStore(p) ==
  LET now == bits[ptr[p]] \cap MarkWord(target[p]) IN
  /\ pc[p] = "cas"
  /\ bits' = [bits EXCEPT ![ptr[p]] = (@ \ now) \cup Flip(val[p], target[p])]
  /\ target' = [target EXCEPT ![p] = NoSlot]
  /\ ptr' = [ptr EXCEPT ![p] = NoBits]
  /\ val' = [val EXCEPT ![p] = {}]
  /\ Goto(p, "idle")
  /\ UNCHANGED << span, lock, gcCount, live >>

FreeCas(p) ==
  LET now == bits[ptr[p]] \cap MarkWord(target[p]) IN
  /\ pc[p] = "cas"
  /\ now = val[p]
  /\ bits' = [bits EXCEPT ![ptr[p]] = (@ \ now) \cup Flip(val[p], target[p])]
  /\ target' = [target EXCEPT ![p] = NoSlot]
  /\ ptr' = [ptr EXCEPT ![p] = NoBits]
  /\ val' = [val EXCEPT ![p] = {}]
  /\ Goto(p, "idle")
  /\ UNCHANGED << span, lock, gcCount, live >>

(* Slip: the word is not loaded again before the next try. *)
FreeRetryStale(p) ==
  /\ pc[p] = "cas"
  /\ bits[ptr[p]] \cap MarkWord(target[p]) # val[p]
  /\ UNCHANGED vars

FreeRetry(p) ==
  /\ pc[p] = "cas"
  /\ bits[ptr[p]] \cap MarkWord(target[p]) # val[p]
  /\ val' = [val EXCEPT ![p] = {}]
  /\ Goto(p, "load")
  /\ UNCHANGED << span, bits, lock, gcCount, target, ptr, live >>

-----------------------------------------------------------------------------
(* freeSpan, called by a sweep.                                            *)

(* countGcMarkBits.  It reads one word after another, but bits are only    *)
(* ever set, one at a time, so what it returns is the number that were set *)
(* at some moment of the call.                                             *)
Marked == Slots \cap bits[gcmarkBits]

(* The tests before the lock is taken; they fail with no effect.  A nil    *)
(* gcmarkBits would panic here.                                            *)
SweepCheck(p) ==
  /\ pc[p] = "idle"
  /\ gcmarkBits # NoBits
  /\ Marked # {}
  /\ allocCount >= NElems
  /\ Goto(p, "sweep")
  /\ UNCHANGED << span, bits, lock, gcCount, freeing, live >>

(* The lock, the recount and the second test of allocCount.  The second    *)
(* test of the count is gcCount < 0 and never true.  A nil array makes the *)
(* recount panic, which gives the lock back and ends the call.             *)
SweepLock(p) ==
  /\ pc[p] = "sweep" /\ lock = NoProc
  /\ IF gcmarkBits = NoBits \/ allocCount < NElems
     THEN Goto(p, "idle") /\ UNCHANGED << lock, gcCount >>
     ELSE /\ Goto(p, "swap")
          /\ lock' = p
          /\ gcCount' = Cardinality(Marked)
  /\ UNCHANGED << span, bits, freeing, live >>

(* Slip: the new mark array keeps what its memory held before. *)
SweepSwapDirty(p) ==
  /\ pc[p] = "swap"
  /\ freeIndex' = 0
  /\ allocCount' = NElems - gcCount
  /\ allocBits' = gcmarkBits
  /\ \E a \in BitArrays : NewArray(a, Referenced) /\ gcmarkBits' = a
  /\ gcCount' = 0
  /\ Goto(p, "refill")
  /\ UNCHANGED << allocCache, bits, lock, freeing, live >>

(* The marks become the alloc bits and a zeroed array takes their place.   *)
SweepSwap(p) ==
  /\ pc[p] = "swap"
  /\ freeIndex' = 0
  /\ allocCount' = NElems - gcCount
  /\ allocBits' = gcmarkBits
  /\ \E a \in BitArrays : NewArray(a, Referenced) /\ gcmarkBits' = a
  /\ bits' = [x \in BitArrays |-> IF x \in Referenced THEN bits[x] ELSE {}]
  /\ gcCount' = 0
  /\ Goto(p, "refill")
  /\ UNCHANGED << allocCache, lock, freeing, live >>

(* newMarkBits fails: freeSpan returns the error where it stands. *)
SweepSwapFails(p) ==
  /\ pc[p] = "swap"
  /\ MmapFails
  /\ freeIndex' = 0
  /\ allocCount' = NElems - gcCount
  /\ allocBits' = gcmarkBits
  /\ gcmarkBits' = NoBits
  /\ gcCount' = 0
  /\ lock' = NoProc
  /\ Goto(p, "idle")
  /\ UNCHANGED << allocCache, bits, freeing, live >>

(* Slip: the lock is given back with the cache of the last round. *)
SweepNoRefill(p) ==
  /\ pc[p] = "refill"
  /\ lock' = NoProc
  /\ Goto(p, "idle")
  /\ UNCHANGED << span, bits, gcCount, freeing, live >>

SweepRefill(p) ==
  /\ pc[p] = "refill"
  /\ allocCache' = WordAt(0)
  /\ lock' = NoProc
  /\ Goto(p, "idle")
  /\ UNCHANGED << freeIndex, allocCount, allocBits, gcmarkBits, bits, gcCount, freeing, live >>

-----------------------------------------------------------------------------
Alloc(p) ==
  AllocCheck(p) \/ AllocFast(p) \/ AllocFastMiss(p) \/ AllocSlow(p) \/ AllocExhausted(p)
Free(p) == FreeStart(p) \/ FreeLoad(p) \/ FreeCas(p) \/ FreeRetry(p)
Sweep(p) ==
  SweepCheck(p) \/ SweepLock(p) \/ SweepSwap(p) \/ SweepSwapFails(p) \/ SweepRefill(p)

Next == \E p \in Procs : Alloc(p) \/ Free(p) \/ Sweep(p)

Spec == Init /\ [][Next]_vars

(* A goroutine inside a call runs on.  Only the waits for span.lock can be *)
(* interrupted, and there sync.Mutex hands the lock to a waiter that has   *)
(* been passed over for a millisecond (its starvation mode): a waiter that *)
(* keeps finding the lock free gets it in the end.  No call is ever begun  *)
(* of necessity.                                                           *)
Continues(p) == pc[p] # "idle" /\ (Alloc(p) \/ Free(p) \/ Sweep(p))
FairSpec == Spec /\ \A p \in Procs : SF_vars(Continues(p))

-----------------------------------------------------------------------------
(* Properties.                                                             *)

PcValues == {"idle", "fast", "slow", "load", "cas", "sweep", "swap", "refill"}

(* Every variable has its type; freeIndex never passes the span's end      *)
(* (nextFreeIndex).  allocCount may exceed nelems: a mark that lands after *)
(* the recount gives the span a slot more than it counts.                  *)
TypeOK ==
  /\ freeIndex \in 0 .. NElems
  /\ allocCache \in SUBSET (0 .. WordBits - 1)
  /\ allocCount \in Nat
  /\ allocBits \in BitArrays
  /\ gcmarkBits \in BitArrays \cup {NoBits}
  /\ bits \in [BitArrays -> SUBSET BitSpace]
  /\ lock \in Procs \cup {NoProc}
  /\ gcCount \in 0 .. NElems
  /\ pc \in [Procs -> PcValues]
  /\ target \in [Procs -> 0 .. NElems]
  /\ ptr \in [Procs -> BitArrays \cup {NoBits}]
  /\ val \in [Procs -> SUBSET BitSpace]
  /\ live \in SUBSET Slots

(* Between the swap and the refill of freeSpan the cache is out of date;   *)
(* the lock keeps everyone away from it.                                   *)
Refilling == \E p \in Procs : pc[p] = "refill"
Cache == IF Refilling THEN WordAt(0) ELSE allocCache

(* The slots the span can still hand out before it is swept again. *)
Candidates ==
  {i \in Slots : i >= freeIndex /\ IF i < NextWord(freeIndex)
                                   THEN i - freeIndex \in Cache
                                   ELSE i \in bits[allocBits]}

(* A slot that a caller holds is never handed out again: not by the cache, *)
(* not by a later refill of it.  allocCache, freeIndex and the sweep's     *)
(* swap of the arrays would all have to go wrong for it together.          *)
NoDoubleAlloc == live \cap Candidates = {}

(* Slots whose Free is under way. *)
InFlight == {target[p] : p \in Procs} \ {NoSlot}

(* A slot is in one place at a time: with a caller, in a running Free, in  *)
(* the marks of the next sweep or among the slots to hand out, and one     *)
(* goroutine at most is freeing it.  Whatever the sweep does to the arrays *)
(* while a Free holds the address of one of them, this must survive.       *)
OnePlace ==
  /\ live \cap InFlight = {}
  /\ InFlight \cap Candidates = {}
  /\ gcmarkBits # NoBits =>
       bits[gcmarkBits] \cap (live \cup InFlight \cup Candidates) = {}
  /\ \A p, q \in Procs : p # q /\ target[p] = target[q] => target[p] = NoSlot

(* The alloc count that isFull and needGrow read never promises more room  *)
(* than there is: a span that is not counted full can hand out a slot, or  *)
(* xSpanPool.Alloc would try the same spans for ever.                      *)
NoPhantomRoom == NElems - allocCount <= Cardinality(Candidates)

(* setMarked sets a bit and clears none: not its own, not one that another *)
(* goroutine sets in the same word at the same time.                       *)
MarksKept ==
  [][\A a \in Referenced : bits[a] \subseteq bits'[a]]_vars

(* The sweep loses no mark: a slot that was given back is marked for the   *)
(* next sweep, can be handed out, or is on its way to being marked.        *)
NoSlotLost ==
  Slots \subseteq live \cup Candidates
             \cup (IF gcmarkBits = NoBits THEN {} ELSE bits[gcmarkBits])
             \cup {target[p] : p \in Procs}

(* What makes the properties above inductive: the lock is held through     *)
(* swap and refill, the cache stays within the current word, and a running *)
(* Free has not set its bit yet, in whatever array it is about to set it.  *)
LockInv ==
  \A p \in Procs :
    /\ pc[p] \in {"swap", "refill"} <=> lock = p
    /\ pc[p] = "swap" => gcmarkBits # NoBits
    /\ pc[p] = "refill" => freeIndex = 0
CacheInv ==
  freeIndex < NElems /\ ~ Refilling =>
    \A b \in allocCache : freeIndex + b < NextWord(freeIndex)
FreeInv ==
  \A p \in Procs :
    IF pc[p] \in {"load", "cas"}
    THEN target[p] \in Slots /\ ptr[p] \in BitArrays
    ELSE target[p] = NoSlot /\ ptr[p] = NoBits
MarkInv ==
  /\ gcmarkBits \in BitArrays \ {allocBits}
  /\ \A p \in Procs : ptr[p] # NoBits => target[p] \notin bits[ptr[p]]
SpanInv == TypeOK /\ LockInv /\ CacheInv /\ FreeInv
SafeInv == SpanInv /\ MarkInv /\ NoDoubleAlloc /\ OnePlace

(* A call on the span returns: no goroutine retries its swap for ever and  *)
(* none waits for ever for the lock.                                       *)
CallsReturn == \A p \in Procs : pc[p] # "idle" ~> pc[p] = "idle"

(* The span implements its promise. *)
Promise == INSTANCE SlotAllocator WITH free <- Candidates
PromiseKept == Promise!Spec
=============================================================================
