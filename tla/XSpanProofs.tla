---------------------------- MODULE XSpanProofs ----------------------------
(***************************************************************************)
(* Theorems about XSpan and XSpanHistory, for any number of goroutines,    *)
(* slots and bits per word.                                                *)
(***************************************************************************)
EXTENDS XSpanHistory, FiniteSetTheorems, TLAPS

(* For LeastNat: a set of naturals has a least element. *)
T == INSTANCE SearchTrees

-----------------------------------------------------------------------------
(* Words.                                                                  *)

(* An index is its word's number times the word size, plus its bit. *)
LEMMA DivMod ==
  ASSUME NEW w \in Nat \ {0}, NEW i \in Nat
  PROVE  /\ i \div w \in Nat
         /\ i % w \in 0 .. w - 1
         /\ i = (w * (i \div w)) + (i % w)
OBVIOUS

(* Words do not overlap. *)
LEMMA WordsApart ==
  ASSUME NEW w \in Nat \ {0}, NEW q \in Nat, NEW r \in Nat, q < r
  PROVE  w * q + w <= w * r
<1>1. PICK d \in Nat : r = q + 1 + d
  OBVIOUS
<1>2. w * r = w * q + w + w * d
  BY <1>1
<1>3. w * d >= 0
  OBVIOUS
<1>4. QED
  BY <1>2, <1>3

(* An index lies in the word whose bounds enclose it. *)
LEMMA DivUnique ==
  ASSUME NEW w \in Nat \ {0}, NEW i \in Nat, NEW q \in Nat,
         w * q <= i, i < w * q + w
  PROVE  i \div w = q
<1>1. i \div w \in Nat /\ w * (i \div w) <= i /\ i < w * (i \div w) + w
  BY DivMod
<1>2. ~ (i \div w < q)
  BY <1>1, WordsApart
<1>3. ~ (q < i \div w)
  BY <1>1, WordsApart
<1>4. QED
  BY <1>1, <1>2, <1>3

(* NextWord is the end of the word that holds an index. *)
LEMMA WordOf ==
  ASSUME NEW i \in Nat
  PROVE  \E q \in Nat :
           /\ q = i \div WordBits
           /\ NextWord(i) = WordBits * q + WordBits
           /\ WordBits * q <= i
           /\ i < WordBits * q + WordBits
           /\ i = (WordBits * q) + (i % WordBits)
<1> DEFINE q == i \div WordBits
<1>1. /\ q \in Nat
      /\ i % WordBits \in 0 .. WordBits - 1
      /\ i = (WordBits * q) + (i % WordBits)
  BY DivMod, SizeAssumption
<1>2. NextWord(i) = (q + 1) * WordBits
  BY DEF NextWord
<1>3. WordBits \in Nat \ {0}
  BY SizeAssumption
<1> HIDE DEF q
<1>4. NextWord(i) = WordBits * q + WordBits
  BY <1>1, <1>2, <1>3
<1>5. WordBits * q \in Nat
  BY <1>1, <1>3
<1>6. q = i \div WordBits
  BY DEF q
<1>7. WordBits * q <= i /\ i < WordBits * q + WordBits
  BY <1>1, <1>3, <1>5
<1>8. QED
  BY <1>1, <1>4, <1>6, <1>7, Zenon

LEMMA NextWordBounds ==
  ASSUME NEW i \in Nat
  PROVE  /\ NextWord(i) \in Nat
         /\ i < NextWord(i)
         /\ NextWord(i) <= i + WordBits
         /\ i % WordBits = 0 => NextWord(i) = i + WordBits
<1>1. PICK q \in Nat : /\ NextWord(i) = WordBits * q + WordBits
                       /\ WordBits * q <= i
                       /\ i < WordBits * q + WordBits
                       /\ i = (WordBits * q) + (i % WordBits)
  BY WordOf
<1>2. WordBits \in Nat /\ WordBits * q \in Nat
  BY SizeAssumption
<1>3. QED
  BY <1>1, <1>2

(* All indices of a word have the same end. *)
LEMMA SameWord ==
  ASSUME NEW i \in Nat, NEW j \in Nat, i <= j, j < NextWord(i)
  PROVE  NextWord(j) = NextWord(i)
<1>1. PICK q \in Nat : /\ NextWord(i) = WordBits * q + WordBits
                       /\ q = i \div WordBits
                       /\ WordBits * q <= i
  BY WordOf
<1>2. WordBits \in Nat \ {0} /\ WordBits * q \in Nat
  BY SizeAssumption
<1>3. WordBits * q <= j /\ j < WordBits * q + WordBits
  BY <1>1, <1>2
<1>4. j \div WordBits = q
  BY <1>2, <1>3, DivUnique
<1>5. QED
  BY <1>1, <1>4 DEF NextWord

(* A start of a word beyond index i lies at or after the end of its word. *)
LEMMA WordStartsApart ==
  ASSUME NEW i \in Nat, NEW j \in Nat, j % WordBits = 0, i < j
  PROVE  NextWord(i) <= j
<1>1. NextWord(j) = j + WordBits /\ NextWord(i) <= i + WordBits
  BY NextWordBounds
<1>2. NextWord(i) \in Nat /\ WordBits \in Nat \ {0}
  BY NextWordBounds, SizeAssumption
<1>3. j < NextWord(i) => NextWord(j) = NextWord(i)
  BY SameWord
<1>4. QED
  BY <1>1, <1>2, <1>3

(* The end of a word is the start of the next one. *)
LEMMA NextWordStarts ==
  ASSUME NEW i \in Nat
  PROVE  NextWord(i) % WordBits = 0
<1>1. PICK q \in Nat : NextWord(i) = WordBits * q + WordBits
  BY WordOf
<1>2. PICK r \in Nat : /\ r = NextWord(i) \div WordBits
                       /\ NextWord(i) = (WordBits * r) + (NextWord(i) % WordBits)
  BY WordOf, NextWordBounds
<1>3. WordBits \in Nat \ {0} /\ q + 1 \in Nat /\ WordBits * (q + 1) = WordBits * q + WordBits
  BY SizeAssumption
<1>4. /\ NextWord(i) \in Nat
      /\ WordBits * (q + 1) <= NextWord(i)
      /\ NextWord(i) < WordBits * (q + 1) + WordBits
  BY <1>1, <1>3, NextWordBounds
<1>5. r = q + 1
  BY <1>2, <1>3, <1>4, DivUnique
<1>6. NextWord(i) % WordBits \in Int
  BY <1>3, <1>4, DivMod
<1>7. QED
  BY <1>1, <1>2, <1>3, <1>5, <1>6

-----------------------------------------------------------------------------
(* What holds of a span whatever its callers do.                           *)

(* A count of slots is at most nelems. *)
LEMMA CountType ==
  ASSUME NEW S, S \subseteq Slots
  PROVE  Cardinality(S) \in 0 .. NElems
<1>1. IsFiniteSet(Slots) /\ Cardinality(Slots) = NElems
  BY FS_Interval, SizeAssumption DEF Slots
<1>2. QED
  BY <1>1, FS_Subset, FS_CardinalityType, SizeAssumption

(* Every slot has a bit in an array. *)
LEMMA SlotsHaveBits == Slots \subseteq BitSpace
<1> DEFINE last == NElems + WordBits - 1
<1>1. last \in Nat
  BY SizeAssumption
<1>2. PICK q \in Nat : last < WordBits * q + WordBits /\ WordsUp = q
  BY <1>1, WordOf DEF WordsUp
<1>3. WordBits * q \in Nat /\ WordsUp * WordBits = WordBits * q
  BY <1>2, SizeAssumption
<1>4. QED
  BY <1>2, <1>3, SizeAssumption DEF Slots, BitSpace

LEMMA InitSpanInv == Init => SpanInv
<1> SUFFICES ASSUME Init PROVE SpanInv
  OBVIOUS
<1>1. gcmarkBits \in BitArrays /\ allocBits \in BitArrays
  BY DEF Init, NewArray
<1>2. TypeOK
  BY <1>1, SizeAssumption DEF Init, TypeOK, PcValues, NoSlot
<1>3. LockInv
  BY NilAssumption DEF Init, LockInv
<1>4. CacheInv
  <2>1. NextWord(0) = WordBits
    BY NextWordBounds, DivMod, SizeAssumption
  <2>2. QED
    BY <2>1, SizeAssumption DEF Init, CacheInv
<1>5. FreeInv
  BY DEF Init, FreeInv
<1>6. QED
  BY <1>2, <1>3, <1>4, <1>5 DEF SpanInv

(* Handing out bit b of the word that starts (as cached) at base. *)
LEMMA HandOutSpanInv ==
  ASSUME SpanInv, NEW p \in Procs, pc[p] \in {"fast", "slow"}, lock = NoProc,
         NEW base \in Slots, NEW b \in 0 .. WordBits - 1, base + b < NElems,
         NEW cache \in SUBSET (0 .. WordBits - 1),
         base + b + 1 < NElems =>
           \A c \in cache : base + b + 1 + c < NextWord(base + b + 1),
         HandOut(p, base, b, cache)
  PROVE  SpanInv'
<1>1. base \in Nat /\ b \in Nat /\ base + b \in Slots
  BY SizeAssumption DEF Slots
<1>2. TypeOK'
  BY <1>1, SizeAssumption DEF SpanInv, TypeOK, HandOut, Goto, PcValues, Slots, freeing
<1>3. LockInv'
  BY NilAssumption DEF SpanInv, TypeOK, LockInv, HandOut, Goto
<1>4. CacheInv'
  BY DEF CacheInv, HandOut, NextWord
<1>5. FreeInv'
  BY DEF SpanInv, TypeOK, FreeInv, HandOut, Goto, freeing, Slots, NoSlot
<1>6. QED
  BY <1>2, <1>3, <1>4, <1>5 DEF SpanInv

(* What a word is filled with, or left with after a shift, lies within it. *)
LEMMA CacheWithinWord ==
  ASSUME SpanInv, ~ Refilling, NEW i \in WordStarts, NEW b \in CacheAt(i)
  PROVE  /\ i \in Slots
         /\ b \in 0 .. WordBits - 1
         /\ i + b < NextWord(i)
<1>1. i \in Slots
  BY DEF WordStarts
<1>2. b \in 0 .. WordBits - 1
  BY DEF CacheAt, WordAt, SpanInv, TypeOK
<1>3. CASE i = freeIndex
  BY <1>1, <1>2, <1>3, SizeAssumption DEF CacheAt, SpanInv, CacheInv, Slots
<1>4. CASE i % WordBits = 0
  <2>1. i \in Nat /\ NextWord(i) = i + WordBits
    BY <1>1, <1>4, NextWordBounds, SizeAssumption DEF Slots
  <2>2. QED
    BY <1>1, <1>2, <2>1, SizeAssumption
<1>5. QED
  BY <1>1, <1>2, <1>3, <1>4 DEF WordStarts

(* The cache that a hand-out leaves lies within the word of the next slot. *)
LEMMA ShiftedWithinWord ==
  ASSUME NEW i \in Slots, NEW cache \in SUBSET (0 .. WordBits - 1),
         \A c \in cache : i + c < NextWord(i),
         NEW b \in cache, i + b + 1 < NElems
  PROVE  \A c \in ShiftRight(cache, b + 1) : i + b + 1 + c < NextWord(i + b + 1)
<1>1. i \in Nat /\ i + b + 1 \in Nat /\ i + b < NextWord(i)
  BY SizeAssumption DEF Slots
<1> SUFFICES ASSUME NEW c \in ShiftRight(cache, b + 1)
             PROVE  i + b + 1 + c < NextWord(i + b + 1)
  OBVIOUS
<1>2. c \in 0 .. WordBits - 1 /\ i + b + 1 + c < NextWord(i)
  BY SizeAssumption, NextWordBounds, <1>1 DEF ShiftRight
<1>3. i + b + 1 < NextWord(i)
  BY <1>1, <1>2, NextWordBounds, SizeAssumption
<1>4. NextWord(i + b + 1) = NextWord(i)
  BY <1>1, <1>3, SameWord
<1>5. QED
  BY <1>2, <1>4

LEMMA AllocSpanInv ==
  ASSUME SpanInv, NEW p \in Procs, Alloc(p)
  PROVE  SpanInv'
<1>0. lock = NoProc => ~ Refilling
  BY NilAssumption DEF SpanInv, LockInv, Refilling
<1>1. CASE AllocCheck(p)
  <2>1. TypeOK'
    BY <1>1 DEF SpanInv, TypeOK, AllocCheck, Goto, PcValues, span, freeing
  <2>2. LockInv'
    BY <1>1 DEF SpanInv, TypeOK, LockInv, AllocCheck, Goto, span
  <2>3. CacheInv'
    BY <1>1 DEF SpanInv, TypeOK, CacheInv, Refilling, NextWord, AllocCheck, Goto, span
  <2>4. FreeInv'
    BY <1>1 DEF SpanInv, TypeOK, FreeInv, AllocCheck, Goto, freeing
  <2>5. QED
    BY <2>1, <2>2, <2>3, <2>4 DEF SpanInv
<1>2. CASE AllocFast(p)
  <2>1. PICK b \in allocCache :
          /\ freeIndex + b < NElems
          /\ HandOut(p, freeIndex, b, ShiftRight(allocCache, b + 1))
    BY <1>2 DEF AllocFast
  <2>2. freeIndex \in Slots /\ allocCache \in SUBSET (0 .. WordBits - 1)
    BY <1>2, SizeAssumption DEF AllocFast, SpanInv, TypeOK, Slots
  <2>3. \A c \in allocCache : freeIndex + c < NextWord(freeIndex)
    BY <1>0, <1>2 DEF AllocFast, SpanInv, CacheInv
  <2>4. ShiftRight(allocCache, b + 1) \in SUBSET (0 .. WordBits - 1)
    BY DEF ShiftRight
  <2>5. QED
    BY <1>2, <2>1, <2>2, <2>3, <2>4, ShiftedWithinWord, HandOutSpanInv DEF AllocFast
<1>3. CASE AllocFastMiss(p)
  <2>1. TypeOK'
    BY <1>3 DEF SpanInv, TypeOK, AllocFastMiss, Goto, PcValues, span, freeing
  <2>2. LockInv'
    BY <1>3 DEF SpanInv, TypeOK, LockInv, AllocFastMiss, Goto, span
  <2>3. CacheInv'
    BY <1>3 DEF SpanInv, TypeOK, CacheInv, Refilling, NextWord, AllocFastMiss, Goto, span
  <2>4. FreeInv'
    BY <1>3 DEF SpanInv, TypeOK, FreeInv, AllocFastMiss, Goto, freeing
  <2>5. QED
    BY <2>1, <2>2, <2>3, <2>4 DEF SpanInv
<1>4. CASE AllocSlow(p)
  <2> DEFINE After(i, b) == IF NeedsRefill(i + b + 1)
                            THEN WordAt(i + b + 1)
                            ELSE ShiftRight(CacheAt(i), b + 1)
  <2>0. PICK i \in WordStarts :
          \E b \in CacheAt(i) : i + b < NElems /\ HandOut(p, i, b, After(i, b))
    BY <1>4 DEF AllocSlow
  <2>1. PICK b \in CacheAt(i) : i + b < NElems /\ HandOut(p, i, b, After(i, b))
    BY <2>0
  <2>2. /\ i \in Slots
        /\ b \in 0 .. WordBits - 1
        /\ \A c \in CacheAt(i) : c \in 0 .. WordBits - 1 /\ i + c < NextWord(i)
    BY <1>0, <1>4, CacheWithinWord DEF AllocSlow
  <2>3. CASE NeedsRefill(i + b + 1)
    <3>0. i + b + 1 \in Nat /\ (i + b + 1) % WordBits = 0
      BY <2>2, <2>3, SizeAssumption DEF NeedsRefill, Slots
    <3>1. NextWord(i + b + 1) = i + b + 1 + WordBits
      BY <3>0, NextWordBounds
    <3>2. \A c \in WordAt(i + b + 1) : i + b + 1 + c < NextWord(i + b + 1)
      BY <3>0, <3>1, SizeAssumption DEF WordAt
    <3>3. WordAt(i + b + 1) \in SUBSET (0 .. WordBits - 1)
      BY DEF WordAt
    <3>4. QED
      BY <1>4, <2>1, <2>2, <2>3, <3>2, <3>3, HandOutSpanInv DEF AllocSlow
  <2>4. CASE ~ NeedsRefill(i + b + 1)
    <3>1. ShiftRight(CacheAt(i), b + 1) \in SUBSET (0 .. WordBits - 1)
      BY DEF ShiftRight
    <3>2. i + b + 1 < NElems =>
            \A c \in ShiftRight(CacheAt(i), b + 1) : i + b + 1 + c < NextWord(i + b + 1)
      BY <2>1, <2>2, ShiftedWithinWord
    <3>3. QED
      BY <1>4, <2>1, <2>2, <2>4, <3>1, <3>2, HandOutSpanInv DEF AllocSlow
  <2>5. QED
    BY <2>3, <2>4
<1>5. CASE AllocExhausted(p)
  <2>1. allocCache' \in SUBSET (0 .. WordBits - 1)
    BY <1>5 DEF AllocExhausted, CacheAt, WordAt, SpanInv, TypeOK
  <2>2. TypeOK'
    BY <1>5, <2>1, SizeAssumption DEF SpanInv, TypeOK, AllocExhausted, Goto, PcValues, freeing
  <2>3. LockInv'
    BY <1>5, NilAssumption DEF SpanInv, TypeOK, LockInv, AllocExhausted, Goto
  <2>4. CacheInv'
    BY <1>5, SizeAssumption DEF CacheInv, AllocExhausted
  <2>5. FreeInv'
    BY <1>5 DEF SpanInv, TypeOK, FreeInv, AllocExhausted, Goto, freeing
  <2>6. QED
    BY <2>2, <2>3, <2>4, <2>5 DEF SpanInv
<1>6. QED
  BY <1>1, <1>2, <1>3, <1>4, <1>5 DEF Alloc

LEMMA FreeSpanInv ==
  ASSUME SpanInv, NEW p \in Procs, Free(p)
  PROVE  SpanInv'
<1>1. TypeOK'
  <2>1. CASE FreeStart(p)
    <3>1. live \subseteq Slots
      BY DEF SpanInv, TypeOK
    <3>2. Slots \subseteq 0 .. NElems
      BY SizeAssumption DEF Slots
    <3>3. QED
      BY <2>1, <3>1, <3>2 DEF SpanInv, TypeOK, FreeStart, Goto, PcValues, span
  <2>2. CASE FreeLoad(p)
    BY <2>2 DEF SpanInv, TypeOK, FreeLoad, Goto, PcValues, span, MarkWord
  <2>3. CASE FreeCas(p)
    <3>1. target[p] \in Slots /\ ptr[p] \in BitArrays
      BY <2>3 DEF SpanInv, FreeInv, FreeCas
    <3>2. Slots \subseteq BitSpace
      BY SlotsHaveBits
    <3>3. val[p] \cup {target[p]} \subseteq BitSpace
      BY <3>1, <3>2 DEF SpanInv, TypeOK
    <3>4. bits' \in [BitArrays -> SUBSET BitSpace]
      BY <2>3, <3>1, <3>3 DEF FreeCas, Flip, SpanInv, TypeOK
    <3>5. QED
      BY <2>3, <3>4, SizeAssumption
      DEF SpanInv, TypeOK, FreeCas, Goto, PcValues, span, NoSlot
  <2>4. CASE FreeRetry(p)
    BY <2>4 DEF SpanInv, TypeOK, FreeRetry, Goto, PcValues, span
  <2>5. QED
    BY <2>1, <2>2, <2>3, <2>4 DEF Free
<1>2. /\ UNCHANGED << span, lock >>
      /\ \E l : Goto(p, l) /\ l \notin {"swap", "refill"}
      /\ pc[p] \notin {"swap", "refill"}
  BY DEF Free, FreeStart, FreeLoad, FreeCas, FreeRetry
<1>3. LockInv'
  BY <1>2 DEF SpanInv, TypeOK, LockInv, Goto, span
<1>4. CacheInv'
  BY <1>2 DEF SpanInv, TypeOK, CacheInv, Refilling, NextWord, Goto, span
<1>5. FreeInv'
  BY <1>1 DEF SpanInv, TypeOK, FreeInv, Free, FreeStart, FreeLoad, FreeCas, FreeRetry,
              Goto
<1>6. QED
  BY <1>1, <1>3, <1>4, <1>5 DEF SpanInv

LEMMA SweepSpanInv ==
  ASSUME SpanInv, NEW p \in Procs, Sweep(p)
  PROVE  SpanInv'
<1>1. CASE SweepCheck(p)
  <2>1. TypeOK'
    BY <1>1 DEF SpanInv, TypeOK, SweepCheck, Goto, PcValues, span, freeing
  <2>2. LockInv'
    BY <1>1 DEF SpanInv, TypeOK, LockInv, SweepCheck, Goto, span
  <2>3. CacheInv'
    BY <1>1 DEF SpanInv, TypeOK, CacheInv, Refilling, NextWord, SweepCheck, Goto, span
  <2>4. FreeInv'
    BY <1>1 DEF SpanInv, TypeOK, FreeInv, SweepCheck, Goto, freeing
  <2>5. QED
    BY <2>1, <2>2, <2>3, <2>4 DEF SpanInv
<1>2. CASE SweepLock(p)
  <2>1. Cardinality(Marked) \in 0 .. NElems
    BY CountType DEF Marked
  <2>2. TypeOK'
    BY <1>2, <2>1 DEF SpanInv, TypeOK, SweepLock, Goto, PcValues, span, freeing
  <2>3. LockInv'
    BY <1>2, NilAssumption DEF SpanInv, TypeOK, LockInv, SweepLock, Goto, span
  <2>4. CacheInv'
    BY <1>2 DEF SpanInv, TypeOK, CacheInv, Refilling, NextWord, SweepLock, Goto, span
  <2>5. FreeInv'
    BY <1>2 DEF SpanInv, TypeOK, FreeInv, SweepLock, Goto, freeing
  <2>6. QED
    BY <2>2, <2>3, <2>4, <2>5 DEF SpanInv
<1>3. CASE SweepSwap(p) \/ SweepSwapFails(p)
  <2>1. gcmarkBits \in BitArrays
    BY <1>3 DEF SpanInv, TypeOK, LockInv, SweepSwap, SweepSwapFails
  <2>2. NElems - gcCount \in Nat
    BY SizeAssumption DEF SpanInv, TypeOK
  <2>3. TypeOK'
    <3>1. CASE SweepSwap(p)
      <4>1. gcmarkBits' \in BitArrays
        BY <3>1 DEF SweepSwap
      <4>2. bits' \in [BitArrays -> SUBSET BitSpace]
        BY <3>1 DEF SweepSwap, SpanInv, TypeOK
      <4>3. QED
        BY <3>1, <2>1, <2>2, <4>1, <4>2, SizeAssumption
        DEF SpanInv, TypeOK, SweepSwap, Goto, PcValues, freeing
    <3>2. CASE SweepSwapFails(p)
      BY <3>2, <2>1, <2>2, SizeAssumption
      DEF SpanInv, TypeOK, SweepSwapFails, Goto, PcValues, freeing
    <3>3. QED
      BY <1>3, <3>1, <3>2
  <2>4. LockInv'
    BY <1>3, NilAssumption
    DEF SpanInv, TypeOK, LockInv, SweepSwap, SweepSwapFails, Goto
  <2>5. CacheInv'
    <3>1. NextWord(0) = WordBits
      BY NextWordBounds, DivMod, SizeAssumption
    <3>2. freeIndex' = 0 /\ allocCache' = allocCache
      BY <1>3 DEF SweepSwap, SweepSwapFails
    <3>3. QED
      BY <3>1, <3>2, SizeAssumption DEF SpanInv, TypeOK, CacheInv, NextWord
  <2>6. FreeInv'
    BY <1>3 DEF SpanInv, TypeOK, FreeInv, SweepSwap, SweepSwapFails, Goto, freeing
  <2>7. QED
    BY <2>3, <2>4, <2>5, <2>6 DEF SpanInv
<1>4. CASE SweepRefill(p)
  <2>1. allocCache' \in SUBSET (0 .. WordBits - 1)
    BY <1>4 DEF SweepRefill, WordAt
  <2>2. TypeOK'
    BY <1>4, <2>1 DEF SpanInv, TypeOK, SweepRefill, Goto, PcValues, freeing
  <2>3. LockInv'
    BY <1>4, NilAssumption DEF SpanInv, TypeOK, LockInv, SweepRefill, Goto
  <2>4. CacheInv'
    <3>1. NextWord(0) = WordBits
      BY NextWordBounds, DivMod, SizeAssumption
    <3>2. freeIndex' = 0
      BY <1>4 DEF SweepRefill, SpanInv, LockInv
    <3>3. QED
      BY <2>1, <3>1, <3>2, SizeAssumption DEF CacheInv, NextWord
  <2>5. FreeInv'
    BY <1>4 DEF SpanInv, TypeOK, FreeInv, SweepRefill, Goto, freeing
  <2>6. QED
    BY <2>2, <2>3, <2>4, <2>5 DEF SpanInv
<1>5. QED
  BY <1>1, <1>2, <1>3, <1>4 DEF Sweep

LEMMA NextSpanInv == SpanInv /\ [Next]_vars => SpanInv'
<1> SUFFICES ASSUME SpanInv, [Next]_vars PROVE SpanInv'
  OBVIOUS
<1>1. CASE UNCHANGED vars
  BY <1>1 DEF vars, span, freeing, SpanInv, TypeOK, LockInv, CacheInv, FreeInv,
              Refilling, NextWord
<1>2. CASE Next
  BY <1>2, AllocSpanInv, FreeSpanInv, SweepSpanInv DEF Next
<1>3. QED
  BY <1>1, <1>2

(* Every variable keeps its type, whatever callers free and whether or not *)
(* the sweep gets the memory for its new bitmap; in particular freeIndex   *)
(* never passes the end of the span and the sweep's alloc count never      *)
(* wraps below zero.                                                       *)
THEOREM TypeCorrect == Spec => []TypeOK
<1>1. SpanInv => TypeOK
  BY DEF SpanInv
<1>2. QED
  BY InitSpanInv, NextSpanInv, <1>1, PTL DEF Spec

-----------------------------------------------------------------------------
(* The slots a span can hand out, and what each step does to them.         *)

(* Every index lies in a word that starts at or before it. *)
LEMMA StartOfWord ==
  ASSUME NEW j \in Nat
  PROVE  \E s \in Nat : s % WordBits = 0 /\ s <= j /\ j < s + WordBits
<1>1. PICK q \in Nat : WordBits * q <= j /\ j < WordBits * q + WordBits
  BY WordOf
<1>2. WordBits \in Nat \ {0} /\ WordBits * q \in Nat
  BY SizeAssumption
<1>3. (WordBits * q) \div WordBits = q
  BY <1>2, DivUnique
<1>4. PICK r \in Nat : /\ r = (WordBits * q) \div WordBits
                       /\ WordBits * q = (WordBits * r) + ((WordBits * q) % WordBits)
  BY <1>2, WordOf
<1>5. (WordBits * q) % WordBits \in Int
  BY <1>2, DivMod
<1>6. (WordBits * q) % WordBits = 0
  BY <1>2, <1>3, <1>4, <1>5
<1>7. QED
  BY <1>1, <1>2, <1>6

LEMMA CandidatesKept ==
  ASSUME UNCHANGED << freeIndex, allocCache, allocBits, bits >>, Refilling' = Refilling
  PROVE  Candidates' = Candidates
BY DEF Candidates, Cache, WordAt, Slots, NextWord

(* Whatever can be handed out is in the cache of one of the words that     *)
(* nextFreeIndex may visit.                                                *)
LEMMA CandidateIsCached ==
  ASSUME SpanInv, ~ Refilling, NEW j \in Candidates
  PROVE  \E s \in WordStarts : s <= j /\ j < NextWord(s) /\ j - s \in CacheAt(s)
<1>1. j \in Nat /\ freeIndex \in Nat /\ j \in Slots /\ freeIndex <= j
  BY SizeAssumption DEF Candidates, Slots, SpanInv, TypeOK
<1>2. CASE j < NextWord(freeIndex)
  <2>1. j - freeIndex \in CacheAt(freeIndex)
    BY <1>2 DEF Candidates, Cache, CacheAt
  <2>2. freeIndex \in WordStarts
    BY <1>1, SizeAssumption DEF WordStarts, Slots
  <2> QED
    BY <1>1, <1>2, <2>1, <2>2
<1>3. CASE NextWord(freeIndex) <= j
  <2>1. PICK s \in Nat : s % WordBits = 0 /\ s <= j /\ j < s + WordBits
    BY <1>1, StartOfWord
  <2>2. NextWord(freeIndex) <= s /\ NextWord(s) = s + WordBits /\ freeIndex < NextWord(freeIndex)
    <3>1. /\ NextWord(freeIndex) % WordBits = 0 /\ NextWord(s) = s + WordBits
          /\ NextWord(freeIndex) \in Nat /\ freeIndex < NextWord(freeIndex)
      BY <1>1, <2>1, NextWordStarts, NextWordBounds
    <3>2. s < NextWord(freeIndex) => NextWord(s) <= NextWord(freeIndex)
      BY <2>1, <3>1, WordStartsApart
    <3> QED
      BY <1>1, <1>3, <2>1, <3>1, <3>2, SizeAssumption
  <2>3. s \in WordStarts /\ s # freeIndex
    BY <1>1, <1>3, <2>1, <2>2, NextWordBounds, SizeAssumption DEF WordStarts, Slots
  <2>4. j \in bits[allocBits]
    BY <1>1, <1>3, NextWordBounds DEF Candidates
  <2>5. j - s \in 0 .. WordBits - 1 /\ s + (j - s) = j
    BY <1>1, <2>1, SizeAssumption
  <2>6. j - s \in CacheAt(s)
    BY <2>3, <2>4, <2>5 DEF CacheAt, WordAt
  <2> QED
    BY <2>1, <2>2, <2>3, <2>6
<1> QED
  BY <1>1, <1>2, <1>3, NextWordBounds

(* The search of nextFreeIndex skips no slot: what can be handed out lies  *)
(* in the word it stops at or behind it.                                   *)
LEMMA SearchSkipsNothing ==
  ASSUME SpanInv, ~ Refilling, NEW i, StopsAt(i), NEW j \in Slots
  PROVE  /\ j < i => j \notin Candidates
         /\ i <= j => (j \in Candidates <=> IF j < NextWord(i)
                                            THEN j - i \in CacheAt(i)
                                            ELSE j \in bits[allocBits])
<1>1. i \in Nat /\ j \in Nat /\ freeIndex \in Nat /\ i \in Slots
  BY SizeAssumption DEF StopsAt, WordStarts, Slots, SpanInv, TypeOK
<1>2. j \in Candidates <=> /\ j >= freeIndex
                           /\ IF j < NextWord(freeIndex)
                              THEN j - freeIndex \in allocCache
                              ELSE j \in bits[allocBits]
  BY DEF Candidates, Cache
<1>3. CASE i = freeIndex
  BY <1>1, <1>2, <1>3 DEF CacheAt
<1>4. CASE i > freeIndex /\ i % WordBits = 0
  <2>1. /\ NextWord(freeIndex) \in Nat
        /\ NextWord(freeIndex) <= i
        /\ freeIndex < NextWord(freeIndex)
        /\ NextWord(i) = i + WordBits
    BY <1>1, <1>4, NextWordBounds, WordStartsApart
  <2>2. ASSUME i <= j
        PROVE  j \in Candidates <=> IF j < NextWord(i)
                                    THEN j - i \in CacheAt(i)
                                    ELSE j \in bits[allocBits]
    <3>1. j \in Candidates <=> j \in bits[allocBits]
      BY <1>1, <1>2, <2>1, <2>2
    <3>2. j < NextWord(i) => (j - i \in CacheAt(i) <=> j \in bits[allocBits])
      <4>1. SUFFICES ASSUME j < NextWord(i)
                     PROVE  j - i \in WordAt(i) <=> j \in bits[allocBits]
        BY <1>1, <1>4 DEF CacheAt
      <4>2. j - i \in 0 .. WordBits - 1 /\ i + (j - i) = j
        BY <1>1, <2>1, <2>2, <4>1, SizeAssumption
      <4>3. QED
        BY <4>2 DEF WordAt
    <3>3. QED
      BY <3>1, <3>2
  <2>3. ASSUME j < i, j \in Candidates
        PROVE  FALSE
    <3>1. PICK s \in WordStarts : s <= j /\ j - s \in CacheAt(s)
      BY <2>3, CandidateIsCached
    <3>2. s < i
      BY <1>1, <2>3, <3>1, SizeAssumption DEF WordStarts, Slots
    <3> QED
      BY <3>1, <3>2 DEF StopsAt
  <2>4. QED
    BY <2>2, <2>3
<1>5. QED
  BY <1>3, <1>4 DEF StopsAt, WordStarts

(* A search that fails has passed over nothing. *)
LEMMA SearchFindsAll ==
  ASSUME SpanInv, ~ Refilling,
         \A i \in WordStarts : StopsAt(i) => \A b \in CacheAt(i) : i + b >= NElems
  PROVE  Candidates = {}
<1> SUFFICES ASSUME NEW j \in Candidates
             PROVE  FALSE
  OBVIOUS
<1>1. j \in Slots /\ j \in Nat /\ j < NElems
  BY SizeAssumption DEF Candidates, Slots
<1>2. PICK s \in WordStarts : s <= j /\ j < NextWord(s) /\ j - s \in CacheAt(s)
  BY CandidateIsCached
<1>3. PICK i : StopsAt(i)
  <2> DEFINE Full == {w \in WordStarts : CacheAt(w) # {}}
  <2>1. s \in Full /\ Full \subseteq Nat
    BY <1>2, SizeAssumption DEF WordStarts, Slots
  <2>2. PICK i \in Full : \A w \in Full : i <= w
    <3> HIDE DEF Full
    <3> QED
      BY <2>1, T!LeastNat
  <2>3. \A w \in WordStarts : w < i => w \notin Full
    <3>1. \A w \in WordStarts : w \in Nat
      BY SizeAssumption DEF WordStarts, Slots
    <3> QED
      BY <2>1, <2>2, <3>1
  <2> QED
    BY <2>2, <2>3 DEF StopsAt
<1>4. i \in WordStarts /\ i \in Nat /\ NextWord(i) \in Nat
  BY <1>3, NextWordBounds, SizeAssumption DEF StopsAt, WordStarts, Slots
<1>5. PICK b \in CacheAt(i) : b \in 0 .. WordBits - 1 /\ i + b < NextWord(i) /\ i + b >= NElems
  BY <1>3, <1>4, CacheWithinWord DEF StopsAt
<1>6. i <= j /\ j - i \in CacheAt(i) /\ i + (j - i) = j
  BY <1>1, <1>3, <1>4, <1>5, SearchSkipsNothing, SizeAssumption
<1> QED
  BY <1>1, <1>3, <1>4, <1>6, SizeAssumption

(* A hand-out takes exactly the slot it returns from those the span can    *)
(* hand out, whether the cache is shifted or refilled.                     *)
LEMMA HandOutTakesOne ==
  ASSUME SpanInv, lock = NoProc, NEW p \in Procs, NEW i, StopsAt(i),
         NEW b \in CacheAt(i), IsLowest(b, CacheAt(i)), i + b < NElems,
         NEW cache,
         cache = IF NeedsRefill(i + b + 1)
                 THEN WordAt(i + b + 1)
                 ELSE ShiftRight(CacheAt(i), b + 1),
         HandOut(p, i, b, cache)
  PROVE  /\ i + b \in Candidates
         /\ Candidates' = Candidates \ {i + b}
<1> DEFINE n == i + b + 1
<1>1. ~ Refilling /\ ~ Refilling'
  BY NilAssumption DEF SpanInv, TypeOK, LockInv, Refilling, HandOut, Goto
<1>2. /\ i \in Slots /\ b \in 0 .. WordBits - 1
      /\ i + b < NextWord(i)
      /\ \A c \in CacheAt(i) : c \in 0 .. WordBits - 1
  BY <1>1, CacheWithinWord DEF StopsAt
<1>3. /\ i \in Nat /\ b \in Nat /\ n \in Nat /\ i + b \in Slots
      /\ NextWord(i) \in Nat
      /\ NextWord(i) <= i + WordBits
      /\ n <= NextWord(i)
  BY <1>2, NextWordBounds, SizeAssumption DEF Slots
<1>4. i + b \in Candidates
  <2>1. (i + b) - i = b
    BY <1>3
  <2>2. QED
    BY <1>1, <1>2, <1>3, <2>1, SearchSkipsNothing
<1>5. ASSUME NEW j \in Slots, j < n, j \in Candidates
      PROVE  j = i + b
  <2>1. j \in Nat
    BY SizeAssumption DEF Slots
  <2>2. i <= j
    BY <1>1, <1>3, <1>5, <2>1, SearchSkipsNothing
  <2>3. j - i \in CacheAt(i)
    BY <1>1, <1>3, <1>5, <2>1, <2>2, SearchSkipsNothing
  <2>4. b <= j - i
    BY <2>3 DEF IsLowest
  <2>5. QED
    BY <1>3, <1>5, <2>1, <2>4
<1>6. /\ freeIndex' = n /\ allocCache' = cache
      /\ allocBits' = allocBits /\ bits' = bits
  BY DEF HandOut
<1>7. ASSUME NEW j \in Slots
      PROVE  j \in Candidates' <=> /\ j >= n
                                   /\ IF j < NextWord(n)
                                      THEN j - n \in cache
                                      ELSE j \in bits[allocBits]
  BY <1>1, <1>6 DEF Candidates, Cache, Slots, NextWord
<1>8. ASSUME NEW j \in Slots, n <= j
      PROVE  j \in Candidates' <=> j \in Candidates
  <2>1. j \in Nat /\ n < NElems /\ j - n \in Nat /\ i <= j /\ n + (j - n) = j
    BY <1>3, <1>8, SizeAssumption DEF Slots
  <2>2. j \in Candidates <=> IF j < NextWord(i)
                             THEN j - i \in CacheAt(i)
                             ELSE j \in bits[allocBits]
    BY <1>1, <2>1, SearchSkipsNothing
  <2>3. CASE NeedsRefill(n)
    <3>1. n % WordBits = 0 /\ NextWord(n) = n + WordBits
      BY <1>3, <2>3, NextWordBounds DEF NeedsRefill
    <3>2. NextWord(i) <= n
      BY <1>3, <3>1, WordStartsApart
    <3>3. j \in Candidates <=> j \in bits[allocBits]
      BY <1>3, <1>8, <2>1, <2>2, <3>2
    <3>4. j < NextWord(n) => (j - n \in cache <=> j \in bits[allocBits])
      <4>1. SUFFICES ASSUME j < NextWord(n)
                     PROVE  j - n \in WordAt(n) <=> j \in bits[allocBits]
        BY <2>3
      <4>2. j - n \in 0 .. WordBits - 1
        BY <1>3, <2>1, <3>1, <4>1, SizeAssumption
      <4>3. QED
        BY <2>1, <4>2 DEF WordAt
    <3>5. QED
      BY <1>7, <1>8, <3>3, <3>4
  <2>4. CASE ~ NeedsRefill(n)
    <3>1. n % WordBits # 0
      BY <1>3, <2>1, <2>4 DEF NeedsRefill
    <3>2. n < NextWord(i)
      BY <1>3, <3>1, NextWordStarts
    <3>3. NextWord(n) = NextWord(i)
      BY <1>3, <3>2, SameWord
    <3>4. j < NextWord(n) => (j - n \in cache <=> j - i \in CacheAt(i))
      <4>1. SUFFICES ASSUME j < NextWord(n)
                     PROVE  j - n \in ShiftRight(CacheAt(i), b + 1) <=> j - i \in CacheAt(i)
        BY <2>4
      <4>2. j - n \in 0 .. WordBits - 1 /\ (j - n) + (b + 1) = j - i
        BY <1>3, <2>1, <3>3, <4>1, SizeAssumption
      <4>3. QED
        BY <4>2 DEF ShiftRight
    <3>5. QED
      BY <1>7, <1>8, <2>2, <3>3, <3>4
  <2>5. QED
    BY <2>3, <2>4
<1>9. ASSUME NEW j \in Slots, j < n
      PROVE  j \notin Candidates'
  BY <1>3, <1>7, <1>9, SizeAssumption DEF Slots
<1>10. Candidates \subseteq Slots /\ Candidates' \subseteq Slots
  BY DEF Candidates, Slots
<1>11. ASSUME NEW j \in Slots
       PROVE  j \in Candidates' <=> j \in Candidates /\ j # i + b
  <2>1. j \in Nat
    BY SizeAssumption DEF Slots
  <2>2. CASE j < n
    BY <1>5, <1>9, <2>2
  <2>3. CASE n <= j
    BY <1>3, <1>8, <2>1, <2>3
  <2>4. QED
    BY <1>3, <2>1, <2>2, <2>3
<1>12. QED
  BY <1>4, <1>10, <1>11

-----------------------------------------------------------------------------
(* No slot is handed out twice, when callers free a slot once and the      *)
(* sweep gets its memory.                                                  *)

(* A step that moves no slot leaves every slot where it is. *)
LEMMA QuietSafe ==
  ASSUME SafeInv, Candidates' = Candidates,
         UNCHANGED << allocBits, gcmarkBits, bits, target, ptr, live >>
  PROVE  MarkInv' /\ NoDoubleAlloc' /\ OnePlace'
BY DEF SafeInv, MarkInv, NoDoubleAlloc, OnePlace, InFlight

(* A hand-out moves one slot from the candidates to its caller. *)
LEMMA GrabSafe ==
  ASSUME SafeInv, NEW i \in Candidates,
         Candidates' = Candidates \ {i}, live' = live \cup {i},
         UNCHANGED << allocBits, gcmarkBits, bits, target, ptr >>
  PROVE  MarkInv' /\ NoDoubleAlloc' /\ OnePlace'
<1>1. MarkInv'
  BY DEF SafeInv, MarkInv
<1>2. NoDoubleAlloc'
  BY DEF SafeInv, NoDoubleAlloc
<1>3. OnePlace'
  BY DEF SafeInv, OnePlace, InFlight
<1>4. QED
  BY <1>1, <1>2, <1>3

(* What an allocation step does, seen from outside. *)
LEMMA AllocEffect ==
  ASSUME SpanInv, NEW p \in Procs, Alloc(p)
  PROVE  \/ Candidates' = Candidates /\ UNCHANGED << live, allocCount >>
         \/ \E i \in Candidates : /\ Candidates' = Candidates \ {i} /\ live' = live \cup {i}
                                 /\ allocCount' = allocCount + 1
<1>0. lock = NoProc => ~ Refilling
  BY NilAssumption DEF SpanInv, LockInv, Refilling
<1>1. CASE AllocCheck(p) \/ AllocFastMiss(p)
  <2>1. UNCHANGED << freeIndex, allocCache, allocBits, bits, live, allocCount >>
    BY <1>1 DEF AllocCheck, AllocFastMiss, span
  <2>2. Refilling' = Refilling
    BY <1>1 DEF AllocCheck, AllocFastMiss, Refilling, Goto, SpanInv, TypeOK
  <2>3. QED
    BY <2>1, <2>2, CandidatesKept
<1>2. CASE AllocFast(p)
  <2>1. PICK b \in allocCache :
          /\ IsLowest(b, allocCache)
          /\ freeIndex + b < NElems
          /\ ~ NeedsRefill(freeIndex + b + 1)
          /\ HandOut(p, freeIndex, b, ShiftRight(allocCache, b + 1))
    BY <1>2 DEF AllocFast
  <2>2. CacheAt(freeIndex) = allocCache
    BY DEF CacheAt
  <2>3. StopsAt(freeIndex)
    BY <1>2, <2>1, <2>2, SizeAssumption
    DEF AllocFast, StopsAt, WordStarts, Slots, SpanInv, TypeOK
  <2>4. /\ freeIndex + b \in Candidates
        /\ Candidates' = Candidates \ {freeIndex + b}
    BY <1>2, <2>1, <2>2, <2>3, HandOutTakesOne DEF AllocFast
  <2>5. live' = live \cup {freeIndex + b} /\ allocCount' = allocCount + 1
    BY <2>1 DEF HandOut
  <2>6. QED
    BY <2>4, <2>5
<1>3. CASE AllocSlow(p)
  <2> DEFINE After(i, b) == IF NeedsRefill(i + b + 1)
                            THEN WordAt(i + b + 1)
                            ELSE ShiftRight(CacheAt(i), b + 1)
  <2>1. PICK i \in WordStarts :
          \E b \in CacheAt(i) : /\ StopsAt(i)
                                /\ IsLowest(b, CacheAt(i))
                                /\ i + b < NElems
                                /\ HandOut(p, i, b, After(i, b))
    BY <1>3 DEF AllocSlow
  <2>2. PICK b \in CacheAt(i) : /\ StopsAt(i)
                                /\ IsLowest(b, CacheAt(i))
                                /\ i + b < NElems
                                /\ HandOut(p, i, b, After(i, b))
    BY <2>1
  <2>3. /\ i + b \in Candidates
        /\ Candidates' = Candidates \ {i + b}
    BY <1>3, <2>2, HandOutTakesOne DEF AllocSlow
  <2>4. live' = live \cup {i + b} /\ allocCount' = allocCount + 1
    BY <2>2 DEF HandOut
  <2>5. QED
    BY <2>3, <2>4
<1>4. CASE AllocExhausted(p)
  <2>1. Candidates = {}
    BY <1>0, <1>4, SearchFindsAll DEF AllocExhausted
  <2>2. freeIndex' = NElems /\ UNCHANGED << live, allocCount >>
    BY <1>4 DEF AllocExhausted
  <2>3. Candidates' = {}
    BY <2>2, SizeAssumption DEF Candidates, Slots
  <2>4. QED
    BY <2>1, <2>2, <2>3
<1>5. QED
  BY <1>1, <1>2, <1>3, <1>4 DEF Alloc

LEMMA AllocSafe ==
  ASSUME SafeInv, NEW p \in Procs, Alloc(p)
  PROVE  SafeInv'
<1>1. SpanInv /\ SpanInv'
  BY AllocSpanInv DEF SafeInv
<1>2. UNCHANGED << allocBits, gcmarkBits, bits, target, ptr >>
  BY DEF Alloc, AllocCheck, AllocFast, AllocFastMiss, AllocSlow, AllocExhausted,
         HandOut, span, freeing
<1>3. CASE Candidates' = Candidates /\ live' = live
  BY <1>1, <1>2, <1>3, QuietSafe DEF SafeInv
<1>4. ASSUME NEW i \in Candidates, Candidates' = Candidates \ {i}, live' = live \cup {i}
      PROVE  SafeInv'
  BY <1>1, <1>2, <1>4, GrabSafe DEF SafeInv
<1>5. QED
  BY <1>1, <1>3, <1>4, AllocEffect

(* The swap of setMarked sets one bit and nothing else: the word is still  *)
(* the one that was loaded, and the bit is not set in it.                  *)
LEMMA FlipSets ==
  ASSUME SafeInv, NEW p \in Procs, FreeCas(p)
  PROVE  /\ ptr[p] \in BitArrays /\ target[p] \in Slots
         /\ bits' = [bits EXCEPT ![ptr[p]] = @ \cup {target[p]}]
<1>1. ptr[p] \in BitArrays /\ target[p] \in Slots
  BY DEF SafeInv, SpanInv, FreeInv, FreeCas
<1>2. target[p] \notin bits[ptr[p]]
  BY <1>1, NilAssumption DEF SafeInv, MarkInv
<1>3. val[p] = bits[ptr[p]] \cap MarkWord(target[p])
  BY DEF FreeCas
<1>4. Flip(val[p], target[p]) = val[p] \cup {target[p]}
  BY <1>2, <1>3 DEF Flip
<1>5. bits' = [bits EXCEPT ![ptr[p]] = (@ \ val[p]) \cup Flip(val[p], target[p])]
  BY DEF FreeCas
<1>6. (bits[ptr[p]] \ val[p]) \cup (val[p] \cup {target[p]})
        = bits[ptr[p]] \cup {target[p]}
  BY <1>3
<1>7. QED
  BY <1>1, <1>4, <1>5, <1>6 DEF SafeInv, SpanInv, TypeOK

(* A mark that lands in the alloc bits, because the sweep has swapped the  *)
(* arrays under the Free, makes its slot a candidate at most.              *)
LEMMA LateMark ==
  ASSUME SafeInv, NEW p \in Procs, FreeCas(p)
  PROVE  /\ Candidates \subseteq Candidates'
         /\ Candidates' \subseteq Candidates \cup {target[p]}
         /\ ptr[p] # allocBits => Candidates' = Candidates
<1>1. Refilling' = Refilling
  BY DEF FreeCas, Refilling, Goto, SafeInv, SpanInv, TypeOK
<1>2. UNCHANGED << freeIndex, allocCache, allocBits >>
  BY DEF FreeCas, span
<1>3. /\ bits[allocBits] \subseteq bits'[allocBits]
      /\ bits'[allocBits] \subseteq bits[allocBits] \cup {target[p]}
      /\ ptr[p] # allocBits => bits'[allocBits] = bits[allocBits]
  BY FlipSets DEF SafeInv, SpanInv, TypeOK
<1>4. freeIndex \in Nat /\ (Refilling => freeIndex = 0)
  BY SizeAssumption DEF SafeInv, SpanInv, TypeOK, LockInv, Refilling
<1>5. ASSUME NEW j \in Slots
      PROVE  /\ j \in Candidates => j \in Candidates'
             /\ j \in Candidates' => j \in Candidates \/ j = target[p]
             /\ ptr[p] # allocBits => (j \in Candidates' <=> j \in Candidates)
  <2>1. j \in Candidates <=>
          /\ j >= freeIndex
          /\ IF j < NextWord(freeIndex)
             THEN IF Refilling THEN j - freeIndex \in WordAt(0) ELSE j - freeIndex \in allocCache
             ELSE j \in bits[allocBits]
    BY DEF Candidates, Cache
  <2>2. j \in Candidates' <=>
          /\ j >= freeIndex
          /\ IF j < NextWord(freeIndex)
             THEN IF Refilling THEN j - freeIndex \in WordAt(0)' ELSE j - freeIndex \in allocCache
             ELSE j \in bits'[allocBits]
    BY <1>1, <1>2 DEF Candidates, Cache, Slots, NextWord
  <2>3. j \in Nat
    BY SizeAssumption DEF Slots
  <2>4. Refilling => /\ j - freeIndex \in WordAt(0) <=> j < WordBits /\ j \in bits[allocBits]
                     /\ j - freeIndex \in WordAt(0)' <=> j < WordBits /\ j \in bits'[allocBits]
    BY <1>2, <1>4, <2>3, SizeAssumption DEF WordAt
  <2>5. QED
    BY <1>3, <2>1, <2>2, <2>4
<1>6. Candidates \subseteq Slots /\ Candidates' \subseteq Slots
  BY DEF Candidates, Slots
<1>7. QED
  BY <1>5, <1>6

LEMMA FreeSafe ==
  ASSUME SafeInv, NEW p \in Procs, Free(p)
  PROVE  SafeInv'
<1>1. SpanInv /\ SpanInv'
  BY FreeSpanInv DEF SafeInv
<1>2. CASE FreeStart(p)
  <2>1. PICK i \in live : /\ target' = [target EXCEPT ![p] = i]
                          /\ live' = live \ {i}
    BY <1>2 DEF FreeStart
  <2>2. /\ ptr' = [ptr EXCEPT ![p] = gcmarkBits]
        /\ UNCHANGED << freeIndex, allocCache, allocBits, gcmarkBits, bits >>
    BY <1>2 DEF FreeStart, span
  <2>3. Refilling' = Refilling
    BY <1>1, <1>2 DEF FreeStart, Refilling, Goto, SpanInv, TypeOK
  <2>4. Candidates' = Candidates
    BY <2>2, <2>3, CandidatesKept
  <2>5. i \in Slots /\ i \notin bits[gcmarkBits] /\ i \notin InFlight /\ i \notin Candidates
    BY NilAssumption DEF SafeInv, SpanInv, TypeOK, MarkInv, OnePlace, NoDoubleAlloc
  <2>6. MarkInv'
    BY <1>1, <2>1, <2>2, <2>5 DEF SafeInv, SpanInv, TypeOK, MarkInv
  <2>7. NoDoubleAlloc'
    BY <2>1, <2>4 DEF SafeInv, NoDoubleAlloc
  <2>8. InFlight' \subseteq InFlight \cup {i}
    BY <1>1, <2>1 DEF InFlight, SpanInv, TypeOK, NoSlot
  <2>9. \A q, r \in Procs : q # r /\ target'[q] = target'[r] => target'[q] = NoSlot
    BY <1>1, <2>1, <2>5 DEF SafeInv, SpanInv, TypeOK, OnePlace, InFlight
  <2>10. OnePlace'
    BY <2>1, <2>2, <2>4, <2>5, <2>8, <2>9 DEF SafeInv, OnePlace, NoDoubleAlloc, NoSlot
  <2>11. QED
    BY <1>1, <2>6, <2>7, <2>10 DEF SafeInv
<1>3. CASE FreeLoad(p) \/ FreeRetry(p)
  <2>1. UNCHANGED << freeIndex, allocCache, allocBits, gcmarkBits, bits, target, ptr, live >>
    BY <1>3 DEF FreeLoad, FreeRetry, span
  <2>2. Refilling' = Refilling
    BY <1>1, <1>3 DEF FreeLoad, FreeRetry, Refilling, Goto, SpanInv, TypeOK
  <2>3. QED
    BY <1>1, <2>1, <2>2, CandidatesKept, QuietSafe DEF SafeInv
<1>4. CASE FreeCas(p)
  <2> DEFINE i == target[p]
  <2>1. /\ ptr[p] \in BitArrays /\ i \in Slots /\ i # NoSlot
        /\ bits' = [bits EXCEPT ![ptr[p]] = @ \cup {i}]
    BY <1>4, FlipSets, SizeAssumption DEF Slots, NoSlot
  <2>2. /\ UNCHANGED << allocBits, gcmarkBits, live >>
        /\ target' = [target EXCEPT ![p] = NoSlot]
        /\ ptr' = [ptr EXCEPT ![p] = NoBits]
    BY <1>4 DEF FreeCas, span
  <2>3. /\ i \in InFlight
        /\ i \notin live /\ i \notin Candidates /\ i \notin bits[gcmarkBits]
        /\ gcmarkBits \in BitArrays /\ gcmarkBits # NoBits /\ allocBits # gcmarkBits
    BY <2>1, NilAssumption DEF SafeInv, MarkInv, OnePlace, InFlight
  <2>4. InFlight' = InFlight \ {i}
    BY <1>1, <2>1, <2>2 DEF SafeInv, OnePlace, InFlight, SpanInv, TypeOK, NoSlot
  <2>5. MarkInv'
    <3>1. ASSUME NEW q \in Procs, ptr'[q] # NoBits
          PROVE  target'[q] \notin bits'[ptr'[q]]
      <4>1. q # p /\ ptr'[q] = ptr[q] /\ target'[q] = target[q]
        BY <1>1, <2>2, <3>1 DEF SpanInv, TypeOK
      <4>2. target[q] # i
        BY <2>1, <4>1 DEF SafeInv, OnePlace
      <4>3. target[q] \notin bits[ptr[q]]
        BY <3>1, <4>1 DEF SafeInv, MarkInv
      <4>4. ptr[q] \in BitArrays
        BY <1>1, <3>1, <4>1 DEF SpanInv, TypeOK
      <4>5. QED
        BY <1>1, <2>1, <4>1, <4>2, <4>3, <4>4 DEF SpanInv, TypeOK
    <3>2. QED
      BY <2>2, <3>1 DEF SafeInv, MarkInv
  <2>6. NoDoubleAlloc'
    BY <1>4, <2>2, <2>3, LateMark DEF SafeInv, NoDoubleAlloc
  <2>7. InFlight' \cap Candidates' = {}
    BY <1>4, <2>4, LateMark DEF SafeInv, OnePlace
  <2>8. bits'[gcmarkBits] \cap (live \cup InFlight' \cup Candidates') = {}
    <3>1. CASE ptr[p] = gcmarkBits
      <4>1. bits'[gcmarkBits] = bits[gcmarkBits] \cup {i}
        BY <1>1, <2>1, <3>1 DEF SpanInv, TypeOK
      <4>2. Candidates' = Candidates
        BY <1>4, <2>3, <3>1, LateMark
      <4>3. QED
        BY <2>3, <2>4, <4>1, <4>2 DEF SafeInv, OnePlace
    <3>2. CASE ptr[p] # gcmarkBits
      <4>1. bits'[gcmarkBits] = bits[gcmarkBits]
        BY <1>1, <2>1, <2>3, <3>2 DEF SpanInv, TypeOK
      <4>2. Candidates' \subseteq Candidates \cup {i}
        BY <1>4, LateMark
      <4>3. QED
        BY <2>3, <2>4, <4>1, <4>2 DEF SafeInv, OnePlace
    <3>3. QED
      BY <3>1, <3>2
  <2>9. \A q, r \in Procs : q # r /\ target'[q] = target'[r] => target'[q] = NoSlot
    BY <1>1, <2>2 DEF SafeInv, SpanInv, TypeOK, OnePlace
  <2>10. OnePlace'
    BY <2>2, <2>4, <2>7, <2>8, <2>9 DEF SafeInv, OnePlace, NoSlot
  <2>11. QED
    BY <1>1, <2>5, <2>6, <2>10 DEF SafeInv
<1>5. QED
  BY <1>2, <1>3, <1>4 DEF Free

(* The sweep's swap makes the marked slots the candidates. *)
LEMMA SwapEffect ==
  ASSUME SafeInv, NEW p \in Procs, SweepSwap(p)
  PROVE  /\ Candidates' = Slots \cap bits[gcmarkBits]
         /\ gcmarkBits' \in BitArrays \ Referenced
         /\ bits'[gcmarkBits'] = {}
         /\ \A a \in Referenced : bits'[a] = bits[a]
<1>1. gcmarkBits \in BitArrays /\ gcmarkBits \in Referenced
  BY DEF SafeInv, MarkInv, Referenced
<1>2. gcmarkBits' \in BitArrays \ Referenced
  BY DEF SweepSwap, NewArray
<1>3. bits' = [x \in BitArrays |-> IF x \in Referenced THEN bits[x] ELSE {}]
  BY DEF SweepSwap
<1>4. bits'[gcmarkBits'] = {} /\ \A a \in Referenced : bits'[a] = bits[a]
  BY <1>2, <1>3 DEF Referenced
<1>5. freeIndex' = 0 /\ allocBits' = gcmarkBits /\ bits'[allocBits'] = bits[gcmarkBits]
  BY <1>1, <1>4 DEF SweepSwap
<1>6. Refilling'
  BY DEF SweepSwap, Refilling, Goto, SafeInv, SpanInv, TypeOK
<1>7. NextWord(0) = WordBits
  BY NextWordBounds, DivMod, SizeAssumption
<1>8. ASSUME NEW j \in Slots
      PROVE  j \in Candidates' <=> j \in bits[gcmarkBits]
  <2>1. j \in Nat /\ j - 0 = j /\ j >= 0
    BY SizeAssumption DEF Slots
  <2>2. j \in WordAt(0)' <=> j < WordBits /\ j \in bits[gcmarkBits]
    BY <1>5, <2>1, SizeAssumption DEF WordAt
  <2>3. j \in Candidates' <=> IF j < WordBits
                              THEN j \in WordAt(0)'
                              ELSE j \in bits[gcmarkBits]
    BY <1>5, <1>6, <1>7, <2>1 DEF Candidates, Cache, Slots, NextWord
  <2>4. QED
    BY <2>2, <2>3
<1>9. Candidates' \subseteq Slots
  BY DEF Candidates, Slots
<1>10. QED
  BY <1>2, <1>4, <1>8, <1>9

LEMMA RefillEffect ==
  ASSUME SpanInv, NEW p \in Procs, SweepRefill(p)
  PROVE  Candidates' = Candidates
<1>1. Refilling
  BY DEF SweepRefill, Refilling
<1>2. ~ Refilling'
  BY NilAssumption DEF SweepRefill, Refilling, Goto, SpanInv, TypeOK, LockInv
<1>3. UNCHANGED << freeIndex, allocBits, bits >> /\ allocCache' = WordAt(0)
  BY DEF SweepRefill
<1>4. QED
  BY <1>1, <1>2, <1>3 DEF Candidates, Cache, Slots, NextWord

LEMMA SweepSafe ==
  ASSUME ~ MmapFails, SafeInv, NEW p \in Procs, Sweep(p)
  PROVE  SafeInv'
<1>1. SpanInv /\ SpanInv'
  BY SweepSpanInv DEF SafeInv
<1>2. CASE SweepCheck(p) \/ SweepLock(p)
  <2>1. UNCHANGED << freeIndex, allocCache, allocBits, gcmarkBits, bits, target, ptr, live >>
    BY <1>2 DEF SweepCheck, SweepLock, span, freeing
  <2>2. Refilling' = Refilling
    BY <1>1, <1>2 DEF SweepCheck, SweepLock, Refilling, Goto, SpanInv, TypeOK
  <2>3. QED
    BY <1>1, <2>1, <2>2, CandidatesKept, QuietSafe DEF SafeInv
<1>3. CASE SweepSwap(p)
  <2>1. /\ Candidates' = Slots \cap bits[gcmarkBits]
        /\ gcmarkBits' \in BitArrays \ Referenced
        /\ bits'[gcmarkBits'] = {}
        /\ \A a \in Referenced : bits'[a] = bits[a]
    BY <1>3, SwapEffect
  <2>2. UNCHANGED << target, ptr, live >> /\ allocBits' = gcmarkBits
    BY <1>3 DEF SweepSwap, freeing
  <2>3. gcmarkBits \in Referenced /\ gcmarkBits # NoBits
    BY NilAssumption DEF SafeInv, MarkInv, Referenced
  <2>4. \A q \in Procs : ptr[q] # NoBits => ptr[q] \in Referenced
    BY <1>1 DEF SpanInv, TypeOK, Referenced
  <2>5. MarkInv'
    BY <2>1, <2>2, <2>3, <2>4 DEF SafeInv, MarkInv
  <2>6. NoDoubleAlloc'
    BY <2>1, <2>2, <2>3 DEF SafeInv, NoDoubleAlloc, OnePlace
  <2>7. OnePlace'
    BY <2>1, <2>2, <2>3 DEF SafeInv, OnePlace, InFlight
  <2>8. QED
    BY <1>1, <2>5, <2>6, <2>7 DEF SafeInv
<1>4. CASE SweepRefill(p)
  <2>1. UNCHANGED << allocBits, gcmarkBits, bits, target, ptr, live >>
    BY <1>4 DEF SweepRefill, freeing
  <2>2. QED
    BY <1>1, <1>4, <2>1, RefillEffect, QuietSafe DEF SafeInv
<1>5. QED
  BY <1>2, <1>3, <1>4 DEF Sweep, SweepSwapFails

LEMMA InitSafe == Init => SafeInv
<1> SUFFICES ASSUME Init PROVE SafeInv
  OBVIOUS
<1>1. gcmarkBits \in BitArrays /\ allocBits \in BitArrays /\ gcmarkBits # allocBits
  BY DEF Init, NewArray
<1>2. bits[gcmarkBits] = {} /\ live = {} /\ \A p \in Procs : target[p] = NoSlot /\ ptr[p] = NoBits
  BY <1>1 DEF Init
<1>3. InFlight = {}
  BY <1>2 DEF InFlight
<1>4. QED
  BY <1>1, <1>2, <1>3, InitSpanInv DEF SafeInv, MarkInv, NoDoubleAlloc, OnePlace

LEMMA NextSafe ==
  ASSUME ~ MmapFails
  PROVE  SafeInv /\ [Next]_vars => SafeInv'
<1> SUFFICES ASSUME SafeInv, [Next]_vars PROVE SafeInv'
  OBVIOUS
<1>1. CASE UNCHANGED vars
  <2>1. UNCHANGED << freeIndex, allocCache, allocBits, gcmarkBits, bits, target, ptr, live, pc >>
    BY <1>1 DEF vars, span, freeing
  <2>2. Refilling' = Refilling
    BY <2>1 DEF Refilling
  <2>3. SpanInv'
    BY <1>1, NextSpanInv DEF SafeInv
  <2>4. QED
    BY <2>1, <2>2, <2>3, CandidatesKept, QuietSafe DEF SafeInv
<1>2. CASE Next
  BY <1>2, AllocSafe, FreeSafe, SweepSafe DEF Next
<1>3. QED
  BY <1>1, <1>2

(* When callers free a slot once and the sweep gets its memory, no slot    *)
(* that a caller holds can be handed out again, for any number of          *)
(* goroutines and any order of their steps.                                *)
THEOREM NeverDoubleAlloc ==
  ASSUME ~ MmapFails
  PROVE  Spec => []NoDoubleAlloc
<1>1. SafeInv => NoDoubleAlloc
  BY DEF SafeInv
<1>2. QED
  BY InitSafe, NextSafe, <1>1, PTL DEF Spec

(* Under the same assumptions a slot is always in one place: with one      *)
(* caller, in one running Free, marked, or ready to be handed out.         *)
THEOREM AlwaysOnePlace ==
  ASSUME ~ MmapFails
  PROVE  Spec => []OnePlace
<1>1. SafeInv => OnePlace
  BY DEF SafeInv
<1>2. QED
  BY InitSafe, NextSafe, <1>1, PTL DEF Spec

-----------------------------------------------------------------------------
(* The marks, and the promise of SlotAllocator.                            *)

LEMMA StepKeepsMarks ==
  ASSUME ~ MmapFails, SafeInv, [Next]_vars
  PROVE  \A a \in Referenced : bits[a] \subseteq bits'[a]
<1>1. CASE UNCHANGED bits
  BY <1>1
<1>2. ASSUME NEW p \in Procs, FreeCas(p)
      PROVE  \A a \in Referenced : bits[a] \subseteq bits'[a]
  BY <1>2, FlipSets DEF Referenced, SafeInv, SpanInv, TypeOK
<1>3. ASSUME NEW p \in Procs, SweepSwap(p)
      PROVE  \A a \in Referenced : bits[a] \subseteq bits'[a]
  BY <1>3, SwapEffect
<1>4. ASSUME NEW p \in Procs, Alloc(p)
      PROVE  UNCHANGED bits
  BY <1>4 DEF Alloc, AllocCheck, AllocFast, AllocFastMiss, AllocSlow, AllocExhausted, HandOut
<1>5. ASSUME NEW p \in Procs, Free(p), ~ FreeCas(p)
      PROVE  UNCHANGED bits
  BY <1>5 DEF Free, FreeStart, FreeLoad, FreeRetry
<1>6. ASSUME NEW p \in Procs, Sweep(p), ~ SweepSwap(p)
      PROVE  UNCHANGED bits
  BY <1>6 DEF Sweep, SweepCheck, SweepLock, SweepSwapFails, SweepRefill
<1>7. QED
  BY <1>1, <1>2, <1>3, <1>4, <1>5, <1>6 DEF Next, vars

(* setMarked, which flips a bit, never clears one when callers free a slot *)
(* once: not of the bitmap in use, nor of one the sweep has taken over.    *)
THEOREM MarksAreKept ==
  ASSUME ~ MmapFails
  PROVE  Spec => MarksKept
<1>1. SafeInv /\ [Next]_vars => [\A a \in Referenced : bits[a] \subseteq bits'[a]]_vars
  BY StepKeepsMarks
<1>2. QED
  BY InitSafe, NextSafe, <1>1, PTL DEF Spec, MarksKept

LEMMA InitCandidates == Init => Candidates = Slots
<1> SUFFICES ASSUME Init PROVE Candidates = Slots
  OBVIOUS
<1>1. allocBits \in BitArrays /\ bits[allocBits] = BitSpace
  BY DEF Init, NewArray
<1>2. Slots \subseteq BitSpace
  BY SlotsHaveBits
<1>3. NextWord(0) = WordBits
  BY NextWordBounds, DivMod, SizeAssumption
<1>4. ~ Refilling /\ freeIndex = 0 /\ allocCache = 0 .. WordBits - 1
  BY DEF Init, Refilling
<1>5. ASSUME NEW j \in Slots
      PROVE  j \in Candidates
  <2>1. j \in Nat /\ j - 0 = j
    BY SizeAssumption DEF Slots
  <2>2. QED
    BY <1>1, <1>2, <1>3, <1>4, <2>1, SizeAssumption DEF Candidates, Cache
<1>6. QED
  BY <1>5 DEF Candidates

LEMMA InitPromise == Init => Promise!Init
BY InitCandidates DEF Promise!Init, Init

LEMMA NextPromise ==
  ASSUME ~ MmapFails, SafeInv, [Next]_vars
  PROVE  [Promise!Next]_(Promise!vars)
<1>1. SafeInv' /\ SpanInv
  BY NextSafe DEF SafeInv
<1>2. Candidates' \subseteq Slots \ live'
  BY <1>1 DEF SafeInv, NoDoubleAlloc, Candidates, Slots
<1>3. ASSUME live' = live
      PROVE  Promise!Recycle
  BY <1>2, <1>3 DEF Promise!Recycle
<1>4. ASSUME NEW p \in Procs, Alloc(p)
      PROVE  [Promise!Next]_(Promise!vars)
  <2>1. ASSUME NEW i \in Candidates, Candidates' = Candidates \ {i}, live' = live \cup {i}
        PROVE  Promise!Next
    <3>1. i \in Slots /\ Promise!Grab(i)
      BY <2>1 DEF Promise!Grab, Candidates
    <3>2. QED
      BY <3>1 DEF Promise!Next
  <2>2. QED
    BY <1>1, <1>3, <1>4, <2>1, AllocEffect DEF Promise!Next
<1>5. ASSUME NEW p \in Procs, FreeStart(p)
      PROVE  Promise!Next
  <2>1. PICK i \in live : live' = live \ {i}
    BY <1>5 DEF FreeStart
  <2>2. UNCHANGED << freeIndex, allocCache, allocBits, bits >>
    BY <1>5 DEF FreeStart, span
  <2>3. Refilling' = Refilling
    BY <1>1, <1>5 DEF FreeStart, Refilling, Goto, SpanInv, TypeOK
  <2>4. Candidates' = Candidates
    BY <2>2, <2>3, CandidatesKept
  <2>5. i \in Slots
    BY <1>1 DEF SpanInv, TypeOK
  <2>6. QED
    BY <2>1, <2>4, <2>5 DEF Promise!Next, Promise!Release
<1>6. ASSUME NEW p \in Procs, Free(p), ~ FreeStart(p)
      PROVE  live' = live
  BY <1>6 DEF Free, FreeLoad, FreeCas, FreeRetry
<1>7. ASSUME NEW p \in Procs, Sweep(p)
      PROVE  live' = live
  BY <1>7 DEF Sweep, SweepCheck, SweepLock, SweepSwap, SweepSwapFails, SweepRefill
<1>8. UNCHANGED vars => live' = live
  BY DEF vars
<1>9. QED
  BY <1>3, <1>4, <1>5, <1>6, <1>7, <1>8 DEF Next, Promise!Next

(* A span implements what SlotAllocator promises: every step of the three  *)
(* racing calls is a grab of a free slot, a release, a recycling of slots  *)
(* nobody holds, or invisible.                                             *)
THEOREM SpanKeepsPromise ==
  ASSUME ~ MmapFails
  PROVE  Spec => PromiseKept
<1>1. SafeInv /\ [Next]_vars => [Promise!Next]_(Promise!vars)
  BY NextPromise
<1>2. QED
  BY InitSafe, NextSafe, InitPromise, <1>1, PTL DEF Spec, PromiseKept, Promise!Spec

-----------------------------------------------------------------------------
(* The room that allocCount promises.                                      *)

(* Between the sweep's recount and its swap the marks can only get more. *)
CountInv == \A p \in Procs : pc[p] = "swap" => gcCount <= Cardinality(Marked)
RoomInv == CountInv /\ NoPhantomRoom

LEMMA SlotSets ==
  ASSUME NEW S, S \subseteq Slots
  PROVE  /\ IsFiniteSet(S) /\ Cardinality(S) \in Nat
         /\ \A R \in SUBSET S : Cardinality(R) \in Nat /\ Cardinality(R) <= Cardinality(S)
         /\ \A x \in S : Cardinality(S \ {x}) = Cardinality(S) - 1
<1>1. IsFiniteSet(Slots)
  BY FS_Interval, SizeAssumption DEF Slots
<1>2. IsFiniteSet(S)
  BY <1>1, FS_Subset
<1> QED
  BY <1>2, FS_Subset, FS_CardinalityType, FS_RemoveElement

LEMMA CandidatesFinite ==
  ASSUME TypeOK
  PROVE  /\ Candidates \subseteq Slots /\ Cardinality(Candidates) \in Nat
         /\ Marked \subseteq Slots /\ Cardinality(Marked) \in Nat
         /\ NElems \in Nat /\ allocCount \in Nat /\ gcCount \in 0 .. NElems
<1>1. Candidates \subseteq Slots /\ Marked \subseteq Slots
  BY DEF Candidates, Marked
<1> QED
  BY <1>1, SlotSets, SizeAssumption DEF TypeOK

(* More candidates and no smaller count promise no more room. *)
LEMMA RoomGrows ==
  ASSUME TypeOK, TypeOK', NoPhantomRoom, Candidates \subseteq Candidates', allocCount' = allocCount
  PROVE  NoPhantomRoom'
<1>1. Candidates' \subseteq Slots
  BY DEF Candidates, Slots
<1>2. Cardinality(Candidates) <= Cardinality(Candidates') /\ Cardinality(Candidates') \in Nat
  BY <1>1, SlotSets
<1>3. NElems - allocCount <= Cardinality(Candidates)
  BY DEF NoPhantomRoom
<1>4. NElems - allocCount' <= Cardinality(Candidates')
  BY <1>2, <1>3, CandidatesFinite
<1> QED
  BY <1>4 DEF NoPhantomRoom

(* A hand-out takes a candidate and is counted. *)
LEMMA AllocRoom ==
  ASSUME SpanInv, SpanInv', NoPhantomRoom, NEW p \in Procs, Alloc(p)
  PROVE  NoPhantomRoom'
<1>1. CASE Candidates' = Candidates /\ allocCount' = allocCount
  BY <1>1, RoomGrows DEF SpanInv
<1>2. ASSUME NEW i \in Candidates, Candidates' = Candidates \ {i}, allocCount' = allocCount + 1
      PROVE  NoPhantomRoom'
  <2>1. Cardinality(Candidates') = Cardinality(Candidates) - 1
    BY <1>2, CandidatesFinite, SlotSets DEF SpanInv
  <2>2. NElems - allocCount <= Cardinality(Candidates)
    BY DEF NoPhantomRoom
  <2>3. NElems - allocCount' <= Cardinality(Candidates')
    BY <1>2, <2>1, <2>2, CandidatesFinite DEF SpanInv
  <2> QED
    BY <2>3 DEF NoPhantomRoom
<1> QED
  BY <1>1, <1>2, AllocEffect

(* Only the sweep's swap lowers the count, by slots that are marked. *)
LEMMA NextRoom ==
  ASSUME ~ MmapFails, SafeInv, SafeInv', NoPhantomRoom, CountInv, [Next]_vars
  PROVE  NoPhantomRoom'
<1>1. SpanInv /\ SpanInv' /\ TypeOK /\ TypeOK'
  BY DEF SafeInv, SpanInv
<1>2. ASSUME UNCHANGED << freeIndex, allocCache, allocBits, bits, allocCount >>, Refilling' = Refilling
      PROVE  NoPhantomRoom'
  BY <1>1, <1>2, CandidatesKept, RoomGrows
<1>3. CASE UNCHANGED vars
  <2>1. UNCHANGED << freeIndex, allocCache, allocBits, bits, allocCount, pc >>
    BY <1>3 DEF vars, span
  <2> QED
    BY <1>2, <2>1 DEF Refilling
<1>4. ASSUME NEW p \in Procs, Free(p)
      PROVE  NoPhantomRoom'
  <2>1. CASE FreeStart(p) \/ FreeLoad(p) \/ FreeRetry(p)
    <3>1. UNCHANGED << freeIndex, allocCache, allocBits, bits, allocCount >>
      BY <2>1 DEF FreeStart, FreeLoad, FreeRetry, span
    <3>2. Refilling' = Refilling
      BY <1>1, <2>1 DEF FreeStart, FreeLoad, FreeRetry, Refilling, Goto, TypeOK
    <3> QED
      BY <1>2, <3>1, <3>2
  <2>2. CASE FreeCas(p)
    <3>1. allocCount' = allocCount
      BY <2>2 DEF FreeCas, span
    <3> QED
      BY <1>1, <2>2, <3>1, LateMark, RoomGrows
  <2> QED
    BY <1>4, <2>1, <2>2 DEF Free
<1>5. ASSUME NEW p \in Procs, Sweep(p)
      PROVE  NoPhantomRoom'
  <2>1. CASE SweepCheck(p) \/ SweepLock(p)
    <3>1. UNCHANGED << freeIndex, allocCache, allocBits, bits, allocCount >>
      BY <2>1 DEF SweepCheck, SweepLock, span
    <3>2. Refilling' = Refilling
      BY <1>1, <2>1 DEF SweepCheck, SweepLock, Refilling, Goto, TypeOK
    <3> QED
      BY <1>2, <3>1, <3>2
  <2>2. CASE SweepSwap(p)
    <3>1. Candidates' = Marked
      BY <2>2, SwapEffect DEF Marked
    <3>2. gcCount <= Cardinality(Marked) /\ allocCount' = NElems - gcCount
      BY <2>2 DEF SweepSwap, CountInv
    <3>3. NElems - allocCount' <= Cardinality(Candidates')
      BY <1>1, <3>1, <3>2, CandidatesFinite
    <3> QED
      BY <3>3 DEF NoPhantomRoom
  <2>3. CASE SweepRefill(p)
    <3>1. allocCount' = allocCount
      BY <2>3 DEF SweepRefill
    <3> QED
      BY <1>1, <2>3, <3>1, RefillEffect, RoomGrows
  <2> QED
    BY <1>5, <2>1, <2>2, <2>3 DEF Sweep, SweepSwapFails
<1> QED
  BY <1>1, <1>3, <1>4, <1>5, AllocRoom DEF Next

(* The recount is taken under the lock that keeps it until the swap. *)
LEMMA NextCount ==
  ASSUME ~ MmapFails, SafeInv, SafeInv', CountInv, [Next]_vars
  PROVE  CountInv'
<1>1. SpanInv /\ TypeOK /\ LockInv /\ TypeOK'
  BY DEF SafeInv, SpanInv
<1>2. SUFFICES ASSUME NEW q \in Procs, pc'[q] = "swap"
               PROVE  (gcCount <= Cardinality(Marked))'
  BY DEF CountInv
<1>3. ASSUME NEW p \in Procs, SweepLock(p), q = p
      PROVE  (gcCount <= Cardinality(Marked))'
  <2>1. gcCount' = Cardinality(Marked) /\ UNCHANGED << gcmarkBits, bits >>
    BY <1>1, <1>2, <1>3 DEF SweepLock, Goto, TypeOK, span
  <2>2. Marked' = Marked
    BY <2>1 DEF Marked, Slots
  <2>3. Cardinality(Marked) \in Nat
    BY <1>1, CandidatesFinite
  <2> QED
    BY <2>1, <2>2, <2>3
<1>4. ASSUME pc[q] = "swap", gcCount' = gcCount, gcmarkBits' = gcmarkBits
      PROVE  (gcCount <= Cardinality(Marked))'
  <2>1. gcmarkBits \in Referenced
    BY <1>1 DEF SafeInv, MarkInv, Referenced
  <2>2. Marked \subseteq Marked'
    BY <1>4, <2>1, StepKeepsMarks DEF Marked, Slots
  <2>3. Marked' \subseteq Slots
    BY DEF Marked, Slots
  <2>4. Cardinality(Marked) <= Cardinality(Marked') /\ Cardinality(Marked') \in Nat
    BY <2>2, <2>3, SlotSets
  <2>5. gcCount <= Cardinality(Marked)
    BY <1>4 DEF CountInv
  <2> QED
    BY <1>1, <1>4, <2>4, <2>5, CandidatesFinite
<1>5. ASSUME NEW p \in Procs, Alloc(p)
      PROVE  pc[q] = "swap" /\ gcCount' = gcCount /\ gcmarkBits' = gcmarkBits
  BY <1>1, <1>2, <1>5 DEF Alloc, AllocCheck, AllocFast, AllocFastMiss, AllocSlow, AllocExhausted, HandOut,
                          Goto, TypeOK, span
<1>6. ASSUME NEW p \in Procs, Free(p)
      PROVE  pc[q] = "swap" /\ gcCount' = gcCount /\ gcmarkBits' = gcmarkBits
  BY <1>1, <1>2, <1>6 DEF Free, FreeStart, FreeLoad, FreeCas, FreeRetry, Goto, TypeOK, span
<1>7. ASSUME NEW p \in Procs, Sweep(p), ~ (SweepLock(p) /\ q = p)
      PROVE  pc[q] = "swap" /\ gcCount' = gcCount /\ gcmarkBits' = gcmarkBits
  <2>1. pc[q] = "swap"
    BY <1>1, <1>2, <1>7 DEF Sweep, SweepCheck, SweepLock, SweepSwap, SweepSwapFails, SweepRefill, Goto, TypeOK
  <2>2. lock = q
    BY <1>1, <2>1 DEF LockInv
  <2>3. CASE SweepCheck(p) \/ SweepRefill(p)
    BY <2>1, <2>3 DEF SweepCheck, SweepRefill, span
  <2>4. CASE SweepLock(p)
    BY <1>7, <2>2, <2>4, NilAssumption DEF SweepLock
  <2>5. CASE SweepSwap(p)
    <3>1. q = p
      BY <1>1, <2>2, <2>5 DEF SweepSwap, LockInv
    <3> QED
      BY <1>1, <1>2, <2>5, <3>1 DEF SweepSwap, Goto, TypeOK
  <2> QED
    BY <1>7, <2>1, <2>3, <2>4, <2>5 DEF Sweep, SweepSwapFails
<1> QED
  BY <1>2, <1>3, <1>4, <1>5, <1>6, <1>7 DEF Next, vars, span

LEMMA InitRoom == Init => RoomInv
<1> SUFFICES ASSUME Init
             PROVE  RoomInv
  OBVIOUS
<1>1. Candidates = Slots
  BY InitCandidates
<1>2. Cardinality(Slots) = NElems
  BY FS_Interval, SizeAssumption DEF Slots
<1> QED
  BY <1>1, <1>2, SizeAssumption DEF Init, RoomInv, CountInv, NoPhantomRoom

(* A span that isFull and needGrow do not count as full (allocCount, span.go:120)  *)
(* can hand out at least the slots it counts as free: neither the search   *)
(* of nextFreeIndex, nor marks that land between a sweep's recount and its *)
(* swap of the bitmaps, make it promise a slot that is not there.          *)
THEOREM RoomIsReal ==
  ASSUME ~ MmapFails
  PROVE  Spec => []NoPhantomRoom
<1>1. Init => SafeInv /\ RoomInv
  BY InitSafe, InitRoom
<1>2. SafeInv /\ RoomInv /\ [Next]_vars => (SafeInv /\ RoomInv)'
  BY NextSafe, NextRoom, NextCount DEF RoomInv
<1>3. RoomInv => NoPhantomRoom
  BY DEF RoomInv
<1> QED
  BY <1>1, <1>2, <1>3, PTL DEF Spec

-----------------------------------------------------------------------------
(* The history variables: late marks and failed swaps.                     *)

LEMMA AddSlot ==
  ASSUME NEW S, S \subseteq Slots, NEW x \in Slots \ S
  PROVE  Cardinality(S \cup {x}) = Cardinality(S) + 1
BY SlotSets, FS_AddElement

LEMMA Counted ==
  ASSUME SafeInv
  PROVE  /\ live \subseteq Slots /\ InFlight \subseteq Slots /\ Marked \subseteq Slots
         /\ Cardinality(live) \in Nat /\ Cardinality(InFlight) \in Nat /\ Cardinality(Marked) \in Nat
         /\ allocCount \in Nat /\ gcCount \in 0 .. NElems /\ NElems \in Nat
<1>1. live \subseteq Slots /\ Marked \subseteq Slots
  BY DEF SafeInv, SpanInv, TypeOK, Marked
<1>2. InFlight \subseteq Slots
  BY DEF InFlight, SafeInv, SpanInv, FreeInv
<1> QED
  BY <1>1, <1>2, SlotSets, SizeAssumption DEF SafeInv, SpanInv, TypeOK

LEMMA CountedNext ==
  ASSUME SafeInv'
  PROVE  /\ Cardinality(live') \in Nat /\ Cardinality(InFlight') \in Nat /\ Cardinality(Marked') \in Nat
         /\ allocCount' \in Nat
<1>1. live' \subseteq Slots /\ Marked' \subseteq Slots
  BY DEF SafeInv, SpanInv, TypeOK, Marked, Slots
<1>2. InFlight' \subseteq Slots
  BY DEF InFlight, SafeInv, SpanInv, FreeInv, Slots
<1>3. Slots' = Slots
  BY DEF Slots
<1> QED
  BY <1>1, <1>2, <1>3, SlotSets DEF SafeInv, SpanInv, TypeOK

(* A step on the count leaves it covered when what is out or marked grows  *)
(* as much as the count does, and nothing is lost from a counted sweep.    *)
LEMMA LateKept ==
  ASSUME SafeInv, SafeInv', HistoryType, HistoryType', LateInv, late <= late',
         allocCount' + Out + Cardinality(Marked) <= allocCount + Out' + Cardinality(Marked'),
         \A q \in Procs : pc'[q] = "swap" => pc[q] = "swap" /\ gcCount' = gcCount /\ Out <= Out'
  PROVE  LateInv'
<1> SUFFICES ASSUME late' < NElems
             PROVE  /\ allocCount' <= Out' + Cardinality(Marked')
                    /\ \A q \in Procs : pc'[q] = "swap" => NElems - gcCount' <= Out'
  BY DEF LateInv
<1>1. late \in Nat /\ late' \in Nat /\ late < NElems
  BY SizeAssumption DEF HistoryType
<1>2. Out \in Nat /\ Out' \in Nat
  BY <1>1, Counted, CountedNext DEF Out
<1>3. /\ allocCount <= Out + Cardinality(Marked)
      /\ \A q \in Procs : pc[q] = "swap" => NElems - gcCount <= Out
  BY <1>1 DEF LateInv
<1>4. /\ allocCount \in Nat /\ allocCount' \in Nat /\ gcCount \in Nat /\ NElems \in Nat
      /\ Cardinality(Marked) \in Nat /\ Cardinality(Marked') \in Nat
  BY Counted, CountedNext
<1> QED
  BY <1>2, <1>3, <1>4

LEMMA AllocLate ==
  ASSUME SafeInv, SafeInv', HistoryType, HistoryType', LateInv, NEW p \in Procs, Alloc(p), UNCHANGED late
  PROVE  LateInv'
<1>1. UNCHANGED << gcmarkBits, bits, target, gcCount >>
  BY DEF Alloc, AllocCheck, AllocFast, AllocFastMiss, AllocSlow, AllocExhausted, HandOut, span, freeing
<1>2. InFlight' = InFlight /\ Marked' = Marked
  BY <1>1 DEF InFlight, Marked, Slots
<1>3. \A q \in Procs : pc'[q] = "swap" => pc[q] = "swap"
  BY DEF Alloc, AllocCheck, AllocFast, AllocFastMiss, AllocSlow, AllocExhausted, HandOut, Goto,
         SafeInv, SpanInv, TypeOK
<1>4. \/ allocCount' = allocCount /\ Cardinality(live') = Cardinality(live)
      \/ allocCount' = allocCount + 1 /\ Cardinality(live') = Cardinality(live) + 1
  <2>1. ASSUME NEW i \in Candidates, live' = live \cup {i}, allocCount' = allocCount + 1
        PROVE  Cardinality(live') = Cardinality(live) + 1
    <3>1. i \in Slots \ live
      BY DEF SafeInv, NoDoubleAlloc, Candidates
    <3> QED
      BY <2>1, <3>1, AddSlot, Counted
  <2> QED
    BY <2>1, AllocEffect DEF SafeInv
<1>5. late \in Nat
  BY SizeAssumption DEF HistoryType
<1>6. allocCount' + Out + Cardinality(Marked) <= allocCount + Out' + Cardinality(Marked') /\ Out <= Out'
  BY <1>2, <1>4, <1>5, Counted DEF Out
<1> QED
  BY <1>1, <1>3, <1>5, <1>6, LateKept

(* A slot that a caller frees is on its way instead of held. *)
LEMMA StartLate ==
  ASSUME SafeInv, SafeInv', HistoryType, HistoryType', LateInv, NEW p \in Procs, FreeStart(p), UNCHANGED late
  PROVE  LateInv'
<1>1. PICK i \in live : target' = [target EXCEPT ![p] = i] /\ live' = live \ {i}
  BY DEF FreeStart
<1>2. UNCHANGED << gcmarkBits, bits, gcCount, allocCount >> /\ target[p] = NoSlot
  BY DEF FreeStart, span, SafeInv, SpanInv, FreeInv
<1>3. Marked' = Marked
  BY <1>2 DEF Marked, Slots
<1>4. i \in Slots \ InFlight
  BY Counted DEF SafeInv, OnePlace
<1>5. InFlight' = InFlight \cup {i}
  BY <1>1, <1>2, <1>4, SizeAssumption DEF InFlight, NoSlot, Slots, SafeInv, SpanInv, TypeOK
<1>6. Cardinality(live') = Cardinality(live) - 1 /\ Cardinality(InFlight') = Cardinality(InFlight) + 1
  BY <1>1, <1>4, <1>5, AddSlot, SlotSets, Counted
<1>7. \A q \in Procs : pc'[q] = "swap" => pc[q] = "swap"
  BY DEF FreeStart, Goto, SafeInv, SpanInv, TypeOK
<1>8. late \in Nat
  BY SizeAssumption DEF HistoryType
<1>9. allocCount' + Out + Cardinality(Marked) <= allocCount + Out' + Cardinality(Marked') /\ Out <= Out'
  BY <1>2, <1>3, <1>6, <1>8, Counted DEF Out
<1> QED
  BY <1>2, <1>7, <1>8, <1>9, LateKept

(* A mark takes its slot off the way: either the next sweep counts it, or  *)
(* it is late.                                                             *)
LEMMA CasLate ==
  ASSUME SafeInv, SafeInv', HistoryType, HistoryType', LateInv, NEW p \in Procs, LateCas(p)
  PROVE  LateInv'
<1> DEFINE i == target[p]
<1>1. /\ ptr[p] \in BitArrays /\ i \in Slots /\ i \in InFlight
      /\ bits' = [bits EXCEPT ![ptr[p]] = @ \cup {i}]
      /\ target' = [target EXCEPT ![p] = NoSlot]
  <2>1. FreeCas(p)
    BY DEF LateCas
  <2>2. ptr[p] \in BitArrays /\ i \in Slots /\ bits' = [bits EXCEPT ![ptr[p]] = @ \cup {i}]
    BY <2>1, FlipSets
  <2>3. i \in InFlight
    BY <2>2, SizeAssumption DEF InFlight, Slots, NoSlot
  <2> QED
    BY <2>1, <2>2, <2>3 DEF FreeCas
<1>2. UNCHANGED << gcmarkBits, gcCount, allocCount, live >>
  BY DEF LateCas, FreeCas, span
<1>3. InFlight' = InFlight \ {i}
  BY <1>1 DEF SafeInv, OnePlace, InFlight, SpanInv, TypeOK, NoSlot
<1>4. Cardinality(InFlight') = Cardinality(InFlight) - 1
  BY <1>1, <1>3, SlotSets, Counted
<1>5. i \notin bits[gcmarkBits] /\ gcmarkBits \in BitArrays
  BY <1>1, NilAssumption DEF SafeInv, MarkInv, OnePlace
<1>6. CASE ptr[p] = gcmarkBits
  <2>1. Marked' = Marked \cup {i} /\ i \notin Marked
    BY <1>1, <1>2, <1>5, <1>6 DEF Marked, Slots, SafeInv, SpanInv, TypeOK
  <2>2. Cardinality(Marked') = Cardinality(Marked) + 1
    BY <1>1, <2>1, AddSlot, Counted
  <2> QED
    <3>1. \A q \in Procs : pc'[q] = "swap" => pc[q] = "swap"
      BY DEF LateCas, FreeCas, Goto, SafeInv, SpanInv, TypeOK
    <3>2. late \in Nat /\ late' \in Nat /\ late' >= late
          /\ \A q \in Procs : pc[q] = "swap" /\ late < NElems => late' = late + 1
      BY SizeAssumption DEF LateCas, MarksLate, HistoryType
    <3>3. CASE late < NElems
      <4>1. allocCount' + Out + Cardinality(Marked) <= allocCount + Out' + Cardinality(Marked')
        BY <1>2, <1>4, <2>2, <3>2, Counted DEF Out
      <4>2. \A q \in Procs : pc[q] = "swap" => Out <= Out'
        BY <1>2, <1>4, <3>2, <3>3, Counted DEF Out
      <4> QED
        BY <1>2, <3>1, <3>2, <4>1, <4>2, LateKept
    <3>4. CASE late >= NElems
      BY <3>2, <3>4, SizeAssumption DEF LateInv, HistoryType
    <3> QED
      BY <3>2, <3>3, <3>4, SizeAssumption
<1>7. CASE ptr[p] # gcmarkBits
  <2>1. Marked' = Marked
    BY <1>1, <1>2, <1>5, <1>7 DEF Marked, Slots, SafeInv, SpanInv, TypeOK
  <2>2. \A q \in Procs : pc'[q] = "swap" => pc[q] = "swap"
    BY DEF LateCas, FreeCas, Goto, SafeInv, SpanInv, TypeOK
  <2>3. late \in Nat /\ late' \in Nat /\ late' >= late /\ (late < NElems => late' = late + 1)
    BY <1>7, SizeAssumption DEF LateCas, MarksLate, HistoryType
  <2>4. CASE late < NElems
    <3>1. Out' = Out
      BY <1>2, <1>4, <2>3, <2>4, Counted DEF Out
    <3>2. Out \in Nat
      BY <2>3, Counted DEF Out
    <3>3. allocCount' + Out + Cardinality(Marked) <= allocCount + Out' + Cardinality(Marked') /\ Out <= Out'
      BY <1>2, <2>1, <3>1, <3>2, Counted
    <3> QED
      BY <1>2, <2>2, <2>3, <3>3, LateKept
  <2>5. CASE late >= NElems
    BY <2>3, <2>5, SizeAssumption DEF LateInv, HistoryType
  <2> QED
    BY <2>3, <2>4, <2>5, SizeAssumption
<1> QED
  BY <1>6, <1>7

(* The sweep counts what is marked, and the span is full when it does.     *)
LEMMA SweepLate ==
  ASSUME ~ MmapFails, SafeInv, SafeInv', HistoryType, HistoryType', LateInv,
         NEW p \in Procs, Sweep(p), UNCHANGED late
  PROVE  LateInv'
<1>1. UNCHANGED << live, target >> /\ InFlight' = InFlight
  BY DEF Sweep, SweepCheck, SweepLock, SweepSwap, SweepSwapFails, SweepRefill, freeing, InFlight
<1>2. Out' = Out /\ Out \in Nat /\ late \in Nat
  <2>1. Out' = Out
    BY <1>1 DEF Out
  <2>2. late \in Nat
    BY SizeAssumption DEF HistoryType
  <2> QED
    BY <2>1, <2>2, Counted DEF Out
<1>3. ASSUME UNCHANGED << allocCount, gcmarkBits, bits >>,
             \A q \in Procs : pc'[q] = "swap" => pc[q] = "swap" /\ gcCount' = gcCount
      PROVE  LateInv'
  <2>1. Marked' = Marked
    BY <1>3 DEF Marked, Slots
  <2>2. allocCount' + Out + Cardinality(Marked) <= allocCount + Out' + Cardinality(Marked') /\ Out <= Out'
    BY <1>2, <1>3, <2>1, Counted
  <2> QED
    BY <1>2, <1>3, <2>2, LateKept
<1>4. CASE SweepCheck(p) \/ SweepRefill(p)
  <2>1. UNCHANGED << allocCount, gcmarkBits, bits, gcCount >>
    BY <1>4 DEF SweepCheck, SweepRefill, span
  <2>2. \A q \in Procs : pc'[q] = "swap" => pc[q] = "swap"
    BY <1>4 DEF SweepCheck, SweepRefill, Goto, SafeInv, SpanInv, TypeOK
  <2> QED
    BY <1>3, <2>1, <2>2
<1>5. CASE SweepLock(p)
  <2>1. UNCHANGED << allocCount, gcmarkBits, bits >> /\ lock = NoProc
    BY <1>5 DEF SweepLock, span
  <2>2. \A q \in Procs : pc[q] # "swap"
    BY <2>1, NilAssumption DEF SafeInv, SpanInv, LockInv
  <2>3. ASSUME NEW q \in Procs, pc'[q] = "swap"
        PROVE  allocCount >= NElems /\ gcCount' = Cardinality(Marked)
    BY <1>5, <2>2, <2>3, SizeAssumption DEF SweepLock, Goto, SafeInv, SpanInv, TypeOK
  <2>4. CASE \A q \in Procs : pc'[q] # "swap"
    BY <1>3, <2>1, <2>4
  <2>5. ASSUME allocCount >= NElems, gcCount' = Cardinality(Marked)
        PROVE  LateInv'
    <3>1. Marked' = Marked
      BY <2>1 DEF Marked, Slots
    <3>2. late < NElems => allocCount <= Out + Cardinality(Marked)
      BY DEF LateInv
    <3>3. late' < NElems => allocCount' <= Out' + Cardinality(Marked') /\ NElems - gcCount' <= Out'
      BY <1>2, <2>1, <2>5, <3>1, <3>2, Counted
    <3> QED
      BY <3>3 DEF LateInv
  <2> QED
    BY <2>3, <2>4, <2>5
<1>6. CASE SweepSwap(p)
  <2>1. Marked' = {}
    BY <1>6, SwapEffect DEF Marked
  <2>2. Cardinality(Marked') = 0
    BY <2>1, FS_EmptySet
  <2>3. pc[p] = "swap" /\ allocCount' = NElems - gcCount /\ lock = p
    BY <1>6 DEF SweepSwap, SafeInv, SpanInv, LockInv
  <2>4. \A q \in Procs : pc'[q] # "swap"
    BY <1>6, <2>3 DEF SweepSwap, Goto, SafeInv, SpanInv, LockInv, TypeOK
  <2>5. late' < NElems => allocCount' <= Out' + Cardinality(Marked')
    BY <1>2, <2>2, <2>3 DEF LateInv
  <2> QED
    BY <2>4, <2>5 DEF LateInv
<1> QED
  BY <1>4, <1>5, <1>6 DEF Sweep, SweepSwapFails

LEMMA HistoryTypeKept ==
  ASSUME HistoryType, [HistoryNext]_hvars
  PROVE  HistoryType' /\ late <= late'
<1>1. NElems \in Nat /\ late \in 0 .. NElems /\ retries \in [Procs -> Nat]
  BY SizeAssumption DEF HistoryType
<1>2. CASE UNCHANGED hvars
  BY <1>1, <1>2 DEF hvars, history, HistoryType
<1>3. ASSUME NEW p \in Procs, LateCas(p) \/ CountRetry(p) \/ Unrecorded(p)
      PROVE  HistoryType' /\ late <= late'
  <2>1. retries' \in [Procs -> Nat]
    BY <1>1, <1>3 DEF LateCas, CountRetry, Unrecorded, history
  <2>2. late' = late \/ (late < NElems /\ late' = late + 1)
    BY <1>3 DEF LateCas, CountRetry, Unrecorded, history
  <2> QED
    BY <1>1, <2>1, <2>2 DEF HistoryType
<1> QED
  BY <1>2, <1>3 DEF HistoryNext

(* A step with its record is a step of the span. *)
LEMMA RecordsOnly ==
  ASSUME [HistoryNext]_hvars
  PROVE  [Next]_vars
<1>1. CASE UNCHANGED hvars
  BY <1>1 DEF hvars
<1>2. CASE HistoryNext
  BY <1>2 DEF HistoryNext, LateCas, CountRetry, Unrecorded, Next, Free
<1> QED
  BY <1>1, <1>2

LEMMA NextLate ==
  ASSUME ~ MmapFails, SafeInv, SafeInv', HistoryType, HistoryType', LateInv, [HistoryNext]_hvars
  PROVE  LateInv'
<1>1. ASSUME UNCHANGED << allocCount, gcmarkBits, bits, gcCount, pc, live, target, late >>
      PROVE  LateInv'
  BY <1>1 DEF LateInv, Out, Marked, Slots, InFlight
<1>2. CASE UNCHANGED hvars
  BY <1>1, <1>2 DEF hvars, vars, span, freeing, history
<1>3. ASSUME NEW p \in Procs, LateCas(p) \/ CountRetry(p) \/ Unrecorded(p)
      PROVE  LateInv'
  <2>1. CASE LateCas(p)
    BY <2>1, CasLate
  <2>2. ASSUME FreeLoad(p) \/ FreeRetry(p), UNCHANGED late
        PROVE  LateInv'
    <3>1. UNCHANGED << allocCount, gcmarkBits, bits, gcCount, live, target, late >>
      BY <2>2 DEF FreeLoad, FreeRetry, span
    <3>2. \A q \in Procs : pc'[q] = "swap" => pc[q] = "swap"
      BY <2>2 DEF FreeLoad, FreeRetry, Goto, SafeInv, SpanInv, TypeOK
    <3>3. Marked' = Marked /\ Out' = Out
      BY <3>1 DEF Marked, Out, InFlight, Slots
    <3> QED
      BY <3>1, <3>2, <3>3 DEF LateInv
  <2>3. CASE CountRetry(p)
    BY <2>2, <2>3 DEF CountRetry
  <2>4. CASE Unrecorded(p)
    BY <2>2, <2>4, AllocLate, StartLate, SweepLate DEF Unrecorded, history
  <2> QED
    BY <1>3, <2>1, <2>3, <2>4
<1> QED
  BY <1>2, <1>3 DEF HistoryNext

-----------------------------------------------------------------------------
(* The word of a running Free.                                             *)

LEMMA WordFinite ==
  ASSUME NEW S \in SUBSET BitSpace
  PROVE  IsFiniteSet(S) /\ Cardinality(S) \in Nat
<1>1. WordsUp * WordBits \in Int
  <2> DEFINE last == NElems + WordBits - 1
  <2>1. last \in Nat
    BY SizeAssumption
  <2>2. WordsUp \in Nat
    BY <2>1, DivMod, SizeAssumption DEF WordsUp
  <2> QED
    BY <2>2, SizeAssumption
<1>2. IsFiniteSet(BitSpace)
  BY <1>1, FS_Interval DEF BitSpace
<1>3. IsFiniteSet(S)
  BY <1>2, FS_Subset
<1> QED
  BY <1>3, FS_CardinalityType

LEMMA WordSubset ==
  ASSUME NEW S \in SUBSET BitSpace, NEW R \in SUBSET S
  PROVE  /\ Cardinality(R) \in Nat /\ Cardinality(S) \in Nat /\ Cardinality(R) <= Cardinality(S)
         /\ R # S => Cardinality(R) < Cardinality(S)
<1>1. IsFiniteSet(S) /\ Cardinality(S) \in Nat
  BY WordFinite
<1>2. IsFiniteSet(R) /\ Cardinality(R) <= Cardinality(S) /\ (Cardinality(S) = Cardinality(R) => S = R)
  BY <1>1, FS_Subset
<1>3. Cardinality(R) \in Nat
  BY <1>2, FS_CardinalityType
<1> QED
  BY <1>1, <1>2, <1>3

(* The word of a Free that goes on does not lose a mark. *)
LEMMA WordGrows ==
  ASSUME ~ MmapFails, SafeInv, [Next]_vars, NEW q \in Procs, pc[q] \in {"load", "cas"},
         ptr'[q] = ptr[q], target'[q] = target[q]
  PROVE  /\ Word(q) \subseteq Word(q)' /\ Word(q) \subseteq BitSpace /\ Word(q)' \subseteq BitSpace
         /\ Cardinality(Word(q)) \in Nat /\ Cardinality(Word(q)') \in Nat
         /\ Cardinality(Word(q)) <= Cardinality(Word(q)')
<1>1. ptr[q] \in Referenced
  BY DEF SafeInv, SpanInv, FreeInv, Referenced
<1>2. bits[ptr[q]] \subseteq bits'[ptr[q]]
  BY <1>1, StepKeepsMarks
<1>3. Word(q)' = bits'[ptr[q]] \cap MarkWord(target[q])
  BY DEF Word, MarkWord, BitSpace, WordsUp
<1> DEFINE old == Word(q)
           new == bits'[ptr[q]] \cap MarkWord(target[q])
<1>4. old \subseteq new /\ old \subseteq BitSpace /\ new \subseteq BitSpace
  BY <1>2 DEF Word, MarkWord
<1> HIDE DEF old, new
<1>5. old \in SUBSET new /\ new \in SUBSET BitSpace
  BY <1>4
<1>6. Cardinality(old) \in Nat /\ Cardinality(new) \in Nat /\ Cardinality(old) <= Cardinality(new)
  BY <1>5, WordSubset
<1> QED
  BY <1>3, <1>4, <1>6 DEF old, new

LEMMA NextRetries ==
  ASSUME ~ MmapFails, SafeInv, SafeInv', HistoryType, RetryInv, [HistoryNext]_hvars
  PROVE  RetryInv'
<1> DEFINE Tried(q) ==
      /\ pc[q] = "load" => retries[q] <= Cardinality(Word(q))
      /\ pc[q] = "cas" => val[q] \subseteq Word(q) /\ retries[q] <= Cardinality(val[q])
      /\ pc[q] \notin {"load", "cas"} => retries[q] = 0
<1>1. \A q \in Procs : Tried(q)
  BY DEF RetryInv
<1>2. [Next]_vars
  BY RecordsOnly
<1> SUFFICES ASSUME NEW q \in Procs
             PROVE  Tried(q)'
  BY DEF RetryInv
<1>3. retries[q] \in Nat /\ val[q] \subseteq BitSpace
  BY DEF HistoryType, SafeInv, SpanInv, TypeOK
<1>4. ASSUME pc'[q] = pc[q], val'[q] = val[q], retries'[q] = retries[q], ptr'[q] = ptr[q], target'[q] = target[q]
      PROVE  Tried(q)'
  <2>1. CASE pc[q] \in {"load", "cas"}
    <3>1. /\ Word(q) \subseteq Word(q)'
          /\ Cardinality(Word(q)) \in Nat /\ Cardinality(Word(q)') \in Nat
          /\ Cardinality(Word(q)) <= Cardinality(Word(q)')
      BY <1>2, <1>4, <2>1, WordGrows
    <3>2. pc[q] = "load" => retries[q] <= Cardinality(Word(q)')
      BY <1>1, <1>3, <3>1
    <3>3. pc[q] = "cas" => val[q] \subseteq Word(q)' /\ retries[q] <= Cardinality(val[q])
      BY <1>1, <3>1
    <3> QED
      BY <1>4, <2>1, <3>2, <3>3
  <2>2. CASE pc[q] \notin {"load", "cas"}
    BY <1>1, <1>4, <2>2
  <2> QED
    BY <2>1, <2>2
<1>5. CASE UNCHANGED hvars
  BY <1>4, <1>5 DEF hvars, vars, history, freeing
<1>6. ASSUME NEW p \in Procs, LateCas(p) \/ CountRetry(p) \/ Unrecorded(p), p # q
      PROVE  Tried(q)'
  <2>1. pc'[q] = pc[q] /\ val'[q] = val[q] /\ ptr'[q] = ptr[q] /\ target'[q] = target[q]
    BY <1>6 DEF LateCas, CountRetry, Unrecorded, Alloc, AllocCheck, AllocFast, AllocFastMiss, AllocSlow,
                AllocExhausted, HandOut, FreeStart, FreeLoad, FreeCas, FreeRetry, Sweep, SweepCheck, SweepLock,
                SweepSwap, SweepSwapFails, SweepRefill, Goto, freeing, SafeInv, SpanInv, TypeOK
  <2>2. retries'[q] = retries[q]
    BY <1>6 DEF LateCas, CountRetry, Unrecorded, history, HistoryType
  <2> QED
    BY <1>4, <2>1, <2>2
<1>7. ASSUME pc'[q] \notin {"load", "cas"}, retries'[q] = 0
      PROVE  Tried(q)'
  BY <1>7
<1>8. CASE LateCas(q)
  BY <1>7, <1>8 DEF LateCas, FreeCas, Goto, SafeInv, SpanInv, TypeOK, HistoryType
<1>9. CASE CountRetry(q)
  <2>1. pc[q] = "cas" /\ Word(q) # val[q] /\ UNCHANGED << ptr, target >>
    BY <1>9 DEF CountRetry, FreeRetry, Word
  <2>2. Word(q)' = Word(q)
    BY <1>9 DEF CountRetry, FreeRetry, Word, MarkWord, BitSpace, WordsUp
  <2>3. val[q] \subseteq Word(q) /\ retries[q] <= Cardinality(val[q])
    BY <1>1, <2>1
  <2>4. Word(q) \in SUBSET BitSpace /\ val[q] \in SUBSET Word(q)
    BY <2>3 DEF Word, MarkWord
  <2>5. Cardinality(val[q]) \in Nat /\ Cardinality(Word(q)) \in Nat /\ Cardinality(val[q]) < Cardinality(Word(q))
    BY <2>1, <2>4, WordSubset
  <2>6. pc'[q] = "load" /\ retries'[q] = retries[q] + 1
    BY <1>9 DEF CountRetry, FreeRetry, Goto, SafeInv, SpanInv, TypeOK, HistoryType
  <2> QED
    BY <1>3, <2>2, <2>3, <2>5, <2>6
<1>10. CASE Unrecorded(q) /\ FreeLoad(q)
  <2>1. /\ pc[q] = "load" /\ pc'[q] = "cas" /\ retries'[q] = retries[q] /\ val'[q] = Word(q)
        /\ UNCHANGED << bits, ptr, target >>
    BY <1>10 DEF Unrecorded, FreeLoad, history, Word, Goto, SafeInv, SpanInv, TypeOK
  <2>2. Word(q)' = Word(q)
    BY <2>1 DEF Word, MarkWord, BitSpace, WordsUp
  <2> QED
    BY <1>1, <2>1, <2>2
<1>11. CASE Unrecorded(q) /\ FreeStart(q)
  <2>1. pc[q] = "idle" /\ pc'[q] = "load" /\ retries'[q] = retries[q]
    BY <1>11 DEF Unrecorded, FreeStart, history, Goto, SafeInv, SpanInv, TypeOK
  <2> DEFINE new == bits'[ptr'[q]] \cap MarkWord(target'[q])
  <2>2. Word(q)' = new /\ new \in SUBSET BitSpace
    BY DEF Word, MarkWord, BitSpace, WordsUp
  <2>3. Cardinality(new) \in Nat
    <3> HIDE DEF new
    <3> QED
      BY <2>2, WordFinite
  <2> QED
    BY <1>1, <2>1, <2>2, <2>3
<1>12. CASE Unrecorded(q) /\ (Alloc(q) \/ Sweep(q))
  <2>1. pc[q] \notin {"load", "cas"} /\ pc'[q] \notin {"load", "cas"}
    BY <1>12 DEF Alloc, AllocCheck, AllocFast, AllocFastMiss, AllocSlow, AllocExhausted, HandOut, Sweep,
                 SweepCheck, SweepLock, SweepSwap, SweepSwapFails, SweepRefill, Goto, SafeInv, SpanInv, TypeOK
  <2>2. retries'[q] = 0
    BY <1>1, <1>12, <2>1 DEF Unrecorded, history
  <2> QED
    BY <1>7, <2>1, <2>2
<1> QED
  BY <1>5, <1>6, <1>8, <1>9, <1>10, <1>11, <1>12 DEF HistoryNext, Unrecorded

-----------------------------------------------------------------------------
HistorySafe == SafeInv /\ RoomInv /\ HistoryInv

LEMMA InitHistory == HistoryInit => HistorySafe
<1> SUFFICES ASSUME HistoryInit
             PROVE  HistorySafe
  OBVIOUS
<1>1. SafeInv /\ RoomInv
  BY InitSafe, InitRoom DEF HistoryInit
<1>2. HistoryType
  BY SizeAssumption DEF HistoryInit, HistoryType
<1>3. LateInv
  <2>1. allocCount = 0 /\ \A q \in Procs : pc[q] # "swap"
    BY DEF HistoryInit, Init
  <2>2. Out \in Nat /\ Cardinality(Marked) \in Nat
    BY <1>1, <1>2, Counted, SizeAssumption DEF Out, HistoryType
  <2> QED
    BY <2>1, <2>2 DEF LateInv
<1>4. RetryInv
  BY DEF HistoryInit, Init, RetryInv
<1> QED
  BY <1>1, <1>2, <1>3, <1>4 DEF HistorySafe, HistoryInv

LEMMA NextHistory ==
  ASSUME ~ MmapFails
  PROVE  HistorySafe /\ [HistoryNext]_hvars => HistorySafe'
<1> SUFFICES ASSUME HistorySafe, [HistoryNext]_hvars
             PROVE  HistorySafe'
  OBVIOUS
<1>1. [Next]_vars /\ SafeInv /\ RoomInv /\ HistoryType /\ LateInv /\ RetryInv
  BY RecordsOnly DEF HistorySafe, HistoryInv
<1>2. SafeInv'
  BY <1>1, NextSafe
<1>3. RoomInv'
  BY <1>1, <1>2, NextRoom, NextCount DEF RoomInv
<1>4. HistoryType'
  BY <1>1, HistoryTypeKept
<1>5. LateInv' /\ RetryInv'
  BY <1>1, <1>2, <1>4, NextLate, NextRetries
<1> QED
  BY <1>2, <1>3, <1>4, <1>5 DEF HistorySafe, HistoryInv

LEMMA ApartSum ==
  ASSUME NEW A, NEW B, IsFiniteSet(A), IsFiniteSet(B), A \cap B = {}
  PROVE  /\ IsFiniteSet(A \cup B) /\ Cardinality(A \cup B) = Cardinality(A) + Cardinality(B)
         /\ Cardinality(A) \in Nat /\ Cardinality(B) \in Nat
<1>1. Cardinality(A) \in Nat /\ Cardinality(B) \in Nat
  BY FS_CardinalityType
<1>2. IsFiniteSet(A \cup B) /\ Cardinality(A \cup B) = Cardinality(A) + Cardinality(B) - Cardinality(A \cap B)
  BY FS_Union
<1>3. Cardinality(A \cap B) = 0
  BY FS_EmptySet
<1> QED
  BY <1>1, <1>2, <1>3

(* Four sets of slots that do not meet. *)
LEMMA FourApart ==
  ASSUME NEW A, NEW B, NEW C, NEW D, A \subseteq Slots, B \subseteq Slots, C \subseteq Slots, D \subseteq Slots,
         A \cap B = {}, (A \cup B) \cap C = {}, (A \cup B \cup C) \cap D = {}
  PROVE  Cardinality(Slots \ (A \cup B \cup C \cup D))
           = NElems - (Cardinality(A) + Cardinality(B) + Cardinality(C) + Cardinality(D))
<1>1. IsFiniteSet(Slots) /\ Cardinality(Slots) = NElems
  BY FS_Interval, SizeAssumption DEF Slots
<1>2. /\ IsFiniteSet(A) /\ IsFiniteSet(B) /\ IsFiniteSet(C) /\ IsFiniteSet(D)
      /\ Cardinality(A) \in Nat /\ Cardinality(B) \in Nat /\ Cardinality(C) \in Nat /\ Cardinality(D) \in Nat
  BY SlotSets
<1>3. IsFiniteSet(A \cup B) /\ Cardinality(A \cup B) = Cardinality(A) + Cardinality(B)
  BY <1>2, ApartSum
<1> DEFINE E == A \cup B
<1>4. IsFiniteSet(E) /\ Cardinality(E) = Cardinality(A) + Cardinality(B) /\ E \cap C = {}
  BY <1>3
<1> HIDE DEF E
<1>5. IsFiniteSet(E \cup C) /\ Cardinality(E \cup C) = Cardinality(E) + Cardinality(C)
  BY <1>2, <1>4, ApartSum
<1> DEFINE F == E \cup C
<1>6. IsFiniteSet(F) /\ Cardinality(F) = Cardinality(E) + Cardinality(C) /\ F \cap D = {}
  BY <1>5 DEF E
<1> HIDE DEF F
<1> DEFINE G == F \cup D
<1>7. Cardinality(G) = Cardinality(F) + Cardinality(D)
  BY <1>2, <1>6, ApartSum
<1>8. Slots \cap G = G /\ G = A \cup B \cup C \cup D
  BY DEF E, F
<1> HIDE DEF G
<1>9. Cardinality(Slots \ G) = NElems - Cardinality(G)
  BY <1>1, <1>8, FS_Difference
<1> QED
  BY <1>2, <1>4, <1>6, <1>7, <1>8, <1>9

LEMMA LossCounted ==
  ASSUME HistorySafe
  PROVE  LossBounded
<1>1. SafeInv /\ SpanInv /\ TypeOK /\ HistoryType /\ LateInv /\ NoPhantomRoom
  BY DEF HistorySafe, HistoryInv, RoomInv, SafeInv, SpanInv
<1>2. late \in Nat
  BY <1>1, SizeAssumption DEF HistoryType
<1>3. gcmarkBits \in BitArrays /\ gcmarkBits # NoBits
  BY <1>1, NilAssumption DEF SafeInv, MarkInv
<1>4. Slots \ Found = Slots \ (live \cup Candidates \cup InFlight \cup Marked)
  BY <1>3 DEF Found, Marked
<1>5. /\ live \cap Candidates = {} /\ (live \cup Candidates) \cap InFlight = {}
      /\ (live \cup Candidates \cup InFlight) \cap Marked = {}
  BY <1>1, <1>3 DEF SafeInv, NoDoubleAlloc, OnePlace, Marked
<1>6. Cardinality(Slots \ Found)
        = NElems - (Cardinality(live) + Cardinality(Candidates) + Cardinality(InFlight) + Cardinality(Marked))
  BY <1>1, <1>4, <1>5, FourApart, Counted, CandidatesFinite
<1>7. CASE late < NElems
  <2>1. allocCount <= Out + Cardinality(Marked)
    BY <1>1, <1>7 DEF LateInv
  <2>2. NElems - allocCount <= Cardinality(Candidates)
    BY <1>1 DEF NoPhantomRoom
  <2>3. Cardinality(Slots \ Found) <= late
    BY <1>1, <1>2, <1>6, <2>1, <2>2, Counted, CandidatesFinite DEF Out
  <2> QED
    BY <2>3 DEF LossBounded
<1>8. CASE late >= NElems
  <2>1. Cardinality(Slots \ Found) \in 0 .. NElems
    BY CountType
  <2> QED
    BY <1>2, <1>8, <2>1, SizeAssumption DEF LossBounded
<1> QED
  BY <1>2, <1>7, <1>8, SizeAssumption

LEMMA RetriesCounted ==
  ASSUME HistorySafe
  PROVE  FewRetries
<1> SUFFICES ASSUME NEW p \in Procs, target[p] # NoSlot
             PROVE  retries[p] < Cardinality(MarkWord(target[p]))
  BY DEF FewRetries
<1>1. SafeInv /\ FreeInv /\ HistoryType /\ RetryInv
  BY DEF HistorySafe, HistoryInv, SafeInv, SpanInv
<1>2. pc[p] \in {"load", "cas"} /\ target[p] \in Slots /\ ptr[p] \in BitArrays
  BY <1>1 DEF FreeInv
<1> DEFINE all == MarkWord(target[p])
           word == Word(p)
<1>3. all \in SUBSET BitSpace /\ word \in SUBSET all /\ target[p] \in all \ word
  BY <1>1, <1>2, NilAssumption, SlotsHaveBits DEF Word, MarkWord, SafeInv, MarkInv
<1> HIDE DEF all, word
<1>4. Cardinality(word) \in Nat /\ Cardinality(all) \in Nat /\ Cardinality(word) < Cardinality(all)
  BY <1>3, WordSubset
<1>5. retries[p] \in Nat
  BY <1>1 DEF HistoryType
<1>6. CASE pc[p] = "load"
  <2>1. retries[p] <= Cardinality(word)
    BY <1>1, <1>6 DEF RetryInv, word
  <2> QED
    BY <1>4, <1>5, <2>1 DEF all
<1>7. CASE pc[p] = "cas"
  <2>1. val[p] \in SUBSET word /\ retries[p] <= Cardinality(val[p])
    BY <1>1, <1>7 DEF RetryInv, word
  <2>2. word \in SUBSET BitSpace
    BY <1>3
  <2>3. Cardinality(val[p]) \in Nat /\ Cardinality(val[p]) <= Cardinality(word)
    BY <2>1, <2>2, WordSubset
  <2> QED
    BY <1>4, <1>5, <2>1, <2>3 DEF all
<1> QED
  BY <1>2, <1>6, <1>7

(* The history variables only look on: a behaviour with them is one of the *)
(* span, so that all of the theorems above hold of it.                     *)
LEMMA HistoryLooksOn == HistorySpec => Spec
<1>1. HistoryInit => Init
  BY DEF HistoryInit
<1>2. [HistoryNext]_hvars => [Next]_vars
  BY RecordsOnly
<1> QED
  BY <1>1, <1>2, PTL DEF HistorySpec, Spec

(* freeSpan (class_span.go:105) loses at most one slot of the span for     *)
(* every mark that lands after its recount, over any number of sweeps, and *)
(* a span none of whose marks is late loses none.                          *)
THEOREM SweepLossBounded ==
  ASSUME ~ MmapFails
  PROVE  HistorySpec => []LossBounded
<1>1. HistorySafe => LossBounded
  BY LossCounted
<1> QED
  BY InitHistory, NextHistory, <1>1, PTL DEF HistorySpec

(* setMarked returns after fewer failed swaps than its word has bits,      *)
(* whatever the other goroutines do: every failure has seen a new mark.    *)
THEOREM FreeIsWaitFree ==
  ASSUME ~ MmapFails
  PROVE  HistorySpec => []FewRetries
<1>1. HistorySafe => FewRetries
  BY RetriesCounted
<1> QED
  BY InitHistory, NextHistory, <1>1, PTL DEF HistorySpec
=============================================================================
