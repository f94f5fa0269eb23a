------------------------- MODULE MetadataPoolProofs -------------------------
(* Proofs about MetadataPool, for every size of page, block and piece.     *)
EXTENDS MetadataPool, TLAPS

(* What the index and the pieces are, and that the pieces of the last      *)
(* block end at or before the index: without this, nothing says that the   *)
(* next piece lies behind them.                                            *)
Piece == [block : Nat, at : Nat, size : Nat]
PoolType == index \in 0 .. BlockBytes /\ blocks \in Nat /\ pieces \in Seq(Piece)
CutBefore ==
  \A i \in DOMAIN pieces :
    /\ pieces[i].block <= blocks
    /\ pieces[i].block = blocks => pieces[i].at + pieces[i].size <= index
PoolInv == PoolType /\ CutBefore /\ PiecesApart

(* The rest of a division is smaller than the divisor, so Align does not   *)
(* go down.                                                                *)
LEMMA AlignUp ==
  ASSUME NEW x \in Nat, NEW a \in Nat \ {0}
  PROVE  Align(x, a) \in Nat /\ Align(x, a) >= x
<1>1. ((x + a - 1) % a) \in 0 .. a - 1
  BY SMT
<1>2. x + a - 1 \in Nat
  OBVIOUS
<1> QED
  BY <1>1, <1>2 DEF Align

(* The beginning of a block is aligned. *)
LEMMA AlignStart ==
  ASSUME NEW a \in Nat \ {0}
  PROVE  Align(0, a) = 0
<1>1. ((a - 1) % a) = a - 1
  BY SMT
<1> QED
  BY <1>1 DEF Align

(* Where alignOf puts a piece: in the block, and if not at its beginning,  *)
(* at or behind the index.                                                 *)
LEMMA PlaceBehind ==
  ASSUME PoolAssumption, index \in 0 .. BlockBytes,
         NEW size \in Nat, size <= BlockBytes
  PROVE  /\ Place(size) \in Nat
         /\ Place(size) + size <= BlockBytes
         /\ Place(size) # 0 => Place(size) >= index
<1> DEFINE offset == index % BlockBytes
<1>1. offset \in Nat /\ (index # BlockBytes => offset = index)
  BY SMT DEF PoolAssumption
<1>2. index = BlockBytes => offset = 0
  BY SMT DEF PoolAssumption
<1>3. Align(offset, PageBytes) \in Nat /\ Align(offset, PageBytes) >= offset
  BY <1>1, AlignUp DEF PoolAssumption
<1>4. OnPage(size) \in Nat /\ OnPage(size) >= offset
  BY <1>1, <1>3 DEF OnPage
<1>5. offset = 0 => OnPage(size) = 0
  BY AlignStart DEF OnPage, PoolAssumption
<1>6. CASE OnPage(size) + size > BlockBytes
  BY <1>6 DEF Place
<1>7. CASE ~ (OnPage(size) + size > BlockBytes)
  <2>1. Place(size) = OnPage(size)
    BY <1>7 DEF Place
  <2>2. index # BlockBytes \/ OnPage(size) = 0
    BY <1>2, <1>5
  <2> HIDE DEF offset
  <2> QED
    BY <1>1, <1>4, <1>7, <2>1, <2>2 DEF PoolAssumption
<1> QED
  BY <1>6, <1>7

(* One more piece at or behind the index, or in a block of its own, leaves *)
(* the pieces apart.                                                       *)
LEMMA CutKeepsApart ==
  ASSUME PoolAssumption, PoolInv,
         NEW b \in Nat, NEW at \in Nat, NEW size \in Nat,
         at + size <= BlockBytes,
         \/ b = blocks /\ at >= index
         \/ b = blocks + 1,
         Cut(b, at, size), blocks' = b, index' = at + size
  PROVE  PoolInv'
<1> DEFINE new == [block |-> b, at |-> at, size |-> size]
<1>1. new \in Piece
  BY DEF Piece
<1>2. pieces \in Seq(Piece) /\ pieces' = Append(pieces, new)
  BY DEF PoolInv, PoolType, Cut
<1>3. /\ pieces' \in Seq(Piece)
      /\ Len(pieces) \in Nat /\ Len(pieces') = Len(pieces) + 1
      /\ DOMAIN pieces = 1 .. Len(pieces) /\ DOMAIN pieces' = 1 .. Len(pieces')
      /\ \A i \in DOMAIN pieces : pieces'[i] = pieces[i]
      /\ pieces'[Len(pieces')] = new
  BY <1>1, <1>2
<1>4. \A i \in DOMAIN pieces : pieces[i] \in Piece
  BY <1>2
<1>5. new.block = b /\ new.at = at /\ new.size = size
  OBVIOUS
<1> HIDE DEF new
<1>6. \A i \in DOMAIN pieces' : i \in DOMAIN pieces \/ i = Len(pieces')
  BY <1>3
<1>7. PoolType'
  BY <1>3 DEF PoolInv, PoolType, PoolAssumption
<1>8. CutBefore'
  <2> SUFFICES ASSUME NEW i \in DOMAIN pieces'
               PROVE  /\ pieces'[i].block <= b
                      /\ pieces'[i].block = b => pieces'[i].at + pieces'[i].size <= at + size
    BY DEF CutBefore
  <2>1. CASE i \in DOMAIN pieces
    <3>1. /\ pieces'[i] = pieces[i] /\ pieces[i].block <= blocks
          /\ pieces[i].block = blocks => pieces[i].at + pieces[i].size <= index
      BY <2>1, <1>3 DEF PoolInv, CutBefore
    <3>2. pieces[i].block \in Nat /\ pieces[i].at + pieces[i].size \in Nat
      BY <2>1, <1>4 DEF Piece
    <3>3. blocks \in Nat /\ index \in Nat
      BY DEF PoolInv, PoolType, PoolAssumption
    <3> QED
      BY <3>1, <3>2, <3>3
  <2>2. CASE i = Len(pieces')
    BY <2>2, <1>3, <1>5
  <2> QED
    BY <1>6, <2>1, <2>2
<1>9. PiecesApart'
  <2>1. \A i \in DOMAIN pieces' : pieces'[i].at + pieces'[i].size <= BlockBytes
    BY <1>3, <1>5, <1>6 DEF PoolInv, PiecesApart
  <2>2. ASSUME NEW i \in DOMAIN pieces', NEW j \in DOMAIN pieces',
               i < j, pieces'[i].block = pieces'[j].block
        PROVE  pieces'[i].at + pieces'[i].size <= pieces'[j].at
    <3>1. i \in DOMAIN pieces
      BY <2>2, <1>3
    <3>2. CASE j \in DOMAIN pieces
      BY <3>1, <3>2, <2>2, <1>3 DEF PoolInv, PiecesApart
    <3>3. CASE j = Len(pieces')
      <4>1. pieces[i].block = b
        BY <3>1, <3>3, <2>2, <1>3, <1>5
      <4>2. b = blocks /\ at >= index
        BY <4>1, <3>1 DEF PoolInv, PoolType, CutBefore
      <4>3. pieces[i].at + pieces[i].size <= index
        BY <4>1, <4>2, <3>1 DEF PoolInv, CutBefore
      <4> QED
        BY <4>2, <4>3, <3>1, <3>3, <1>3, <1>4, <1>5 DEF PoolInv, PoolType, Piece, PoolAssumption
    <3> QED
      BY <1>6, <3>2, <3>3
  <2> QED
    BY <2>1, <2>2 DEF PiecesApart
<1> QED
  BY <1>7, <1>8, <1>9 DEF PoolInv

LEMMA PoolStep ==
  ASSUME PoolAssumption, ~ MmapFails, PoolInv, [Next]_poolVars
  PROVE  PoolInv'
<1>1. ASSUME NEW size \in Sizes, AllocHere(size)
      PROVE  PoolInv'
  <2>1. size \in Nat /\ blocks \in Nat /\ index \in 0 .. BlockBytes
    BY DEF PoolAssumption, PoolInv, PoolType
  <2>2. Place(size) \in Nat /\ Place(size) + size <= BlockBytes /\ Place(size) >= index
    BY <1>1, <2>1, PlaceBehind DEF AllocHere
  <2> QED
    BY <1>1, <2>1, <2>2, CutKeepsApart DEF AllocHere
<1>2. ASSUME NEW size \in Sizes, AllocNewBlock(size)
      PROVE  PoolInv'
  <2>1. size \in Nat /\ blocks + 1 \in Nat /\ 0 + size = size
    BY DEF PoolAssumption, PoolInv, PoolType
  <2> QED
    BY <1>2, <2>1, CutKeepsApart DEF AllocNewBlock
<1>3. CASE UNCHANGED poolVars
  BY <1>3 DEF poolVars, PoolInv, PoolType, CutBefore, PiecesApart
<1> QED
  BY <1>1, <1>2, <1>3 DEF Next, Alloc, AllocFails

(* As long as the kernel gives every block it is asked for, no two owners  *)
(* of metadata share a byte: alloc of raw_memory.go never cuts a piece     *)
(* before the end of an earlier one of the same block.                     *)
THEOREM MetadataApart ==
  ASSUME PoolAssumption, ~ MmapFails
  PROVE  Spec => []PiecesApart
<1>1. Init => PoolInv
  BY DEF Init, PoolInv, PoolType, CutBefore, PiecesApart, PoolAssumption
<1>2. PoolInv /\ [Next]_poolVars => PoolInv'
  BY PoolStep
<1>3. PoolInv => PiecesApart
  BY DEF PoolInv
<1> QED
  BY <1>1, <1>2, <1>3, PTL DEF Spec
=============================================================================
