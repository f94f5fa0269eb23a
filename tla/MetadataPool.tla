---------------------------- MODULE MetadataPool ----------------------------
(***************************************************************************)
(* The pool of raw memory (raw_memory.go) that every span header, mark     *)
(* bitmap, treap node and chunk is cut from: blocks of one size that are   *)
(* mapped one after the other, pieces cut from the last block in order,    *)
(* no small one across the end of a page, none given back.                 *)
(* alloc holds the lock of the pool, so a call of it is one step.          *)
(***************************************************************************)
EXTENDS Naturals, Sequences

CONSTANTS
  PageBytes,  \* _PageSize
  BlockBytes, \* metadataRawMemoryBytes
  Sizes,      \* the sizes that are asked for
  MmapFails   \* the kernel may refuse a block

(* Assumed of the constants wherever they are given a value. *)
PoolAssumption ==
  /\ PageBytes \in Nat \ {0} /\ BlockBytes \in Nat \ {0}
  /\ Sizes \subseteq Nat /\ MmapFails \in BOOLEAN

VARIABLES
  index,  \* where the rest of the last block begins
  blocks, \* how many blocks are in the list xrm
  pieces  \* history: what was cut, in order

poolVars == << index, blocks, pieces >>

Init == index = 0 /\ blocks = 0 /\ pieces = << >>

(* Align: the smallest multiple of a that is not below x. *)
Align(x, a) == (x + a - 1) - ((x + a - 1) % a)

(* alignOf: on the page where the last piece ends, or on the next; in a    *)
(* new block when the rest of this one is too short or there is no rest.   *)
OnPage(size) ==
  LET offset == index % BlockBytes
  IN IF PageBytes - (offset % PageBytes) < size THEN Align(offset, PageBytes) ELSE offset
Place(size) == IF OnPage(size) + size > BlockBytes THEN 0 ELSE OnPage(size)

Cut(b, at, size) == pieces' = Append(pieces, [block |-> b, at |-> at, size |-> size])

(* Offset 0 stands for: from a new block. *)
AllocHere(size) ==
  /\ size <= BlockBytes /\ Place(size) # 0 /\ blocks # 0
  /\ index' = Place(size) + size
  /\ Cut(blocks, Place(size), size)
  /\ UNCHANGED blocks
AllocNewBlock(size) ==
  /\ size <= BlockBytes /\ Place(size) = 0
  /\ index' = size
  /\ blocks' = blocks + 1
  /\ Cut(blocks + 1, 0, size)

(* No block: the caller gets an error, or panics if there has never been   *)
(* one, but alignOf has moved the index to where it would be.              *)
AllocFails(size) ==
  /\ MmapFails /\ size <= BlockBytes /\ (Place(size) = 0 \/ blocks = 0)
  /\ index' = Place(size) + size
  /\ UNCHANGED << blocks, pieces >>

Alloc(size) == AllocHere(size) \/ AllocNewBlock(size) \/ AllocFails(size)
Next == \E size \in Sizes : Alloc(size)
Spec == Init /\ [][Next]_poolVars

-----------------------------------------------------------------------------
(* What is cut later from a block lies behind what was cut before, so no   *)
(* two owners of metadata share a byte, and all of it is in a block.       *)
PiecesApart ==
  /\ \A i \in DOMAIN pieces : pieces[i].at + pieces[i].size <= BlockBytes
  /\ \A i, j \in DOMAIN pieces :
       i < j /\ pieces[i].block = pieces[j].block => pieces[i].at + pieces[i].size <= pieces[j].at
=============================================================================
