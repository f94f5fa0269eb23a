---------------------------- MODULE LargeObject ----------------------------
(***************************************************************************)
(* Where the mark bits of a span are.  Span headers, mark bitmaps, treap   *)
(* nodes and chunks are all cut from the MetadataPool.  A large object is  *)
(* a span of its own whose classSize is 0: when Init asks for its bitmaps  *)
(* nelems is still 0, so they get no bytes, and nelems is set to 1 after   *)
(* that.  Its mark bit is the lowest bit of whatever the pool hands out    *)
(* next.                                                                   *)
(*                                                                         *)
(* The pool counts words here.  Of each word only the lowest bit is kept:  *)
(* in a bitmap the mark of slot 0, in the first word of a span header the  *)
(* locked bit of its mutex, elsewhere 0 (pointers are even).               *)
(***************************************************************************)
EXTENDS Naturals, Sequences

CONSTANTS
  Larges,      \* spans of large objects
  Smalls,      \* spans of small size classes
  PageWords,   \* words of a page
  BlockWords,  \* words of a block of the pool
  HeaderWords, \* words of a span header
  NodeWords,   \* words of a treap node or a chunk
  BitsWords,   \* words of the bitmap of a small span
  MaxPieces    \* bound: pieces cut from the pool

VARIABLES
  index, blocks, pieces,  \* the pool
  ones,    \* the words whose lowest bit is 1
  header,  \* header[s]: the piece that is the header of s, 0 before there is one
  marks,   \* marks[s]: the piece that is its mark bitmap
  held,    \* the small spans whose lock a goroutine holds
  stage,   \* stage[s]: how far the call that makes s has come
  object   \* object[s]: what became of the object at the span's start

pool == << index, blocks, pieces >>
vars == << pool, ones, header, marks, held, stage, object >>

Spans == Larges \cup Smalls
Pool == INSTANCE MetadataPool
          WITH PageBytes <- PageWords, BlockBytes <- BlockWords,
               Sizes <- {HeaderWords, NodeWords, BitsWords, 0}, MmapFails <- FALSE

(* The first word of a piece, which is where it begins, has it words or    *)
(* not.                                                                    *)
Word(i) == << pieces[i].block, pieces[i].at >>
Flip(w) == IF w \in ones THEN ones \ {w} ELSE ones \cup {w}

(* One allocation from the pool; it is the last piece then. *)
Take(size) == Len(pieces) < MaxPieces /\ Pool!Alloc(size)

Init ==
  /\ Pool!Init
  /\ ones = {} /\ held = {}
  /\ header = [s \in Spans |-> 0]
  /\ marks = [s \in Spans |-> 0]
  /\ stage = [s \in Spans |-> "none"]
  /\ object = [s \in Spans |-> "none"]

(* A treap node or a chunk. *)
AllocNode ==
  /\ Take(NodeWords)
  /\ UNCHANGED << ones, header, marks, held, stage, object >>

-----------------------------------------------------------------------------
(* A span is made in three allocations, and other goroutines allocate in   *)
(* between: its header, its mark bits, its alloc bits, which are all set.  *)

Go(s, from, to) == stage[s] = from /\ stage' = [stage EXCEPT ![s] = to]

AllocHeader(s) ==
  /\ Go(s, "none", "header") /\ Take(HeaderWords)
  /\ header' = [header EXCEPT ![s] = Len(pieces')]
  /\ UNCHANGED << ones, marks, held, object >>

(* newMarkBits: nelems is 0 in the span of a large object. *)
BitsOf(s) == IF s \in Larges THEN 0 ELSE BitsWords
AllocMarks(s) ==
  /\ Go(s, "header", "marks") /\ Take(BitsOf(s))
  /\ marks' = [marks EXCEPT ![s] = Len(pieces')]
  /\ UNCHANGED << ones, header, held, object >>

(* newAllocBits inverts the words it got, if there are any.  The object is *)
(* handed out after that.                                                  *)
AllocAllocBits(s) ==
  /\ Go(s, "marks", "made") /\ Take(BitsOf(s))
  /\ ones' = IF BitsOf(s) = 0 THEN ones ELSE Flip(Word(Len(pieces))')
  /\ object' = [object EXCEPT ![s] = "used"]
  /\ UNCHANGED << header, marks, held >>

(* Every allocation from a small span takes its lock and gives it back.    *)
(* Unlock of a mutex that does not look locked ends the program.           *)
Lock(s) ==
  /\ s \in Smalls \ held /\ stage[s] = "made"
  /\ Word(header[s]) \notin ones
  /\ ones' = ones \cup {Word(header[s])}
  /\ held' = held \cup {s}
  /\ UNCHANGED << pool, header, marks, stage, object >>
Unlock(s) ==
  /\ s \in held /\ Word(header[s]) \in ones
  /\ ones' = ones \ {Word(header[s])}
  /\ held' = held \ {s}
  /\ UNCHANGED << pool, header, marks, stage, object >>

(* Free of the object: setMarked flips its mark. *)
Free(s) ==
  /\ object[s] = "used"
  /\ ones' = Flip(Word(marks[s]))
  /\ object' = [object EXCEPT ![s] = "freed"]
  /\ UNCHANGED << pool, header, marks, held, stage >>

(* sweepFullSpan of a large object: its pages go back if it is marked, in  *)
(* a chunk and a treap node that AllocNode stands for.                     *)
SweepLarge(s) ==
  /\ s \in Larges /\ object[s] \in {"used", "freed"}
  /\ Word(marks[s]) \in ones
  /\ object' = [object EXCEPT ![s] = IF @ = "used" THEN "taken away" ELSE "swept"]
  /\ UNCHANGED << pool, ones, header, marks, held, stage >>

(* freeSpan of a small one: it gets new mark bits, and the object can be   *)
(* handed out again.                                                       *)
SweepSmall(s) ==
  /\ s \in Smalls \ held /\ object[s] = "freed"
  /\ Word(header[s]) \notin ones /\ Word(marks[s]) \in ones
  /\ Take(BitsWords)
  /\ marks' = [marks EXCEPT ![s] = Len(pieces')]
  /\ object' = [object EXCEPT ![s] = "used"]
  /\ UNCHANGED << ones, header, held, stage >>

Alloc(s) == AllocHeader(s) \/ AllocMarks(s) \/ AllocAllocBits(s) \/ Lock(s) \/ Unlock(s)
Sweep(s) == SweepLarge(s) \/ SweepSmall(s)
Next == AllocNode \/ \E s \in Spans : Alloc(s) \/ Free(s) \/ Sweep(s)

Spec == Init /\ [][Next]_vars

-----------------------------------------------------------------------------
(* The mark bit says that an object is not needed any more (span.go:47):   *)
(* the sweep takes no large object away from a caller that still uses it.  *)
UsedIsKept == \A s \in Larges : object[s] # "taken away"
=============================================================================
