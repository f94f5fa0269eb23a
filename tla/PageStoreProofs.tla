-------------------------- MODULE PageStoreProofs --------------------------
(***************************************************************************)
(* What PageStore promises of the pages, for any set of pages and needs.   *)
(* PageHeapProofs cites these facts through the refinement, so that they   *)
(* are proved once, of the four abstract operations.                       *)
(***************************************************************************)
EXTENDS PageStore, TLAPS

Chunks == [start : Nat, npages : Nat \ {0}]

(* No page is in two chunks, in a chunk twice or in a chunk and lost.  A   *)
(* chunk is free or held and not both.                                     *)
Apart ==
  /\ free \cup held \subseteq Chunks
  /\ free \cap held = {}
  /\ \A c, d \in free \cup held : c # d => PagesOf(c) \cap PagesOf(d) = {}
  /\ \A c \in free \cup held : PagesOf(c) \cap lost = {}

(* The pages that have come into the store. *)
Owned == Covered(free) \cup Covered(held) \cup lost

LEMMA ChunkPages ==
  ASSUME NEW c \in Chunks
  PROVE  c.start \in PagesOf(c)
BY DEF Chunks, PagesOf

(* A chunk is cut in two: the pages are those it had, and the two parts    *)
(* have none in common.                                                    *)
LEMMA CutPages ==
  ASSUME NEW c \in Chunks, NEW n \in Nat \ {0}, n <= c.npages
  PROVE  /\ Cut(c, n) \in Chunks /\ Rest(c, n) \subseteq Chunks
         /\ PagesOf(Cut(c, n)) \cup Covered(Rest(c, n)) = PagesOf(c)
         /\ \A r \in Rest(c, n) : PagesOf(r) \subseteq PagesOf(c)
         /\ \A r \in Rest(c, n) : PagesOf(Cut(c, n)) \cap PagesOf(r) = {}
<1>1. c.start \in Nat /\ c.npages \in Nat \ {0}
  BY DEF Chunks
<1>2. CASE n = c.npages
  <2>1. Rest(c, n) = {}
    BY <1>2 DEF Rest
  <2>2. Covered(Rest(c, n)) = {}
    BY <2>1 DEF Covered
  <2> QED
    BY <1>1, <1>2, <2>1, <2>2 DEF Cut, Chunks, PagesOf
<1>3. CASE n # c.npages
  <2> DEFINE r == [start |-> c.start + n, npages |-> c.npages - n]
  <2>1. Rest(c, n) = {r}
    BY <1>3 DEF Rest
  <2>2. Covered(Rest(c, n)) = PagesOf(r)
    BY <2>1 DEF Covered
  <2>3. r \in Chunks /\ Cut(c, n) \in Chunks
    BY <1>1, <1>3 DEF Cut, Chunks
  <2>4. /\ PagesOf(Cut(c, n)) = c.start .. c.start + n - 1
        /\ PagesOf(r) = c.start + n .. c.start + n + (c.npages - n) - 1
        /\ PagesOf(c) = c.start .. c.start + c.npages - 1
    BY DEF Cut, PagesOf
  <2>5. c.start + n + (c.npages - n) - 1 = c.start + c.npages - 1
    BY <1>1
  <2>6. PagesOf(Cut(c, n)) \cap PagesOf(r) = {}
    BY <1>1, <2>4
  <2>7. PagesOf(Cut(c, n)) \cup PagesOf(r) = PagesOf(c)
    BY <1>1, <1>3, <2>4, <2>5
  <2> QED
    BY <2>1, <2>2, <2>3, <2>6, <2>7
<1> QED
  BY <1>2, <1>3

LEMMA TakeApart ==
  ASSUME Needs \subseteq Nat \ {0}, Apart, NEW c \in free, NEW n \in Needs, Take(c, n)
  PROVE  Apart' /\ Owned' = Owned
<1> DEFINE cut == Cut(c, n)
           rest == Rest(c, n)
<1>1. /\ c \in Chunks /\ n <= c.npages /\ n \in Nat \ {0}
      /\ free' = (free \ {c}) \cup rest
      /\ held' = held \cup {cut}
      /\ lost' = lost
  BY DEF Apart, Take, BestFit, Chunks
<1>2. /\ cut \in Chunks /\ rest \subseteq Chunks
      /\ PagesOf(cut) \cup Covered(rest) = PagesOf(c)
      /\ \A r \in rest : PagesOf(r) \subseteq PagesOf(c)
      /\ \A r \in rest : PagesOf(cut) \cap PagesOf(r) = {}
      /\ PagesOf(cut) \subseteq PagesOf(c)
  BY <1>1, CutPages
<1> HIDE DEF cut, rest
<1>3. \A r, s \in rest : r = s
  BY DEF rest, Rest
<1>4. \A d \in (free \ {c}) \cup held : PagesOf(d) \cap PagesOf(c) = {}
  BY DEF Apart
<1>5. \A r \in rest \cup {cut} : r \in Chunks /\ PagesOf(r) \subseteq PagesOf(c) /\ r.start \in PagesOf(r)
  BY <1>2, ChunkPages
<1>6. \A r \in rest \cup {cut} : r \notin (free \ {c}) \cup held
  <2> SUFFICES ASSUME NEW r \in rest \cup {cut}, r \in (free \ {c}) \cup held
               PROVE  FALSE
    OBVIOUS
  <2> QED
    BY <1>4, <1>5
<1>7. cut \notin rest
  BY <1>2, <1>5
<1>8. Apart'
  <2>1. (free \cup held \subseteq Chunks)'
    BY <1>1, <1>2 DEF Apart
  <2>2. (free \cap held = {})'
    BY <1>1, <1>6, <1>7 DEF Apart
  <2>3. \A d, e \in free' \cup held' : d # e => PagesOf(d) \cap PagesOf(e) = {}
    <3> SUFFICES ASSUME NEW d \in free' \cup held', NEW e \in free' \cup held', d # e
                 PROVE  PagesOf(d) \cap PagesOf(e) = {}
      OBVIOUS
    <3>1. CASE d \in (free \ {c}) \cup held /\ e \in (free \ {c}) \cup held
      BY <3>1 DEF Apart
    <3>2. CASE d \in (free \ {c}) \cup held /\ e \in rest \cup {cut}
      BY <3>2, <1>4, <1>5
    <3>3. CASE d \in rest \cup {cut} /\ e \in (free \ {c}) \cup held
      BY <3>3, <1>4, <1>5
    <3>4. CASE d \in rest \cup {cut} /\ e \in rest \cup {cut}
      BY <3>4, <1>2, <1>3
    <3> QED
      BY <1>1, <3>1, <3>2, <3>3, <3>4
  <2>4. \A d \in free' \cup held' : PagesOf(d) \cap lost' = {}
    BY <1>1, <1>5 DEF Apart
  <2> QED
    BY <2>1, <2>2, <2>3, <2>4 DEF Apart
<1>9. Owned' = Owned
  <2>1. Covered(free') = Covered(free \ {c}) \cup Covered(rest)
    BY <1>1 DEF Covered
  <2>2. Covered(free) = Covered(free \ {c}) \cup PagesOf(c)
    BY DEF Covered
  <2>3. Covered(held') = Covered(held) \cup PagesOf(cut)
    BY <1>1 DEF Covered
  <2>4. Covered(free') \cup Covered(held') = Covered(free) \cup Covered(held)
    BY <2>1, <2>2, <2>3, <1>2
  <2> QED
    BY <1>1, <2>4 DEF Owned
<1> QED
  BY <1>8, <1>9

LEMMA GrowApart ==
  ASSUME Pages \subseteq Nat, Apart, Grow
  PROVE  Apart' /\ Owned \subseteq Owned'
<1>1. PICK s \in Unowned, e \in Unowned :
        /\ s <= e /\ s .. e \subseteq Unowned
        /\ free' = free \cup {[start |-> s, npages |-> e - s + 1]}
  BY DEF Grow
<1> DEFINE c == [start |-> s, npages |-> e - s + 1]
<1>2. held' = held /\ lost' = lost
  BY DEF Grow
<1>3. s \in Nat /\ e \in Nat /\ e - s + 1 \in Nat \ {0} /\ s + (e - s + 1) - 1 = e
  BY <1>1 DEF Unowned
<1>4. c \in Chunks /\ s \in PagesOf(c)
  BY <1>3, ChunkPages DEF Chunks
<1>5. free' = free \cup {c} /\ PagesOf(c) \subseteq Unowned
  BY <1>1, <1>3 DEF PagesOf
<1> HIDE DEF c
<1>6. PagesOf(c) \cap lost = {} /\ \A d \in free \cup held : PagesOf(d) \cap PagesOf(c) = {}
  BY <1>5 DEF Unowned, Covered
<1>7. c \notin free \cup held
  BY <1>4, <1>6
<1>8. Apart'
  <2>1. (free \cup held \subseteq Chunks)' /\ (free \cap held = {})'
    BY <1>2, <1>4, <1>5, <1>7 DEF Apart
  <2>2. \A d, f \in free' \cup held' : d # f => PagesOf(d) \cap PagesOf(f) = {}
    BY <1>2, <1>5, <1>6 DEF Apart
  <2>3. \A d \in free' \cup held' : PagesOf(d) \cap lost' = {}
    BY <1>2, <1>5, <1>6 DEF Apart
  <2> QED
    BY <2>1, <2>2, <2>3 DEF Apart
<1>9. Owned \subseteq Owned'
  BY <1>2, <1>5 DEF Owned, Covered
<1> QED
  BY <1>8, <1>9

LEMMA PutApart ==
  ASSUME Apart, NEW c \in held, Put(c)
  PROVE  Apart' /\ Owned' = Owned
<1>1. held' = held \ {c} /\ free' = free \cup {c} /\ lost' = lost
  BY DEF Put
<1>2. free' \cup held' = free \cup held
  BY <1>1
<1>3. Apart'
  BY <1>1, <1>2 DEF Apart
<1>4. Owned' = Covered(free' \cup held') \cup lost' /\ Owned = Covered(free \cup held) \cup lost
  BY DEF Owned, Covered
<1> QED
  BY <1>1, <1>2, <1>3, <1>4

LEMMA LoseApart ==
  ASSUME Apart, NEW chunks \in SUBSET (free \cup held), Lose(chunks)
  PROVE  Apart' /\ Owned' = Owned
<1>1. free' = free \ chunks /\ held' = held \ chunks /\ lost' = lost \cup Covered(chunks)
  BY DEF Lose
<1>2. \A d \in free' \cup held' : PagesOf(d) \cap Covered(chunks) = {}
  BY <1>1 DEF Apart, Covered
<1>3. Apart'
  BY <1>1, <1>2 DEF Apart
<1>4. Owned' = Covered(free' \cup held') \cup lost' /\ Owned = Covered(free \cup held) \cup lost
  BY DEF Owned, Covered
<1>5. Covered(free \cup held) = Covered(free' \cup held') \cup Covered(chunks)
  BY <1>1 DEF Covered
<1> QED
  BY <1>1, <1>3, <1>4, <1>5

(* The steps that bring no new pages. *)
Move ==
  \/ \E c \in free, n \in Needs : Take(c, n)
  \/ \E c \in held : Put(c)
  \/ \E c, d \in free \cup held : Lose({c, d})
  \/ UNCHANGED vars

LEMMA MoveStep ==
  ASSUME Needs \subseteq Nat \ {0}, Apart, Move
  PROVE  Apart' /\ Owned' = Owned
<1>1. ASSUME NEW c \in free \cup held, NEW d \in free \cup held, Lose({c, d})
      PROVE  Apart' /\ Owned' = Owned
  BY <1>1, LoseApart
<1>2. CASE UNCHANGED vars
  BY <1>2 DEF vars, Apart, Owned
<1> QED
  BY <1>1, <1>2, TakeApart, PutApart DEF Move

(* Every step keeps the chunks apart and forgets no page. *)
LEMMA StoreStep ==
  ASSUME Pages \subseteq Nat, Needs \subseteq Nat \ {0}, Apart, [Next]_vars
  PROVE  Apart' /\ Owned \subseteq Owned'
<1>1. CASE Grow
  BY <1>1, GrowApart
<1>2. CASE Move
  BY <1>2, MoveStep
<1> QED
  BY <1>1, <1>2 DEF Next, Move

LEMMA StoreInit ==
  ASSUME Init
  PROVE  Apart /\ Owned = {}
BY DEF Init, Apart, Owned, Covered

(* No page is ever in two chunks, free and held, or in use and lost: what  *)
(* a request gets nobody else has (heap.go:216).                           *)
THEOREM StoreApart ==
  ASSUME Pages \subseteq Nat, Needs \subseteq Nat \ {0}
  PROVE  Spec => []Apart
<1>1. Init => Apart
  BY StoreInit
<1>2. Apart /\ [Next]_vars => Apart'
  BY StoreStep
<1> QED
  BY <1>1, <1>2, PTL DEF Spec

(* No operation forgets a page: one that was in the heap is free, held or  *)
(* reported lost for ever after.                                           *)
THEOREM PagesAreKept ==
  ASSUME Pages \subseteq Nat, Needs \subseteq Nat \ {0}
  PROVE  Spec => [][Owned \subseteq Owned']_vars
<1>1. Apart /\ [Next]_vars => [Owned \subseteq Owned']_vars
  BY StoreStep
<1> QED
  BY StoreApart, <1>1, PTL DEF Spec
=============================================================================
