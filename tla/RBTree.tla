------------------------------- MODULE RBTree -------------------------------
(***************************************************************************)
(* The red-black tree of xmm (entry.go), for one goroutine, which is what  *)
(* the file asks for.  A call of Put or Delete is one step up to its       *)
(* repair loop, and one step for every round of that loop.                 *)
(*                                                                         *)
(* A node is named by its key: the tree holds one entry a key.  The entry  *)
(* that a caller puts is a new one, which is red, or one that a Delete     *)
(* returned, which has whatever colour it had; Put clears its links but    *)
(* sets no colour.  The links of an entry that is out of the tree are      *)
(* cleared here when it leaves and not when it comes back.                 *)
(*                                                                         *)
(* left and right are one function of the direction, so that the two       *)
(* halves of every function of the code, which mirror each other, are one. *)
(***************************************************************************)
EXTENDS Integers, Sequences, FiniteSets

CONSTANTS
  Keys,  \* the keys, numbers, in the order of the comparator
  Vals,  \* the values
  Nil,   \* the nil *NodeEntry
  EntryColors,  \* the colours of the entries that callers put
  Usual, \* bound: the value that more than one entry may have at a time
  UncleanKeys  \* bound: the keys of a tree that is not clean (see below)

ASSUME TreeAssumption ==
  /\ Keys \subseteq Int /\ IsFiniteSet(Keys) /\ Nil \notin Keys \cup Vals /\ Usual \in Vals
  /\ EntryColors \subseteq {"red", "black"} /\ UncleanKeys \subseteq Keys

VARIABLES
  root,    \* Tree.root
  child,   \* child[n][d]: NodeEntry.left and NodeEntry.right
  parent,  \* NodeEntry.parent
  color,   \* NodeEntry.color
  value,   \* NodeEntry.Value
  pc,      \* the repair loop that runs
  cursor,  \* z of fixupPut, x of fixupDelete
  clean    \* history: no repair was skipped since the tree was last empty

links == << root, child, parent, color >>
vars == << links, value, pc, cursor, clean >>

Dirs == {"left", "right"}
Colors == {"red", "black"}
Opp(d) == IF d = "left" THEN "right" ELSE "left"
NoLinks == [d \in Dirs |-> Nil]

(* The links of the tree as one value, for the functions that change them. *)
Tree == [root |-> root, child |-> child, parent |-> parent, color |-> color]
Become(t) ==
  root' = t.root /\ child' = t.child /\ parent' = t.parent /\ color' = t.color

IsRed(t, n) == n # Nil /\ t.color[n] = "red"
Side(t, n) == IF t.child[t.parent[n]].left = n THEN "left" ELSE "right"
SetParent(t, n, p) == IF n = Nil THEN t ELSE [t EXCEPT !.parent[n] = p]
Paint(t, n, c) == [t EXCEPT !.color[n] = c]

(* Slip: v is not told its new parent. *)
TransplantDown(t, u, v) ==
  IF t.parent[u] = Nil THEN [t EXCEPT !.root = v]
  ELSE [t EXCEPT !.child[t.parent[u]][Side(t, u)] = v]

(* transplant: v is hung where u was.  Only the links between v and the    *)
(* parent of u change.                                                     *)
Transplant(t, u, v) ==
  SetParent(IF t.parent[u] = Nil THEN [t EXCEPT !.root = v]
            ELSE [t EXCEPT !.child[t.parent[u]][Side(t, u)] = v],
            v, t.parent[u])

(* RotateLeft and RotateRight: x goes down to side d, its child of the     *)
(* other side takes its place.  Without that child nothing happens.        *)
Swing(t, x, y, b, d) ==
  [t EXCEPT !.child[x][Opp(d)] = b, !.child[y][d] = x, !.parent[x] = y]
Rotate(t, x, d) ==
  LET y == t.child[x][Opp(d)]
      b == t.child[y][d]
  IN IF y = Nil THEN t ELSE SetParent(Swing(Transplant(t, x, y), x, y, b, d), b, x)

(* internalLookup, from the root down: the node looked at, its parent and  *)
(* the side it is on.  A path is at most as long as there are keys, which  *)
(* bounds the recursion should the links ever form a ring.                 *)
Places == [node : Keys \cup {Nil}, parent : Keys \cup {Nil}, dir : Dirs]
Lookup(k) ==
  LET below == [at \in Places |->
        LET side == IF k < at.node THEN "left" ELSE "right"
        IN IF at.node \in {Nil, k} THEN at
           ELSE [node |-> child[at.node][side], parent |-> at.node, dir |-> side]]
      down[i \in 0 .. Cardinality(Keys)] ==
        IF i = 0 THEN [node |-> root, parent |-> Nil, dir |-> "left"] ELSE below[down[i - 1]]
  IN down[Cardinality(Keys)]
Found(k) == Lookup(k).node = k

(* getMinimum: the leftmost node below n. *)
Minimum(t, n) ==
  LET below == [m \in Keys |-> IF t.child[m].left = Nil THEN m ELSE t.child[m].left]
      down[i \in 0 .. Cardinality(Keys)] == IF i = 0 THEN n ELSE below[down[i - 1]]
  IN down[Cardinality(Keys)]

-----------------------------------------------------------------------------
(* The bound: trees of all keys as long as they are clean, of a few else.  *)
Bounded == clean' \/ \A n \in Keys : value'[n] # Nil => n \in UncleanKeys

(* No value is looked at, so one that is not the usual one shows whether   *)
(* values stay where they were put.                                        *)
OneUnusual(k, v) == v = Usual \/ \A i \in Keys \ {k} : value[i] \in {Usual, Nil}

-----------------------------------------------------------------------------
Init ==
  /\ root = Nil
  /\ child = [n \in Keys |-> NoLinks]
  /\ parent = [n \in Keys |-> Nil]
  /\ color = [n \in Keys |-> "red"]
  /\ value = [n \in Keys |-> Nil]
  /\ pc = "idle" /\ cursor = Nil
  /\ clean = TRUE

-----------------------------------------------------------------------------
(* Put.  Three ways before the repair: the first entry, a key that is      *)
(* there, whose value alone is replaced, and a new leaf.                   *)

PutRoot(k, v) ==
  /\ pc = "idle" /\ root = Nil
  /\ Become([Paint(Tree, k, "black") EXCEPT !.root = k])
  /\ value' = [value EXCEPT ![k] = v]
  /\ UNCHANGED << pc, cursor, clean >>

PutOver(k, v) ==
  /\ pc = "idle" /\ Found(k)
  /\ value' = [value EXCEPT ![k] = v]
  /\ UNCHANGED << links, pc, cursor, clean >>

PutLeaf(k, v, c) ==
  LET at == Lookup(k) IN
  /\ pc = "idle" /\ root # Nil /\ ~ Found(k)
  /\ Become([Paint(Tree, k, c) EXCEPT !.parent[k] = at.parent,
                                      !.child[at.parent][at.dir] = k])
  /\ value' = [value EXCEPT ![k] = v]
  /\ clean' = (clean /\ c = "red") /\ Bounded
  /\ pc' = "put" /\ cursor' = k

(* fixupPut, one round: the parent of z is red.  Case 1, the uncle is red  *)
(* too, and the grandparent takes the red.                                 *)
Up(n) == parent[n]
Uncle(n) == child[Up(Up(n))][Opp(Side(Tree, Up(n)))]

(* Slip: the grandparent keeps its black. *)
BlackBelow(z) == [color EXCEPT ![Up(z)] = "black", ![Uncle(z)] = "black"]
Recolored(z) ==
  [color EXCEPT ![Up(z)] = "black", ![Uncle(z)] = "black", ![Up(Up(z))] = "red"]
FixupRecolor ==
  /\ pc = "put" /\ IsRed(Tree, Up(cursor)) /\ IsRed(Tree, Uncle(cursor))
  /\ color' = Recolored(cursor)
  /\ cursor' = Up(Up(cursor))
  /\ UNCHANGED << root, child, parent, value, pc, clean >>

(* Cases 2 and 3: z is first made an outer grandchild, and its parent then *)
(* rises over the grandparent.                                             *)
FixupRotate ==
  LET p == Up(cursor)
      g == Up(p)
      d == Side(Tree, p)
      inner == Side(Tree, cursor) # d
      z == IF inner THEN p ELSE cursor
      t == IF inner THEN Rotate(Tree, p, d) ELSE Tree
  IN /\ pc = "put" /\ IsRed(Tree, p) /\ ~ IsRed(Tree, Uncle(cursor))
     /\ Become(Rotate(Paint(Paint(t, t.parent[z], "black"), g, "red"), g, Opp(d)))
     /\ cursor' = z
     /\ UNCHANGED << value, pc, clean >>

(* Slip: only at the root is there nothing more to do. *)
PutAtRoot == Up(cursor) = Nil
PutAtEnd == ~ IsRed(Tree, Up(cursor))
FixupPutEnd ==
  /\ pc = "put" /\ PutAtEnd
  /\ color' = [color EXCEPT ![root] = "black"]
  /\ pc' = "idle" /\ cursor' = Nil
  /\ UNCHANGED << root, child, parent, value, clean >>

-----------------------------------------------------------------------------
(* Delete.  The node that leaves its place is z with one child or none,    *)
(* otherwise the least one on the right of z, which then takes the place   *)
(* and the colour of z.  x is what follows it there.                       *)

LeastOnRight(z) == Minimum(Tree, child[z].right)
HasBoth(z) == child[z].left # Nil /\ child[z].right # Nil
Leaves(z) == IF HasBoth(z) THEN LeastOnRight(z) ELSE z
Follows(z) ==
  LET y == Leaves(z) IN IF child[y].left = Nil THEN child[y].right ELSE child[y].left

(* Slip: the left side of z is not hung under the node that takes its place. *)
WithoutLeft(z) ==
  LET y == LeastOnRight(z)
      off == IF parent[y] = z THEN Tree
             ELSE SetParent([Transplant(Tree, y, child[y].right) EXCEPT !.child[y].right = child[z].right],
                            child[z].right, y)
  IN IF HasBoth(z) THEN Paint(Transplant(off, z, y), y, color[z])
     ELSE Transplant(Tree, z, Follows(z))
Without(z) ==
  LET y == LeastOnRight(z)
      x == child[y].right
      r == child[z].right
      l == child[z].left
      off == IF parent[y] = z THEN SetParent(Tree, x, y)
             ELSE SetParent([Transplant(Tree, y, x) EXCEPT !.child[y].right = r], r, y)
      up == Transplant(off, z, y)
  IN IF HasBoth(z)
     THEN SetParent(Paint([up EXCEPT !.child[y].left = l], y, color[z]), l, y)
     ELSE Transplant(Tree, z, Follows(z))

(* Slip: the repair is begun whether or not something follows. *)
BeginsShort(short, x) == short
(* The code looks for no black that is missing when nothing follows        *)
(* (entry.go:618): that is where clean is lost.                            *)
Begins(short, x) == short /\ x # Nil
Delete(k) ==
  LET x == Follows(k)
      short == color[Leaves(k)] = "black"
      t == Without(k)
  IN /\ pc = "idle" /\ Found(k)
     /\ Become([t EXCEPT !.child[k] = NoLinks, !.parent[k] = Nil, !.color[k] = "red"])
     /\ value' = [value EXCEPT ![k] = Nil]
     /\ clean' = (t.root = Nil \/ (clean /\ short = Begins(short, x))) /\ Bounded
     /\ pc' = IF Begins(short, x) THEN "delete" ELSE "idle"
     /\ cursor' = IF short THEN x ELSE Nil

(* fixupDelete, one round: x is short of a black and not red itself.  A    *)
(* red sibling is first rotated away (case 1).                             *)
Levelled ==
  LET p == Up(cursor)
      d == Side(Tree, cursor)
      w == child[p][Opp(d)]
  IN IF IsRed(Tree, w) THEN Rotate(Paint(Paint(Tree, w, "black"), p, "red"), p, d) ELSE Tree
(* Slip: a red node is not made black, the search for one goes on. *)
AtRoot == cursor = root
AtEnd == cursor = root \/ color[cursor] = "red"
Repairing == pc = "delete" /\ ~ AtEnd

(* There is no sibling (but perhaps a red one before case 1): cursor stays  *)
(* where it is in this round, and in the next.                             *)
FixupSpin ==
  /\ Repairing
  /\ Levelled.child[Up(cursor)][Opp(Side(Tree, cursor))] = Nil
  /\ Become(Levelled)
  /\ UNCHANGED << value, pc, cursor, clean >>

(* Slip: x stays where it is. *)
StillShort(x) == x
ShortNow(x) == Up(x)

(* Case 2: no red below the sibling, which gives its own black; the parent *)
(* is short now.  Cases 3 and 4: one below it is red, and after one or two *)
(* rotations its black is on the side of x.                                *)
FixupDelete ==
  LET t == Levelled
      p == Up(cursor)
      d == Side(Tree, cursor)
      w == t.child[p][Opp(d)]
      near == t.child[w][d]
      far == t.child[w][Opp(d)]
      outer == IF IsRed(t, far) THEN t
               ELSE Rotate(Paint(Paint(t, near, "black"), w, "red"), w, Opp(d))
      v == outer.child[p][Opp(d)]
      full == Paint(Paint(Paint(outer, v, outer.color[p]), p, "black"), outer.child[v][Opp(d)], "black")
  IN /\ Repairing /\ w # Nil
     /\ \/ /\ ~ IsRed(t, near) /\ ~ IsRed(t, far)
           /\ Become(Paint(t, w, "red"))
           /\ cursor' = ShortNow(cursor)
        \/ /\ IsRed(t, near) \/ IsRed(t, far)
           /\ Become(Rotate(full, p, d))
           /\ cursor' = root'
     /\ UNCHANGED << value, pc, clean >>

FixupDeleteEnd ==
  /\ pc = "delete" /\ AtEnd
  /\ color' = [color EXCEPT ![cursor] = "black"]
  /\ pc' = "idle" /\ cursor' = Nil
  /\ UNCHANGED << root, child, parent, value, clean >>

-----------------------------------------------------------------------------
Put(k, v) == PutRoot(k, v) \/ PutOver(k, v) \/ \E c \in EntryColors : PutLeaf(k, v, c)
Fixup ==
  \/ FixupRecolor \/ FixupRotate \/ FixupPutEnd
  \/ FixupSpin \/ FixupDelete \/ FixupDeleteEnd
Next ==
  \/ \E k \in Keys : Delete(k)
  \/ \E k \in Keys, v \in Vals : OneUnusual(k, v) /\ Put(k, v)
  \/ Fixup

Spec == Init /\ [][Next]_vars
FairSpec == Spec /\ WF_vars(Fixup)

-----------------------------------------------------------------------------
(* The nodes in the order in which InorderVisitor and countingVisitor      *)
(* visit them.                                                             *)
Walk ==
  LET from[i \in 0 .. Cardinality(Keys)] == [n \in Keys \cup {Nil} |->
        IF n = Nil \/ i = 0 THEN << >>
        ELSE from[i - 1][child[n].left] \o << n >> \o from[i - 1][child[n].right]]
  IN from[Cardinality(Keys)][root]

(* The blacks on each path from n down to where a child is missing.        *)
BlackHeights ==
  LET from[i \in 0 .. Cardinality(Keys)] == [n \in Keys \cup {Nil} |->
        IF n = Nil \/ i = 0 THEN {0}
        ELSE {h + (IF color[n] = "black" THEN 1 ELSE 0) :
                h \in from[i - 1][child[n].left] \cup from[i - 1][child[n].right]}]
  IN from[Cardinality(Keys)][root]

TypeOK ==
  /\ root \in Keys \cup {Nil} /\ cursor \in Keys \cup {Nil}
  /\ child \in [Keys -> [Dirs -> Keys \cup {Nil}]]
  /\ parent \in [Keys -> Keys \cup {Nil}]
  /\ color \in [Keys -> Colors]
  /\ value \in [Keys -> Vals \cup {Nil}]
  /\ pc \in {"idle", "put", "delete"} /\ clean \in BOOLEAN
  /\ (cursor = Nil) = (pc = "idle")

(* Whatever was put and deleted, balanced or not, in a repair or not: a    *)
(* walk meets the keys in order, each node is its parent's child, the root *)
(* has no parent, and the nodes are the entries that were put and not      *)
(* taken out since.                                                        *)
TreeOK ==
  LET order == Walk
      in == {order[i] : i \in DOMAIN order}
  IN /\ \A i \in 1 .. Len(order) - 1 : order[i] < order[i + 1]
     /\ \A n \in in, d \in Dirs : child[n][d] # Nil => parent[child[n][d]] = n
     /\ root # Nil => parent[root] = Nil
     /\ in = {n \in Keys : value[n] # Nil}
     /\ \A n \in Keys \ in : parent[n] = Nil /\ child[n] = NoLinks

(* A red-black tree (entry.go:20): a black root, no red child of a red     *)
(* node, and as many blacks on one path down as on any other.              *)
RedBlack ==
  /\ ~ IsRed(Tree, root)
  /\ \A n \in Keys, d \in Dirs :
       parent[n] # Nil /\ IsRed(Tree, n) => ~ IsRed(Tree, child[n][d])
  /\ Cardinality(BlackHeights) = 1

(* Between two calls the tree is red-black, unless a Delete has left out   *)
(* the repair or a black entry was put.                                    *)
RedBlackOK == clean /\ pc = "idle" => RedBlack

(* The tree promises what a dictionary does: what a lookup finds is what   *)
(* was put last, and no repair changes it.                                 *)
Promise == INSTANCE Dictionary WITH map <- [k \in {i \in Keys : Found(i)} |-> value[k]]
PromiseKept == Promise!Spec

(* A repair ends: that of Put always, that of Delete in a clean tree, where *)
(* the child that follows a black node is red and the loop ends at once.   *)
RepairsEnd ==
  pc = "put" \/ (pc = "delete" /\ clean) ~> pc = "idle"

(* Delete removes the entry and returns (entry.go:561), whatever came      *)
(* before.                                                                 *)
DeleteReturns == pc = "delete" ~> pc = "idle"
=============================================================================
