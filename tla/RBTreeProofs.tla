---------------------------- MODULE RBTreeProofs ----------------------------
(***************************************************************************)
(* What RBTree promises for every finite set of keys, whatever colours the *)
(* callers' entries have and whichever repairs are skipped.                *)
(***************************************************************************)
EXTENDS RBTreeRounds, SearchTrees

Linking == [root : Keys \cup {Nil}, child : [Keys -> [Dirs -> Keys \cup {Nil}]],
            parent : [Keys -> Keys \cup {Nil}], color : [Keys -> Colors]]

LEMMA Directions == Opp("left") = "right" /\ Opp("right") = "left" /\ Dirs = {"left", "right"}
BY DEF Opp, Dirs

(* What each of the helpers makes of t, link by link. *)
ParentSet(t, n, p, u) ==
  /\ u \in Linking /\ u.root = t.root /\ u.child = t.child /\ u.color = t.color
  /\ \A m \in Keys : u.parent[m] = IF m = n THEN p ELSE t.parent[m]

Painted(t, n, c, u) ==
  /\ u \in Linking /\ u.root = t.root /\ u.child = t.child /\ u.parent = t.parent
  /\ \A m \in Keys : u.color[m] = IF m = n THEN c ELSE t.color[m]

Transplanted(t, n, v, u) ==
  /\ u \in Linking /\ u.color = t.color
  /\ u.root = IF t.parent[n] = Nil THEN v ELSE t.root
  /\ \A m \in Keys, d \in Dirs :
       u.child[m][d] = IF m = t.parent[n] /\ d = Side(t, n) THEN v ELSE t.child[m][d]
  /\ \A m \in Keys : u.parent[m] = IF m = v THEN t.parent[n] ELSE t.parent[m]

(* x goes down to side d, y takes its place, and b, which was below y,     *)
(* goes over to x.                                                         *)
Rotated(t, x, d, y, b, u) ==
  /\ u \in Linking /\ u.color = t.color
  /\ u.root = IF t.parent[x] = Nil THEN y ELSE t.root
  /\ \A n \in Keys, e \in Dirs :
       u.child[n][e] = IF n = x /\ e = Opp(d) THEN b
                       ELSE IF n = y /\ e = d THEN x
                       ELSE IF n = t.parent[x] /\ e = Side(t, x) THEN y ELSE t.child[n][e]
  /\ \A n \in Keys : u.parent[n] = IF n = b THEN x ELSE IF n = x THEN y
                                   ELSE IF n = y THEN t.parent[x] ELSE t.parent[n]

LEMMA SetParentIs ==
  ASSUME NEW t \in Linking, NEW n \in Keys \cup {Nil}, NEW p \in Keys \cup {Nil}
  PROVE  ParentSet(t, n, p, SetParent(t, n, p))
<1> DEFINE u == SetParent(t, n, p)
<1>1. CASE n = Nil
  <2>1. u = t /\ n \notin Keys
    BY <1>1, TreeAssumption DEF SetParent
  <2> QED
    BY <2>1 DEF ParentSet
<1>2. CASE n # Nil
  <2>1. u = [t EXCEPT !.parent[n] = p] /\ n \in Keys
    BY <1>2 DEF SetParent
  <2> HIDE DEF u
  <2>2. ParentSet(t, n, p, u)
    BY <2>1 DEF Linking, ParentSet
  <2> QED
    BY <2>2 DEF u
<1> QED
  BY <1>1, <1>2

LEMMA PaintIs ==
  ASSUME NEW t \in Linking, NEW n \in Keys \cup {Nil}, NEW c \in Colors
  PROVE  Painted(t, n, c, Paint(t, n, c))
<1> DEFINE u == Paint(t, n, c)
<1>1. u = [t EXCEPT !.color[n] = c]
  BY DEF Paint
<1> HIDE DEF u
<1>2. Painted(t, n, c, u)
  BY <1>1 DEF Linking, Painted
<1> QED
  BY <1>2 DEF u

LEMMA TransplantIs ==
  ASSUME NEW t \in Linking, NEW n \in Keys, NEW v \in Keys \cup {Nil}
  PROVE  Transplanted(t, n, v, Transplant(t, n, v))
<1> DEFINE p == t.parent[n]
           e == Side(t, n)
           w == IF p = Nil THEN [t EXCEPT !.root = v] ELSE [t EXCEPT !.child[p][e] = v]
           u == SetParent(w, v, p)
<1>1. Transplant(t, n, v) = u /\ p \in Keys \cup {Nil}
  BY DEF Transplant, Linking
<1>2. e \in Dirs
  BY DEF Side, Dirs
<1> HIDE DEF e
<1>3. /\ w \in Linking /\ w.color = t.color /\ w.parent = t.parent
      /\ w.root = IF p = Nil THEN v ELSE t.root
      /\ \A m \in Keys, d \in Dirs : w.child[m][d] = IF m = p /\ d = e THEN v ELSE t.child[m][d]
  <2>1. CASE p = Nil
    <3>1. w = [t EXCEPT !.root = v]
      BY <2>1
    <3> HIDE DEF w
    <3> QED
      BY <3>1, <2>1, TreeAssumption DEF Linking
  <2>2. CASE p # Nil
    <3>1. w = [t EXCEPT !.child[p][e] = v] /\ p \in Keys
      BY <1>1, <2>2
    <3> HIDE DEF w, p
    <3> QED
      BY <3>1, <1>2, <2>2 DEF Linking
  <2> QED
    BY <2>1, <2>2
<1> HIDE DEF w, p
<1>4. ParentSet(w, v, p, u)
  BY <1>1, <1>3, SetParentIs
<1> HIDE DEF u
<1>5. Transplanted(t, n, v, u)
  BY <1>3, <1>4 DEF ParentSet, Transplanted, e, p
<1> QED
  BY <1>1, <1>5

LEMMA RotateIs ==
  ASSUME NEW t \in Linking, NEW x \in Keys, NEW d \in Dirs, t.child[x][Opp(d)] \notin {Nil, x}
  PROVE  Rotated(t, x, d, t.child[x][Opp(d)], t.child[t.child[x][Opp(d)]][d], Rotate(t, x, d))
<1> DEFINE o == Opp(d)
           y == t.child[x][o]
           b == t.child[y][d]
           t1 == Transplant(t, x, y)
           t2 == Swing(t1, x, y, b, d)
           u == SetParent(t2, b, x)
<1>1. y \in Keys /\ y \in Keys \cup {Nil} /\ b \in Keys \cup {Nil} /\ o \in Dirs /\ o # d /\ y # x
  BY DEF Linking, Opp, Dirs
<1>2. Rotate(t, x, d) = u
  BY Zenon DEF Rotate
<1> HIDE DEF y, b
<1>3. Transplanted(t, x, y, t1)
  <2>1. Transplanted(t, x, y, Transplant(t, x, y))
    BY <1>1, TransplantIs
  <2> QED
    BY <2>1
<1> HIDE DEF t1, o
<1>4. /\ t2 \in Linking /\ t2.color = t1.color /\ t2.root = t1.root
      /\ \A m \in Keys, e \in Dirs :
           t2.child[m][e] = IF m = x /\ e = o THEN b ELSE IF m = y /\ e = d THEN x ELSE t1.child[m][e]
      /\ \A m \in Keys : t2.parent[m] = IF m = x THEN y ELSE t1.parent[m]
  <2>1. o \in Dirs /\ o # d
    BY <1>1
  <2>2. t1 \in Linking
    BY <1>3 DEF Transplanted
  <2>3. t2 = [t1 EXCEPT !.child[x][o] = b, !.child[y][d] = x, !.parent[x] = y]
    BY DEF Swing, o
  <2> HIDE DEF t2
  <2> QED
    BY <1>1, <2>1, <2>2, <2>3 DEF Linking
<1> HIDE DEF t2
<1>5. ParentSet(t2, b, x, u)
  BY <1>1, <1>4, SetParentIs
<1> HIDE DEF u
<1>6. Rotated(t, x, d, y, b, u)
  BY <1>3, <1>4, <1>5 DEF ParentSet, Transplanted, Rotated, o
<1> QED
  BY <1>2, <1>6 DEF y, b, o

-----------------------------------------------------------------------------
(* The tree of the nodes N, of which s[n] are those from n down, seen from *)
(* either side.                                                            *)
On(t, d) == [n \in Keys |-> t.child[n][d]]
Order(d) == {e \in Keys \X Keys : IF d = "left" THEN e[1] < e[2] ELSE e[2] < e[1]}
Facing(t, N, s, d) ==
  SearchTree(N, Nil, t.root, On(t, d), On(t, Opp(d)), t.parent, s, Order(d))
Whole(t, N, s) == \A d \in Dirs : Facing(t, N, s, d)

LEMMA Orders ==
  /\ Order("left") \subseteq Keys \X Keys /\ Order("right") \subseteq Keys \X Keys
  /\ Order("left") = Reverse(Order("right")) /\ Order("right") = Reverse(Order("left"))
<1>1. Order("left") \subseteq Keys \X Keys /\ Order("right") \subseteq Keys \X Keys
  BY DEF Order
<1>2. \A m, n : << m, n >> \in Order("left") <=> << n, m >> \in Order("right")
  BY DEF Order
<1>3. ASSUME NEW A \in SUBSET (Keys \X Keys), NEW B \in SUBSET (Keys \X Keys),
             \A m, n : << m, n >> \in A <=> << n, m >> \in B
      PROVE  A = Reverse(B)
  <2>1. \A m, n : << m, n >> \in B <=> << n, m >> \in Reverse(B)
    BY Reversed
  <2>2. ASSUME NEW e \in A
        PROVE  e \in Reverse(B)
    <3>1. PICK m \in Keys, n \in Keys : e = << m, n >>
      OBVIOUS
    <3> QED
      BY <1>3, <2>1, <2>2, <3>1
  <2>3. ASSUME NEW e \in Reverse(B)
        PROVE  e \in A
    <3>1. PICK f \in B : e = << f[2], f[1] >>
      BY <2>3 DEF Reverse
    <3> QED
      BY <1>3, <2>1, <2>3, <3>1
  <2> QED
    BY <2>2, <2>3
<1> QED
  BY <1>1, <1>2, <1>3

LEMMA Strict ==
  ASSUME NEW N \in SUBSET Keys, NEW d \in Dirs
  PROVE  StrictOrder(N, Order(d))
BY TreeAssumption DEF StrictOrder, Order

LEMMA BothSides ==
  ASSUME NEW t, NEW N \in SUBSET Keys, NEW s, NEW d \in Dirs, Facing(t, N, s, d)
  PROVE  Whole(t, N, s)
<1>1. CASE d = "left"
  <2>1. SearchTree(N, Nil, t.root, On(t, "left"), On(t, "right"), t.parent, s, Order("left"))
    BY <1>1, Directions DEF Facing
  <2>2. SearchTree(N, Nil, t.root, On(t, "right"), On(t, "left"), t.parent, s, Reverse(Order("left")))
    BY <1>1, <2>1, Orders, Strict, Mirror
  <2> QED
    BY <2>1, <2>2, Orders, Directions DEF Whole, Facing
<1>2. CASE d = "right"
  <2>1. SearchTree(N, Nil, t.root, On(t, "right"), On(t, "left"), t.parent, s, Order("right"))
    BY <1>2, Directions DEF Facing
  <2>2. SearchTree(N, Nil, t.root, On(t, "left"), On(t, "right"), t.parent, s, Reverse(Order("right")))
    BY <1>2, <2>1, Orders, Strict, Mirror
  <2> QED
    BY <2>1, <2>2, Orders, Directions DEF Whole, Facing
<1> QED
  BY <1>1, <1>2, Directions

LEMMA WholeRoot ==
  ASSUME NEW t, NEW N, NEW s, Whole(t, N, s)
  PROVE  Nil \notin N /\ t.root \in N \cup {Nil} /\ s[Nil] = {} /\ s[t.root] = N /\ (t.root = Nil => N = {})
<1>1. Hung(N, Nil, t.root, s)
  BY Directions DEF Whole, Facing, SearchTree, Shape
<1> QED
  BY <1>1 DEF Hung

(* A node, its children and its parent. *)
ChildOf(t, N, n, c, o) ==
  /\ c \in N \cup {Nil} /\ c # n
  /\ c # Nil => t.parent[c] = n /\ c # t.root /\ c # o
HasParent(t, N, n, p) ==
  /\ p \in N /\ p # Nil /\ p # n
  /\ \A d \in Dirs : Side(t, n) = d <=> t.child[p][d] = n
  /\ Side(t, n) \in Dirs

NodeIn(t, N, s, n) ==
  /\ n \in Keys /\ n # Nil /\ n \in s[n] /\ s[n] \subseteq N
  /\ \A d \in Dirs : ChildOf(t, N, n, t.child[n][d], t.child[n][Opp(d)])
  /\ n = t.root => t.parent[n] = Nil
  /\ n # t.root => HasParent(t, N, n, t.parent[n])

LEMMA WholeNode ==
  ASSUME NEW t, NEW N \in SUBSET Keys, NEW s, Whole(t, N, s)
  PROVE  \A n \in N : NodeIn(t, N, s, n)
<1> SUFFICES ASSUME NEW n \in N
             PROVE  NodeIn(t, N, s, n)
  OBVIOUS
<1> DEFINE L == On(t, "left")
           R == On(t, "right")
           P == t.parent
           r == t.root
<1>1. SearchTree(N, Nil, r, L, R, P, s, Order("left")) /\ StrictOrder(N, Order("left"))
  BY Directions, Strict DEF Whole, Facing
<1> HIDE DEF L, R, P, r
<1>2. /\ n \in s[n] /\ s[n] \subseteq N /\ n # Nil
      /\ L[n] \in N \cup {Nil} /\ R[n] \in N \cup {Nil}
      /\ L[n] # n /\ R[n] # n
      /\ L[n] # Nil => P[L[n]] = n /\ L[n] # r
      /\ R[n] # Nil => P[R[n]] = n /\ R[n] # r
      /\ L[n] = R[n] => L[n] = Nil
      /\ IF n = r THEN P[n] = Nil
         ELSE P[n] \in N /\ P[n] # Nil /\ P[n] # n /\ (L[P[n]] = n <=> R[P[n]] # n)
  BY <1>1, Node
<1>3. \A m \in N : L[m] = t.child[m]["left"] /\ R[m] = t.child[m]["right"]
  BY DEF L, R, On
<1>4. \A d \in Dirs : ChildOf(t, N, n, t.child[n][d], t.child[n][Opp(d)])
  BY <1>2, <1>3, Directions DEF ChildOf, P, r
<1>5. ASSUME n # r
      PROVE  /\ \A d \in Dirs : Side(t, n) = d <=> t.child[P[n]][d] = n
             /\ Side(t, n) \in Dirs
  <2>1. L[P[n]] = t.child[P[n]]["left"] /\ R[P[n]] = t.child[P[n]]["right"]
    BY <1>2, <1>3, <1>5
  <2>2. Side(t, n) = IF t.child[P[n]]["left"] = n THEN "left" ELSE "right"
    BY DEF Side, P
  <2> QED
    BY <1>2, <1>5, <2>1, <2>2, Directions
<1>6. n = r => t.parent[n] = Nil
  BY <1>2 DEF P
<1>7. n # r => HasParent(t, N, n, t.parent[n])
  BY <1>2, <1>5 DEF HasParent, P
<1> QED
  BY <1>2, <1>4, <1>6, <1>7 DEF r, NodeIn

(* No node is its own grandparent. *)
LEMMA NoRing ==
  ASSUME NEW t, NEW N \in SUBSET Keys, NEW s, Whole(t, N, s), NEW n \in N, n # t.root
  PROVE  t.parent[t.parent[n]] # n
<1> DEFINE p == t.parent[n]
<1>1. p \in N /\ p # n /\ \E d \in Dirs : t.child[p][d] = n
  <2>1. HasParent(t, N, n, p)
    BY WholeNode DEF NodeIn
  <2> QED
    BY <2>1 DEF HasParent
<1>2. SUFFICES ASSUME t.parent[p] = n
               PROVE  FALSE
  OBVIOUS
<1>3. \E d \in Dirs : t.child[n][d] = p
  <2>0. NodeIn(t, N, s, p)
    BY <1>1, WholeNode
  <2>1. p # t.root
    BY <2>0, <1>2, WholeRoot DEF NodeIn
  <2>2. HasParent(t, N, p, t.parent[p])
    BY <2>0, <2>1 DEF NodeIn
  <2> QED
    BY <1>2, <2>2 DEF HasParent
<1>4. \A m \in N, d \in Dirs : t.child[m][d] # Nil => t.child[m][d] \in s[m]
  <2> SUFFICES ASSUME NEW m \in N, NEW d \in Dirs, t.child[m][d] # Nil
               PROVE  t.child[m][d] \in s[m]
    OBVIOUS
  <2>1. Facing(t, N, s, d) /\ StrictOrder(N, Order(d))
    BY Strict DEF Whole
  <2>2. On(t, d)[m] # Nil => On(t, d)[m] \in s[On(t, d)[m]]
        /\ s[m] = {m} \cup s[On(t, d)[m]] \cup s[On(t, Opp(d))[m]]
    BY <2>1, Node DEF Facing
  <2> QED
    BY <2>2 DEF On
<1>5. n \in s[p] /\ p \in s[n]
  BY <1>1, <1>3, <1>4, WholeRoot
<1>6. Facing(t, N, s, "left") /\ StrictOrder(N, Order("left"))
  BY Strict, Directions DEF Whole
<1>7. n = p
  BY <1>1, <1>5, <1>6, NotBothBelow DEF Facing
<1> QED
  BY <1>1, <1>7

(* A rotation leaves a tree of the same nodes. *)
LEMMA RotateWhole ==
  ASSUME NEW t \in Linking, NEW N \in SUBSET Keys, NEW s, Whole(t, N, s), NEW x \in N, NEW d \in Dirs,
         NEW y, y = t.child[x][Opp(d)], y # Nil, NEW u, Rotated(t, x, d, y, t.child[y][d], u)
  PROVE  \E q : Whole(u, N, q)
<1> DEFINE o == Opp(d)
           L == On(t, o)
           R == On(t, d)
           P == t.parent
           L2 == On(u, o)
           R2 == On(u, d)
           P2 == u.parent
           p == P[x]
           b == t.child[y][d]
<1>1. o \in Dirs /\ o # d /\ Opp(o) = d /\ Dirs = {d, o}
  BY Directions
<1>2. /\ y \in N /\ x # y /\ Nil \notin N /\ (p # Nil => p \in N /\ p # x)
      /\ P[y] = x /\ P[x] # y
      /\ p # Nil => \A e \in Dirs : Side(t, x) = e <=> t.child[p][e] = x
      /\ b # y /\ b # x
  <2>1. y \in N /\ x # y /\ P[y] = x /\ y # t.root
    <3>1. ChildOf(t, N, x, y, t.child[x][Opp(o)])
      BY <1>1, WholeNode DEF NodeIn
    <3> QED
      BY <3>1 DEF ChildOf
  <2>2. p # Nil => p \in N /\ p # x /\ \A e \in Dirs : Side(t, x) = e <=> t.child[p][e] = x
    <3>1. p # Nil => HasParent(t, N, x, p)
      BY WholeNode DEF NodeIn
    <3> QED
      BY <3>1 DEF HasParent
  <2>3. P[x] # y
    BY <2>1, NoRing
  <2>4. b # y /\ (b = x => P[x] = y)
    <3>1. NodeIn(t, N, s, y)
      BY <2>1, WholeNode
    <3>2. ChildOf(t, N, y, b, t.child[y][Opp(d)])
      BY <3>1 DEF NodeIn
    <3> QED
      BY <3>2, WholeRoot DEF ChildOf
  <2> QED
    BY <2>1, <2>2, <2>3, <2>4, WholeRoot
<1>3. \A n \in N : /\ L[n] = t.child[n][o] /\ R[n] = t.child[n][d]
                   /\ L2[n] = u.child[n][o] /\ R2[n] = u.child[n][d]
  BY DEF On
<1>4. /\ u.root = IF p = Nil THEN y ELSE t.root
      /\ \A n \in N, e \in Dirs :
           u.child[n][e] = IF n = x /\ e = o THEN b
                           ELSE IF n = y /\ e = d THEN x
                           ELSE IF n = p /\ e = Side(t, x) THEN y ELSE t.child[n][e]
      /\ \A n \in N : P2[n] = IF n = b THEN x ELSE IF n = x THEN y ELSE IF n = y THEN p ELSE P[n]
  BY DEF Rotated
<1> HIDE DEF o, L, R, P, L2, R2, P2, p, b
<1>5. y = L[x] /\ b = R[y] /\ p = P[x]
  BY <1>2, <1>3 DEF o, b, p
<1>6. ASSUME NEW n \in N
      PROVE  /\ L2[n] = IF n = x THEN b ELSE IF n = p /\ L[n] = x THEN y ELSE L[n]
             /\ R2[n] = IF n = y THEN x ELSE IF n = p /\ R[n] = x THEN y ELSE R[n]
             /\ P2[n] = IF n = y THEN p ELSE IF n = x THEN y ELSE IF n = b THEN x ELSE P[n]
  <2>1. n = p => p # Nil /\ \A e \in Dirs : Side(t, x) = e <=> t.child[n][e] = x
    BY <1>2
  <2>2. L2[n] = IF n = x THEN b ELSE IF n = p /\ L[n] = x THEN y ELSE L[n]
    <3>1. u.child[n][o] = IF n = x THEN b ELSE IF n = p /\ o = Side(t, x) THEN y ELSE t.child[n][o]
      BY <1>1, <1>4
    <3> QED
      BY <1>1, <1>3, <2>1, <3>1
  <2>3. R2[n] = IF n = y THEN x ELSE IF n = p /\ R[n] = x THEN y ELSE R[n]
    <3>1. u.child[n][d] = IF n = y THEN x ELSE IF n = p /\ d = Side(t, x) THEN y ELSE t.child[n][d]
      BY <1>1, <1>4
    <3> QED
      BY <1>1, <1>3, <2>1, <3>1
  <2> QED
    BY <1>2, <1>4, <2>2, <2>3
<1>7. Turned(N, Nil, x, t.root, L, R, P, u.root, L2, R2, P2)
  <2>1. /\ u.root = IF P[x] = Nil THEN L[x] ELSE t.root
        /\ \A n \in N :
             /\ L2[n] = IF n = x THEN R[L[x]] ELSE IF n = P[x] /\ L[n] = x THEN L[x] ELSE L[n]
             /\ R2[n] = IF n = L[x] THEN x ELSE IF n = P[x] /\ R[n] = x THEN L[x] ELSE R[n]
             /\ P2[n] = IF n = L[x] THEN P[x] ELSE IF n = x THEN L[x] ELSE IF n = R[L[x]] THEN x ELSE P[n]
    BY <1>4, <1>5, <1>6
  <2> QED
    BY <2>1 DEF Turned
<1>8. SearchTree(N, Nil, t.root, L, R, P, s, Order(o)) /\ StrictOrder(N, Order(o))
  BY <1>1, Strict DEF Whole, Facing, L, R, P
<1>9. \E q : SearchTree(N, Nil, u.root, L2, R2, P2, q, Order(o))
  BY <1>5, <1>7, <1>8, Rotation
<1>10. \E q : Facing(u, N, q, o)
  BY <1>1, <1>9 DEF Facing, L2, R2, P2
<1> QED
  BY <1>1, <1>10, BothSides

(* What is not in the tree has no links. *)
Loose(t, N) == \A n \in Keys \ N : t.parent[n] = Nil /\ t.child[n] = NoLinks

LEMMA RotateLoose ==
  ASSUME NEW t \in Linking, NEW N \in SUBSET Keys, NEW s, Whole(t, N, s), Loose(t, N), NEW x \in N, NEW d \in Dirs,
         NEW y, y = t.child[x][Opp(d)], y # Nil, NEW u, Rotated(t, x, d, y, t.child[y][d], u)
  PROVE  Loose(u, N)
<1>1. y \in N /\ t.child[y][d] \in N \cup {Nil} /\ Opp(d) \in Dirs
  <2>1. Opp(d) \in Dirs /\ Opp(Opp(d)) = d
    BY Directions
  <2>2. ChildOf(t, N, x, y, t.child[x][d])
    <3>1. NodeIn(t, N, s, x)
      BY WholeNode
    <3> QED
      BY <2>1, <3>1 DEF NodeIn
  <2>3. y \in N
    BY <2>2 DEF ChildOf
  <2>4. NodeIn(t, N, s, y)
    BY <2>3, WholeNode
  <2>5. ChildOf(t, N, y, t.child[y][d], t.child[y][Opp(d)])
    BY <2>4 DEF NodeIn
  <2> QED
    BY <2>1, <2>3, <2>5 DEF ChildOf
<1>2. t.parent[x] \in N \cup {Nil} /\ Nil \notin Keys
  BY WholeNode, TreeAssumption DEF NodeIn, HasParent
<1>3. u \in Linking
  BY DEF Rotated
<1>4. SUFFICES ASSUME NEW n \in Keys \ N
               PROVE  u.parent[n] = Nil /\ u.child[n] = NoLinks
  BY DEF Loose
<1>5. u.parent[n] = t.parent[n] /\ \A e \in Dirs : u.child[n][e] = t.child[n][e]
  BY <1>1, <1>2 DEF Rotated
<1>6. u.child[n] \in [Dirs -> Keys \cup {Nil}] /\ t.child[n] \in [Dirs -> Keys \cup {Nil}]
  BY <1>3 DEF Linking
<1> QED
  BY <1>5, <1>6 DEF Loose

-----------------------------------------------------------------------------
(* What the two searches return. *)
LEMMA KeysFinite ==
  ASSUME NEW N \in SUBSET Keys
  PROVE  /\ IsFiniteSet(N) /\ Cardinality(N) \in Nat /\ Cardinality(Keys) \in Nat
         /\ Cardinality(N) <= Cardinality(Keys)
<1>1. IsFiniteSet(N) /\ Cardinality(N) <= Cardinality(Keys)
  BY TreeAssumption, FS_Subset
<1> QED
  BY <1>1, TreeAssumption, FS_CardinalityType

LEMMA WholeSizes ==
  ASSUME NEW t, NEW N \in SUBSET Keys, NEW s, Whole(t, N, s), NEW n \in N, NEW d \in Dirs
  PROVE  /\ Cardinality(s[n]) \in Nat /\ Cardinality(s[t.child[n][d]]) \in Nat
         /\ Cardinality(s[t.child[n][d]]) < Cardinality(s[n])
         /\ Cardinality(s[n]) <= Cardinality(Keys)
<1>1. Facing(t, N, s, d) /\ StrictOrder(N, Order(d)) /\ IsFiniteSet(N)
  BY Strict, KeysFinite DEF Whole
<1>2. On(t, d)[n] = t.child[n][d]
  BY DEF On
<1>3. /\ Cardinality(s[n]) \in Nat /\ Cardinality(s[On(t, d)[n]]) \in Nat
      /\ Cardinality(s[On(t, d)[n]]) < Cardinality(s[n]) /\ Cardinality(s[n]) <= Cardinality(N)
  BY <1>1, FewerBelow DEF Facing
<1> QED
  BY <1>2, <1>3, KeysFinite

LEMMA NilIsEmpty ==
  ASSUME NEW t, NEW N \in SUBSET Keys, NEW s, Whole(t, N, s), NEW n \in N \cup {Nil}
  PROVE  Cardinality(s[n]) \in Nat /\ Cardinality(s[n]) <= Cardinality(Keys)
<1>1. CASE n = Nil
  BY <1>1, WholeRoot, FS_EmptySet, KeysFinite
<1>2. CASE n # Nil
  BY <1>2, WholeSizes, Directions
<1> QED
  BY <1>1, <1>2

(* The place for k in the tree: below u on its side d, where c hangs.      *)
PlaceFor(t, N, s, k, u, d, c) ==
  /\ Place(N, Nil, t.root, On(t, "left"), On(t, "right"), s, Order("left"), k, u, c)
  /\ u # Nil => u \in N /\ d = IF k < u THEN "left" ELSE "right"
  /\ k \in N => k \in s[c]

LEMMA PlaceDown ==
  ASSUME NEW t \in Linking, NEW N \in SUBSET Keys, NEW s, Whole(t, N, s), NEW k \in Keys,
         NEW u, NEW e, NEW n \in N, PlaceFor(t, N, s, k, u, e, n), n # k,
         NEW d, d = IF k < n THEN "left" ELSE "right"
  PROVE  PlaceFor(t, N, s, k, n, d, t.child[n][d])
<1> DEFINE L == On(t, "left")
           R == On(t, "right")
<1>1. SearchTree(N, Nil, t.root, L, R, t.parent, s, Order("left")) /\ StrictOrder(N, Order("left"))
  BY Directions, Strict DEF Whole, Facing
<1>2. L[n] = t.child[n]["left"] /\ R[n] = t.child[n]["right"]
  BY DEF On
<1>3. k \in Int /\ n \in Int /\ n \in Keys
  BY TreeAssumption
<1>4. IF k < n THEN << k, n >> \in Order("left") ELSE << n, k >> \in Order("left")
  BY <1>3 DEF Order
<1>5. Place(N, Nil, t.root, L, R, s, Order("left"), k, u, n)
  BY DEF PlaceFor
<1> HIDE DEF L, R
<1>6. Place(N, Nil, t.root, L, R, s, Order("left"), k, n, t.child[n][d])
  BY <1>1, <1>2, <1>4, <1>5, PlaceBelow
<1>7. ASSUME k \in N
      PROVE  k \in s[t.child[n][d]]
  <2>1. k \in s[n] /\ s[n] = {n} \cup s[L[n]] \cup s[R[n]]
    BY <1>1, <1>7, Node DEF PlaceFor
  <2>2. /\ \A m \in s[L[n]] : << m, n >> \in Order("left")
        /\ \A m \in s[R[n]] : << n, m >> \in Order("left")
    BY <1>1 DEF SearchTree, Sorted
  <2>3. IF k < n THEN << n, k >> \notin Order("left") ELSE << k, n >> \notin Order("left")
    BY <1>3 DEF Order
  <2> QED
    BY <1>2, <2>1, <2>2, <2>3
<1> QED
  BY <1>6, <1>7 DEF PlaceFor, L, R

LEMMA LookupIs ==
  ASSUME Tree \in Linking, NEW N \in SUBSET Keys, NEW s, Whole(Tree, N, s), NEW k \in Keys
  PROVE  /\ Found(k) <=> k \in N
         /\ ~ Found(k) => LET at == Lookup(k) IN
              at.dir \in Dirs /\ PlaceFor(Tree, N, s, k, at.parent, at.dir, Nil)
<1> DEFINE C == Cardinality(Keys)
           below == [at \in Places |->
             IF at.node \in {Nil, k} THEN at
             ELSE [node |-> child[at.node][IF k < at.node THEN "left" ELSE "right"], parent |-> at.node,
                   dir |-> IF k < at.node THEN "left" ELSE "right"]]
           base == [node |-> root, parent |-> Nil, dir |-> "left"]
           down == CHOOSE g : g = [i \in 0 .. C |-> IF i = 0 THEN base ELSE below[g[i - 1]]]
           I == {at \in Places : at.node \in N \cup {Nil}
                                 /\ PlaceFor(Tree, N, s, k, at.parent, at.dir, at.node)}
           Stop == {at \in I : at.node \in {Nil, k}}
           size == [at \in I |-> Cardinality(s[at.node])]
<1>1. Lookup(k) = down[C]
  BY DEF Lookup
<1>2. C \in Nat /\ Nil \notin N /\ root \in N \cup {Nil} /\ s[Nil] = {} /\ s[root] = N /\ Tree.root = root
  BY KeysFinite, WholeRoot DEF Tree
<1>3. \A at \in Places : at.node \in Keys \cup {Nil} /\ at.parent \in Keys \cup {Nil} /\ at.dir \in Dirs
  BY DEF Places
<1>4. Iterates(C, base, below, down)
  <2>1. \E g : Iterates(C, base, below, g)
    <3> HIDE DEF C, base, below
    <3> QED
      BY <1>2, IterationExists
  <2> QED
    BY <2>1 DEF Iterates
<1>5. base \in I
  <2>1. base \in Places /\ base.node = root /\ base.parent = Nil
    BY <1>2, Directions DEF Places
  <2>2. PlaceFor(Tree, N, s, k, Nil, base.dir, root)
    BY <1>2 DEF PlaceFor, Place
  <2> HIDE DEF base
  <2> QED
    BY <1>2, <2>1, <2>2
<1>6. ASSUME NEW at \in I, at \notin Stop
      PROVE  below[at] \in I /\ Cardinality(s[below[at].node]) < Cardinality(s[at.node])
  <2> DEFINE n == at.node
             d == IF k < n THEN "left" ELSE "right"
             c == child[n][d]
             w == [node |-> c, parent |-> n, dir |-> d]
  <2>1. n \in N /\ n # k /\ d \in Dirs /\ PlaceFor(Tree, N, s, k, at.parent, at.dir, n) /\ at \in Places
    BY <1>2, <1>6, Directions
  <2>2. below[at] = w
    BY <1>6, <2>1
  <2>3. c = Tree.child[n][d] /\ c \in N \cup {Nil}
    <3> HIDE DEF n, d
    <3>1. ChildOf(Tree, N, n, Tree.child[n][d], Tree.child[n][Opp(d)])
      BY <2>1, WholeNode DEF NodeIn
    <3> QED
      BY <3>1 DEF Tree, ChildOf
  <2>4. PlaceFor(Tree, N, s, k, n, d, c)
    <3> DEFINE D == d
    <3>1. D = IF k < n THEN "left" ELSE "right"
      OBVIOUS
    <3> HIDE DEF D, n
    <3>2. PlaceFor(Tree, N, s, k, n, D, Tree.child[n][D])
      BY <2>1, <3>1, PlaceDown
    <3> QED
      BY <2>3, <3>2 DEF D
  <2>5. Cardinality(s[c]) < Cardinality(s[n])
    BY <2>1, <2>3, WholeSizes, Zenon
  <2>6. w \in Places /\ w.node = c /\ w.parent = n /\ w.dir = d
    <3> HIDE DEF d, c, n
    <3> QED
      BY <2>1, <2>3 DEF Places
  <2> HIDE DEF w, c, d, n, below
  <2> QED
    BY <2>2, <2>3, <2>4, <2>5, <2>6 DEF n
<1>7. \A at \in Stop : below[at] = at
  OBVIOUS
<1>8. down[C] \in I \cap Stop
  <2>1. size \in [I -> Nat] /\ size[base] <= C /\ \A at \in I : size[at] = Cardinality(s[at.node])
    BY <1>5, NilIsEmpty
  <2>2. \A at \in I : below[at] \in I
    BY <1>6, <1>7
  <2>3. \A at \in I \ Stop : size[below[at]] < size[at]
    BY <1>6, <2>1
  <2>4. \A at \in I \cap Stop : below[at] = at
    BY <1>7
  <2> HIDE DEF C, I, base, below, size, Stop, down
  <2>5. Descends(C, I, base, below, size, Stop)
    BY <1>2, <1>5, <2>1, <2>2, <2>3, <2>4 DEF Descends
  <2> QED
    BY <1>4, <2>5, IterationEnds
<1> DEFINE at == Lookup(k)
<1>9. at \in Places /\ at.node \in {Nil, k} /\ at.node \in N \cup {Nil}
      /\ PlaceFor(Tree, N, s, k, at.parent, at.dir, at.node)
  BY <1>1, <1>8
<1> HIDE DEF at
<1>10. k # Nil
  BY TreeAssumption
<1>11. Found(k) <=> at.node = k
  BY DEF Found, at
<1>12. k \in N => at.node # Nil
  BY <1>2, <1>9 DEF PlaceFor
<1> QED
  BY <1>3, <1>9, <1>10, <1>11, <1>12 DEF at

LeastBelow(t, s, n, y) ==
  y \in s[n] /\ t.child[y]["left"] = Nil /\ \A m \in s[n] : m = y \/ y < m

LEMMA MinimumIs ==
  ASSUME NEW t \in Linking, NEW N \in SUBSET Keys, NEW s, Whole(t, N, s), NEW n \in N
  PROVE  LeastBelow(t, s, n, Minimum(t, n))
<1> DEFINE C == Cardinality(Keys)
           below == [m \in Keys |-> IF t.child[m].left = Nil THEN m ELSE t.child[m].left]
           down == CHOOSE g : g = [i \in 0 .. C |-> IF i = 0 THEN n ELSE below[g[i - 1]]]
           I == {w \in s[n] : FromOn(s, Order("left"), n, w)}
           Stop == {w \in Keys : t.child[w]["left"] = Nil}
           size == [w \in I |-> Cardinality(s[w])]
           L == On(t, "left")
           R == On(t, "right")
<1>1. Minimum(t, n) = down[C]
  BY DEF Minimum
<1>2. SearchTree(N, Nil, t.root, L, R, t.parent, s, Order("left")) /\ StrictOrder(N, Order("left"))
  BY Directions, Strict DEF Whole, Facing
<1>3. C \in Nat /\ n \in s[n] /\ s[n] \subseteq N
  <2>1. NodeIn(t, N, s, n)
    BY WholeNode
  <2> QED
    BY <2>1, KeysFinite DEF NodeIn
<1>4. \A w \in Keys : L[w] = t.child[w]["left"] /\ below[w] = IF L[w] = Nil THEN w ELSE L[w]
  BY DEF On
<1> HIDE DEF C, below, L, R
<1>5. Iterates(C, n, below, down)
  <2>1. \E g : Iterates(C, n, below, g)
    BY <1>3, IterationExists
  <2> QED
    BY <2>1 DEF Iterates
<1>6. ASSUME NEW w \in I
      PROVE  /\ w \in N /\ w \in s[n]
             /\ L[w] = Nil => below[w] = w /\ \A m \in s[n] : m = w \/ << w, m >> \in Order("left")
             /\ L[w] # Nil => below[w] = L[w] /\ L[w] \in I
  <2>1. w \in s[n] /\ w \in N /\ FromOn(s, Order("left"), n, w)
    BY <1>3
  <2>2. /\ L[w] = Nil => \A m \in s[n] : m = w \/ << w, m >> \in Order("left")
        /\ L[w] # Nil => L[w] \in s[n] /\ FromOn(s, Order("left"), n, L[w])
    BY <1>2, <2>1, LeftwardsFromOn
  <2> QED
    BY <1>4, <2>1, <2>2
<1>7. Descends(C, I, n, below, size, Stop)
  <2>1. n \in I
    BY <1>3 DEF FromOn
  <2>2. ASSUME NEW w \in I
        PROVE  Cardinality(s[w]) \in Nat /\ Cardinality(s[w]) <= C
               /\ Cardinality(s[t.child[w]["left"]]) < Cardinality(s[w])
    <3>1. w \in N /\ "left" \in Dirs
      BY <1>6, Directions
    <3> QED
      BY <3>1, WholeSizes DEF C
  <2>3. size \in [I -> Nat] /\ size[n] <= C /\ \A w \in I : size[w] = Cardinality(s[w])
    BY <2>1, <2>2
  <2>4. \A w \in I : below[w] \in I
    BY <1>6
  <2>5. \A w \in I \cap Stop : below[w] = w
    BY <1>4
  <2>6. ASSUME NEW w \in I \ Stop
        PROVE  size[below[w]] < size[w]
    <3>1. w \in Keys /\ w \in I /\ L[w] # Nil /\ L[w] = t.child[w]["left"]
      BY <1>4, <1>6
    <3>2. below[w] = L[w] /\ L[w] \in I
      BY <1>6, <3>1
    <3> HIDE DEF size, I
    <3> QED
      BY <2>2, <2>3, <3>1, <3>2
  <2> HIDE DEF size, I, Stop
  <2> QED
    BY <1>3, <2>1, <2>3, <2>4, <2>5, <2>6 DEF Descends
<1> DEFINE y == down[C]
<1>8. y \in I \cap Stop
  <2> HIDE DEF I, Stop, down
  <2> QED
    BY <1>5, <1>7, IterationEnds
<1> HIDE DEF y
<1>9. L[y] = Nil /\ t.child[y]["left"] = Nil /\ y \in s[n] /\ y \in N
  BY <1>4, <1>6, <1>8
<1>10. \A m \in s[n] : m = y \/ << y, m >> \in Order("left")
  BY <1>6, <1>8, <1>9
<1>11. \A m \in s[n] : m = y \/ y < m
  BY <1>10 DEF Order
<1>12. LeastBelow(t, s, n, y)
  BY <1>9, <1>11 DEF LeastBelow
<1> QED
  BY <1>1, <1>12 DEF y

-----------------------------------------------------------------------------
(* What Put and Delete do to the tree: a leaf is hung in its place, a node *)
(* with one child at most makes room for it, a node takes the place of     *)
(* another.                                                                *)
Hangs(t, k, p, d, u) ==
  /\ u.root = IF p = Nil THEN k ELSE t.root
  /\ \A m \in Keys, e \in Dirs : u.child[m][e] = IF m = p /\ e = d THEN k ELSE t.child[m][e]
  /\ \A m \in Keys : u.parent[m] = IF m = k THEN p ELSE t.parent[m]

LEMMA LeafWhole ==
  ASSUME NEW t \in Linking, NEW N \in SUBSET Keys, NEW s, Whole(t, N, s), Loose(t, N),
         NEW k \in Keys \ N, NEW p, NEW d \in Dirs, PlaceFor(t, N, s, k, p, d, Nil),
         NEW u, Hangs(t, k, p, d, u)
  PROVE  \E q : Whole(u, N \cup {k}, q)
<1> DEFINE L == On(t, "left")
           R == On(t, "right")
           L2 == On(u, "left")
           R2 == On(u, "right")
           ord == Order("left")
<1>1. \A n \in Keys : /\ L[n] = t.child[n]["left"] /\ R[n] = t.child[n]["right"]
                      /\ L2[n] = u.child[n]["left"] /\ R2[n] = u.child[n]["right"]
  BY DEF On
<1>2. SearchTree(N, Nil, t.root, L, R, t.parent, s, ord) /\ StrictOrder(N \cup {k}, ord)
  BY Directions, Strict DEF Whole, Facing
<1>3. ord \subseteq Keys \X Keys /\ k # Nil /\ k \notin N
  BY Orders, TreeAssumption
<1>4. Place(N, Nil, t.root, L, R, s, ord, k, p, Nil)
  BY DEF PlaceFor
<1>5. p # Nil => /\ p \in N
                 /\ << k, p >> \in ord <=> d = "left"
                 /\ << p, k >> \in ord <=> d = "right"
  <2>1. p # Nil => p \in N /\ p # k /\ p \in Int /\ k \in Int /\ d = IF k < p THEN "left" ELSE "right"
    BY TreeAssumption DEF PlaceFor
  <2> QED
    BY <2>1 DEF Order
<1> HIDE DEF ord
<1>6. LeafPut(N, Nil, k, p, ord, t.root, L, R, t.parent, u.root, L2, R2, u.parent)
  <2>1. u.root = IF p = Nil THEN k ELSE t.root
    BY DEF Hangs
  <2>2. \A m \in Keys : /\ L2[m] = IF m = p /\ "left" = d THEN k ELSE L[m]
                        /\ R2[m] = IF m = p /\ "right" = d THEN k ELSE R[m]
                        /\ u.parent[m] = IF m = k THEN p ELSE t.parent[m]
    BY <1>1, Directions DEF Hangs
  <2> HIDE DEF L2, R2, L, R
  <2>3. p \notin N => p = Nil
    BY <1>5
  <2>4. \A n \in N :
          /\ L2[n] = IF n = p /\ << n, k >> \notin ord /\ << k, n >> \in ord THEN k ELSE L[n]
          /\ R2[n] = IF n = p /\ << n, k >> \in ord THEN k ELSE R[n]
          /\ u.parent[n] = t.parent[n]
    BY <1>3, <1>5, <2>2, TreeAssumption
  <2>5. \A n \in N : << k, n >> \in ord => << n, k >> \notin ord
    BY <1>2, <1>3 DEF StrictOrder
  <2>6. L[k] = Nil /\ R[k] = Nil
    BY <1>1, Directions DEF Loose, NoLinks, L, R
  <2>7. L2[k] = Nil /\ R2[k] = Nil /\ u.parent[k] = p
    BY <1>3, <1>5, <2>2, <2>6
  <2> QED
    BY <2>1, <2>4, <2>5, <2>7 DEF LeafPut
<1> HIDE DEF L, R, L2, R2
<1>7. \E q : SearchTree(N \cup {k}, Nil, u.root, L2, R2, u.parent, q, ord)
  BY <1>2, <1>3, <1>4, <1>6, LeafPlaced
<1>8. \E q : Facing(u, N \cup {k}, q, "left")
  BY <1>7, Directions DEF Facing, L2, R2, ord
<1> QED
  BY <1>8, BothSides, Directions

MakesRoom(t, N, y, c, u) ==
  /\ u.root = IF t.parent[y] = Nil THEN c ELSE t.root
  /\ \A m \in N \ {y} :
       /\ \A e \in Dirs : u.child[m][e] = IF t.child[m][e] = y THEN c ELSE t.child[m][e]
       /\ u.parent[m] = IF m = c THEN t.parent[y] ELSE t.parent[m]

LEMMA RoomWhole ==
  ASSUME NEW t \in Linking, NEW N \in SUBSET Keys, NEW s, Whole(t, N, s),
         NEW y \in N, NEW d \in Dirs, t.child[y][d] = Nil, NEW c, c = t.child[y][Opp(d)],
         NEW u, MakesRoom(t, N, y, c, u)
  PROVE  \E q : Whole(u, N \ {y}, q)
<1> DEFINE L == On(t, d)
           R == On(t, Opp(d))
           L2 == On(u, d)
           R2 == On(u, Opp(d))
<1>1. \A n \in N : /\ L[n] = t.child[n][d] /\ R[n] = t.child[n][Opp(d)]
                   /\ L2[n] = u.child[n][d] /\ R2[n] = u.child[n][Opp(d)]
  BY DEF On
<1>2. SearchTree(N, Nil, t.root, L, R, t.parent, s, Order(d)) /\ StrictOrder(N, Order(d))
  BY Strict DEF Whole, Facing
<1>3. Spliced(N, Nil, y, c, t.root, L, R, t.parent, u.root, L2, R2, u.parent)
  <2>1. Opp(d) \in Dirs
    BY Directions
  <2> HIDE DEF L, R, L2, R2
  <2> QED
    BY <1>1, <2>1 DEF MakesRoom, Spliced
<1>4. L[y] = Nil /\ c = R[y]
  BY <1>1
<1> HIDE DEF L, R, L2, R2
<1>5. \E q : SearchTree(N \ {y}, Nil, u.root, L2, R2, u.parent, q, Order(d))
  BY <1>2, <1>3, <1>4, NodeSpliced
<1>6. \E q : Facing(u, N \ {y}, q, d)
  BY <1>5 DEF Facing, L2, R2
<1> QED
  BY <1>6, BothSides

StandsFor(t, N, z, y, u) ==
  /\ u.root = As(z, y, t.root)
  /\ \A n \in N : /\ \A e \in Dirs : u.child[As(z, y, n)][e] = As(z, y, t.child[n][e])
                  /\ u.parent[As(z, y, n)] = As(z, y, t.parent[n])

LEMMA StandInWhole ==
  ASSUME NEW t \in Linking, NEW N \in SUBSET Keys, NEW s, Whole(t, N, s),
         NEW z \in N, NEW y \in Keys \ N,
         \A n \in N : (n < z => n < y) /\ (z < n => y < n),
         NEW u, StandsFor(t, N, z, y, u)
  PROVE  \E q : Whole(u, (N \ {z}) \cup {y}, q)
<1> DEFINE L == On(t, "left")
           R == On(t, "right")
           L2 == On(u, "left")
           R2 == On(u, "right")
           ord == Order("left")
<1>1. \A n \in Keys : /\ L[n] = t.child[n]["left"] /\ R[n] = t.child[n]["right"]
                      /\ L2[n] = u.child[n]["left"] /\ R2[n] = u.child[n]["right"]
  BY DEF On
<1>2. SearchTree(N, Nil, t.root, L, R, t.parent, s, ord) /\ StrictOrder(N, ord)
  BY Directions, Strict DEF Whole, Facing
<1>3. y # Nil /\ y \notin N
  BY TreeAssumption
<1>4. \A n \in N : /\ << n, z >> \in ord => << n, y >> \in ord
                   /\ << z, n >> \in ord => << y, n >> \in ord
  BY DEF Order
<1>5. \A n \in N : As(z, y, n) \in Keys
  BY DEF As
<1> HIDE DEF L, R, L2, R2, ord
<1>6. Replaced(N, Nil, z, y, t.root, L, R, t.parent, u.root, L2, R2, u.parent)
  BY <1>1, <1>5, Directions DEF StandsFor, Replaced
<1>7. \E q : SearchTree((N \ {z}) \cup {y}, Nil, u.root, L2, R2, u.parent, q, ord)
  BY <1>2, <1>3, <1>4, <1>6, NodeReplaced
<1>8. \E q : Facing(u, (N \ {z}) \cup {y}, q, "left")
  BY <1>7, Directions DEF Facing, L2, R2, ord
<1> QED
  BY <1>8, BothSides, Directions

(* The tree is in the links of its own nodes. *)
Alike(t, N, u) ==
  u.root = t.root /\ \A n \in N : (\A d \in Dirs : u.child[n][d] = t.child[n][d]) /\ u.parent[n] = t.parent[n]

LEMMA AlikeWhole ==
  ASSUME NEW t, NEW N \in SUBSET Keys, NEW s, Whole(t, N, s), NEW u, Alike(t, N, u)
  PROVE  Whole(u, N, s)
<1> DEFINE L == On(t, "left")
           R == On(t, "right")
           L2 == On(u, "left")
           R2 == On(u, "right")
           ord == Order("left")
<1>1. SearchTree(N, Nil, t.root, L, R, t.parent, s, ord)
  BY Directions DEF Whole, Facing
<1>2. u.root = t.root /\ \A n \in N : L2[n] = L[n] /\ R2[n] = R[n] /\ u.parent[n] = t.parent[n]
  BY Directions DEF Alike, On
<1> HIDE DEF L, R, L2, R2, ord
<1>3. Hung(N, Nil, u.root, s) /\ Split(N, Nil, L2, R2, s) /\ Sorted(N, L2, R2, s, ord)
  BY <1>1, <1>2 DEF SearchTree, Shape, Hung, Split, Sorted
<1>4. \A n \in N : s[n] \subseteq N
  <2>1. \A n \in N : NodeIn(t, N, s, n)
    BY WholeNode
  <2> QED
    BY <2>1 DEF NodeIn
<1>5. Nested(N, u.parent, s)
  BY <1>1, <1>2, <1>4 DEF SearchTree, Shape, Nested
<1>6. Linked(N, Nil, u.root, L2, R2, u.parent)
  <2>1. \A n \in N : L[n] \in N \cup {Nil} /\ R[n] \in N \cup {Nil}
    BY <1>1 DEF SearchTree, Shape, Split
  <2>2. /\ \A n \in N : \A m \in {L[n], R[n]} \ {Nil} : t.parent[m] = n
        /\ \A n \in N : IF n = t.root THEN t.parent[n] = Nil
                        ELSE t.parent[n] \in N /\ n \in {L[t.parent[n]], R[t.parent[n]]}
    BY <1>1 DEF SearchTree, Shape, Linked
  <2>3. \A n \in N : \A m \in {L2[n], R2[n]} \ {Nil} : u.parent[m] = n
    BY <1>2, <2>1, <2>2
  <2>4. ASSUME NEW n \in N
        PROVE  IF n = u.root THEN u.parent[n] = Nil
               ELSE u.parent[n] \in N /\ n \in {L2[u.parent[n]], R2[u.parent[n]]}
    <3>1. u.parent[n] = t.parent[n] /\ u.root = t.root
      BY <1>2
    <3>2. t.parent[n] \in N => L2[t.parent[n]] = L[t.parent[n]] /\ R2[t.parent[n]] = R[t.parent[n]]
      BY <1>2
    <3> HIDE DEF L, R
    <3> QED
      BY <2>2, <3>1, <3>2
  <2> QED
    BY <2>3, <2>4 DEF Linked
<1>7. Facing(u, N, s, "left")
  BY <1>3, <1>5, <1>6, Directions DEF Facing, SearchTree, Shape, L2, R2, ord
<1> QED
  BY <1>7, BothSides, Directions

(* Whoever has a node for its child is its parent. *)
LEMMA WhoseChild ==
  ASSUME NEW t, NEW N \in SUBSET Keys, NEW s, Whole(t, N, s), NEW y \in N, NEW m \in N, NEW d \in Dirs
  PROVE  t.child[m][d] = y <=> m = t.parent[y] /\ d = Side(t, y)
<1>1. NodeIn(t, N, s, y) /\ NodeIn(t, N, s, m)
  BY WholeNode
<1>2. ASSUME t.child[m][d] = y
      PROVE  m = t.parent[y] /\ d = Side(t, y)
  <2>1. ChildOf(t, N, m, y, t.child[m][Opp(d)])
    BY <1>1, <1>2 DEF NodeIn
  <2>2. m = t.parent[y] /\ y # t.root
    BY <1>1, <2>1 DEF ChildOf, NodeIn
  <2>3. HasParent(t, N, y, t.parent[y])
    BY <1>1, <2>2 DEF NodeIn
  <2> QED
    BY <1>2, <2>2, <2>3 DEF HasParent
<1>3. ASSUME m = t.parent[y], d = Side(t, y)
      PROVE  t.child[m][d] = y
  <2>1. y # t.root
    BY <1>1, <1>3, WholeRoot DEF NodeIn
  <2>2. HasParent(t, N, y, t.parent[y])
    BY <1>1, <2>1 DEF NodeIn
  <2> QED
    BY <1>3, <2>2 DEF HasParent
<1> QED
  BY <1>2, <1>3

LEMMA TransplantMakesRoom ==
  ASSUME NEW t, NEW N \in SUBSET Keys, NEW s, Whole(t, N, s), NEW y \in N, NEW c,
         NEW u, Transplanted(t, y, c, u)
  PROVE  MakesRoom(t, N, y, c, u)
<1>1. \A m \in N, d \in Dirs : t.child[m][d] = y <=> m = t.parent[y] /\ d = Side(t, y)
  BY WhoseChild
<1> QED
  BY <1>1 DEF Transplanted, MakesRoom

-----------------------------------------------------------------------------
(* Delete.  In the tree t the node y leaves its place, which its child x   *)
(* takes (t1), and when that is not z itself, y takes the place of z.      *)

(* Where the nodes that a Delete with two children moves are. *)
Settled(t, N, z, l, r, y, x) ==
  /\ l \in N /\ r \in N /\ y \in N /\ x \in N \cup {Nil} /\ z # Nil /\ y # Nil
  /\ z \notin {l, r, y, x} /\ l \notin {r, y, x} /\ y # x /\ r # x
  /\ t.parent[l] = z /\ t.parent[r] = z /\ y # t.root
  /\ x # Nil => t.parent[x] = y
  /\ t.parent[z] # y /\ t.parent[z] # z
  /\ \A m \in N : t.parent[m] = z <=> m \in {l, r}
  /\ \A m \in N : t.parent[m] = y <=> m = x
  /\ \A n \in N \ {y} : (n < z => n < y) /\ (z < n => y < n)

LEMMA Around ==
  ASSUME NEW t \in Linking, NEW N \in SUBSET Keys, NEW s, Whole(t, N, s), NEW z \in N,
         NEW l, l = t.child[z]["left"], NEW r, r = t.child[z]["right"], l # Nil, r # Nil,
         NEW y, LeastBelow(t, s, r, y), NEW x, x = t.child[y]["right"]
  PROVE  Settled(t, N, z, l, r, y, x)
<1> DEFINE L == On(t, "left")
           R == On(t, "right")
<1>1. SearchTree(N, Nil, t.root, L, R, t.parent, s, Order("left")) /\ StrictOrder(N, Order("left"))
  BY Directions, Strict DEF Whole, Facing
<1>2. \A n \in N : L[n] = t.child[n]["left"] /\ R[n] = t.child[n]["right"]
  BY DEF On
<1>3. l = L[z] /\ r = R[z]
  BY <1>2
<1> HIDE DEF L, R
<1>4. /\ l \in N /\ r \in N /\ z # Nil /\ z # l /\ z # r /\ z \notin s[r] /\ l # r
      /\ s[l] \cap s[r] = {} /\ s[r] \subseteq N /\ l \in s[l] /\ r \in s[r]
      /\ t.parent[l] = z /\ t.parent[r] = z /\ t.parent[z] # z
      /\ s[z] = {z} \cup s[l] \cup s[r]
  <2>1. /\ z \in s[z] /\ s[z] \subseteq N /\ z # Nil
        /\ L[z] \in N \cup {Nil} /\ R[z] \in N \cup {Nil}
        /\ s[z] = {z} \cup s[L[z]] \cup s[R[z]]
        /\ s[R[z]] \subseteq N
        /\ z \notin s[L[z]] /\ z \notin s[R[z]] /\ L[z] # z /\ R[z] # z
        /\ s[L[z]] \cap s[R[z]] = {}
        /\ L[z] # Nil => t.parent[L[z]] = z /\ L[z] \in s[L[z]]
        /\ R[z] # Nil => t.parent[R[z]] = z /\ R[z] \in s[R[z]]
    BY <1>1, Node
  <2>2. t.parent[z] # z
    BY <1>1, Node
  <2> QED
    BY <1>3, <2>1, <2>2
<1>5. y \in s[r] /\ t.child[y]["left"] = Nil /\ \A m \in s[r] : m = y \/ y < m
  BY DEF LeastBelow
<1>6. y \in N /\ y # z /\ y # l /\ y # Nil
  BY <1>4, <1>5, <1>1, Node
<1>7. x = R[y] /\ L[y] = Nil
  BY <1>2, <1>5, <1>6
<1>8. /\ x \in N \cup {Nil} /\ y # x /\ (x # Nil => t.parent[x] = y) /\ s[y] = {y} \cup s[L[y]] \cup s[x]
  BY <1>1, <1>6, <1>7, Node
<1>9. s[y] \subseteq s[r] /\ s[Nil] = {} /\ s[t.root] = N /\ t.root \in N \cup {Nil}
  BY <1>1, <1>4, <1>5 DEF SearchTree, Shape, Nested, Hung
<1>10. x # Nil => x \in s[r]
  <2>1. x # Nil => x \in s[x]
    BY <1>1, <1>8, Node
  <2> QED
    BY <2>1, <1>8, <1>9
<1>11. y # t.root /\ t.parent[z] # y
  <2>1. z \in s[z] /\ y \in s[z] /\ z \notin s[y]
    BY <1>1, <1>4, <1>5, <1>9, Node
  <2>2. y # t.root
    BY <2>1, <1>9
  <2>3. t.parent[z] # y
    <3> SUFFICES ASSUME t.parent[z] = y
                 PROVE  FALSE
      OBVIOUS
    <3>1. z # t.root
      BY <1>6, <1>1, Node
    <3>2. z \in {L[y], R[y]}
      BY <1>1, <3>1 DEF SearchTree, Shape, Linked
    <3>3. z = x
      BY <1>4, <1>7, <3>2
    <3> QED
      BY <1>4, <1>10, <3>3
  <2> QED
    BY <2>2, <2>3
<1>12. ASSUME NEW m \in N
       PROVE  /\ t.parent[m] = z <=> m \in {l, r}
              /\ t.parent[m] = y <=> m = x
  <2>1. m # t.root => m \in {L[t.parent[m]], R[t.parent[m]]}
    BY <1>1 DEF SearchTree, Shape, Linked
  <2>2. m = t.root => t.parent[m] = Nil
    BY <1>1 DEF SearchTree, Shape, Linked
  <2>3. m # Nil
    BY TreeAssumption
  <2> QED
    BY <1>3, <1>4, <1>6, <1>7, <1>8, <2>1, <2>2, <2>3
<1>13. r # x
  <2>1. y \in N /\ y # z
    BY <1>6
  <2> QED
    BY <1>4, <1>6, <1>8
<1>14. ASSUME NEW n \in N \ {y}
       PROVE  (n < z => n < y) /\ (z < n => y < n)
  <2>1. n \in Int /\ z \in Int /\ y \in Int
    BY <1>6, TreeAssumption
  <2>2. /\ \A m \in s[l] : << m, z >> \in Order("left")
        /\ \A m \in s[r] : << z, m >> \in Order("left")
    BY <1>1, <1>3 DEF SearchTree, Sorted
  <2>3. z < y
    BY <1>5, <2>2 DEF Order
  <2>4. ASSUME z < n
        PROVE  y < n
    <3>1. CASE n \in s[r]
      BY <1>5, <3>1
    <3>2. CASE n \notin s[r]
      <4>1. n \notin s[z]
        <5>1. n \in s[l] => n < z
          BY <2>2 DEF Order
        <5> QED
          BY <1>4, <2>1, <2>4, <3>2, <5>1
      <4>2. << z, n >> \in Order("left") /\ y \in s[z] /\ IsFiniteSet(N)
        BY <1>4, <1>5, <2>4, KeysFinite DEF Order
      <4>3. << y, n >> \in Order("left")
        BY <1>1, <4>1, <4>2, SameSide
      <4> QED
        BY <4>3 DEF Order
    <3> QED
      BY <3>1, <3>2
  <2> QED
    BY <2>1, <2>3, <2>4
<1> QED
  BY <1>4, <1>6, <1>8, <1>10, <1>11, <1>12, <1>13, <1>14 DEF Settled

(* What becomes of the links when y, of which x hangs on the right, takes  *)
(* the place of z with the two children l and r.                           *)
Displaced(t, z, y, x, l, r, u) ==
  /\ u \in Linking
  /\ u.root = IF t.parent[z] = Nil THEN y ELSE t.root
  /\ \A m \in Keys, e \in Dirs :
       u.child[m][e] = IF m = y THEN (IF e = "left" THEN l ELSE IF r = y THEN x ELSE r)
                       ELSE IF m = t.parent[z] /\ e = Side(t, z) THEN y
                       ELSE IF m = t.parent[y] /\ e = Side(t, y) /\ r # y THEN x ELSE t.child[m][e]
  /\ \A m \in Keys :
       u.parent[m] = IF m = l THEN y ELSE IF m = y THEN t.parent[z] ELSE IF m = r THEN y
                     ELSE IF m = x /\ r # y THEN t.parent[y] ELSE t.parent[m]
  /\ \A m \in Keys : u.color[m] = IF m = y THEN t.color[z] ELSE t.color[m]

LEMMA WithoutBoth ==
  ASSUME NEW t \in Linking, t = Tree, NEW N \in SUBSET Keys, NEW s, Whole(t, N, s), NEW z \in N,
         NEW l, l = t.child[z]["left"], NEW r, r = t.child[z]["right"], l # Nil, r # Nil,
         NEW y, y = LeastOnRight(z), LeastBelow(t, s, r, y), NEW x, x = t.child[y]["right"]
  PROVE  Displaced(t, z, y, x, l, r, Without(z))
<1>1. /\ l \in N /\ r \in N /\ y \in N /\ x \in N \cup {Nil} /\ z # Nil /\ y # Nil
      /\ z \notin {l, r, y, x} /\ l \notin {r, y, x} /\ y # x /\ r # x
      /\ t.parent[l] = z /\ t.parent[r] = z /\ y # t.root
      /\ x # Nil => t.parent[x] = y
      /\ t.parent[z] # y /\ t.parent[z] # z
      /\ \A m \in N : t.parent[m] = z <=> m \in {l, r}
      /\ \A m \in N : t.parent[m] = y <=> m = x
  <2>1. Settled(t, N, z, l, r, y, x)
    BY Around
  <2> QED
    BY <2>1 DEF Settled
<1>2. t.parent[y] = z <=> r = y
  BY <1>1
<1> DEFINE t1 == Transplant(t, y, x)
           t2 == [t1 EXCEPT !.child[y].right = r]
           off == IF t.parent[y] = z THEN SetParent(t, x, y) ELSE SetParent(t2, r, y)
           up == Transplant(off, z, y)
           up2 == [up EXCEPT !.child[y].left = l]
           p == Paint(up2, y, t.color[z])
           u == SetParent(p, l, y)
<1>3. Without(z) = u
  <2>1. /\ child = t.child /\ parent = t.parent /\ color = t.color
    BY DEF Tree
  <2>2. HasBoth(z)
    BY <2>1 DEF HasBoth
  <2> QED
    BY <2>1, <2>2 DEF Without
<1>4. Transplanted(t, y, x, t1)
  BY <1>1, TransplantIs
<1> HIDE DEF t1
<1>5. /\ t2 \in Linking /\ t2.root = t1.root /\ t2.parent = t1.parent /\ t2.color = t1.color
      /\ \A m \in Keys, e \in Dirs : t2.child[m][e] = IF m = y /\ e = "right" THEN r ELSE t1.child[m][e]
  <2>1. t2 = [t1 EXCEPT !.child[y].right = r] /\ t1 \in Linking /\ y \in Keys /\ r \in Keys
    BY <1>1, <1>4 DEF Transplanted
  <2> HIDE DEF t2
  <2> QED
    BY <2>1, Directions DEF Linking
<1> HIDE DEF t2
<1>6. ParentSet(t, x, y, SetParent(t, x, y)) /\ ParentSet(t2, r, y, SetParent(t2, r, y))
  BY <1>1, <1>5, SetParentIs
<1>7. IF r = y THEN ParentSet(t, x, y, off) ELSE ParentSet(t2, r, y, off)
  BY <1>2, <1>6
<1> HIDE DEF off
<1>8. /\ off \in Linking /\ off.root = t.root /\ off.color = t.color
      /\ \A m \in Keys, e \in Dirs :
           off.child[m][e] = IF m = y THEN (IF e = "left" \/ r = y THEN t.child[y][e] ELSE r)
                             ELSE IF m = t.parent[y] /\ e = Side(t, y) /\ r # y THEN x ELSE t.child[m][e]
      /\ \A m \in Keys :
           off.parent[m] = IF m = r /\ r # y THEN y
                           ELSE IF m = x THEN (IF r = y THEN y ELSE t.parent[y]) ELSE t.parent[m]
  <2>1. CASE r = y
    BY <1>7, <2>1 DEF ParentSet
  <2>2. CASE r # y
    <3>1. ParentSet(t2, r, y, off)
      BY <1>7, <2>2
    <3>2. y # t.parent[y]
      BY <1>1
    <3>3. t.parent[y] # Nil
      <4>1. NodeIn(t, N, s, y)
        BY <1>1, WholeNode
      <4>2. HasParent(t, N, y, t.parent[y])
        BY <1>1, <4>1 DEF NodeIn
      <4> QED
        BY <4>2 DEF HasParent
    <3> QED
      BY <1>4, <1>5, <2>2, <3>1, <3>2, <3>3, Directions DEF ParentSet, Transplanted
  <2> QED
    BY <2>1, <2>2
<1>9. Transplanted(off, z, y, up)
  BY <1>1, <1>8, TransplantIs
<1> HIDE DEF up
<1>10. off.parent[z] = t.parent[z]
  BY <1>1, <1>8
<1>11. t.parent[z] # Nil => Side(off, z) = Side(t, z)
  <2> SUFFICES ASSUME t.parent[z] # Nil
               PROVE  off.child[t.parent[z]]["left"] = z <=> t.child[t.parent[z]]["left"] = z
    BY <1>10 DEF Side
  <2>1. t.parent[z] \in N
    <3>1. NodeIn(t, N, s, z)
      BY WholeNode
    <3> QED
      BY <3>1 DEF NodeIn, HasParent
  <2>2. t.child[t.parent[z]]["left"] = y <=> t.parent[z] = t.parent[y] /\ "left" = Side(t, y)
    BY <1>1, <2>1, WhoseChild, Directions
  <2> QED
    BY <1>1, <1>8, <2>1, <2>2, Directions
<1>12. /\ up2 \in Linking /\ up2.root = up.root /\ up2.parent = up.parent /\ up2.color = up.color
       /\ \A m \in Keys, e \in Dirs : up2.child[m][e] = IF m = y /\ e = "left" THEN l ELSE up.child[m][e]
  <2>1. up2 = [up EXCEPT !.child[y].left = l] /\ up \in Linking /\ y \in Keys /\ l \in Keys
    BY <1>1, <1>9 DEF Transplanted
  <2> HIDE DEF up2
  <2> QED
    BY <2>1, Directions DEF Linking
<1> HIDE DEF up2
<1>13. Painted(up2, y, t.color[z], p)
  <2>1. t.color[z] \in Colors
    BY DEF Linking
  <2> QED
    BY <1>1, <1>12, <2>1, PaintIs
<1> HIDE DEF p
<1>14. ParentSet(p, l, y, u)
  <2>1. p \in Linking
    BY <1>13 DEF Painted
  <2> QED
    BY <1>1, <2>1, SetParentIs
<1> HIDE DEF u
<1>15. u \in Linking /\ u.root = IF t.parent[z] = Nil THEN y ELSE t.root
  BY <1>8, <1>9, <1>10, <1>12, <1>13, <1>14 DEF Transplanted, Painted, ParentSet
<1>16. \A m \in Keys, e \in Dirs :
         u.child[m][e] = IF m = y THEN (IF e = "left" THEN l ELSE IF r = y THEN x ELSE r)
                         ELSE IF m = t.parent[z] /\ e = Side(t, z) THEN y
                         ELSE IF m = t.parent[y] /\ e = Side(t, y) /\ r # y THEN x ELSE t.child[m][e]
  <2>1. \A m \in Keys, e \in Dirs :
          up.child[m][e] = IF m = t.parent[z] /\ e = Side(off, z) THEN y ELSE off.child[m][e]
    BY <1>9, <1>10 DEF Transplanted
  <2>2. \A m \in Keys, e \in Dirs : u.child[m][e] = IF m = y /\ e = "left" THEN l ELSE up.child[m][e]
    BY <1>12, <1>13, <1>14 DEF Painted, ParentSet
  <2>3. \A m \in Keys : m = t.parent[z] => t.parent[z] # Nil
    BY TreeAssumption
  <2> QED
    BY <1>1, <1>8, <1>11, <2>1, <2>2, <2>3, Directions
<1>17. \A m \in Keys :
         u.parent[m] = IF m = l THEN y ELSE IF m = y THEN t.parent[z] ELSE IF m = r THEN y
                       ELSE IF m = x /\ r # y THEN t.parent[y] ELSE t.parent[m]
  <2>1. \A m \in Keys : up.parent[m] = IF m = y THEN t.parent[z] ELSE off.parent[m]
    BY <1>9, <1>10 DEF Transplanted
  <2>2. \A m \in Keys : u.parent[m] = IF m = l THEN y ELSE up.parent[m]
    BY <1>12, <1>13, <1>14 DEF Painted, ParentSet
  <2>3. \A m \in Keys : m = x => t.parent[m] = y
    BY <1>1, TreeAssumption
  <2> QED
    BY <1>1, <1>8, <2>1, <2>2, <2>3
<1>18. \A m \in Keys : u.color[m] = IF m = y THEN t.color[z] ELSE t.color[m]
  BY <1>8, <1>9, <1>12, <1>13, <1>14 DEF Transplanted, Painted, ParentSet
<1> QED
  BY <1>3, <1>15, <1>16, <1>17, <1>18 DEF Displaced

LEMMA DisplacedStandsFor ==
  ASSUME NEW t \in Linking, NEW N \in SUBSET Keys, NEW s, Whole(t, N, s), NEW z \in N,
         NEW l, l = t.child[z]["left"], NEW r, r = t.child[z]["right"], l # Nil, r # Nil,
         NEW y, LeastBelow(t, s, r, y), NEW x, x = t.child[y]["right"],
         NEW t1, Transplanted(t, y, x, t1), NEW u, Displaced(t, z, y, x, l, r, u)
  PROVE  StandsFor(t1, N \ {y}, z, y, u)
<1>1. /\ l \in N /\ r \in N /\ y \in N /\ x \in N \cup {Nil} /\ z # Nil /\ y # Nil
      /\ z \notin {l, r, y, x} /\ l \notin {r, y, x} /\ y # x /\ r # x
      /\ t.parent[l] = z /\ t.parent[r] = z /\ y # t.root
      /\ x # Nil => t.parent[x] = y
      /\ t.parent[z] # y /\ t.parent[z] # z
      /\ \A m \in N : t.parent[m] = z <=> m \in {l, r}
      /\ \A m \in N : t.parent[m] = y <=> m = x
  <2>1. Settled(t, N, z, l, r, y, x)
    BY Around
  <2> QED
    BY <2>1 DEF Settled
<1>2. t.parent[y] = z <=> r = y
  BY <1>1
<1>3. t.parent[y] # Nil /\ t1.root = t.root
  <2>1. NodeIn(t, N, s, y)
    BY <1>1, WholeNode
  <2>2. HasParent(t, N, y, t.parent[y])
    BY <1>1, <2>1 DEF NodeIn
  <2> QED
    BY <2>2 DEF HasParent, Transplanted
<1>4. t.parent[z] = Nil <=> z = t.root
  <2>1. NodeIn(t, N, s, z)
    BY WholeNode
  <2> QED
    BY <2>1 DEF NodeIn, HasParent
<1>5. u.root = As(z, y, t1.root)
  BY <1>3, <1>4 DEF Displaced, As
<1>6. \A m \in N, e \in Dirs :
        /\ t.child[m][e] = y <=> m = t.parent[y] /\ e = Side(t, y)
        /\ t.child[m][e] = z <=> m = t.parent[z] /\ e = Side(t, z)
  <2>1. y \in N
    BY <1>1
  <2> SUFFICES ASSUME NEW m \in N, NEW e \in Dirs
               PROVE  /\ t.child[m][e] = y <=> m = t.parent[y] /\ e = Side(t, y)
                      /\ t.child[m][e] = z <=> m = t.parent[z] /\ e = Side(t, z)
    OBVIOUS
  <2>2. t.child[m][e] = y <=> m = t.parent[y] /\ e = Side(t, y)
    BY <2>1, WhoseChild
  <2>3. t.child[m][e] = z <=> m = t.parent[z] /\ e = Side(t, z)
    BY WhoseChild
  <2> QED
    BY <2>2, <2>3
<1>7. ASSUME NEW n \in N \ {y}, NEW e \in Dirs
      PROVE  u.child[As(z, y, n)][e] = As(z, y, t1.child[n][e])
  <2>1. t1.child[n][e] = IF t.child[n][e] = y THEN x ELSE t.child[n][e]
    BY <1>6 DEF Transplanted
  <2>2. CASE n = z
    <3>1. u.child[y][e] = IF e = "left" THEN l ELSE IF r = y THEN x ELSE r
      BY <1>1 DEF Displaced
    <3>2. t.child[n][e] = IF e = "left" THEN l ELSE r
      BY <2>2, Directions
    <3> QED
      BY <1>1, <2>1, <2>2, <3>1, <3>2 DEF As
  <2>3. CASE n # z
    <3>1. u.child[n][e] = IF n = t.parent[z] /\ e = Side(t, z) THEN y
                          ELSE IF n = t.parent[y] /\ e = Side(t, y) /\ r # y THEN x ELSE t.child[n][e]
      BY <1>1 DEF Displaced
    <3>2. t.child[n][e] = z => t.child[n][e] # y
      BY <1>1
    <3> QED
      BY <1>1, <1>2, <1>6, <2>1, <2>3, <3>1, <3>2 DEF As
  <2> QED
    BY <2>2, <2>3
<1>8. ASSUME NEW n \in N \ {y}
      PROVE  u.parent[As(z, y, n)] = As(z, y, t1.parent[n])
  <2>1. t1.parent[n] = IF n = x THEN t.parent[y] ELSE t.parent[n]
    BY DEF Transplanted
  <2>2. As(z, y, n) \in Keys
    BY <1>1 DEF As
  <2>3. u.parent[As(z, y, n)] = IF n = l THEN y ELSE IF n = z THEN t.parent[z] ELSE IF n = r THEN y
                                ELSE IF n = x /\ r # y THEN t.parent[y] ELSE t.parent[n]
    BY <1>1, <2>2 DEF Displaced, As
  <2> QED
    BY <1>1, <1>2, <2>1, <2>3 DEF As
<1> QED
  BY <1>5, <1>7, <1>8 DEF StandsFor

LEMMA DisplacedWhole ==
  ASSUME NEW t \in Linking, NEW N \in SUBSET Keys, NEW s, Whole(t, N, s), NEW z \in N,
         NEW l, l = t.child[z]["left"], NEW r, r = t.child[z]["right"], l # Nil, r # Nil,
         NEW y, LeastBelow(t, s, r, y), NEW x, x = t.child[y]["right"],
         NEW u, Displaced(t, z, y, x, l, r, u)
  PROVE  \E q : Whole(u, N \ {z}, q)
<1> DEFINE t1 == Transplant(t, y, x)
<1>1. /\ y \in N /\ x \in N \cup {Nil} /\ z # y
      /\ \A n \in N \ {y} : (n < z => n < y) /\ (z < n => y < n)
  <2>1. Settled(t, N, z, l, r, y, x)
    BY Around
  <2> QED
    BY <2>1 DEF Settled
<1>2. Transplanted(t, y, x, t1)
  BY <1>1, TransplantIs
<1> HIDE DEF t1
<1>3. StandsFor(t1, N \ {y}, z, y, u)
  BY <1>2, DisplacedStandsFor
<1>4. MakesRoom(t, N, y, x, t1) /\ t1 \in Linking
  BY <1>1, <1>2, TransplantMakesRoom DEF Transplanted
<1>5. PICK q : Whole(t1, N \ {y}, q)
  <2>1. t.child[y]["left"] = Nil /\ x = t.child[y][Opp("left")] /\ "left" \in Dirs
    BY Directions DEF LeastBelow
  <2> QED
    BY <1>1, <1>4, <2>1, RoomWhole
<1>6. \E w : Whole(u, ((N \ {y}) \ {z}) \cup {y}, w)
  <2>1. z \in N \ {y} /\ y \in Keys \ (N \ {y}) /\ (N \ {y}) \in SUBSET Keys
    BY <1>1
  <2> QED
    BY <1>1, <1>3, <1>4, <1>5, <2>1, StandInWhole
<1>7. ((N \ {y}) \ {z}) \cup {y} = N \ {z}
  BY <1>1
<1> QED
  BY <1>6, <1>7

-----------------------------------------------------------------------------
(* The structure: search trees of the nodes N and no links elsewhere.      *)
Good(t, N) == t \in Linking /\ (\E s : Whole(t, N, s)) /\ Loose(t, N)

(* t has the colours of u or others. *)
SameLinks(t, u) == u \in Linking /\ u.root = t.root /\ u.child = t.child /\ u.parent = t.parent

LEMMA RecoloredGood ==
  ASSUME NEW t, NEW N \in SUBSET Keys, Good(t, N), NEW u, SameLinks(t, u)
  PROVE  Good(u, N)
<1>1. PICK s : Whole(t, N, s)
  BY DEF Good
<1>2. Alike(t, N, u)
  BY DEF SameLinks, Alike
<1>3. Whole(u, N, s)
  BY <1>1, <1>2, AlikeWhole
<1> QED
  BY <1>3 DEF Good, SameLinks, Loose

LEMMA PaintGood ==
  ASSUME NEW t, NEW N \in SUBSET Keys, Good(t, N), NEW n \in Keys \cup {Nil}, NEW c \in Colors
  PROVE  Good(Paint(t, n, c), N) /\ Painted(t, n, c, Paint(t, n, c))
<1>1. Painted(t, n, c, Paint(t, n, c))
  BY PaintIs DEF Good
<1>2. SameLinks(t, Paint(t, n, c))
  BY <1>1 DEF Painted, SameLinks
<1> QED
  BY <1>1, <1>2, RecoloredGood

(* Where a node of a good tree is. *)
Sits(t, N, n) ==
  /\ n \in Keys /\ n # Nil
  /\ \A d \in Dirs : ChildOf(t, N, n, t.child[n][d], t.child[n][Opp(d)])
  /\ n = t.root => t.parent[n] = Nil
  /\ n # t.root => HasParent(t, N, n, t.parent[n]) /\ t.parent[t.parent[n]] # n

LEMMA GoodNode ==
  ASSUME NEW t, NEW N \in SUBSET Keys, Good(t, N)
  PROVE  /\ \A n \in N : Sits(t, N, n)
         /\ Nil \notin N /\ t.root \in N \cup {Nil} /\ (t.root = Nil => N = {})
<1>1. PICK s : Whole(t, N, s)
  BY DEF Good
<1>2. \A n \in N : NodeIn(t, N, s, n)
  BY <1>1, WholeNode
<1>3. \A n \in N : n # t.root => t.parent[t.parent[n]] # n
  BY <1>1, NoRing
<1> QED
  BY <1>1, <1>2, <1>3, WholeRoot DEF NodeIn, Sits

LEMMA RotateGood ==
  ASSUME NEW t, NEW N \in SUBSET Keys, Good(t, N), NEW x \in N, NEW d \in Dirs,
         NEW y, y = t.child[x][Opp(d)], y # Nil
  PROVE  /\ Good(Rotate(t, x, d), N)
         /\ Rotated(t, x, d, y, t.child[y][d], Rotate(t, x, d))
<1>1. PICK s : Whole(t, N, s)
  BY DEF Good
<1>2. y # x
  <2>1. Sits(t, N, x) /\ Opp(d) \in Dirs
    BY GoodNode, Directions
  <2> QED
    BY <2>1 DEF Sits, ChildOf
<1> DEFINE u == Rotate(t, x, d)
<1>3. t \in Linking /\ Loose(t, N)
  BY DEF Good
<1>4. Rotated(t, x, d, t.child[x][Opp(d)], t.child[t.child[x][Opp(d)]][d], Rotate(t, x, d))
  BY <1>2, <1>3, RotateIs
<1>5. Rotated(t, x, d, y, t.child[y][d], u)
  BY <1>4
<1> HIDE DEF u
<1>6. \E q : Whole(u, N, q)
  BY <1>1, <1>3, <1>5, RotateWhole
<1>7. Loose(u, N)
  BY <1>1, <1>3, <1>5, RotateLoose
<1>8. u \in Linking
  BY <1>5 DEF Rotated
<1> QED
  BY <1>5, <1>6, <1>7, <1>8 DEF Good, u

-----------------------------------------------------------------------------
(* The colours: blacks enough on every path, and no red child of a red     *)
(* node but c.                                                             *)
Black(t, n) == IF t.color[n] = "black" THEN 1 ELSE 0
Heights(t, N, h) ==
  /\ h \in [N \cup {Nil} -> Nat] /\ h[Nil] = 0
  /\ \A n \in N, d \in Dirs : h[n] = h[t.child[n][d]] + Black(t, n)
NoReds(t, N, c) ==
  \A n \in N, d \in Dirs :
    t.color[n] = "red" /\ IsRed(t, t.child[n][d]) => t.child[n][d] = c
Balanced(t, N, c) == (\E h : Heights(t, N, h)) /\ NoReds(t, N, c)

(* y, which is red, rises over x and they exchange their colours. *)
Exchanged(t, x, y, u) ==
  /\ u.child = t.child /\ u.parent = t.parent /\ u.root = t.root /\ u \in Linking
  /\ \A n \in Keys : u.color[n] = IF n = y THEN t.color[x] ELSE IF n = x THEN t.color[y] ELSE t.color[n]

LEMMA RotateHeights ==
  ASSUME NEW t, NEW N \in SUBSET Keys, Good(t, N), NEW h, Heights(t, N, h),
         NEW x \in N, NEW d \in Dirs, NEW y, y = t.child[x][Opp(d)], y # Nil, t.color[y] = "red",
         NEW w, Exchanged(t, x, y, w), NEW u, Rotated(w, x, d, y, w.child[y][d], u)
  PROVE  \E g : Heights(u, N, g)
<1> DEFINE o == Opp(d)
           b == t.child[y][d]
           p == t.parent[x]
           g == [n \in N \cup {Nil} |-> IF n = y THEN h[x] ELSE IF n = x THEN h[y] ELSE h[n]]
<1>1. o \in Dirs /\ o # d /\ Dirs = {d, o} /\ Opp(o) = d
  BY Directions
<1>2. Sits(t, N, x) /\ Nil \notin N /\ x # Nil
  BY GoodNode
<1>3. y \in N /\ y # x /\ t.parent[y] = x /\ y # t.root /\ y # t.child[x][d]
  <2>1. ChildOf(t, N, x, y, t.child[x][d])
    BY <1>1, <1>2 DEF Sits
  <2> QED
    BY <2>1 DEF ChildOf
<1>4. Sits(t, N, y)
  BY <1>3, GoodNode
<1>5. b \in N \cup {Nil} /\ b # y /\ b # x /\ p # y
  <2>1. ChildOf(t, N, y, b, t.child[y][o])
    BY <1>4 DEF Sits
  <2>2. p # y
    BY <1>3, <1>4 DEF Sits
  <2> QED
    BY <2>1, <2>2, <1>2, <1>3 DEF ChildOf, Sits
<1>6. p # Nil => p \in N /\ p # x /\ \A e \in Dirs : Side(t, x) = e <=> t.child[p][e] = x
  BY <1>2 DEF Sits, HasParent
<1>7. Side(w, x) = Side(t, x) /\ w.child = t.child /\ w.parent = t.parent
  BY DEF Exchanged, Side
<1> HIDE DEF o, b, p
<1>8. \A n \in N, e \in Dirs :
        u.child[n][e] = IF n = x /\ e = o THEN b ELSE IF n = y /\ e = d THEN x
                        ELSE IF n = p /\ t.child[n][e] = x THEN y ELSE t.child[n][e]
  <2>1. \A n \in N, e \in Dirs :
        u.child[n][e] = IF n = x /\ e = o THEN b ELSE IF n = y /\ e = d THEN x
                        ELSE IF n = p /\ e = Side(t, x) THEN y ELSE t.child[n][e]
    BY <1>7 DEF Rotated, o, b, p
  <2>2. \A n \in N : n = p => p # Nil
    BY <1>2
  <2> QED
    BY <1>6, <2>1, <2>2
<1>9. \A n \in N : Black(u, n) = IF n = y THEN Black(t, x) ELSE IF n = x THEN 0 ELSE Black(t, n)
  BY <1>3 DEF Rotated, Exchanged, Black
<1>10. \A n \in N \cup {Nil} : h[n] \in Nat
  BY DEF Heights
<1>11. h[Nil] = 0 /\ \A n \in N, e \in Dirs : h[n] = h[t.child[n][e]] + Black(t, n)
  BY DEF Heights
<1>12. \A n \in N : Black(t, n) \in {0, 1}
  BY DEF Black
<1>13. Black(t, y) = 0
  BY DEF Black
<1>14. \A n \in N, e \in Dirs : t.child[n][e] \in N \cup {Nil} /\ (t.child[n][e] # Nil => t.parent[t.child[n][e]] = n)
  BY GoodNode DEF Sits, ChildOf
<1>15. g \in [N \cup {Nil} -> Nat] /\ g[Nil] = 0
  BY <1>2, <1>3, <1>10, <1>11
<1>16. \A n \in N \cup {Nil} : g[n] = IF n = y THEN h[x] ELSE IF n = x THEN h[y] ELSE h[n]
  OBVIOUS
<1> HIDE DEF g
<1>17. ASSUME NEW n \in N, NEW e \in Dirs
       PROVE  g[n] = g[u.child[n][e]] + Black(u, n)
  <2>1. CASE n = x /\ e = o
    <3>1. h[y] = h[b] + 0
      BY <1>3, <1>11, <1>13 DEF b
    <3>2. g[x] = h[y] /\ g[b] = h[b] /\ u.child[x][o] = b /\ Black(u, x) = 0
      BY <1>1, <1>3, <1>5, <1>8, <1>9, <1>16
    <3> QED
      BY <2>1, <3>1, <3>2
  <2>2. CASE n = x /\ e = d
    <3>1. h[x] = h[y] + Black(t, x) /\ h[x] = h[t.child[x][d]] + Black(t, x)
      BY <1>1, <1>11 DEF o
    <3>2. h[y] = h[t.child[x][d]]
      BY <3>1, <1>3, <1>10, <1>12, <1>14
    <3>3. t.child[x][d] \notin {x, y} /\ t.child[x][d] \in N \cup {Nil}
      BY <1>2, <1>3, <1>14 DEF Sits, ChildOf
    <3>4. u.child[x][d] = t.child[x][d]
      BY <1>1, <1>3, <1>8, <3>3
    <3>5. g[x] = h[y] /\ g[t.child[x][d]] = h[y] /\ Black(u, x) = 0
      BY <1>3, <1>9, <1>16, <3>2, <3>3
    <3> QED
      BY <2>2, <3>4, <3>5, <1>3, <1>10
  <2>3. CASE n = y /\ e = d
    <3>1. u.child[y][d] = x /\ g[y] = h[x] /\ g[x] = h[y] /\ Black(u, y) = Black(t, x)
      BY <1>1, <1>3, <1>8, <1>9, <1>16
    <3>2. h[x] = h[y] + Black(t, x)
      BY <1>1, <1>11 DEF o
    <3> QED
      BY <2>3, <3>1, <3>2
  <2>4. CASE n = y /\ e = o
    <3>1. t.child[y][o] \notin {x, y} /\ t.child[y][o] \in N \cup {Nil}
      <4>1. ChildOf(t, N, y, t.child[y][o], t.child[y][d])
        BY <1>1, <1>4 DEF Sits
      <4> QED
        BY <4>1, <1>2, <1>3, <1>5 DEF ChildOf, Sits, p
    <3>2. u.child[y][o] = t.child[y][o] /\ g[y] = h[x] /\ Black(u, y) = Black(t, x)
      BY <1>1, <1>3, <1>8, <1>9, <1>16, <3>1
    <3>3. h[x] = h[y] + Black(t, x) /\ h[y] = h[t.child[y][o]] + 0
      BY <1>1, <1>3, <1>11, <1>13 DEF o
    <3>4. g[t.child[y][o]] = h[t.child[y][o]] /\ h[t.child[y][o]] \in Nat
      BY <1>10, <1>16, <3>1
    <3>5. h[y] = h[t.child[y][o]]
      <4> DEFINE below == h[t.child[y][o]]
      <4>1. h[y] = below + 0 /\ below \in Nat
        BY <3>3, <3>4
      <4> HIDE DEF below
      <4>2. h[y] = below
        BY <4>1
      <4> QED
        BY <4>2 DEF below
    <3>6. g[y] = g[u.child[y][o]] + Black(u, y)
      BY <3>2, <3>3, <3>4, <3>5
    <3> QED
      BY <2>4, <3>6
  <2>5. CASE n \notin {x, y}
    <3>1. g[n] = h[n] /\ Black(u, n) = Black(t, n)
      BY <1>9, <1>16, <2>5
    <3>2. u.child[n][e] = IF n = p /\ t.child[n][e] = x THEN y ELSE t.child[n][e]
      BY <1>8, <2>5
    <3>3. t.child[n][e] # y
      BY <1>2, <1>3, <1>14, <2>5
    <3>4. t.child[n][e] = x => n = p
      BY <1>2, <1>14 DEF p
    <3>5. g[u.child[n][e]] = h[t.child[n][e]]
      BY <1>3, <1>14, <1>16, <3>2, <3>3, <3>4
    <3> QED
      BY <1>11, <3>1, <3>5
  <2> QED
    BY <1>1, <2>1, <2>2, <2>3, <2>4, <2>5
<1> QED
  BY <1>15, <1>17 DEF Heights

(* A node leaves its place.  The child that follows it when it was black   *)
(* is red, and is painted black.                                           *)
LEMMA RoomBalanced ==
  ASSUME NEW t, NEW N \in SUBSET Keys, Good(t, N), Balanced(t, N, Nil),
         NEW y \in N, NEW d \in Dirs, t.child[y][d] = Nil, NEW c, c = t.child[y][Opp(d)],
         t.color[y] = "black" => c # Nil,
         NEW u, MakesRoom(t, N, y, c, u),
         \A n \in N \ {y} : u.color[n] = IF n = c /\ t.color[y] = "black" THEN "black" ELSE t.color[n]
  PROVE  /\ Balanced(u, N \ {y}, Nil)
         /\ t.color[y] = "black" => t.color[c] = "red"
<1> DEFINE M == N \ {y}
<1>1. PICK h : Heights(t, N, h)
  BY DEF Balanced
<1>2. Sits(t, N, y) /\ Nil \notin N /\ y # Nil /\ Opp(d) \in Dirs /\ t \in Linking
  BY GoodNode, Directions DEF Good
<1>3. c \in N \cup {Nil} /\ c # y /\ (c # Nil => t.parent[c] = y)
  <2>1. ChildOf(t, N, y, c, t.child[y][Opp(Opp(d))])
    BY <1>2 DEF Sits
  <2> QED
    BY <2>1 DEF ChildOf
<1>4. \A n \in N, e \in Dirs : t.child[n][e] \in N \cup {Nil} /\ (t.child[n][e] # Nil => t.parent[t.child[n][e]] = n)
  BY GoodNode DEF Sits, ChildOf
<1>5. h[Nil] = 0 /\ \A n \in N, e \in Dirs : h[n] = h[t.child[n][e]] + Black(t, n)
  BY <1>1 DEF Heights
<1>6. \A n \in N \cup {Nil} : h[n] \in Nat
  BY <1>1 DEF Heights
<1>7. \A n \in N : Black(t, n) = (IF t.color[n] = "black" THEN 1 ELSE 0) /\ t.color[n] \in Colors
  BY <1>2 DEF Black, Linking
<1>8. h[y] = Black(t, y) /\ h[c] = 0
  <2>1. h[y] = h[Nil] + Black(t, y) /\ h[y] = h[c] + Black(t, y) /\ Black(t, y) \in {0, 1}
    BY <1>2, <1>5, <1>7
  <2> QED
    BY <2>1, <1>3, <1>5, <1>6
<1>9. c # Nil => t.color[c] = "red"
  <2> SUFFICES ASSUME c # Nil, t.color[c] # "red"
               PROVE  FALSE
    OBVIOUS
  <2>1. Black(t, c) = 1 /\ h[c] = h[t.child[c][d]] + Black(t, c) /\ h[t.child[c][d]] \in Nat
    BY <1>3, <1>4, <1>5, <1>6, <1>7 DEF Colors
  <2> QED
    BY <2>1, <1>8
<1>10. t.color[y] = "red" => c = Nil
  BY <1>2, <1>9 DEF Balanced, NoReds, IsRed
<1>11. \A n \in M, e \in Dirs : u.child[n][e] = IF t.child[n][e] = y THEN c ELSE t.child[n][e]
  BY DEF MakesRoom
<1>12. \A n \in M, e \in Dirs : t.child[n][e] = c => c = Nil
  BY <1>3, <1>4
<1>13. c # Nil => \A e \in Dirs : t.child[c][e] # y
  <2>1. c # Nil => c # t.root
    BY <1>2, <1>3, GoodNode DEF Sits
  <2>2. c # Nil => t.parent[y] # c
    BY <1>3, <2>1, GoodNode DEF Sits
  <2> QED
    BY <1>2, <1>3, <1>4, <2>2
<1> DEFINE g == [n \in M \cup {Nil} |-> IF n = c /\ c # Nil THEN h[y] ELSE h[n]]
<1>14. \A n \in M \cup {Nil} : g[n] = IF n = c /\ c # Nil THEN h[y] ELSE h[n]
  OBVIOUS
<1>15. g \in [M \cup {Nil} -> Nat]
  BY <1>6
<1>16. g[Nil] = 0
  BY <1>5
<1>17. \A n \in M : Black(u, n) = IF n = c THEN 1 ELSE Black(t, n)
  <2>1. \A n \in M : n = c => t.color[y] = "black"
    BY <1>2, <1>7, <1>10 DEF Colors
  <2> QED
    BY <1>2, <2>1 DEF Black
<1> HIDE DEF g
<1>18. ASSUME NEW n \in M, NEW e \in Dirs
       PROVE  g[n] = g[u.child[n][e]] + Black(u, n)
  <2>1. CASE n = c
    <3>1. c # Nil /\ t.color[y] = "black" /\ h[y] = 1
      BY <1>2, <1>7, <1>8, <1>10, <2>1 DEF Colors
    <3>2. t.child[c][e] \in N \cup {Nil} /\ t.child[c][e] # y /\ t.child[c][e] # c
      BY <1>4, <1>12, <1>13, <2>1, <3>1
    <3>3. u.child[c][e] = t.child[c][e]
      BY <1>11, <2>1, <3>2
    <3>4. h[c] = h[t.child[c][e]] + 0
      BY <1>3, <1>5, <1>7, <1>9, <3>1
    <3>5. g[t.child[c][e]] = 0
      BY <1>6, <1>8, <1>14, <3>2, <3>4
    <3> QED
      BY <1>14, <1>17, <2>1, <3>1, <3>3, <3>5
  <2>2. CASE n # c /\ t.child[n][e] = y
    <3>1. u.child[n][e] = c /\ g[n] = h[n] /\ h[n] = h[y] + Black(t, n)
      BY <1>5, <1>11, <1>14, <2>2
    <3>2. g[c] = h[y]
      BY <1>3, <1>5, <1>7, <1>8, <1>14 DEF Colors
    <3> QED
      BY <1>17, <2>2, <3>1, <3>2
  <2>3. CASE n # c /\ t.child[n][e] # y
    <3>1. u.child[n][e] = t.child[n][e] /\ g[n] = h[n]
      BY <1>11, <1>14, <2>3
    <3>2. g[t.child[n][e]] = h[t.child[n][e]]
      BY <1>4, <1>12, <1>14, <2>3
    <3> QED
      BY <1>5, <1>17, <2>3, <3>1, <3>2
  <2> QED
    BY <2>1, <2>2, <2>3
<1>19. Heights(u, M, g)
  BY <1>15, <1>16, <1>18 DEF Heights
<1>20. NoReds(u, M, Nil)
  <2> SUFFICES ASSUME NEW n \in M, NEW e \in Dirs, u.color[n] = "red", IsRed(u, u.child[n][e])
               PROVE  FALSE
    BY DEF NoReds
  <2>1. t.color[n] = "red"
    BY <1>2, <1>7 DEF Colors
  <2>2. CASE t.child[n][e] = y
    <3>1. u.child[n][e] = c /\ c # Nil
      BY <1>11, <2>2 DEF IsRed
    <3>2. t.color[y] = "black"
      BY <1>7, <1>10, <3>1 DEF Colors
    <3>3. u.color[c] = "black"
      BY <1>3, <3>1, <3>2
    <3> QED
      BY <3>1, <3>3 DEF IsRed
  <2>3. CASE t.child[n][e] # y
    <3>1. u.child[n][e] = t.child[n][e] /\ t.child[n][e] \in M
      BY <1>4, <1>11, <2>3 DEF IsRed
    <3>2. t.color[t.child[n][e]] = "red"
      BY <1>12, <3>1 DEF IsRed
    <3> QED
      BY <1>2, <2>1, <3>1, <3>2 DEF Balanced, NoReds, IsRed
  <2> QED
    BY <2>2, <2>3
<1>21. t.color[y] = "black" => t.color[c] = "red"
  BY <1>9
<1> QED
  BY <1>19, <1>20, <1>21 DEF Balanced

LEMMA StandInBalanced ==
  ASSUME NEW t, NEW N \in SUBSET Keys, Nil \notin N, Balanced(t, N, Nil),
         \A n \in N, e \in Dirs : t.child[n][e] \in N \cup {Nil},
         NEW z \in N, NEW y, y \notin N, y # Nil, NEW u, StandsFor(t, N, z, y, u),
         \A n \in N : u.color[As(z, y, n)] = t.color[n]
  PROVE  Balanced(u, (N \ {z}) \cup {y}, Nil)
<1> DEFINE M == (N \ {z}) \cup {y}
<1>1. PICK h : Heights(t, N, h)
  BY DEF Balanced
<1>2. \A m \in M : As(y, z, m) \in N /\ m = As(z, y, As(y, z, m))
  BY DEF As
<1>3. \A n \in N \cup {Nil} : As(z, y, n) \in M \cup {Nil} /\ As(y, z, As(z, y, n)) = n
                              /\ (As(z, y, n) = Nil <=> n = Nil)
  BY DEF As
<1>4. \A n \in N : /\ \A e \in Dirs : u.child[As(z, y, n)][e] = As(z, y, t.child[n][e])
                   /\ u.color[As(z, y, n)] = t.color[n]
  BY DEF StandsFor
<1> DEFINE a(n) == As(z, y, n)
           b(m) == As(y, z, m)
           g == [m \in M \cup {Nil} |-> h[b(m)]]
<1> HIDE DEF M
<1>5. \A n \in N \cup {Nil} : g[a(n)] = h[n]
  BY <1>3
<1>6. b(Nil) = Nil
  BY DEF As
<1>7. g \in [M \cup {Nil} -> Nat] /\ g[Nil] = 0
  BY <1>1, <1>2, <1>6 DEF Heights
<1> HIDE DEF a, b, g
<1>8. ASSUME NEW m \in M, NEW e \in Dirs
      PROVE  g[m] = g[u.child[m][e]] + Black(u, m)
  <2> DEFINE n == b(m)
  <2>1. n \in N /\ m = a(n)
    BY <1>2 DEF a, b
  <2> HIDE DEF n
  <2>2. u.child[m][e] = a(t.child[n][e]) /\ u.color[m] = t.color[n] /\ t.child[n][e] \in N \cup {Nil}
    BY <1>4, <2>1 DEF a
  <2>3. g[m] = h[n] /\ g[u.child[m][e]] = h[t.child[n][e]]
    BY <1>5, <2>1, <2>2
  <2>4. h[n] = h[t.child[n][e]] + Black(t, n) /\ Black(u, m) = Black(t, n)
    BY <1>1, <2>1, <2>2 DEF Heights, Black
  <2> QED
    BY <2>3, <2>4
<1>9. NoReds(u, M, Nil)
  <2> SUFFICES ASSUME NEW m \in M, NEW e \in Dirs, u.color[m] = "red", IsRed(u, u.child[m][e])
               PROVE  FALSE
    BY DEF NoReds
  <2> DEFINE n == b(m)
  <2>1. n \in N /\ m = a(n)
    BY <1>2 DEF a, b
  <2> HIDE DEF n
  <2>2. u.child[m][e] = a(t.child[n][e]) /\ t.color[n] = "red" /\ t.child[n][e] \in N \cup {Nil}
    BY <1>4, <2>1 DEF a
  <2>3. t.child[n][e] \in N
    BY <1>3, <2>2 DEF IsRed, a
  <2>4. t.color[t.child[n][e]] = "red" /\ t.child[n][e] # Nil
    BY <1>4, <2>2, <2>3 DEF IsRed, a
  <2> QED
    BY <2>1, <2>2, <2>4 DEF Balanced, NoReds, IsRed
<1>10. Heights(u, M, g)
  BY <1>7, <1>8 DEF Heights
<1> QED
  BY <1>9, <1>10 DEF Balanced, M

-----------------------------------------------------------------------------
(* What Without does, k having one child at most or two: y leaves its      *)
(* place and x follows it there.                                           *)
OneLeaves(t, k, x, u) ==
  \E d \in Dirs : t.child[k][d] = Nil /\ x = t.child[k][Opp(d)] /\ Transplanted(t, k, x, u)
AnotherLeaves(t, s, k, y, x, u) ==
  /\ t.child[k]["left"] # Nil /\ t.child[k]["right"] # Nil
  /\ LeastBelow(t, s, t.child[k]["right"], y) /\ x = t.child[y]["right"]
  /\ Displaced(t, k, y, x, t.child[k]["left"], t.child[k]["right"], u)

LEMMA WithoutIs ==
  ASSUME NEW t, t = Tree, NEW N \in SUBSET Keys, Good(t, N), NEW s, Whole(t, N, s), NEW k \in N
  PROVE  \/ Leaves(k) = k /\ OneLeaves(t, k, Follows(k), Without(k))
         \/ AnotherLeaves(t, s, k, Leaves(k), Follows(k), Without(k))
<1> DEFINE l == t.child[k]["left"]
           r == t.child[k]["right"]
<1>1. child = t.child /\ t \in Linking /\ Sits(t, N, k)
  BY GoodNode DEF Tree, Good
<1>2. CASE ~ HasBoth(k)
  <2>1. l = Nil \/ r = Nil
    BY <1>1, <1>2 DEF HasBoth
  <2>2. Leaves(k) = k /\ Without(k) = Transplant(t, k, Follows(k))
    BY <1>2 DEF Leaves, Without
  <2>3. Follows(k) = IF l = Nil THEN r ELSE l
    BY <1>1, <2>2 DEF Follows
  <2>4. l \in Keys \cup {Nil} /\ r \in Keys \cup {Nil}
    BY <1>1, Directions DEF Linking
  <2>5. Transplanted(t, k, Follows(k), Without(k))
    BY <1>1, <2>2, <2>3, <2>4, TransplantIs
  <2>6. \E d \in Dirs : t.child[k][d] = Nil /\ Follows(k) = t.child[k][Opp(d)]
    BY <2>1, <2>3, Directions
  <2> QED
    BY <2>2, <2>5, <2>6 DEF OneLeaves
<1>3. CASE HasBoth(k)
  <2> DEFINE y == LeastOnRight(k)
  <2>1. l # Nil /\ r # Nil
    BY <1>1, <1>3 DEF HasBoth
  <2>2. r \in N
    BY <1>1, <2>1, Directions DEF Sits, ChildOf
  <2>3. y = Minimum(t, r)
    BY <1>1 DEF LeastOnRight
  <2>4. LeastBelow(t, s, r, y)
    BY <1>1, <2>2, <2>3, MinimumIs
  <2>5. Leaves(k) = y
    BY <1>3 DEF Leaves
  <2>6. Follows(k) = t.child[y]["right"]
    BY <1>1, <2>4, <2>5 DEF Follows, LeastBelow
  <2> DEFINE x == Follows(k)
  <2>7. x = t.child[y]["right"] /\ l = t.child[k]["left"] /\ r = t.child[k]["right"] /\ y = LeastOnRight(k)
    BY <2>6
  <2> HIDE DEF x, y, l, r
  <2>8. Displaced(t, k, y, x, l, r, Without(k))
    BY <1>1, <2>1, <2>4, <2>7, WithoutBoth
  <2>9. AnotherLeaves(t, s, k, y, x, Without(k))
    BY <2>1, <2>4, <2>7, <2>8 DEF AnotherLeaves
  <2> QED
    BY <2>5, <2>9 DEF x
<1> QED
  BY <1>2, <1>3

(* The links are those of a tree without k, which has links of its own. *)
Freed(t, N, k, x, u) ==
  u \in Linking /\ (\E q : Whole(u, N \ {k}, q)) /\ Loose(u, N) /\ x \in (N \ {k}) \cup {Nil}

LEMMA OneLeavesGood ==
  ASSUME NEW t, NEW N \in SUBSET Keys, Good(t, N), NEW k \in N, NEW x, NEW u, OneLeaves(t, k, x, u)
  PROVE  Freed(t, N, k, x, u)
<1>1. PICK s : Whole(t, N, s)
  BY DEF Good
<1>2. PICK d \in Dirs : t.child[k][d] = Nil /\ x = t.child[k][Opp(d)] /\ Transplanted(t, k, x, u)
  BY DEF OneLeaves
<1>3. t \in Linking /\ Loose(t, N) /\ Sits(t, N, k) /\ Opp(d) \in Dirs /\ Nil \notin Keys
  BY GoodNode, Directions, TreeAssumption DEF Good
<1>4. u \in Linking
  BY <1>2 DEF Transplanted
<1>5. \E q : Whole(u, N \ {k}, q)
  <2>1. MakesRoom(t, N, k, x, u)
    BY <1>1, <1>2, TransplantMakesRoom
  <2> QED
    BY <1>1, <1>2, <1>3, <2>1, RoomWhole
<1>6. x \in (N \ {k}) \cup {Nil}
  <2>1. ChildOf(t, N, k, x, t.child[k][Opp(Opp(d))])
    BY <1>2, <1>3 DEF Sits
  <2> QED
    BY <2>1 DEF ChildOf
<1>7. t.parent[k] \in N \cup {Nil}
  BY <1>3 DEF Sits, HasParent
<1>8. ASSUME NEW n \in Keys \ N
      PROVE  u.parent[n] = Nil /\ u.child[n] = NoLinks
  <2>1. u.parent[n] = t.parent[n] /\ \A e \in Dirs : u.child[n][e] = t.child[n][e]
    BY <1>2, <1>3, <1>6, <1>7 DEF Transplanted
  <2>2. u.child[n] \in [Dirs -> Keys \cup {Nil}] /\ t.child[n] \in [Dirs -> Keys \cup {Nil}]
    BY <1>3, <1>4 DEF Linking
  <2> QED
    BY <1>3, <2>1, <2>2 DEF Loose
<1> QED
  BY <1>4, <1>5, <1>6, <1>8 DEF Loose, Freed

LEMMA AnotherLeavesGood ==
  ASSUME NEW t, NEW N \in SUBSET Keys, Good(t, N), NEW s, Whole(t, N, s), NEW k \in N, NEW y, NEW x, NEW u,
         AnotherLeaves(t, s, k, y, x, u)
  PROVE  Freed(t, N, k, x, u) /\ y \in N \ {k} /\ y # t.root
<1> DEFINE l == t.child[k]["left"]
           r == t.child[k]["right"]
<1>1. /\ l # Nil /\ r # Nil /\ LeastBelow(t, s, r, y) /\ x = t.child[y]["right"]
      /\ Displaced(t, k, y, x, l, r, u) /\ l = t.child[k]["left"] /\ r = t.child[k]["right"]
  BY DEF AnotherLeaves
<1>2. t \in Linking /\ Loose(t, N) /\ Nil \notin Keys
  BY TreeAssumption DEF Good
<1> HIDE DEF l, r
<1>3. Settled(t, N, k, l, r, y, x)
  BY <1>1, <1>2, Around
<1>4. \E q : Whole(u, N \ {k}, q)
  BY <1>1, <1>2, DisplacedWhole
<1>5. u \in Linking
  BY <1>1 DEF Displaced
<1>6. l \in N /\ r \in N /\ y \in N /\ x \in N \cup {Nil} /\ k # y /\ k # x /\ y # t.root
  BY <1>3 DEF Settled
<1>7. t.parent[k] \in N \cup {Nil} /\ t.parent[y] \in N \cup {Nil}
  BY <1>6, GoodNode DEF Sits, HasParent
<1>8. ASSUME NEW n \in Keys \ N
      PROVE  u.parent[n] = Nil /\ u.child[n] = NoLinks
  <2>1. u.parent[n] = t.parent[n] /\ \A e \in Dirs : u.child[n][e] = t.child[n][e]
    BY <1>1, <1>2, <1>6, <1>7 DEF Displaced
  <2>2. u.child[n] \in [Dirs -> Keys \cup {Nil}] /\ t.child[n] \in [Dirs -> Keys \cup {Nil}]
    BY <1>2, <1>5 DEF Linking
  <2> QED
    BY <1>2, <2>1, <2>2 DEF Loose
<1> QED
  BY <1>4, <1>5, <1>6, <1>8 DEF Loose, Freed

(* u with x painted black when the colour c that is gone is a black. *)
Filled(u, x, c, v) ==
  /\ v.root = u.root /\ v.child = u.child /\ v.parent = u.parent
  /\ \A n \in Keys : v.color[n] = IF n = x /\ c = "black" THEN "black" ELSE u.color[n]

LEMMA OneLeavesBalanced ==
  ASSUME NEW t, NEW N \in SUBSET Keys, Good(t, N), Balanced(t, N, Nil), NEW k \in N, NEW x, NEW u,
         OneLeaves(t, k, x, u), t.color[k] = "black" => x # Nil,
         NEW v, Filled(u, x, t.color[k], v)
  PROVE  Balanced(v, N \ {k}, Nil) /\ (t.color[k] = "black" => u.color[x] = "red")
<1>1. PICK s : Whole(t, N, s)
  BY DEF Good
<1>2. PICK d \in Dirs : t.child[k][d] = Nil /\ x = t.child[k][Opp(d)] /\ Transplanted(t, k, x, u)
  BY DEF OneLeaves
<1>3. MakesRoom(t, N, k, x, u)
  BY <1>1, <1>2, TransplantMakesRoom
<1>4. MakesRoom(t, N, k, x, v)
  BY <1>3 DEF MakesRoom, Filled
<1>5. u.color = t.color
  BY <1>2 DEF Transplanted
<1>6. \A n \in N \ {k} : v.color[n] = IF n = x /\ t.color[k] = "black" THEN "black" ELSE t.color[n]
  BY <1>5 DEF Filled
<1> QED
  BY <1>2, <1>4, <1>5, <1>6, RoomBalanced

LEMMA AnotherLeavesBalanced ==
  ASSUME NEW t, NEW N \in SUBSET Keys, Good(t, N), Balanced(t, N, Nil), NEW s, Whole(t, N, s),
         NEW k \in N, NEW y, NEW x, NEW u,
         AnotherLeaves(t, s, k, y, x, u), t.color[y] = "black" => x # Nil,
         NEW v, Filled(u, x, t.color[y], v)
  PROVE  Balanced(v, N \ {k}, Nil) /\ (t.color[y] = "black" => u.color[x] = "red")
<1> DEFINE l == t.child[k]["left"]
           r == t.child[k]["right"]
           t1 == Transplant(t, y, x)
           v1 == IF t.color[y] = "black" THEN Paint(t1, x, "black") ELSE t1
           M == N \ {y}
<1>1. /\ l # Nil /\ r # Nil /\ LeastBelow(t, s, r, y) /\ x = t.child[y]["right"]
      /\ Displaced(t, k, y, x, l, r, u) /\ l = t.child[k]["left"] /\ r = t.child[k]["right"]
  BY DEF AnotherLeaves
<1>2. t \in Linking /\ Nil \notin Keys
  BY TreeAssumption DEF Good
<1> HIDE DEF l, r
<1>3. Settled(t, N, k, l, r, y, x)
  BY <1>1, <1>2, Around
<1>4. y \in N /\ x \in N \cup {Nil} /\ k # y /\ k # x /\ y # x
  BY <1>3 DEF Settled
<1>5. Transplanted(t, y, x, t1)
  BY <1>2, <1>4, TransplantIs
<1> HIDE DEF t1
<1>6. StandsFor(t1, M, k, y, u)
  BY <1>1, <1>2, <1>5, DisplacedStandsFor
<1>7. MakesRoom(t, N, y, x, t1)
  BY <1>4, <1>5, TransplantMakesRoom
<1>8. /\ v1.root = t1.root /\ v1.child = t1.child /\ v1.parent = t1.parent
      /\ \A n \in Keys : v1.color[n] = IF n = x /\ t.color[y] = "black" THEN "black" ELSE t.color[n]
  <2>1. Painted(t1, x, "black", Paint(t1, x, "black"))
    BY <1>4, <1>5, PaintIs DEF Transplanted, Colors
  <2>2. t1.color = t.color
    BY <1>5 DEF Transplanted
  <2> QED
    BY <2>1, <2>2 DEF Painted
<1> HIDE DEF v1
<1>9. MakesRoom(t, N, y, x, v1)
  BY <1>7, <1>8 DEF MakesRoom
<1>10. Balanced(v1, M, Nil) /\ (t.color[y] = "black" => t.color[x] = "red")
  <2>1. "left" \in Dirs /\ t.child[y]["left"] = Nil /\ x = t.child[y][Opp("left")]
    BY <1>1, Directions DEF LeastBelow
  <2>2. \A n \in N \ {y} : v1.color[n] = IF n = x /\ t.color[y] = "black" THEN "black" ELSE t.color[n]
    BY <1>8
  <2> HIDE DEF M
  <2>3. Balanced(v1, N \ {y}, Nil) /\ (t.color[y] = "black" => t.color[x] = "red")
    BY <1>4, <1>9, <2>1, <2>2, RoomBalanced
  <2> QED
    BY <2>3 DEF M
<1>11. StandsFor(v1, M, k, y, v)
  BY <1>6, <1>8 DEF StandsFor, Filled
<1>12. \A n \in M : v.color[As(k, y, n)] = v1.color[n]
  <2>1. \A n \in Keys : u.color[n] = IF n = y THEN t.color[k] ELSE t.color[n]
    BY <1>1 DEF Displaced
  <2> QED
    BY <1>4, <1>8, <2>1 DEF As, Filled
<1>13. \A n \in M, e \in Dirs : v1.child[n][e] \in M \cup {Nil}
  <2>1. \A n \in N, e \in Dirs : t.child[n][e] \in N \cup {Nil}
    BY GoodNode DEF Sits, ChildOf
  <2> QED
    BY <1>4, <1>9, <2>1 DEF MakesRoom
<1>14. Balanced(v, (M \ {k}) \cup {y}, Nil)
  <2>1. M \in SUBSET Keys /\ Nil \notin M /\ k \in M /\ y \notin M /\ y # Nil
    BY <1>2, <1>4
  <2> HIDE DEF M
  <2> QED
    BY <1>10, <1>11, <1>12, <1>13, <2>1, StandInBalanced
<1>15. (M \ {k}) \cup {y} = N \ {k}
  BY <1>4
<1>16. u.color[x] = t.color[x] \/ x = Nil
  BY <1>1, <1>4 DEF Displaced
<1> QED
  BY <1>10, <1>14, <1>15, <1>16

(* The entry k is cleared. *)
Erased(u, k, w) ==
  /\ w \in Linking /\ w.root = u.root
  /\ \A n \in Keys : /\ w.child[n] = IF n = k THEN NoLinks ELSE u.child[n]
                     /\ w.parent[n] = IF n = k THEN Nil ELSE u.parent[n]
                     /\ w.color[n] = IF n = k THEN "red" ELSE u.color[n]

LEMMA ErasedIs ==
  ASSUME NEW u \in Linking, NEW k \in Keys
  PROVE  Erased(u, k, [u EXCEPT !.child[k] = NoLinks, !.parent[k] = Nil, !.color[k] = "red"])
<1> DEFINE w == [u EXCEPT !.child[k] = NoLinks, !.parent[k] = Nil, !.color[k] = "red"]
<1>1. NoLinks \in [Dirs -> Keys \cup {Nil}] /\ "red" \in Colors
  BY DEF NoLinks, Colors
<1>2. w = [u EXCEPT !.child[k] = NoLinks, !.parent[k] = Nil, !.color[k] = "red"]
  OBVIOUS
<1> HIDE DEF w
<1>3. Erased(u, k, w)
  BY <1>1, <1>2 DEF Linking, Erased
<1> QED
  BY <1>3 DEF w

LEMMA ErasedGood ==
  ASSUME NEW u \in Linking, NEW N \in SUBSET Keys, NEW k \in N, NEW q, Whole(u, N \ {k}, q), Loose(u, N),
         NEW w, Erased(u, k, w)
  PROVE  Good(w, N \ {k})
<1>1. Alike(u, N \ {k}, w)
  BY DEF Alike, Erased
<1>2. Whole(w, N \ {k}, q)
  BY <1>1, AlikeWhole
<1>3. Loose(w, N \ {k})
  BY DEF Loose, Erased
<1> QED
  BY <1>2, <1>3 DEF Good, Erased

LEMMA BalancedSame ==
  ASSUME NEW t, NEW N, NEW c, Balanced(t, N, c), NEW u,
         \A n \in N : u.color[n] = t.color[n]
                      /\ \A d \in Dirs : u.child[n][d] = t.child[n][d] /\ t.child[n][d] \in N \cup {Nil}
  PROVE  Balanced(u, N, c)
<1>1. PICK h : Heights(t, N, h)
  BY DEF Balanced
<1>2. Heights(u, N, h)
  BY <1>1 DEF Heights, Black
<1>3. NoReds(u, N, c)
  BY DEF Balanced, NoReds, IsRed
<1> QED
  BY <1>2, <1>3 DEF Balanced

-----------------------------------------------------------------------------
(* The invariant: the tree is good at any time, and has a black root but   *)
(* for one that is under repair; a tree that is clean is balanced, with    *)
(* one red too many at the cursor of Put and with the black that is        *)
(* missing at the cursor of Delete.                                        *)
In(v) == {n \in Keys : v[n] # Nil}
RootBlack(t, c) == t.root # Nil /\ t.root # c => t.color[t.root] = "black"
Repairable(t, N, p, c) ==
  /\ p = "idle" => Balanced(t, N, Nil)
  /\ p = "put" => t.color[c] = "red" /\ Balanced(t, N, c)
  /\ p = "delete" => /\ c = t.root \/ t.color[c] = "red"
                     /\ Balanced(Paint(t, c, "black"), N, Nil)
Typed(v, p, c, ok) ==
  /\ v \in [Keys -> Vals \cup {Nil}] /\ p \in {"idle", "put", "delete"} /\ ok \in BOOLEAN
  /\ c \in In(v) \cup {Nil} /\ (c = Nil) = (p = "idle")
Sound(t, v, p, c, ok) ==
  /\ Typed(v, p, c, ok)
  /\ Good(t, In(v))
  /\ RootBlack(t, c)
  /\ ok => Repairable(t, In(v), p, c)
TreeInv == Sound(Tree, value, pc, cursor, clean)

LEMMA Becomes ==
  ASSUME NEW u \in Linking, Become(u)
  PROVE  Tree' = u
BY DEF Become, Linking, Tree

LEMMA InvType ==
  ASSUME TreeInv
  PROVE  TypeOK
<1>1. Tree \in Linking /\ Typed(value, pc, cursor, clean)
  BY DEF TreeInv, Sound, Good
<1> QED
  BY <1>1 DEF Tree, Linking, Typed, In, TypeOK

LEMMA InitInv ==
  ASSUME Init
  PROVE  TreeInv
<1>1. Tree \in Linking /\ In(value) = {} /\ Tree.root = Nil
  BY DEF Init, Tree, Linking, In, NoLinks, Colors
<1> DEFINE s == [n \in {Nil} |-> {}]
           L == On(Tree, "left")
           R == On(Tree, "right")
<1>2. SearchTree({}, Nil, Nil, L, R, Tree.parent, s, Order("left"))
  <2> HIDE DEF L, R
  <2> QED
    BY DEF SearchTree, Shape, Hung, Split, Nested, Linked, Sorted
<1>3. Facing(Tree, {}, s, "left")
  BY <1>1, <1>2, Directions DEF Facing
<1>4. Whole(Tree, {}, s)
  BY <1>3, BothSides, Directions
<1>5. Loose(Tree, {})
  BY DEF Init, Tree, Loose
<1>6. Good(Tree, {})
  BY <1>1, <1>4, <1>5 DEF Good
<1>7. Balanced(Tree, {}, Nil)
  <2>1. Heights(Tree, {}, [n \in {Nil} |-> 0])
    BY DEF Heights
  <2> QED
    BY <2>1 DEF Balanced, NoReds
<1>8. Typed(value, pc, cursor, clean)
  BY DEF Init, Typed, In
<1> QED
  BY <1>1, <1>6, <1>7, <1>8 DEF Init, TreeInv, Sound, Repairable, RootBlack

LEMMA PutOverInv ==
  ASSUME TreeInv, NEW k \in Keys, NEW v \in Vals, PutOver(k, v)
  PROVE  TreeInv'
<1>1. Typed(value, pc, cursor, clean) /\ Good(Tree, In(value))
  BY DEF TreeInv, Sound
<1>2. k \in In(value)
  <2>1. PICK s : Whole(Tree, In(value), s)
    BY <1>1 DEF Good
  <2>2. In(value) \in SUBSET Keys /\ Tree \in Linking
    BY <1>1 DEF In, Good
  <2> QED
    BY <2>1, <2>2, LookupIs DEF PutOver
<1>3. In(value') = In(value) /\ value' \in [Keys -> Vals \cup {Nil}]
  BY <1>1, <1>2, TreeAssumption DEF PutOver, In, Typed
<1>4. Tree' = Tree /\ pc' = pc /\ cursor' = cursor /\ clean' = clean
  BY DEF PutOver, links, Tree
<1>5. Typed(value', pc', cursor', clean')
  BY <1>1, <1>3, <1>4 DEF Typed
<1>6. Sound(Tree', value', pc', cursor', clean')
  BY <1>3, <1>4, <1>5 DEF TreeInv, Sound
<1> QED
  BY <1>6 DEF TreeInv

LEMMA HungGood ==
  ASSUME NEW t, NEW N \in SUBSET Keys, Good(t, N), NEW s, Whole(t, N, s), NEW k \in Keys \ N,
         NEW p, NEW d \in Dirs, PlaceFor(t, N, s, k, p, d, Nil), NEW u \in Linking, Hangs(t, k, p, d, u)
  PROVE  Good(u, N \cup {k})
<1>1. \E q : Whole(u, N \cup {k}, q)
  BY LeafWhole DEF Good
<1>2. ASSUME NEW n \in Keys \ (N \cup {k})
      PROVE  u.parent[n] = Nil /\ u.child[n] = NoLinks
  <2>1. p \in N \cup {Nil} /\ Nil \notin Keys
    BY TreeAssumption DEF PlaceFor
  <2>2. u.parent[n] = t.parent[n] /\ \A e \in Dirs : u.child[n][e] = t.child[n][e]
    BY <2>1 DEF Hangs
  <2>3. u.child[n] \in [Dirs -> Keys \cup {Nil}] /\ t.child[n] \in [Dirs -> Keys \cup {Nil}]
    BY DEF Linking, Good
  <2> QED
    BY <2>2, <2>3 DEF Loose, Good
<1> QED
  BY <1>1, <1>2 DEF Good, Loose

(* A new leaf is red, which leaves the heights as they were. *)
LEMMA LeafBalanced ==
  ASSUME NEW t, NEW N \in SUBSET Keys, Good(t, N), Balanced(t, N, Nil), NEW k \in Keys \ N,
         NEW p \in N, NEW d \in Dirs, t.child[p][d] = Nil, NEW u, Hangs(t, k, p, d, u),
         \A n \in Keys : u.color[n] = IF n = k THEN "red" ELSE t.color[n]
  PROVE  Balanced(u, N \cup {k}, k)
<1> DEFINE M == N \cup {k}
<1>1. PICK h : Heights(t, N, h)
  BY DEF Balanced
<1>2. Nil \notin Keys /\ Loose(t, N)
  BY TreeAssumption DEF Good
<1>3. \A n \in N, e \in Dirs : t.child[n][e] \in N \cup {Nil}
  BY GoodNode DEF Sits, ChildOf
<1>4. \A e \in Dirs : u.child[k][e] = Nil
  BY <1>2 DEF Hangs, Loose, NoLinks
<1>5. \A n \in N, e \in Dirs : u.child[n][e] = IF n = p /\ e = d THEN k ELSE t.child[n][e]
  BY DEF Hangs
<1> DEFINE g == [n \in M \cup {Nil} |-> IF n = k THEN 0 ELSE h[n]]
<1>6. g \in [M \cup {Nil} -> Nat] /\ g[Nil] = 0
  BY <1>1, <1>2 DEF Heights
<1>7. \A n \in M \cup {Nil} : g[n] = IF n = k THEN 0 ELSE h[n]
  OBVIOUS
<1> HIDE DEF g
<1>8. ASSUME NEW n \in M, NEW e \in Dirs
      PROVE  g[n] = g[u.child[n][e]] + Black(u, n)
  <2>1. CASE n = k
    BY <1>4, <1>6, <1>7, <2>1 DEF Black
  <2>2. CASE n # k
    <3>1. n \in N /\ h[n] = h[t.child[n][e]] + Black(t, n) /\ Black(u, n) = Black(t, n) /\ h[Nil] = 0
      BY <1>1, <2>2 DEF Heights, Black
    <3>2. g[u.child[n][e]] = h[t.child[n][e]]
      BY <1>2, <1>3, <1>5, <1>7, <3>1
    <3> QED
      BY <1>7, <2>2, <3>1, <3>2
  <2> QED
    BY <2>1, <2>2
<1>9. NoReds(u, M, k)
  <2> SUFFICES ASSUME NEW n \in M, NEW e \in Dirs, u.color[n] = "red", IsRed(u, u.child[n][e]), u.child[n][e] # k
               PROVE  FALSE
    BY DEF NoReds
  <2>1. n \in N
    BY <1>4 DEF IsRed
  <2>2. u.child[n][e] = t.child[n][e] /\ t.child[n][e] \in N
    BY <1>3, <1>5, <2>1 DEF IsRed
  <2>3. t.color[n] = "red" /\ IsRed(t, t.child[n][e])
    BY <2>1, <2>2 DEF IsRed
  <2> QED
    BY <1>2, <2>1, <2>2, <2>3 DEF Balanced, NoReds
<1>10. Heights(u, M, g)
  BY <1>6, <1>8 DEF Heights
<1> QED
  BY <1>9, <1>10 DEF Balanced

LEMMA PutRootInv ==
  ASSUME TreeInv, NEW k \in Keys, NEW v \in Vals, PutRoot(k, v)
  PROVE  TreeInv'
<1> DEFINE t == Tree
           w == Paint(t, k, "black")
           u == [w EXCEPT !.root = k]
<1>1. Typed(value, pc, cursor, clean) /\ Good(t, In(value)) /\ t \in Linking
  BY DEF TreeInv, Sound, Good
<1>2. In(value) = {} /\ t.root = Nil /\ In(value) \in SUBSET Keys
  <2>1. In(value) \in SUBSET Keys
    BY DEF In
  <2> QED
    BY <1>1, <2>1, GoodNode DEF PutRoot, Tree
<1>3. Painted(t, k, "black", w)
  BY <1>1, PaintIs DEF Colors
<1>4. Become(u)
  BY DEF PutRoot
<1> HIDE DEF t, w
<1>5. u \in Linking /\ u.root = k /\ u.child = t.child /\ u.parent = t.parent /\ u.color[k] = "black"
  BY <1>3 DEF Painted, Linking
<1> HIDE DEF u
<1>6. Tree' = u
  BY <1>4, <1>5, Becomes
<1>7. PICK s : Whole(t, {}, s)
  BY <1>1, <1>2 DEF Good
<1>8. Loose(t, {})
  BY <1>1, <1>2 DEF Good
<1>9. Hangs(t, k, Nil, "left", u)
  BY <1>2, <1>5, <1>8, TreeAssumption DEF Hangs, Loose
<1>10. PlaceFor(t, {}, s, k, Nil, "left", Nil)
  BY <1>2 DEF PlaceFor, Place
<1>11. Good(u, {k})
  <2>1. Good(t, {}) /\ {} \in SUBSET Keys /\ k \in Keys \ {} /\ "left" \in Dirs
    BY <1>1, <1>2, Directions
  <2>2. Good(u, {} \cup {k})
    BY <1>5, <1>7, <1>9, <1>10, <2>1, HungGood
  <2> QED
    BY <2>2
<1>12. Balanced(u, {k}, Nil)
  <2>1. \A e \in Dirs : u.child[k][e] = Nil
    BY <1>5, <1>8 DEF Loose, NoLinks
  <2> DEFINE h == [n \in {k} \cup {Nil} |-> IF n = k THEN 1 ELSE 0]
  <2>2. Heights(u, {k}, h)
    <3>1. h \in [{k} \cup {Nil} -> Nat] /\ h[Nil] = 0 /\ h[k] = 1
      BY TreeAssumption
    <3> HIDE DEF h
    <3> QED
      BY <1>5, <2>1, <3>1 DEF Heights, Black
  <2>3. NoReds(u, {k}, Nil)
    BY <2>1 DEF NoReds, IsRed
  <2> QED
    BY <2>2, <2>3 DEF Balanced
<1>13. In(value') = {k} /\ value' \in [Keys -> Vals \cup {Nil}]
  BY <1>1, <1>2, TreeAssumption DEF PutRoot, In, Typed
<1>14. pc' = "idle" /\ pc = "idle" /\ cursor' = cursor /\ clean' = clean
  BY DEF PutRoot
<1>15. Typed(value', pc', cursor', clean')
  BY <1>1, <1>13, <1>14 DEF Typed
<1>16. RootBlack(u, cursor')
  BY <1>5 DEF RootBlack
<1>17. Sound(Tree', value', pc', cursor', clean')
  BY <1>6, <1>11, <1>12, <1>13, <1>14, <1>15, <1>16 DEF Sound, Repairable
<1> QED
  BY <1>17 DEF TreeInv

LEMMA PutLeafInv ==
  ASSUME TreeInv, NEW k \in Keys, NEW v \in Vals, NEW c \in EntryColors, PutLeaf(k, v, c)
  PROVE  TreeInv'
<1> DEFINE t == Tree
           N == In(value)
           at == Lookup(k)
           p == at.parent
           d == at.dir
           w == Paint(t, k, c)
           u == [w EXCEPT !.parent[k] = p, !.child[p][d] = k]
<1>1. Typed(value, pc, cursor, clean) /\ Good(t, N) /\ t \in Linking /\ N \in SUBSET Keys /\ t = Tree
  BY DEF TreeInv, Sound, Good, In
<1>2. pc = "idle" /\ root # Nil /\ ~ Found(k) /\ Become(u) /\ clean' = (clean /\ c = "red")
      /\ value' = [value EXCEPT ![k] = v] /\ pc' = "put" /\ cursor' = k
  BY DEF PutLeaf
<1>3. PICK s : Whole(t, N, s)
  BY <1>1 DEF Good
<1>4. k \notin N /\ d \in Dirs /\ PlaceFor(t, N, s, k, p, d, Nil)
  BY <1>1, <1>2, <1>3, LookupIs
<1>5. t.root = root /\ c \in Colors /\ Nil \notin Keys
  BY TreeAssumption DEF Tree, Colors
<1> HIDE DEF at, t, N
<1>6. p \in N /\ t.child[p][d] = Nil
  <2>1. p # Nil
    BY <1>2, <1>4, <1>5 DEF PlaceFor, Place
  <2>2. p \in N /\ d = IF k < p THEN "left" ELSE "right"
    BY <1>4, <2>1 DEF PlaceFor
  <2>3. \/ << k, p >> \in Order("left") /\ Nil = On(t, "left")[p]
        \/ << p, k >> \in Order("left") /\ Nil = On(t, "right")[p]
    BY <1>4, <2>1 DEF PlaceFor, Place
  <2>4. p \in Int /\ k \in Int /\ p \in Keys
    BY <1>1, <2>2, TreeAssumption
  <2> QED
    BY <2>2, <2>3, <2>4 DEF Order, On
<1> DEFINE P == p
           D == d
<1>7. u = [w EXCEPT !.parent[k] = P, !.child[P][D] = k]
  OBVIOUS
<1> HIDE DEF P, D, w, u
<1>8. Painted(t, k, c, w)
  BY <1>1, <1>5, PaintIs DEF w
<1>9. P \in N /\ P \in Keys /\ D \in Dirs /\ P = p /\ D = d
  BY <1>1, <1>4, <1>6 DEF P, D
<1>10. u \in Linking /\ Hangs(t, k, P, D, u) /\ \A n \in Keys : u.color[n] = IF n = k THEN c ELSE t.color[n]
  <2>1. w \in Linking
    BY <1>8 DEF Painted
  <2>2. /\ u \in Linking /\ u.root = w.root /\ u.color = w.color
        /\ \A m \in Keys, e \in Dirs : u.child[m][e] = IF m = P /\ e = D THEN k ELSE w.child[m][e]
        /\ \A m \in Keys : u.parent[m] = IF m = k THEN P ELSE w.parent[m]
    BY <1>7, <1>9, <2>1 DEF Linking
  <2>3. P # Nil
    BY <1>5, <1>9
  <2> QED
    BY <1>8, <1>9, <2>2, <2>3 DEF Painted, Hangs
<1>11. Tree' = u
  BY <1>2, <1>10, Becomes
<1>12. Good(u, N \cup {k})
  BY <1>1, <1>3, <1>4, <1>9, <1>10, HungGood
<1>13. ASSUME clean'
       PROVE  Balanced(u, N \cup {k}, k) /\ u.color[k] = "red"
  <2>1. c = "red" /\ clean
    BY <1>2, <1>13
  <2>2. Balanced(t, N, Nil)
    BY <1>2, <2>1 DEF TreeInv, Sound, Repairable, t, N
  <2>3. t.child[P][D] = Nil
    BY <1>6 DEF P, D
  <2>4. k \in Keys \ N
    BY <1>4
  <2> QED
    BY <1>1, <1>9, <1>10, <2>1, <2>2, <2>3, <2>4, LeafBalanced
<1>14. In(value') = N \cup {k} /\ value' \in [Keys -> Vals \cup {Nil}]
  BY <1>1, <1>2, TreeAssumption DEF In, Typed, N
<1>15. Typed(value', pc', cursor', clean')
  BY <1>1, <1>2, <1>5, <1>14 DEF Typed
<1>16. RootBlack(u, cursor')
  <2>1. RootBlack(t, Nil)
    BY <1>1, <1>2 DEF TreeInv, Sound, Typed, t
  <2>2. u.root = t.root
    BY <1>5, <1>9, <1>10 DEF Hangs
  <2>3. t.root \in Keys \cup {Nil}
    BY <1>1 DEF Linking
  <2> QED
    BY <1>2, <1>5, <1>10, <2>1, <2>2, <2>3 DEF RootBlack
<1>17. Sound(Tree', value', pc', cursor', clean')
  BY <1>2, <1>11, <1>12, <1>13, <1>14, <1>15, <1>16 DEF Sound, Repairable
<1> QED
  BY <1>17 DEF TreeInv

(* z and its parent p are red: p is not the root, so there is g above it.  *)
Elders(t, z, p, g, d) == p = t.parent[z] /\ g = t.parent[p] /\ d = Side(t, p)

LEMMA RedParent ==
  ASSUME NEW t, NEW N \in SUBSET Keys, Good(t, N), NEW z \in N, RootBlack(t, z),
         NEW p, NEW g, NEW d, Elders(t, z, p, g, d), IsRed(t, p)
  PROVE  /\ z # t.root /\ p \in N /\ p # t.root /\ g \in N /\ d \in Dirs /\ Side(t, z) \in Dirs
         /\ t.child[p][Side(t, z)] = z /\ t.child[g][d] = p /\ p # z /\ g # p /\ g # z
<1>1. p # Nil /\ t.color[p] = "red" /\ Nil \notin N
  BY GoodNode DEF IsRed
<1>2. p = t.parent[z]
  BY DEF Elders
<1>3. z # t.root
  BY <1>1, <1>2, GoodNode DEF Sits
<1>4. p \in N /\ p # z /\ Side(t, z) \in Dirs /\ t.child[p][Side(t, z)] = z /\ t.parent[p] # z
  BY <1>2, <1>3, GoodNode DEF Sits, HasParent
<1>5. p # t.root
  BY <1>1, <1>3, GoodNode DEF RootBlack
<1>6. g \in N /\ g # p /\ d \in Dirs /\ t.child[g][d] = p
  <2>1. Sits(t, N, p)
    BY <1>4, GoodNode
  <2>2. t.parent[p] \in N /\ t.parent[p] # p /\ Side(t, p) \in Dirs /\ t.child[t.parent[p]][Side(t, p)] = p
    BY <1>5, <2>1 DEF Sits, HasParent
  <2> QED
    BY <2>2 DEF Elders
<1>7. t.parent[p] = g
  BY DEF Elders
<1> QED
  BY <1>3, <1>4, <1>5, <1>6, <1>7

LEMMA RecolorBalanced ==
  ASSUME NEW t, NEW N \in SUBSET Keys, Good(t, N), NEW z, Balanced(t, N, z),
         NEW g \in N, NEW d \in Dirs, NEW p, p = t.child[g][d], NEW q, q = t.child[g][Opp(d)],
         IsRed(t, p), IsRed(t, q), p = t.parent[z], z # p, NEW u, u.child = t.child,
         \A n \in Keys : u.color[n] = IF n = g THEN "red" ELSE IF n \in {p, q} THEN "black" ELSE t.color[n]
  PROVE  Balanced(u, N, g)
<1>1. PICK h : Heights(t, N, h)
  BY DEF Balanced
<1>2. Nil \notin N /\ Sits(t, N, g) /\ Dirs = {d, Opp(d)} /\ t \in Linking
  BY GoodNode, Directions DEF Good
<1>3. p \in N /\ q \in N /\ p # q /\ p # g /\ q # g /\ t.parent[p] = g /\ t.parent[q] = g
      /\ t.color[p] = "red" /\ t.color[q] = "red"
  BY <1>2, Directions DEF Sits, ChildOf, IsRed
<1>4. \A n \in N, e \in Dirs : t.child[n][e] \in N \cup {Nil} /\ (t.child[n][e] # Nil => t.parent[t.child[n][e]] = n)
  BY GoodNode DEF Sits, ChildOf
<1>5. \A n \in N : Black(t, n) = (IF t.color[n] = "black" THEN 1 ELSE 0) /\ t.color[n] \in Colors
  BY <1>2 DEF Black, Linking
<1>6. t.color[g] = "black"
  <2>1. t.color[g] # "red"
    BY DEF Balanced, NoReds
  <2> QED
    BY <1>5, <2>1 DEF Colors
<1> DEFINE f == [n \in N \cup {Nil} |-> IF n \in {p, q} THEN h[n] + 1 ELSE h[n]]
<1>7. \A n \in N \cup {Nil} : f[n] = IF n \in {p, q} THEN h[n] + 1 ELSE h[n]
  OBVIOUS
<1>8. f \in [N \cup {Nil} -> Nat] /\ f[Nil] = 0
  BY <1>1, <1>2, <1>3 DEF Heights
<1> HIDE DEF f
<1>9. ASSUME NEW n \in N, NEW e \in Dirs
      PROVE  f[n] = f[u.child[n][e]] + Black(u, n)
  <2>1. h[n] = h[t.child[n][e]] + Black(t, n) /\ h[t.child[n][e]] \in Nat /\ h[n] \in Nat
    BY <1>1, <1>4 DEF Heights
  <2>2. u.child[n][e] = t.child[n][e]
    OBVIOUS
  <2>3. CASE n = g
    <3>1. t.child[n][e] \in {p, q} /\ Black(u, n) = 0 /\ Black(t, n) = 1
      BY <1>2, <1>5, <1>6, <2>3 DEF Black
    <3> QED
      BY <1>3, <1>4, <1>7, <2>1, <2>2, <2>3, <3>1
  <2>4. CASE n \in {p, q}
    <3>1. t.child[n][e] \notin {p, q} /\ Black(u, n) = 1 /\ Black(t, n) = 0
      BY <1>2, <1>3, <1>4, <1>5, <2>4 DEF Black
    <3> QED
      BY <1>4, <1>7, <2>1, <2>2, <2>4, <3>1
  <2>5. CASE n \notin {g, p, q}
    <3>1. t.child[n][e] \notin {p, q} /\ Black(u, n) = Black(t, n)
      BY <1>2, <1>3, <1>4, <2>5 DEF Black
    <3> QED
      BY <1>4, <1>7, <2>1, <2>2, <2>5, <3>1
  <2> QED
    BY <2>3, <2>4, <2>5
<1>10. NoReds(u, N, g)
  <2> SUFFICES ASSUME NEW n \in N, NEW e \in Dirs, u.color[n] = "red", IsRed(u, u.child[n][e]), u.child[n][e] # g
               PROVE  FALSE
    BY DEF NoReds
  <2>1. n \notin {p, q} /\ t.child[n][e] \in N /\ t.parent[t.child[n][e]] = n /\ t.child[n][e] # Nil
    BY <1>3, <1>4 DEF IsRed
  <2>2. t.child[n][e] \notin {p, q}
    BY <1>3, <2>1 DEF IsRed
  <2>3. n # g
    BY <1>2, <2>2
  <2>4. t.color[n] = "red" /\ IsRed(t, t.child[n][e])
    BY <2>1, <2>2, <2>3 DEF IsRed
  <2>5. t.child[n][e] = z
    BY <2>4 DEF Balanced, NoReds
  <2> QED
    BY <2>1, <2>5
<1>11. Heights(u, N, f)
  BY <1>8, <1>9 DEF Heights
<1> QED
  BY <1>10, <1>11 DEF Balanced

LEMMA FixupRecolorInv ==
  ASSUME TreeInv, FixupRecolor
  PROVE  TreeInv'
<1> DEFINE t == Tree
           N == In(value)
           z == cursor
           p == t.parent[z]
           g == t.parent[p]
           d == Side(t, p)
           q == t.child[g][Opp(d)]
           u == [t EXCEPT !.color = color']
<1>1. /\ Typed(value, pc, cursor, clean) /\ Good(t, N) /\ t \in Linking /\ N \in SUBSET Keys
      /\ t = Tree /\ RootBlack(t, z) /\ (clean => Repairable(t, N, pc, z))
  BY DEF TreeInv, Sound, Good, In
<1>2. /\ pc = "put" /\ IsRed(t, p) /\ IsRed(t, q)
      /\ color' = [t.color EXCEPT ![p] = "black", ![q] = "black", ![g] = "red"]
      /\ cursor' = g /\ value' = value /\ pc' = pc /\ clean' = clean
      /\ root' = t.root /\ child' = t.child /\ parent' = t.parent
  BY DEF FixupRecolor, Up, Uncle, Recolored, Tree
<1>3. z \in N /\ Nil \notin Keys
  BY <1>1, <1>2, TreeAssumption DEF Typed
<1> DEFINE P == p
           G == g
           D == d
           Q == q
<1>4. P = t.parent[z] /\ G = t.parent[P] /\ D = Side(t, P) /\ Q = t.child[G][Opp(D)]
  OBVIOUS
<1>5. IsRed(t, P) /\ IsRed(t, Q) /\ cursor' = G
      /\ color' = [t.color EXCEPT ![P] = "black", ![Q] = "black", ![G] = "red"]
  BY <1>2
<1> HIDE DEF P, G, D, Q, t, N
<1>6. /\ z # t.root /\ P \in N /\ P # t.root /\ G \in N /\ D \in Dirs
      /\ t.child[G][D] = P /\ P # z /\ G # P /\ G # z
  <2>1. Elders(t, z, P, G, D)
    BY <1>4 DEF Elders
  <2> QED
    BY <1>1, <1>3, <1>5, <2>1, RedParent
<1>7. Q \in N /\ Q # P /\ Q # G /\ Q # t.root
  <2>1. Q # Nil /\ Sits(t, N, G) /\ Opp(D) \in Dirs /\ Opp(Opp(D)) = D
    BY <1>1, <1>5, <1>6, GoodNode, Directions DEF IsRed
  <2>2. ChildOf(t, N, G, Q, t.child[G][Opp(Opp(D))])
    BY <1>4, <2>1 DEF Sits
  <2> QED
    BY <1>6, <2>1, <2>2 DEF ChildOf
<1>8. u \in Linking /\ u.root = t.root /\ u.child = t.child /\ u.parent = t.parent /\ u.color = color'
      /\ \A n \in Keys : u.color[n] = IF n = G THEN "red" ELSE IF n \in {P, Q} THEN "black" ELSE t.color[n]
  BY <1>1, <1>5, <1>6, <1>7 DEF Linking, Colors
<1> HIDE DEF u
<1>9. Tree' = u
  BY <1>2, <1>8, Becomes DEF Become
<1>10. Good(u, N)
  BY <1>1, <1>8, RecoloredGood DEF SameLinks
<1>11. RootBlack(u, G)
  <2>1. t.root \in Keys \cup {Nil}
    BY <1>1 DEF Linking
  <2> QED
    BY <1>1, <1>3, <1>6, <1>7, <1>8, <2>1 DEF RootBlack
<1>12. ASSUME clean
       PROVE  Balanced(u, N, G)
  <2>1. Balanced(t, N, z)
    BY <1>1, <1>2, <1>12 DEF Repairable
  <2> QED
    <3>1. P = t.child[G][D] /\ Q = t.child[G][Opp(D)] /\ IsRed(t, P) /\ IsRed(t, Q) /\ P = t.parent[z] /\ z # P
      BY <1>4, <1>5, <1>6
    <3>2. u.child = t.child
      BY <1>8
    <3>3. \A n \in Keys : u.color[n] = IF n = G THEN "red" ELSE IF n \in {P, Q} THEN "black" ELSE t.color[n]
      BY <1>8
    <3> QED
      BY <1>1, <1>6, <2>1, <3>1, <3>2, <3>3, RecolorBalanced
<1>13. u.color[G] = "red"
  BY <1>1, <1>6, <1>8
<1>14. Typed(value', pc', cursor', clean')
  BY <1>1, <1>2, <1>3, <1>5, <1>6 DEF Typed, N
<1>15. In(value') = N
  BY <1>2 DEF N
<1>16. Sound(Tree', value', pc', cursor', clean')
  BY <1>2, <1>5, <1>9, <1>10, <1>11, <1>12, <1>13, <1>14, <1>15 DEF Sound, Repairable
<1> QED
  BY <1>16 DEF TreeInv

LEMMA FixupPutEndInv ==
  ASSUME TreeInv, FixupPutEnd
  PROVE  TreeInv'
<1> DEFINE t == Tree
           N == In(value)
           z == cursor
           u == Paint(t, t.root, "black")
<1>1. /\ Typed(value, pc, cursor, clean) /\ Good(t, N) /\ t \in Linking /\ N \in SUBSET Keys
      /\ t = Tree /\ RootBlack(t, z) /\ (clean => Repairable(t, N, pc, z))
  BY DEF TreeInv, Sound, Good, In
<1>2. /\ pc = "put" /\ ~ IsRed(t, t.parent[z]) /\ color' = [t.color EXCEPT ![t.root] = "black"]
      /\ cursor' = Nil /\ value' = value /\ pc' = "idle" /\ clean' = clean
      /\ root' = t.root /\ child' = t.child /\ parent' = t.parent
  BY DEF FixupPutEnd, PutAtEnd, Up, Tree
<1>3. z \in N /\ Nil \notin Keys
  BY <1>1, <1>2, TreeAssumption DEF Typed
<1> HIDE DEF t, N
<1>4. t.root \in N
  BY <1>1, <1>3, GoodNode
<1>5. Good(u, N) /\ Painted(t, t.root, "black", u)
  BY <1>1, <1>4, PaintGood DEF Colors
<1>6. u.color = color'
  BY <1>2 DEF Paint
<1> HIDE DEF u
<1>7. Tree' = u
  BY <1>2, <1>5, <1>6, Becomes DEF Become, Painted
<1>8. RootBlack(u, Nil)
  BY <1>1, <1>4, <1>5 DEF RootBlack, Painted
<1>9. ASSUME clean
      PROVE  Balanced(u, N, Nil)
  <2>1. Balanced(t, N, z)
    BY <1>1, <1>2, <1>9 DEF Repairable
  <2>2. PICK h : Heights(t, N, h)
    BY <2>1 DEF Balanced
  <2>3. \A n \in N, e \in Dirs : /\ t.child[n][e] \in N \cup {Nil} /\ t.child[n][e] # t.root
                                 /\ t.child[n][e] # Nil => t.parent[t.child[n][e]] = n
    BY <1>1, <1>4, GoodNode DEF Sits, ChildOf
  <2>4. u.child = t.child /\ \A n \in N : u.color[n] = IF n = t.root THEN "black" ELSE t.color[n]
    BY <1>1, <1>5 DEF Painted
  <2> DEFINE f == [n \in N \cup {Nil} |-> IF n = t.root THEN h[t.child[n]["left"]] + 1 ELSE h[n]]
  <2>5. \A n \in N \cup {Nil} : f[n] = IF n = t.root THEN h[t.child[n]["left"]] + 1 ELSE h[n]
    OBVIOUS
  <2>6. f \in [N \cup {Nil} -> Nat] /\ f[Nil] = 0
    BY <1>1, <1>3, <1>4, <2>2, <2>3, Directions DEF Heights
  <2> HIDE DEF f
  <2>7. ASSUME NEW n \in N, NEW e \in Dirs
        PROVE  f[n] = f[u.child[n][e]] + Black(u, n)
    <3>1. h[n] = h[t.child[n][e]] + Black(t, n) /\ h[n] = h[t.child[n]["left"]] + Black(t, n)
          /\ h[t.child[n][e]] \in Nat /\ h[t.child[n]["left"]] \in Nat /\ Black(t, n) \in {0, 1}
      BY <2>2, <2>3, Directions DEF Heights, Black
    <3>2. f[u.child[n][e]] = h[t.child[n][e]]
      BY <2>3, <2>4, <2>5
    <3>3. Black(u, n) = IF n = t.root THEN 1 ELSE Black(t, n)
      BY <2>4 DEF Black
    <3> QED
      BY <2>5, <3>1, <3>2, <3>3
  <2>8. NoReds(u, N, Nil)
    <3> SUFFICES ASSUME NEW n \in N, NEW e \in Dirs, u.color[n] = "red", IsRed(u, u.child[n][e])
                 PROVE  FALSE
      BY DEF NoReds
    <3>1. t.child[n][e] \in N /\ t.child[n][e] # Nil /\ t.parent[t.child[n][e]] = n
      BY <2>3, <2>4 DEF IsRed
    <3>2. t.color[n] = "red" /\ IsRed(t, t.child[n][e])
      BY <2>3, <2>4, <3>1 DEF IsRed
    <3>3. t.child[n][e] = z
      BY <2>1, <3>2 DEF Balanced, NoReds
    <3>4. n # Nil
      BY <1>1, <1>3
    <3> QED
      BY <1>2, <3>1, <3>2, <3>3, <3>4 DEF IsRed
  <2>9. Heights(u, N, f)
    BY <2>6, <2>7 DEF Heights
  <2> QED
    BY <2>8, <2>9 DEF Balanced
<1>10. Typed(value', pc', cursor', clean')
  BY <1>1, <1>2 DEF Typed
<1>11. In(value') = N
  BY <1>2 DEF N
<1>12. Sound(Tree', value', pc', cursor', clean')
  BY <1>2, <1>5, <1>7, <1>8, <1>9, <1>10, <1>11 DEF Sound, Repairable
<1> QED
  BY <1>12 DEF TreeInv

(* The children after a rotation, for the nodes of the tree. *)
Relinked(t, N, x, d, y, b, u) ==
  /\ x \in N /\ y \in N /\ y # x /\ y # t.root /\ b \in N \cup {Nil} /\ b # y /\ b # x
  /\ Opp(d) \in Dirs /\ Opp(d) # d /\ Opp(Opp(d)) = d /\ Dirs = {d, Opp(d)}
  /\ \A n \in N, e \in Dirs :
       /\ t.child[n][e] \in N \cup {Nil} /\ t.child[n][e] # n
       /\ t.child[n][e] # Nil => t.parent[t.child[n][e]] = n /\ t.child[n][e] # t.child[n][Opp(e)]
       /\ u.child[n][e] = IF n = x /\ e = Opp(d) THEN b ELSE IF n = y /\ e = d THEN x
                          ELSE IF t.child[n][e] = x THEN y ELSE t.child[n][e]
       /\ t.child[n][e] = y => n = x /\ e = Opp(d)

LEMMA RotateRelinks ==
  ASSUME NEW t, NEW N \in SUBSET Keys, Good(t, N), NEW x \in N, NEW d \in Dirs,
         NEW y, y = t.child[x][Opp(d)], y # Nil, NEW b, b = t.child[y][d],
         NEW w, w.child = t.child, w.parent = t.parent, NEW u, Rotated(w, x, d, y, b, u)
  PROVE  Relinked(t, N, x, d, y, b, u)
<1>1. Opp(d) \in Dirs /\ Opp(d) # d /\ Opp(Opp(d)) = d /\ Dirs = {d, Opp(d)}
  BY Directions
<1>2. PICK s : Whole(t, N, s)
  BY DEF Good
<1>3. \A n \in N, e \in Dirs : /\ t.child[n][e] \in N \cup {Nil} /\ t.child[n][e] # n
                               /\ t.child[n][e] # Nil => t.parent[t.child[n][e]] = n /\ t.child[n][e] # t.root
                                                         /\ t.child[n][e] # t.child[n][Opp(e)]
  BY GoodNode DEF Sits, ChildOf
<1>4. y \in N /\ y # x /\ y # t.root /\ t.parent[y] = x
  BY <1>1, <1>3
<1>5. t.parent[x] # y
  BY <1>4, GoodNode DEF Sits
<1>6. Nil \notin N /\ (t.parent[x] = Nil <=> x = t.root)
  BY GoodNode DEF Sits, HasParent
<1>7. b \in N \cup {Nil} /\ b # y /\ b # x
  BY <1>3, <1>4, <1>5, <1>6
<1>8. \A n \in N, e \in Dirs : t.child[n][e] = x <=> n = t.parent[x] /\ e = Side(t, x)
  BY <1>2, WhoseChild
<1>9. Side(w, x) = Side(t, x)
  BY DEF Side
<1>10. \A n \in N, e \in Dirs :
         u.child[n][e] = IF n = x /\ e = Opp(d) THEN b ELSE IF n = y /\ e = d THEN x
                         ELSE IF t.child[n][e] = x THEN y ELSE t.child[n][e]
  BY <1>8, <1>9 DEF Rotated
<1>11. \A n \in N, e \in Dirs : t.child[n][e] = y => n = x /\ e = Opp(d)
  <2> SUFFICES ASSUME NEW n \in N, NEW e \in Dirs, t.child[n][e] = y
               PROVE  n = x /\ e = Opp(d)
    OBVIOUS
  <2>1. n = x
    BY <1>3, <1>4
  <2>2. t.child[x][d] # y
    BY <1>1, <1>3
  <2> QED
    BY <1>1, <2>1, <2>2
<1>12. \A n \in N, e \in Dirs :
         /\ t.child[n][e] \in N \cup {Nil} /\ t.child[n][e] # n
         /\ t.child[n][e] # Nil => t.parent[t.child[n][e]] = n /\ t.child[n][e] # t.child[n][Opp(e)]
         /\ u.child[n][e] = IF n = x /\ e = Opp(d) THEN b ELSE IF n = y /\ e = d THEN x
                            ELSE IF t.child[n][e] = x THEN y ELSE t.child[n][e]
         /\ t.child[n][e] = y => n = x /\ e = Opp(d)
  <2> SUFFICES ASSUME NEW n \in N, NEW e \in Dirs
               PROVE  /\ t.child[n][e] \in N \cup {Nil} /\ t.child[n][e] # n
                      /\ t.child[n][e] # Nil => t.parent[t.child[n][e]] = n /\ t.child[n][e] # t.child[n][Opp(e)]
                      /\ u.child[n][e] = IF n = x /\ e = Opp(d) THEN b ELSE IF n = y /\ e = d THEN x
                                         ELSE IF t.child[n][e] = x THEN y ELSE t.child[n][e]
                      /\ t.child[n][e] = y => n = x /\ e = Opp(d)
    OBVIOUS
  <2>1. /\ t.child[n][e] \in N \cup {Nil} /\ t.child[n][e] # n
        /\ t.child[n][e] # Nil => t.parent[t.child[n][e]] = n /\ t.child[n][e] # t.child[n][Opp(e)]
    BY <1>3
  <2>2. u.child[n][e] = IF n = x /\ e = Opp(d) THEN b ELSE IF n = y /\ e = d THEN x
                        ELSE IF t.child[n][e] = x THEN y ELSE t.child[n][e]
    BY <1>10
  <2>3. t.child[n][e] = y => n = x /\ e = Opp(d)
    BY <1>11
  <2> QED
    BY <2>1, <2>2, <2>3
<1> QED
  BY <1>1, <1>4, <1>7, <1>12, Zenon DEF Relinked

(* The parent of the node that goes down gets the one that rises. *)
LEMMA ChildRelinked ==
  ASSUME NEW t, NEW N, NEW x, NEW d, NEW y, NEW b, NEW u, Relinked(t, N, x, d, y, b, u)
  PROVE  \A n \in N, e \in Dirs : n # x /\ n # y /\ t.child[n][e] = x => u.child[n][e] = y
<1>1. \A n \in N, e \in Dirs :
        u.child[n][e] = IF n = x /\ e = Opp(d) THEN b ELSE IF n = y /\ e = d THEN x
                        ELSE IF t.child[n][e] = x THEN y ELSE t.child[n][e]
  BY DEF Relinked
<1> QED
  BY <1>1

(* The first rotation of Put: z, which is on the inner side of its red     *)
(* parent p, rises over it, and p is the node under repair.                *)
LEMMA InnerRotated ==
  ASSUME NEW t, NEW N \in SUBSET Keys, Good(t, N), NEW z \in N, NEW p \in N, NEW g \in N, NEW d \in Dirs,
         t.child[p][Opp(d)] = z, t.child[g][d] = p, t.color[p] = "red", p # z, g # p, g # z,
         NEW u, u = Rotate(t, p, d)
  PROVE  /\ Good(u, N) /\ u.root = t.root /\ u.color = t.color
         /\ u.parent[p] = z /\ u.child[z][d] = p /\ u.child[g][d] = z /\ u.child[g][Opp(d)] = t.child[g][Opp(d)]
         /\ Balanced(t, N, z) /\ t.color[z] = "red" => Balanced(u, N, p)
<1> DEFINE b == t.child[z][d]
<1>1. z # Nil /\ Nil \notin N /\ z \in N \cup {Nil} /\ b = t.child[z][d] /\ t \in Linking
  BY GoodNode DEF Good
<1> HIDE DEF b
<1>2. Good(u, N) /\ Rotated(t, p, d, z, b, u)
  BY <1>1, RotateGood
<1>3. Relinked(t, N, p, d, z, b, u)
  BY <1>1, <1>2, RotateRelinks
<1>4. Opp(d) \in Dirs /\ Opp(d) # d /\ Dirs = {d, Opp(d)} /\ Opp(Opp(d)) = d /\ b # p /\ b # z
  BY <1>3 DEF Relinked
<1>5. t.parent[p] = g /\ t.parent[p] # Nil /\ t.parent[z] = p
  BY <1>1, <1>3, <1>4 DEF Relinked
<1>6. u.root = t.root /\ u.color = t.color /\ u.parent[p] = z
  BY <1>2, <1>4, <1>5 DEF Rotated
<1>7. u.child[z][d] = p /\ u.child[g][d] = z
  BY <1>3, <1>4 DEF Relinked
<1>8. t.child[g][Opp(d)] # p
  BY <1>1, <1>3, <1>4 DEF Relinked
<1>9. u.child[g][Opp(d)] = t.child[g][Opp(d)]
  BY <1>3, <1>4, <1>8 DEF Relinked
<1>10. ASSUME Balanced(t, N, z), t.color[z] = "red"
       PROVE  Balanced(u, N, p)
  <2>1. PICK h : Heights(t, N, h)
    BY <1>10 DEF Balanced
  <2>2. Exchanged(t, p, z, t)
    BY <1>1, <1>10 DEF Exchanged
  <2>3. \E f : Heights(u, N, f)
    BY <1>1, <1>2, <1>10, <2>1, <2>2, RotateHeights
  <2>4. t.color[g] # "red"
    BY <1>1, <1>10 DEF Balanced, NoReds, IsRed
  <2>5. NoReds(u, N, p)
    <3> SUFFICES ASSUME NEW n \in N, NEW e \in Dirs, u.color[n] = "red", IsRed(u, u.child[n][e]), u.child[n][e] # p
                 PROVE  FALSE
      BY DEF NoReds
    <3>1. t.color[n] = "red" /\ n # g /\ IsRed(t, u.child[n][e])
      BY <1>6, <2>4 DEF IsRed
    <3>2. \A m \in N, c \in Dirs : t.color[m] = "red" /\ IsRed(t, t.child[m][c]) => t.child[m][c] = z
      BY <1>10 DEF Balanced, NoReds
    <3>3. CASE n = p /\ e = Opp(d)
      <4>1. u.child[n][e] = t.child[z][d]
        BY <1>1, <1>3, <3>3 DEF Relinked
      <4> QED
        BY <1>1, <1>4, <1>10, <3>1, <3>2, <4>1
    <3>4. CASE ~ (n = p /\ e = Opp(d))
      <4>1. u.child[n][e] = t.child[n][e]
        BY <1>1, <1>3, <1>4, <1>5, <3>1, <3>4 DEF Relinked
      <4>2. t.child[n][e] = z
        BY <3>1, <3>2, <4>1
      <4> QED
        BY <1>3, <3>4, <4>2 DEF Relinked
    <3> QED
      BY <3>3, <3>4
  <2> QED
    BY <2>3, <2>5 DEF Balanced
<1> QED
  BY <1>2, <1>6, <1>7, <1>9, <1>10

(* The second: the red parent p rises over the grandparent g.              *)
LEMMA OuterRotated ==
  ASSUME NEW t, NEW N \in SUBSET Keys, Good(t, N), NEW z \in N, NEW p \in N, NEW g \in N, NEW d \in Dirs,
         t.child[p][d] = z, t.child[g][d] = p, RootBlack(t, g) \/ g = t.root,
         NEW u, u = Rotate(Paint(Paint(t, p, "black"), g, "red"), g, Opp(d))
  PROVE  /\ Good(u, N) /\ RootBlack(u, z) /\ u.parent[z] = p
         /\ \A n \in Keys : u.color[n] = IF n = g THEN "red" ELSE IF n = p THEN "black" ELSE t.color[n]
         /\ Balanced(t, N, z) /\ t.color[p] = "red" /\ t.color[z] = "red" /\ ~ IsRed(t, t.child[g][Opp(d)])
              => Balanced(u, N, z)
<1> DEFINE o == Opp(d)
           w1 == Paint(t, p, "black")
           w == Paint(w1, g, "red")
           b == t.child[p][o]
<1>1. z # Nil /\ p # Nil /\ Nil \notin N /\ b = t.child[p][o] /\ t \in Linking /\ "red" \in Colors /\ "black" \in Colors
  BY GoodNode DEF Good, Colors
<1>2. o \in Dirs /\ o # d /\ Dirs = {d, o} /\ Opp(o) = d
  BY Directions
<1>3. Good(w1, N) /\ Painted(t, p, "black", w1)
  BY <1>1, PaintGood
<1> HIDE DEF w1
<1>4. Good(w, N) /\ Painted(w1, g, "red", w)
  BY <1>1, <1>3, PaintGood
<1> HIDE DEF w, b
<1>5. w.child = t.child /\ w.parent = t.parent /\ w.root = t.root /\ w \in Linking
      /\ \A n \in Keys : w.color[n] = IF n = g THEN "red" ELSE IF n = p THEN "black" ELSE t.color[n]
  BY <1>3, <1>4 DEF Painted
<1>6. u = Rotate(w, g, o) /\ p = w.child[g][Opp(o)] /\ b = w.child[p][o]
  BY <1>1, <1>2, <1>5 DEF w, w1, o
<1> HIDE DEF o
<1>7. Good(u, N) /\ Rotated(w, g, o, p, b, u)
  BY <1>1, <1>2, <1>4, <1>6, RotateGood
<1>8. p = t.child[g][Opp(o)] /\ b = t.child[p][o]
  BY <1>5, <1>6
<1>9. Relinked(t, N, g, o, p, b, u)
  BY <1>1, <1>2, <1>5, <1>7, <1>8, RotateRelinks
<1>10. p # g /\ p # t.root /\ b # p /\ b # g /\ z # b /\ z # g /\ t.parent[z] = p
  <2>1. p # g /\ p # t.root /\ b # p /\ b # g
    BY <1>9 DEF Relinked
  <2>2. z # b /\ t.parent[z] = p
    BY <1>1, <1>2, <1>8, <1>9 DEF Relinked
  <2>3. t.parent[g] # p
    <3>1. t.parent[p] = g
      BY <1>1, <1>2, <1>8, <1>9 DEF Relinked
    <3> QED
      BY <2>1, <3>1, GoodNode DEF Sits
  <2> QED
    BY <2>1, <2>2, <2>3, GoodNode DEF Sits
<1>11. \A n \in Keys : u.color[n] = IF n = g THEN "red" ELSE IF n = p THEN "black" ELSE t.color[n]
  BY <1>5, <1>7 DEF Rotated
<1>12. RootBlack(u, z)
  <2>1. t.root \in N
    BY GoodNode
  <2>2. CASE g = t.root
    <3>1. u.root = p
      BY <1>5, <1>7, <2>2, GoodNode DEF Rotated, Sits
    <3> QED
      BY <1>10, <1>11, <3>1 DEF RootBlack
  <2>3. CASE g # t.root
    <3>1. u.root = t.root
      <4>1. t.parent[g] # Nil
        BY <2>3, GoodNode DEF Sits, HasParent
      <4> QED
        BY <1>5, <1>7, <4>1 DEF Rotated
    <3>2. t.color[t.root] = "black"
      BY <1>1, <2>1, <2>3 DEF RootBlack
    <3> QED
      BY <1>10, <1>11, <2>1, <2>3, <3>1, <3>2 DEF RootBlack
  <2> QED
    BY <2>2, <2>3
<1>13. ASSUME Balanced(t, N, z), t.color[p] = "red", t.color[z] = "red", ~ IsRed(t, t.child[g][Opp(d)])
       PROVE  Balanced(u, N, z)
  <2>1. PICK h : Heights(t, N, h)
    BY <1>13 DEF Balanced
  <2>2. \A m \in N, c \in Dirs : t.color[m] = "red" /\ IsRed(t, t.child[m][c]) => t.child[m][c] = z
    BY <1>13 DEF Balanced, NoReds
  <2>3. t.color[g] = "black"
    <3>1. t.color[g] # "red"
      <4>1. IsRed(t, t.child[g][d]) /\ t.child[g][d] # z
        BY <1>1, <1>2, <1>8, <1>9, <1>10, <1>13 DEF IsRed, Relinked
      <4> QED
        BY <2>2, <4>1
    <3> QED
      BY <1>1, <3>1 DEF Linking, Colors
  <2>4. Exchanged(t, g, p, w)
    BY <1>5, <1>10, <1>13, <2>3 DEF Exchanged
  <2>5. \E f : Heights(u, N, f)
    <3>1. Rotated(w, g, o, p, w.child[p][o], u)
      BY <1>6, <1>7
    <3> QED
      BY <1>1, <1>2, <1>8, <1>13, <2>1, <2>4, <3>1, RotateHeights
  <2>6. NoReds(u, N, z)
    <3> SUFFICES ASSUME NEW n \in N, NEW e \in Dirs, u.color[n] = "red", IsRed(u, u.child[n][e]), u.child[n][e] # z
                 PROVE  FALSE
      BY DEF NoReds
    <3>1. n # p
      BY <1>10, <1>11
    <3>2. CASE n = g /\ e = d
      <4>1. u.child[n][e] = b
        BY <1>2, <1>9, <3>2 DEF Relinked
      <4>2. b = t.child[p][o] /\ b \in N \cup {Nil} /\ b # p /\ b # g
        BY <1>8, <1>9 DEF Relinked
      <4>3. b # Nil /\ u.color[b] = "red"
        BY <4>1 DEF IsRed
      <4>4. IsRed(t, t.child[p][o])
        BY <1>10, <1>11, <4>2, <4>3 DEF IsRed
      <4> QED
        BY <1>2, <1>10, <1>13, <2>2, <4>2, <4>4
    <3>3. CASE n = g /\ e = o
      <4>1. t.child[g][o] \notin {g, p} /\ t.child[g][o] \in N \cup {Nil}
        BY <1>1, <1>2, <1>9 DEF Relinked
      <4>2. u.child[n][e] = t.child[g][o]
        BY <1>1, <1>2, <1>9, <1>10, <3>3, <4>1 DEF Relinked
      <4>3. IsRed(t, t.child[g][o])
        BY <1>11, <4>1, <4>2 DEF IsRed
      <4> QED
        BY <1>13, <4>3 DEF o
    <3>4. CASE n # g
      <4>1. t.color[n] = "red"
        BY <1>11, <3>1, <3>4
      <4>2. t.child[n][e] # g
        BY <1>1, <1>9, <1>10, <1>11, <3>1, <3>4 DEF Relinked, IsRed
      <4>3. u.child[n][e] = t.child[n][e]
        BY <1>9, <3>1, <3>4, <4>2 DEF Relinked
      <4>4. t.child[n][e] # p /\ t.child[n][e] \in N \cup {Nil}
        BY <1>9, <3>4 DEF Relinked
      <4>5. IsRed(t, t.child[n][e])
        BY <1>11, <4>2, <4>3, <4>4 DEF IsRed
      <4> QED
        BY <2>2, <4>1, <4>3, <4>5
    <3> QED
      BY <1>2, <3>2, <3>3, <3>4
  <2> QED
    BY <2>5, <2>6 DEF Balanced
<1>14. u.parent[z] = p
  <2>1. z # p
    BY <1>9 DEF Relinked
  <2>2. z \in Keys /\ w.parent[z] = p
    BY <1>5, <1>10
  <2> QED
    BY <1>7, <1>10, <2>1, <2>2 DEF Rotated
<1> QED
  BY <1>7, <1>11, <1>12, <1>13, <1>14

LEMMA FixupRotateInv ==
  ASSUME TreeInv, FixupRotate
  PROVE  TreeInv' /\ PutAtEnd'
<1> DEFINE t == Tree
           N == In(value)
           z == cursor
           p == t.parent[z]
           g == t.parent[p]
           d == Side(t, p)
           q == t.child[g][Opp(d)]
           inner == Side(t, z) # d
           z2 == IF inner THEN p ELSE z
           t2 == IF inner THEN Rotate(t, p, d) ELSE t
           p2 == t2.parent[z2]
           u == Rotate(Paint(Paint(t2, p2, "black"), g, "red"), g, Opp(d))
<1>1. /\ Typed(value, pc, cursor, clean) /\ Good(t, N) /\ t \in Linking /\ N \in SUBSET Keys
      /\ t = Tree /\ RootBlack(t, z) /\ (clean => Repairable(t, N, pc, z))
  BY DEF TreeInv, Sound, Good, In
<1>2. /\ pc = "put" /\ IsRed(t, p) /\ ~ IsRed(t, q)
      /\ cursor' = z2 /\ value' = value /\ pc' = pc /\ clean' = clean
      /\ Become(u)
  BY DEF FixupRotate, Up, Uncle, Tree
<1> DEFINE P == p
           G == g
           D == d
<1>3. P = t.parent[z] /\ G = t.parent[P] /\ D = Side(t, P) /\ IsRed(t, P) /\ ~ IsRed(t, t.child[G][Opp(D)])
  BY <1>2
<1>4. /\ z2 = IF Side(t, z) # D THEN P ELSE z
      /\ t2 = IF Side(t, z) # D THEN Rotate(t, P, D) ELSE t
      /\ u = Rotate(Paint(Paint(t2, p2, "black"), G, "red"), G, Opp(D))
  OBVIOUS
<1>5. z \in N /\ Nil \notin Keys
  BY <1>1, <1>2, TreeAssumption DEF Typed
<1> HIDE DEF P, G, D, t, N, u, t2, z2
<1>6. /\ z # t.root /\ P \in N /\ P # t.root /\ G \in N /\ D \in Dirs /\ Side(t, z) \in Dirs
      /\ t.child[P][Side(t, z)] = z /\ t.child[G][D] = P /\ P # z /\ G # P /\ G # z
  <2>1. Elders(t, z, P, G, D)
    BY <1>3 DEF Elders
  <2> QED
    BY <1>1, <1>3, <1>5, <2>1, RedParent
<1>7. t.color[P] = "red"
  BY <1>3 DEF IsRed
<1> DEFINE Ready == /\ Good(t2, N) /\ t2.root = t.root /\ t2.color = t.color /\ z2 \in N /\ p2 \in N
                    /\ t2.child[p2][D] = z2 /\ t2.child[G][D] = p2
                    /\ t2.child[G][Opp(D)] = t.child[G][Opp(D)]
                    /\ {z2, p2} = {z, P}
                    /\ clean => Balanced(t2, N, z2)
<1>8. clean => Balanced(t, N, z) /\ t.color[z] = "red"
  BY <1>1, <1>2 DEF Repairable
<1>9. ASSUME Side(t, z) = D
      PROVE  Ready
  <2>1. z2 = z /\ t2 = t /\ p2 = P
    BY <1>3, <1>4, <1>9
  <2>2. Ready
    BY <1>1, <1>5, <1>6, <1>8, <1>9, <2>1
  <2> QED
    BY <2>2
<1>10. ASSUME Side(t, z) # D
       PROVE  Ready
  <2>1. z2 = P /\ t2 = Rotate(t, P, D)
    BY <1>4, <1>10
  <2>2. t.child[P][Opp(D)] = z
    BY <1>6, <1>10, Directions
  <2>3. /\ Good(t2, N) /\ t2.root = t.root /\ t2.color = t.color
        /\ t2.parent[P] = z /\ t2.child[z][D] = P /\ t2.child[G][D] = z /\ t2.child[G][Opp(D)] = t.child[G][Opp(D)]
        /\ Balanced(t, N, z) /\ t.color[z] = "red" => Balanced(t2, N, P)
    BY <1>1, <1>5, <1>6, <1>7, <2>1, <2>2, InnerRotated
  <2>4. Ready
    BY <1>5, <1>6, <1>8, <2>1, <2>3
  <2> QED
    BY <2>4
<1>11. Ready
  BY <1>9, <1>10
<1> DEFINE P2 == p2
<1>12. u = Rotate(Paint(Paint(t2, P2, "black"), G, "red"), G, Opp(D))
  BY <1>4
<1>13. /\ Good(t2, N) /\ t2.root = t.root /\ t2.color = t.color /\ z2 \in N /\ P2 \in N
       /\ t2.child[P2][D] = z2 /\ t2.child[G][D] = P2
       /\ t2.child[G][Opp(D)] = t.child[G][Opp(D)]
       /\ {z2, P2} = {z, P}
       /\ clean => Balanced(t2, N, z2)
  BY <1>11
<1> HIDE DEF P2, Ready
<1>14. RootBlack(t2, G)
  BY <1>1, <1>6, <1>13 DEF RootBlack
<1>15. /\ Good(u, N) /\ RootBlack(u, z2) /\ u.parent[z2] = P2
       /\ \A n \in Keys : u.color[n] = IF n = G THEN "red" ELSE IF n = P2 THEN "black" ELSE t2.color[n]
       /\ Balanced(t2, N, z2) /\ t2.color[P2] = "red" /\ t2.color[z2] = "red" /\ ~ IsRed(t2, t2.child[G][Opp(D)])
            => Balanced(u, N, z2)
  BY <1>1, <1>6, <1>12, <1>13, <1>14, OuterRotated
<1>16. ASSUME clean
       PROVE  Balanced(u, N, z2) /\ u.color[z2] = "red"
  <2>1. t2.color[P2] = "red" /\ t2.color[z2] = "red"
    BY <1>7, <1>8, <1>13, <1>16
  <2>2. ~ IsRed(t2, t2.child[G][Opp(D)])
    BY <1>3, <1>13 DEF IsRed
  <2>3. z2 # P2 /\ z2 \in Keys
    BY <1>1, <1>6, <1>13
  <2> QED
    BY <1>13, <1>15, <1>16, <2>1, <2>2, <2>3
<1>17. Tree' = u
  BY <1>2, <1>15, Becomes DEF Good
<1>18. Typed(value', pc', cursor', clean')
  BY <1>1, <1>2, <1>5, <1>13 DEF Typed, N
<1>19. In(value') = N
  BY <1>2 DEF N
<1>20. Sound(Tree', value', pc', cursor', clean')
  BY <1>2, <1>15, <1>16, <1>17, <1>18, <1>19 DEF Sound, Repairable
<1>21. u.color[P2] = "black"
  BY <1>1, <1>6, <1>13, <1>15
<1>22. PutAtEnd'
  <2>1. Tree'.color[parent'[cursor']] = "black"
    <3>1. parent' = u.parent
      BY <1>2 DEF Become
    <3> QED
      BY <1>2, <1>15, <1>17, <1>21, <3>1
  <2> QED
    BY <2>1 DEF PutAtEnd, IsRed, Up
<1> QED
  BY <1>20, <1>22 DEF TreeInv

LEMMA DeleteInv ==
  ASSUME TreeInv, NEW k \in Keys, Delete(k)
  PROVE  TreeInv'
<1> DEFINE t == Tree
           N == In(value)
           x == Follows(k)
           y == Leaves(k)
           short == t.color[y] = "black"
           v == Without(k)
           w == [v EXCEPT !.child[k] = NoLinks, !.parent[k] = Nil, !.color[k] = "red"]
<1>1. /\ Typed(value, pc, cursor, clean) /\ Good(t, N) /\ t \in Linking /\ N \in SUBSET Keys
      /\ t = Tree /\ RootBlack(t, cursor) /\ (clean => Repairable(t, N, pc, cursor))
  BY DEF TreeInv, Sound, Good, In
<1>2. /\ pc = "idle" /\ Found(k) /\ Become(w) /\ value' = [value EXCEPT ![k] = Nil]
      /\ clean' = (v.root = Nil \/ (clean /\ (short => x # Nil)))
      /\ pc' = IF short /\ x # Nil THEN "delete" ELSE "idle"
      /\ cursor' = IF short THEN x ELSE Nil
  BY DEF Delete, Begins, Tree
<1>3. PICK s : Whole(t, N, s)
  BY <1>1 DEF Good
<1>4. k \in N /\ cursor = Nil /\ Nil \notin Keys
  <2>1. k \in N
    BY <1>1, <1>2, <1>3, LookupIs
  <2> QED
    BY <1>1, <1>2, <2>1, TreeAssumption DEF Typed
<1> HIDE DEF t, N
<1>5. \/ y = k /\ OneLeaves(t, k, x, v)
      \/ AnotherLeaves(t, s, k, y, x, v)
  BY <1>1, <1>3, <1>4, WithoutIs
<1> DEFINE Short == short
<1>6. /\ clean' = (v.root = Nil \/ (clean /\ (Short => x # Nil)))
      /\ pc' = IF Short /\ x # Nil THEN "delete" ELSE "idle"
      /\ cursor' = IF Short THEN x ELSE Nil
      /\ Short = (t.color[y] = "black")
  BY <1>2
<1>7. w = [v EXCEPT !.child[k] = NoLinks, !.parent[k] = Nil, !.color[k] = "red"]
  OBVIOUS
<1> HIDE DEF x, y, v, w, Short
<1>8. v \in Linking /\ (\E q : Whole(v, N \ {k}, q)) /\ Loose(v, N) /\ x \in (N \ {k}) \cup {Nil}
  <2>1. OneLeaves(t, k, x, v) => Freed(t, N, k, x, v)
    BY <1>1, <1>4, OneLeavesGood
  <2>2. AnotherLeaves(t, s, k, y, x, v) => Freed(t, N, k, x, v)
    BY <1>1, <1>3, <1>4, AnotherLeavesGood
  <2> QED
    BY <1>5, <2>1, <2>2 DEF Freed
<1>9. Erased(v, k, w)
  BY <1>7, <1>8, ErasedIs
<1>10. Good(w, N \ {k})
  BY <1>1, <1>4, <1>8, <1>9, ErasedGood
<1>11. Tree' = w
  BY <1>2, <1>10, Becomes DEF Good
<1>12. RootBlack(v, cursor') /\ v.root # k
  <2>1. RootBlack(t, Nil) /\ t.root \in Keys \cup {Nil}
    BY <1>1, <1>4 DEF Linking
  <2>2. CASE y = k /\ OneLeaves(t, k, x, v)
    <3>1. PICK d \in Dirs : Transplanted(t, k, x, v)
      BY <2>2 DEF OneLeaves
    <3>2. t.parent[k] = Nil <=> k = t.root
      BY <1>1, <1>4, GoodNode DEF Sits, HasParent
    <3>3. CASE k = t.root
      <4>1. v.root = x /\ Short
        BY <1>4, <1>6, <2>1, <2>2, <3>1, <3>2, <3>3 DEF Transplanted, RootBlack
      <4> QED
        BY <1>4, <1>6, <1>8, <4>1 DEF RootBlack
    <3>4. CASE k # t.root
      <4>1. v.root = t.root /\ v.color = t.color
        BY <3>1, <3>2, <3>4 DEF Transplanted
      <4> QED
        BY <2>1, <3>4, <4>1 DEF RootBlack
    <3> QED
      BY <3>3, <3>4
  <2>3. CASE AnotherLeaves(t, s, k, y, x, v)
    <3>1. Displaced(t, k, y, x, t.child[k]["left"], t.child[k]["right"], v)
      BY <2>3 DEF AnotherLeaves
    <3>2. y \in N \ {k} /\ y # t.root
      BY <1>1, <1>3, <1>4, <2>3, AnotherLeavesGood
    <3>3. t.parent[k] = Nil <=> k = t.root
      BY <1>1, <1>4, GoodNode DEF Sits, HasParent
    <3>4. v.root = IF k = t.root THEN y ELSE t.root
      BY <3>1, <3>3 DEF Displaced
    <3>5. \A m \in Keys : v.color[m] = IF m = y THEN t.color[k] ELSE t.color[m]
      BY <3>1 DEF Displaced
    <3> QED
      BY <1>1, <1>4, <2>1, <3>2, <3>4, <3>5 DEF RootBlack
  <2> QED
    BY <1>5, <2>2, <2>3
<1>13. RootBlack(w, cursor')
  <2>1. w.root = v.root /\ v.root \in Keys \cup {Nil}
    BY <1>8, <1>9 DEF Erased, Linking
  <2> QED
    BY <1>9, <1>12, <2>1 DEF RootBlack, Erased
<1>14. In(value') = N \ {k} /\ value' \in [Keys -> Vals \cup {Nil}]
  BY <1>1, <1>2 DEF In, Typed, N
<1>15. Typed(value', pc', cursor', clean')
  BY <1>1, <1>2, <1>6, <1>8, <1>14 DEF Typed
<1>16. ASSUME v.root = Nil
       PROVE  N \ {k} = {} /\ pc' = "idle" /\ Balanced(w, {}, Nil)
  <2>1. N \ {k} = {}
    BY <1>8, <1>16, WholeRoot
  <2>2. x = Nil
    BY <1>8, <2>1
  <2>3. Heights(w, {}, [n \in {Nil} |-> 0])
    BY DEF Heights
  <2> QED
    BY <1>6, <2>1, <2>2, <2>3 DEF Balanced, NoReds
<1>17. ASSUME clean, Short => x # Nil
       PROVE  Repairable(w, N \ {k}, pc', cursor')
  <2>1. Balanced(t, N, Nil)
    BY <1>1, <1>2, <1>17 DEF Repairable
  <2> DEFINE f == IF Short THEN Paint(v, x, "black") ELSE v
  <2>2. Filled(v, x, t.color[y], f)
    <3>1. Painted(v, x, "black", Paint(v, x, "black"))
      BY <1>1, <1>8, PaintIs DEF Colors
    <3> QED
      BY <1>6, <3>1 DEF Painted, Filled
  <2> HIDE DEF f
  <2>4. Balanced(f, N \ {k}, Nil) /\ (Short => v.color[x] = "red")
    <3>1. CASE y = k /\ OneLeaves(t, k, x, v)
      <4>1. OneLeaves(t, k, x, v) /\ Filled(v, x, t.color[k], f) /\ (t.color[k] = "black" => x # Nil)
            /\ Short = (t.color[k] = "black")
        BY <1>6, <1>17, <2>2, <3>1
      <4> QED
        BY <1>1, <1>4, <2>1, <4>1, OneLeavesBalanced
    <3>2. CASE AnotherLeaves(t, s, k, y, x, v)
      <4>1. t.color[y] = "black" => x # Nil
        BY <1>6, <1>17
      <4> QED
        <5>1. Balanced(f, N \ {k}, Nil) /\ (t.color[y] = "black" => v.color[x] = "red")
          BY <1>1, <1>3, <1>4, <2>1, <2>2, <3>2, <4>1, AnotherLeavesBalanced
        <5> QED
          BY <1>6, <5>1
    <3> QED
      BY <1>5, <3>1, <3>2
  <2>5. \A n \in N \ {k}, d \in Dirs : w.child[n][d] \in (N \ {k}) \cup {Nil}
    <3>1. N \ {k} \in SUBSET Keys
      BY <1>1
    <3> QED
      BY <1>10, <3>1, GoodNode DEF Sits, ChildOf
  <2>6. CASE Short
    <3>1. x \in N \ {k} /\ cursor' = x /\ pc' = "delete"
      BY <1>6, <1>8, <1>17, <2>6
    <3>2. Painted(w, x, "black", Paint(w, x, "black"))
      BY <1>1, <1>10, <3>1, PaintIs DEF Colors, Good
    <3> DEFINE e == Paint(w, x, "black")
    <3>3. t.color[y] = "black"
      BY <1>6, <2>6
    <3>4. \A n \in N \ {k} : e.color[n] = f.color[n]
                             /\ \A d \in Dirs : e.child[n][d] = f.child[n][d] /\ f.child[n][d] \in (N \ {k}) \cup {Nil}
      BY <1>1, <1>9, <2>2, <2>5, <3>2, <3>3 DEF Painted, Filled, Erased
    <3> HIDE DEF e
    <3>5. Balanced(e, N \ {k}, Nil)
      BY <2>4, <3>4, BalancedSame
    <3>6. w.color[x] = "red"
      BY <1>1, <1>9, <2>4, <2>6, <3>1 DEF Erased
    <3> QED
      BY <3>1, <3>5, <3>6 DEF Repairable, e
  <2>7. CASE ~ Short
    <3>1. cursor' = Nil /\ pc' = "idle"
      BY <1>6, <2>7
    <3>2. \A n \in N \ {k} : w.color[n] = v.color[n] /\ w.child[n] = v.child[n]
      BY <1>1, <1>9 DEF Erased
    <3>3. \A n \in N \ {k} : f.color[n] = v.color[n] /\ f.child[n] = v.child[n]
      BY <1>1, <1>6, <2>2, <2>7 DEF Filled
    <3>4. \A n \in N \ {k} : w.color[n] = f.color[n]
                             /\ \A d \in Dirs : w.child[n][d] = f.child[n][d] /\ f.child[n][d] \in (N \ {k}) \cup {Nil}
      BY <2>5, <3>2, <3>3
    <3>5. Balanced(w, N \ {k}, Nil)
      BY <2>4, <3>4, BalancedSame
    <3> QED
      BY <3>1, <3>5 DEF Repairable
  <2> QED
    BY <2>6, <2>7
<1>18. clean' => Repairable(w, N \ {k}, pc', cursor')
  <2>1. v.root = Nil => Repairable(w, N \ {k}, pc', cursor')
    BY <1>16 DEF Repairable
  <2> QED
    BY <1>6, <1>17, <2>1
<1>19. Sound(Tree', value', pc', cursor', clean')
  BY <1>10, <1>11, <1>13, <1>14, <1>15, <1>18 DEF Sound
<1> QED
  BY <1>19 DEF TreeInv

-----------------------------------------------------------------------------
(* The rounds of the repair after a Delete.  In a clean tree there is none *)
(* but the last.                                                           *)

(* x, which is not the root, below p on side d, in a tree u of black root. *)
Below(u, N, x, p, d) ==
  /\ Good(u, N) /\ RootBlack(u, Nil) /\ x \in N /\ p \in N /\ d \in Dirs /\ u.child[p][d] = x

LEMMA LevelledIs ==
  ASSUME NEW t, t = Tree, NEW N \in SUBSET Keys, Good(t, N), NEW x \in N, x = cursor, x # t.root, RootBlack(t, x),
         NEW p, p = t.parent[x], NEW d, d = Side(t, x)
  PROVE  /\ Below(Levelled, N, x, p, d)
         /\ IF IsRed(t, t.child[p][Opp(d)]) THEN Levelled.color[p] = "red" ELSE Levelled = t
<1>1. /\ p \in N /\ p # Nil /\ p # x /\ d \in Dirs /\ t.child[p][d] = x
      /\ Nil \notin N /\ t \in Linking /\ t.root \in N
  BY GoodNode DEF Sits, HasParent, Good
<1> DEFINE w == t.child[p][Opp(d)]
           w1 == Paint(t, w, "black")
           w2 == Paint(w1, p, "red")
           u == Rotate(w2, p, d)
<1>2. Levelled = IF IsRed(t, w) THEN u ELSE t
  BY DEF Levelled, Up, Tree
<1>3. t.color[t.root] = "black"
  BY <1>1 DEF RootBlack
<1>4. CASE ~ IsRed(t, w)
  BY <1>1, <1>2, <1>3, <1>4 DEF Below, RootBlack
<1>5. CASE IsRed(t, w)
  <2> DEFINE W == w
  <2>1. W = t.child[p][Opp(d)] /\ W # Nil
    BY <1>5 DEF IsRed
  <2>2. Opp(d) \in Dirs
    BY <1>1, Directions
  <2> HIDE DEF W
  <2>3. W \in Keys \cup {Nil} /\ "red" \in Colors /\ "black" \in Colors
    BY <1>1, <2>1, <2>2 DEF Linking, Colors
  <2>4. Good(w1, N) /\ Painted(t, W, "black", w1)
    BY <2>3, PaintGood DEF W
  <2> HIDE DEF w1
  <2>5. Good(w2, N) /\ Painted(w1, p, "red", w2)
    BY <1>1, <2>3, <2>4, PaintGood
  <2> HIDE DEF w2
  <2>6. w2.child = t.child /\ w2.parent = t.parent /\ w2.root = t.root
        /\ \A n \in Keys : w2.color[n] = IF n = p THEN "red" ELSE IF n = W THEN "black" ELSE t.color[n]
    BY <2>4, <2>5 DEF Painted
  <2> DEFINE b == t.child[W][d]
  <2>7. W = w2.child[p][Opp(d)] /\ b = w2.child[W][d] /\ b = t.child[W][d]
    BY <2>1, <2>6
  <2> HIDE DEF u, b
  <2>8. Good(u, N) /\ Rotated(w2, p, d, W, b, u)
    BY <1>1, <2>1, <2>5, <2>7, RotateGood DEF u
  <2>9. Relinked(t, N, p, d, W, b, u)
    BY <1>1, <2>1, <2>6, <2>7, <2>8, RotateRelinks
  <2>10. u.child[p][d] = x
    BY <1>1, <2>9 DEF Relinked
  <2>11. RootBlack(u, Nil)
    <3>1. u.root = IF p = t.root THEN W ELSE t.root
      <4>1. t.parent[p] = Nil <=> p = t.root
        BY <1>1, GoodNode DEF Sits, HasParent
      <4> QED
        BY <2>6, <2>8, <4>1 DEF Rotated
    <3>2. W \in N /\ W # p /\ W # t.root
      BY <2>9 DEF Relinked
    <3>3. \A n \in Keys : u.color[n] = IF n = p THEN "red" ELSE IF n = W THEN "black" ELSE t.color[n]
      BY <2>6, <2>8 DEF Rotated
    <3> QED
      BY <1>1, <1>3, <3>1, <3>2, <3>3 DEF RootBlack
  <2>12. u.color[p] = "red"
    BY <1>1, <2>6, <2>8 DEF Rotated
  <2> QED
    BY <1>1, <1>2, <1>5, <2>8, <2>10, <2>11, <2>12 DEF Below
<1> QED
  BY <1>4, <1>5

(* What a step of a repair of Delete has to show where the tree is not clean. *)
LEMMA UncleanStep ==
  ASSUME TreeInv, Repairing, NEW u, Good(u, In(value)), Become(u), cursor' \in In(value), RootBlack(u, cursor'),
         value' = value, pc' = pc, clean' = clean
  PROVE  TreeInv'
<1>1. Typed(value, pc, cursor, clean) /\ (clean => Repairable(Tree, In(value), pc, cursor)) /\ pc = "delete"
  BY DEF TreeInv, Sound, Repairing
<1>2. ~ clean
  <2>1. clean => cursor = root \/ color[cursor] = "red"
    BY <1>1 DEF Repairable, Tree
  <2> QED
    BY <2>1 DEF Repairing, AtEnd
<1>3. Tree' = u
  BY Becomes DEF Good
<1>4. Typed(value', pc', cursor', clean')
  BY <1>1, TreeAssumption DEF Typed, In
<1>5. Sound(Tree', value', pc', cursor', clean')
  BY <1>2, <1>3, <1>4 DEF Sound
<1> QED
  BY <1>5 DEF TreeInv

LEMMA RepairingIs ==
  ASSUME TreeInv, Repairing
  PROVE  /\ In(value) \in SUBSET Keys /\ cursor \in In(value) /\ cursor # root /\ color[cursor] # "red"
         /\ Below(Levelled, In(value), cursor, Up(cursor), Side(Tree, cursor))
         /\ IF IsRed(Tree, child[Up(cursor)][Opp(Side(Tree, cursor))])
            THEN Levelled.color[Up(cursor)] = "red" ELSE Levelled = Tree
<1>1. /\ Good(Tree, In(value)) /\ In(value) \in SUBSET Keys /\ RootBlack(Tree, cursor)
      /\ Typed(value, pc, cursor, clean) /\ Tree.root = root /\ Tree.parent = parent
  BY DEF TreeInv, Sound, In, Tree
<1>2. cursor \in In(value) /\ cursor # root /\ color[cursor] # "red"
  BY <1>1 DEF Repairing, AtEnd, Typed
<1> DEFINE p == Up(cursor)
           d == Side(Tree, cursor)
           N == In(value)
           t == Tree
<1>3. p = t.parent[cursor] /\ d = Side(t, cursor) /\ t = Tree
  BY <1>1 DEF Up
<1> HIDE DEF p, d, t, N
<1>4. /\ Below(Levelled, N, cursor, p, d)
      /\ IF IsRed(t, t.child[p][Opp(d)]) THEN Levelled.color[p] = "red" ELSE Levelled = t
  BY <1>1, <1>2, <1>3, LevelledIs DEF t, N
<1>5. t.child = child
  BY DEF t, Tree
<1> QED
  BY <1>1, <1>2, <1>4, <1>5 DEF p, d, N, t

LEMMA FixupSpinInv ==
  ASSUME TreeInv, FixupSpin
  PROVE  TreeInv'
<1>1. Repairing /\ Become(Levelled) /\ value' = value /\ pc' = pc /\ cursor' = cursor /\ clean' = clean
  BY DEF FixupSpin
<1>2. cursor \in In(value) /\ Good(Levelled, In(value)) /\ RootBlack(Levelled, Nil)
  BY <1>1, RepairingIs DEF Below
<1>3. RootBlack(Levelled, cursor')
  BY <1>2 DEF RootBlack
<1> QED
  BY <1>1, <1>2, <1>3, UncleanStep

LEMMA FixupDeleteEndInv ==
  ASSUME TreeInv, FixupDeleteEnd
  PROVE  TreeInv'
<1> DEFINE t == Tree
           N == In(value)
           x == cursor
           u == Paint(t, x, "black")
<1>1. /\ Typed(value, pc, cursor, clean) /\ Good(t, N) /\ t \in Linking /\ N \in SUBSET Keys
      /\ t = Tree /\ RootBlack(t, x) /\ (clean => Repairable(t, N, pc, x))
  BY DEF TreeInv, Sound, Good, In
<1>2. /\ pc = "delete" /\ color' = [t.color EXCEPT ![x] = "black"]
      /\ cursor' = Nil /\ value' = value /\ pc' = "idle" /\ clean' = clean
      /\ root' = t.root /\ child' = t.child /\ parent' = t.parent
  BY DEF FixupDeleteEnd, Tree
<1>3. x \in N
  BY <1>1, <1>2 DEF Typed
<1> HIDE DEF t, N
<1>4. Good(u, N) /\ Painted(t, x, "black", u)
  BY <1>1, <1>3, PaintGood DEF Colors
<1>5. u.color = color'
  BY <1>2 DEF Paint
<1> DEFINE f == u
<1>6. f = Paint(t, x, "black")
  OBVIOUS
<1> HIDE DEF u, f
<1>7. Tree' = u
  BY <1>2, <1>4, <1>5, Becomes DEF Become, Painted
<1>8. RootBlack(u, Nil)
  BY <1>1, <1>3, <1>4, GoodNode DEF RootBlack, Painted
<1>9. clean => Balanced(u, N, Nil)
  BY <1>1, <1>2 DEF Repairable, u
<1>10. Typed(value', pc', cursor', clean')
  BY <1>1, <1>2 DEF Typed
<1>11. In(value') = N
  BY <1>2 DEF N
<1>12. Sound(Tree', value', pc', cursor', clean')
  BY <1>2, <1>4, <1>7, <1>8, <1>9, <1>10, <1>11 DEF Sound, Repairable
<1> QED
  BY <1>12 DEF TreeInv

(* Case 3 of the repair: the near child of the sibling w rises over it, so *)
(* that the red is on the far side.                                        *)
MadeFar(t, p, d, w, near, u) ==
  /\ w = t.child[p][Opp(d)] /\ w # Nil /\ near = t.child[w][d] /\ near # Nil
  /\ u = Rotate(Paint(Paint(t, near, "black"), w, "red"), w, Opp(d))

LEMMA RedMadeFar ==
  ASSUME NEW t, NEW N \in SUBSET Keys, Good(t, N), NEW p \in N, NEW d \in Dirs,
         NEW w, NEW near, NEW u, MadeFar(t, p, d, w, near, u)
  PROVE  Good(u, N) /\ u.child[p][Opp(d)] = near /\ near \in N
<1> DEFINE o == Opp(d)
           t1 == Paint(t, near, "black")
           t2 == Paint(t1, w, "red")
           b == t.child[near][o]
<1>1. o \in Dirs /\ o # d /\ Opp(o) = d /\ Dirs = {d, o} /\ o = Opp(d)
  BY Directions
<1> HIDE DEF o
<1>2. \A n \in N, e \in Dirs : /\ t.child[n][e] \in N \cup {Nil} /\ t.child[n][e] # n
                               /\ t.child[n][e] # Nil => t.parent[t.child[n][e]] = n /\ t.child[n][e] # t.root
  BY GoodNode DEF Sits, ChildOf
<1>3. /\ w \in N /\ w # p /\ near \in N /\ near # w
      /\ t.parent[w] = p /\ t.parent[near] = w /\ w # t.root
  <2>1. w = t.child[p][o] /\ near = t.child[w][d] /\ o \in Dirs /\ w # Nil /\ near # Nil
    BY <1>1 DEF MadeFar
  <2>2. w \in N /\ w # p /\ t.parent[w] = p /\ w # t.root
    BY <1>2, <2>1
  <2> QED
    BY <1>2, <2>1, <2>2
<1>4. near # p
  <2>1. Sits(t, N, w)
    BY <1>3, GoodNode
  <2>2. t.parent[t.parent[w]] # w
    BY <1>3, <2>1 DEF Sits
  <2> QED
    BY <1>3, <2>2
<1>5. Good(t1, N) /\ Painted(t, near, "black", t1)
  BY <1>3, PaintGood DEF Colors
<1> HIDE DEF t1
<1>6. Good(t2, N) /\ Painted(t1, w, "red", t2)
  BY <1>3, <1>5, PaintGood DEF Colors
<1>7. u = Rotate(t2, w, o)
  BY <1>1 DEF MadeFar, t1
<1> HIDE DEF t2, b
<1>8. t2.child = t.child /\ t2.parent = t.parent
  BY <1>5, <1>6 DEF Painted
<1>9. /\ near = t2.child[w][Opp(o)] /\ b = t2.child[near][o] /\ near = t.child[w][Opp(o)]
      /\ b = t.child[near][o] /\ near # Nil
  BY <1>1, <1>8 DEF b, MadeFar
<1>10. Good(u, N) /\ Rotated(t2, w, o, near, b, u)
  BY <1>1, <1>3, <1>6, <1>7, <1>9, RotateGood
<1>11. Relinked(t, N, w, o, near, b, u)
  BY <1>1, <1>3, <1>8, <1>9, <1>10, RotateRelinks
<1>12. u.child[p][o] = near
  <2>1. t.child[p][o] = w /\ o \in Dirs /\ p # w /\ p # near
    BY <1>1, <1>3, <1>4 DEF MadeFar
  <2>2. \A n \in N, e \in Dirs : n # w /\ n # near /\ t.child[n][e] = w => u.child[n][e] = near
    BY <1>11, ChildRelinked
  <2> QED
    BY <2>1, <2>2
<1> QED
  BY <1>1, <1>3, <1>10, <1>12

(* Case 4: the sibling v rises over p. *)
LEMMA BlackMovedNear ==
  ASSUME NEW t, NEW N \in SUBSET Keys, Good(t, N), NEW p \in N, NEW d \in Dirs,
         NEW v, v = t.child[p][Opp(d)], v # Nil,
         NEW u, u = Rotate(Paint(Paint(Paint(t, v, t.color[p]), p, "black"), t.child[v][Opp(d)], "black"), p, d)
  PROVE  Good(u, N)
<1> DEFINE f == t.child[v][Opp(d)]
           t1 == Paint(t, v, t.color[p])
           t2 == Paint(t1, p, "black")
           t3 == Paint(t2, f, "black")
<1>1. Opp(d) \in Dirs
  BY Directions
<1>2. v \in N
  BY <1>1, GoodNode DEF Sits, ChildOf
<1>3. f \in Keys \cup {Nil} /\ t.color[p] \in Colors /\ "black" \in Colors
  BY <1>1, <1>2 DEF Good, Linking, Colors
<1> HIDE DEF f
<1>4. Good(t1, N) /\ Painted(t, v, t.color[p], t1)
  BY <1>2, <1>3, PaintGood
<1> HIDE DEF t1
<1>5. Good(t2, N) /\ Painted(t1, p, "black", t2)
  BY <1>3, <1>4, PaintGood
<1> HIDE DEF t2
<1>6. Good(t3, N) /\ Painted(t2, f, "black", t3)
  BY <1>3, <1>5, PaintGood
<1>7. u = Rotate(t3, p, d)
  BY DEF t1, t2, f
<1> HIDE DEF t3
<1>8. v = t3.child[p][Opp(d)]
  BY <1>4, <1>5, <1>6 DEF Painted
<1> QED
  BY <1>6, <1>7, <1>8, RotateGood

LEMMA FixupDeleteInv ==
  ASSUME TreeInv, FixupDelete
  PROVE  TreeInv'
<1> DEFINE t == Levelled
           N == In(value)
           p == Up(cursor)
           d == Side(Tree, cursor)
           w == t.child[p][Opp(d)]
           near == t.child[w][d]
           far == t.child[w][Opp(d)]
           outer == IF IsRed(t, far) THEN t
                    ELSE Rotate(Paint(Paint(t, near, "black"), w, "red"), w, Opp(d))
           v == outer.child[p][Opp(d)]
           full == Paint(Paint(Paint(outer, v, outer.color[p]), p, "black"), outer.child[v][Opp(d)], "black")
           u == Rotate(full, p, d)
<1>1. /\ Repairing /\ w # Nil /\ value' = value /\ pc' = pc /\ clean' = clean
      /\ \/ Become(Paint(t, w, "red")) /\ cursor' = p
         \/ (IsRed(t, near) \/ IsRed(t, far)) /\ Become(u) /\ cursor' = root'
  BY DEF FixupDelete, ShortNow
<1>2. /\ N \in SUBSET Keys /\ Good(t, N) /\ RootBlack(t, Nil) /\ cursor \in N /\ p \in N /\ d \in Dirs
      /\ t.child[p][d] = cursor
  <2>1. /\ In(value) \in SUBSET Keys
        /\ Below(Levelled, In(value), cursor, Up(cursor), Side(Tree, cursor))
    BY <1>1, RepairingIs
  <2> QED
    BY <2>1 DEF Below
<1> DEFINE P == p
           D == d
           W == w
<1>3. W = t.child[P][Opp(D)] /\ P = p /\ D = d /\ W = w
  OBVIOUS
<1> HIDE DEF P, D, W
<1>4. outer = IF IsRed(t, t.child[W][Opp(D)]) THEN t
              ELSE Rotate(Paint(Paint(t, t.child[W][D], "black"), W, "red"), W, Opp(D))
  BY <1>3
<1>5. IsRed(t, near) => IsRed(t, t.child[W][D])
  BY <1>3
<1>6. IsRed(t, far) <=> IsRed(t, t.child[W][Opp(D)])
  BY <1>3
<1> DEFINE Outer == outer
           V == v
           Near == t.child[W][D]
<1>7. /\ V = Outer.child[P][Opp(D)]
      /\ u = Rotate(Paint(Paint(Paint(Outer, V, Outer.color[P]), P, "black"), Outer.child[V][Opp(D)], "black"), P, D)
      /\ Outer = IF IsRed(t, t.child[W][Opp(D)]) THEN t ELSE Rotate(Paint(Paint(t, Near, "black"), W, "red"), W, Opp(D))
      /\ Near = t.child[W][D]
  BY <1>3, <1>4
<1>8. (IsRed(t, near) \/ IsRed(t, far)) => IsRed(t, Near) \/ IsRed(t, t.child[W][Opp(D)])
  BY <1>5, <1>6
<1>9. /\ W # Nil
      /\ \/ Become(Paint(t, W, "red")) /\ cursor' = P
         \/ /\ IsRed(t, Near) \/ IsRed(t, t.child[W][Opp(D)])
            /\ Become(u) /\ cursor' = root'
  BY <1>1, <1>3, <1>8
<1>10. P \in N /\ D \in Dirs
  BY <1>2, <1>3
<1> HIDE DEF t, N, u, Outer, V, Near
<1>11. W \in N /\ W # t.root
  <2>1. Opp(D) \in Dirs
    BY <1>10, Directions
  <2> QED
    BY <1>2, <1>3, <1>9, <1>10, <2>1, GoodNode DEF Sits, ChildOf
<1>12. ASSUME Become(Paint(t, W, "red")), cursor' = P
       PROVE  TreeInv'
  <2> DEFINE r == Paint(t, W, "red")
  <2>1. Good(r, N) /\ Painted(t, W, "red", r)
    BY <1>2, <1>11, PaintGood DEF Colors
  <2>2. Become(r)
    BY <1>12
  <2> HIDE DEF r
  <2>3. RootBlack(r, cursor')
    BY <1>2, <1>11, <2>1, GoodNode DEF RootBlack, Painted
  <2> QED
    BY <1>1, <1>10, <1>12, <2>1, <2>2, <2>3, UncleanStep DEF N
<1>13. ASSUME IsRed(t, Near) \/ IsRed(t, t.child[W][Opp(D)]), Become(u), cursor' = root'
       PROVE  TreeInv'
  <2>1. Good(Outer, N) /\ V # Nil
    <3>1. CASE IsRed(t, t.child[W][Opp(D)])
      BY <1>2, <1>3, <1>7, <1>9, <3>1
    <3>2. CASE ~ IsRed(t, t.child[W][Opp(D)])
      <4>1. Near # Nil
        BY <1>13, <3>2 DEF IsRed
      <4>2. Outer = Rotate(Paint(Paint(t, Near, "black"), W, "red"), W, Opp(D))
        BY <1>7, <3>2
      <4>3. /\ N \in SUBSET Keys /\ Good(t, N) /\ P \in N /\ D \in Dirs
            /\ W = t.child[P][Opp(D)] /\ W # Nil /\ Near = t.child[W][D] /\ Near # Nil
        BY <1>2, <1>3, <1>7, <1>9, <1>10, <4>1
      <4>4. MadeFar(t, P, D, W, Near, Outer)
        BY <4>2, <4>3 DEF MadeFar
      <4>5. Good(Outer, N) /\ Outer.child[P][Opp(D)] = Near
        BY <4>3, <4>4, RedMadeFar
      <4> QED
        BY <1>7, <4>1, <4>5
    <3> QED
      BY <3>1, <3>2
  <2>2. Good(u, N)
    BY <1>2, <1>7, <1>10, <2>1, BlackMovedNear
  <2>3. root' = u.root
    BY <1>13 DEF Become
  <2>4. cursor' \in N
    BY <1>2, <1>13, <2>2, <2>3, GoodNode
  <2>5. RootBlack(u, cursor')
    BY <1>13, <2>3 DEF RootBlack
  <2> QED
    BY <1>1, <1>13, <2>2, <2>4, <2>5, UncleanStep DEF N
<1> QED
  BY <1>9, <1>12, <1>13

-----------------------------------------------------------------------------
LEMMA TreeInvStep ==
  ASSUME TreeInv, [Next]_vars
  PROVE  TreeInv'
<1>1. ASSUME NEW k \in Keys, Delete(k)
      PROVE  TreeInv'
  BY <1>1, DeleteInv
<1>2. ASSUME NEW k \in Keys, NEW v \in Vals, Put(k, v)
      PROVE  TreeInv'
  <2>1. CASE PutRoot(k, v)
    BY <2>1, PutRootInv
  <2>2. CASE PutOver(k, v)
    BY <2>2, PutOverInv
  <2>3. ASSUME NEW c \in EntryColors, PutLeaf(k, v, c)
        PROVE  TreeInv'
    BY <2>3, PutLeafInv
  <2> QED
    BY <1>2, <2>1, <2>2, <2>3 DEF Put
<1>3. CASE Fixup
  <2>1. CASE FixupRecolor
    BY <2>1, FixupRecolorInv
  <2>2. CASE FixupRotate
    BY <2>2, FixupRotateInv
  <2>3. CASE FixupPutEnd
    BY <2>3, FixupPutEndInv
  <2>4. CASE FixupSpin
    BY <2>4, FixupSpinInv
  <2>5. CASE FixupDelete
    BY <2>5, FixupDeleteInv
  <2>6. CASE FixupDeleteEnd
    BY <2>6, FixupDeleteEndInv
  <2> QED
    BY <1>3, <2>1, <2>2, <2>3, <2>4, <2>5, <2>6 DEF Fixup
<1>4. ASSUME UNCHANGED vars
      PROVE  TreeInv'
  <2>1. Tree' = Tree /\ value' = value /\ pc' = pc /\ cursor' = cursor /\ clean' = clean
    BY <1>4 DEF vars, links, Tree
  <2>2. Sound(Tree', value', pc', cursor', clean')
    BY <2>1 DEF TreeInv
  <2> QED
    BY <2>2 DEF TreeInv
<1> QED
  BY <1>1, <1>2, <1>3, <1>4 DEF Next

(* Put, Delete and each round of their repairs (entry.go) leave a search   *)
(* tree of the entries that were put and not deleted since, with parents   *)
(* that fit, and an entry that is out of the tree has no links; the root   *)
(* is black but under repair; and in a tree that is clean the blacks on    *)
(* all paths are as many, but for the one that a repair looks for, and no  *)
(* red node but the one under repair has a red parent.                     *)
THEOREM Inductive == Spec => []TreeInv
<1>1. Init => TreeInv
  BY InitInv
<1>2. TreeInv /\ [Next]_vars => TreeInv'
  BY TreeInvStep
<1> QED
  BY <1>1, <1>2, PTL DEF Spec

(* No call and no repair leaves a link to anything but an entry or nil,    *)
(* and a repair has a node that it works on, and no one else has           *)
(* (entry.go:384 to 779).                                                  *)
THEOREM Types == Spec => []TypeOK
<1>1. TreeInv => TypeOK
  BY InvType
<1> QED
  BY <1>1, Inductive, PTL

-----------------------------------------------------------------------------
(* The dictionary that the tree is.                                        *)
Map == [k \in {i \in Keys : Found(i)} |-> value[k]]
Held == [k \in In(value) |-> value[k]]

LEMMA MapIs == TreeInv => Map = Held
<1> SUFFICES ASSUME TreeInv
             PROVE  Map = Held
  OBVIOUS
<1>1. Good(Tree, In(value)) /\ In(value) \in SUBSET Keys
  BY DEF TreeInv, Sound, In
<1>2. PICK s : Whole(Tree, In(value), s)
  BY <1>1 DEF Good
<1>3. \A k \in Keys : Found(k) <=> k \in In(value)
  BY <1>1, <1>2, LookupIs DEF Good
<1>4. {i \in Keys : Found(i)} = In(value)
  BY <1>1, <1>3
<1> QED
  BY <1>4 DEF Map, Held

LEMMA HeldPut ==
  ASSUME TreeInv, NEW k \in Keys, NEW v \in Vals, value' = [value EXCEPT ![k] = v]
  PROVE  Held' = [i \in DOMAIN Held \cup {k} |-> IF i = k THEN v ELSE Held[i]]
<1>1. value \in [Keys -> Vals \cup {Nil}] /\ v # Nil
  BY TreeAssumption DEF TreeInv, Sound, Typed
<1>2. In(value') = In(value) \cup {k} /\ DOMAIN Held = In(value) /\ In(value) \subseteq Keys
  BY <1>1 DEF In, Held
<1>3. \A i \in In(value) : Held[i] = value[i]
  BY DEF Held
<1>4. \A i \in In(value') : value'[i] = IF i = k THEN v ELSE Held[i]
  BY <1>1, <1>2, <1>3
<1> QED
  BY <1>2, <1>4 DEF Held

LEMMA HeldDelete ==
  ASSUME TreeInv, NEW k \in Keys, value' = [value EXCEPT ![k] = Nil]
  PROVE  Held' = [i \in DOMAIN Held \ {k} |-> Held[i]]
<1>1. value \in [Keys -> Vals \cup {Nil}]
  BY DEF TreeInv, Sound, Typed
<1>2. In(value') = In(value) \ {k} /\ DOMAIN Held = In(value) /\ In(value) \subseteq Keys
  BY <1>1 DEF In, Held
<1>3. \A i \in In(value) : Held[i] = value[i]
  BY DEF Held
<1>4. \A i \in In(value') : value'[i] = Held[i]
  BY <1>1, <1>2, <1>3
<1> QED
  BY <1>2, <1>4 DEF Held

LEMMA MapStep ==
  ASSUME TreeInv, [Next]_vars, Map = Held, Map' = Held'
  PROVE  [Promise!Next]_(Map)
<1>1. ASSUME NEW k \in Keys, Delete(k)
      PROVE  Promise!Next
  <2>1. value' = [value EXCEPT ![k] = Nil]
    BY <1>1 DEF Delete
  <2>2. Map' = [i \in DOMAIN Map \ {k} |-> Map[i]]
    BY <2>1, HeldDelete
  <2>3. Promise!Delete(k)
    BY <2>2 DEF Promise!Delete, Map
  <2> QED
    BY <2>3 DEF Promise!Next
<1>2. ASSUME NEW k \in Keys, NEW v \in Vals, Put(k, v)
      PROVE  Promise!Next
  <2>1. value' = [value EXCEPT ![k] = v]
    BY <1>2 DEF Put, PutRoot, PutOver, PutLeaf
  <2>2. Held' = [i \in DOMAIN Held \cup {k} |-> IF i = k THEN v ELSE Held[i]]
    BY <2>1, HeldPut
  <2>3. Map' = [i \in DOMAIN Map \cup {k} |-> IF i = k THEN v ELSE Map[i]]
    BY <2>2
  <2>4. Promise!Put(k, v)
    BY <2>3 DEF Promise!Put, Map
  <2> QED
    BY <2>4 DEF Promise!Next
<1>3. CASE Fixup \/ UNCHANGED vars
  <2>1. value' = value
    BY <1>3 DEF Fixup, FixupRecolor, FixupRotate, FixupPutEnd, FixupSpin, FixupDelete, FixupDeleteEnd, vars
  <2>2. Held' = Held
    BY <2>1 DEF Held, In
  <2> QED
    BY <2>2
<1> QED
  BY <1>1, <1>2, <1>3 DEF Next

(* Put and Delete (entry.go:389, 563) do to the tree, as a lookup reads it, *)
(* what they do to a dictionary, and no round of a repair changes what a   *)
(* lookup finds.                                                           *)
THEOREM Refines == Spec => PromiseKept
<1>1. Init => Promise!Init
  <2> SUFFICES ASSUME Init
               PROVE  Map = [k \in {} |-> {}]
    BY DEF Promise!Init, Map
  <2>1. In(value) = {}
    BY DEF Init, In
  <2>2. Held = [k \in {} |-> {}]
    BY <2>1 DEF Held
  <2> QED
    BY <2>2, InitInv, MapIs
<1>2. (TreeInv => Map = Held)'
  BY MapIs, PTL
<1>3. TreeInv /\ TreeInv' /\ [Next]_vars => [Promise!Next]_([k \in {i \in Keys : Found(i)} |-> value[k]])
  BY <1>2, MapIs, MapStep DEF Map
<1> QED
  BY <1>1, <1>3, Inductive, PTL DEF Spec, PromiseKept, Promise!Spec

-----------------------------------------------------------------------------
(* What a visitor collects: level by level, from the leaves up.            *)

(* What holds at each level of nil, and of a node when at the level below  *)
(* it holds of its two children, holds of the root at the last level.      *)
LEMMA ByLevels ==
  ASSUME NEW t, NEW N \in SUBSET Keys, NEW s, Whole(t, N, s), NEW holds,
         \A i \in 0 .. Cardinality(Keys) : << i, Nil >> \in holds,
         \A i \in 1 .. Cardinality(Keys), n \in N :
           (\A d \in Dirs : << i - 1, t.child[n][d] >> \in holds) => << i, n >> \in holds
  PROVE  << Cardinality(Keys), t.root >> \in holds
<1> DEFINE C == Cardinality(Keys)
           Bad == {i \in 0 .. C : \E n \in N \cup {Nil} : Cardinality(s[n]) <= i /\ << i, n >> \notin holds}
<1>1. C \in Nat
  BY KeysFinite
<1>2. \A n \in N : Cardinality(s[n]) \in Nat /\ Cardinality(s[n]) <= C
  BY WholeSizes, Directions
<1>3. t.root \in N \cup {Nil} /\ Nil \notin N
  BY WholeRoot
<1>4. Bad = {}
  <2> SUFFICES ASSUME Bad # {}
               PROVE  FALSE
    OBVIOUS
  <2>1. PICK i \in Bad : \A j \in Bad : i <= j
    <3>1. Bad \subseteq Nat
      OBVIOUS
    <3> HIDE DEF Bad
    <3> QED
      BY <3>1, LeastNat
  <2>2. PICK n \in N \cup {Nil} : Cardinality(s[n]) <= i /\ << i, n >> \notin holds
    OBVIOUS
  <2>3. i \in 0 .. C /\ n \in N
    BY <2>2
  <2>4. \A d \in Dirs : /\ t.child[n][d] \in N \cup {Nil}
                        /\ Cardinality(s[t.child[n][d]]) \in Nat
                        /\ Cardinality(s[t.child[n][d]]) < Cardinality(s[n])
    <3>1. NodeIn(t, N, s, n)
      BY <2>3, WholeNode
    <3>2. \A d \in Dirs : Cardinality(s[t.child[n][d]]) < Cardinality(s[n])
      BY <2>3, WholeSizes
    <3>3. Cardinality(s[Nil]) \in Nat
      BY NilIsEmpty
    <3> QED
      BY <1>2, <3>1, <3>2, <3>3 DEF NodeIn, ChildOf
  <2>5. Cardinality(s[n]) \in Nat
    BY <1>2, <2>3
  <2>6. i \in 1 .. C /\ i - 1 \in 0 .. C /\ i - 1 < i
    <3>1. "left" \in Dirs
      BY Directions
    <3> QED
      BY <1>1, <2>2, <2>3, <2>4, <2>5, <3>1
  <2>7. \A d \in Dirs : << i - 1, t.child[n][d] >> \in holds
    <3> SUFFICES ASSUME NEW d \in Dirs
                 PROVE  << i - 1, t.child[n][d] >> \in holds
      OBVIOUS
    <3>1. Cardinality(s[t.child[n][d]]) <= i - 1
      BY <2>2, <2>3, <2>4, <2>5
    <3>2. i - 1 \notin Bad
      BY <2>1, <2>6
    <3> QED
      BY <2>4, <2>6, <3>1, <3>2
  <2> QED
    BY <2>2, <2>3, <2>6, <2>7
<1>5. C \in 0 .. C
  BY <1>1
<1>6. Cardinality(s[t.root]) <= C
  BY <1>1, <1>2, <1>3, NilIsEmpty
<1> QED
  BY <1>3, <1>4, <1>5, <1>6

(* A sequence of the elements of S, in order, each once. *)
Lists(q, S) ==
  /\ q \in Seq(Keys) /\ S = {q[i] : i \in 1 .. Len(q)}
  /\ \A i, j \in 1 .. Len(q) : i < j => q[i] < q[j]

LEMMA ListsJoin ==
  ASSUME NEW a, NEW A, Lists(a, A), NEW b, NEW B, Lists(b, B), NEW n \in Keys,
         \A m \in A : m < n, \A m \in B : n < m
  PROVE  Lists(a \o << n >> \o b, A \cup {n} \cup B)
<1> DEFINE q == a \o << n >> \o b
           la == Len(a)
           lb == Len(b)
<1>1. /\ a \in Seq(Keys) /\ b \in Seq(Keys) /\ la \in Nat /\ lb \in Nat
      /\ A = {a[i] : i \in 1 .. la} /\ B = {b[i] : i \in 1 .. lb}
      /\ \A i, j \in 1 .. la : i < j => a[i] < a[j]
      /\ \A i, j \in 1 .. lb : i < j => b[i] < b[j]
  BY DEF Lists
<1>2. Keys \subseteq Int
  BY TreeAssumption
<1>3. q \in Seq(Keys) /\ Len(q) = la + 1 + lb
  BY <1>1
<1>4. \A i \in 1 .. Len(q) : q[i] = IF i <= la THEN a[i] ELSE IF i = la + 1 THEN n ELSE b[i - la - 1]
  BY <1>1, <1>3
<1> HIDE DEF q, la, lb
<1>5. \A i \in 1 .. Len(q) :
        /\ i <= la => q[i] \in A /\ q[i] = a[i] /\ i \in 1 .. la
        /\ i = la + 1 => q[i] = n
        /\ i > la + 1 => q[i] \in B /\ q[i] = b[i - la - 1] /\ i - la - 1 \in 1 .. lb
  BY <1>1, <1>3, <1>4
<1>6. A \cup {n} \cup B = {q[i] : i \in 1 .. Len(q)}
  <2>1. \A m \in A : \E i \in 1 .. Len(q) : q[i] = m
    <3> SUFFICES ASSUME NEW i \in 1 .. la
                 PROVE  \E j \in 1 .. Len(q) : q[j] = a[i]
      BY <1>1
    <3>1. i \in 1 .. Len(q) /\ q[i] = a[i]
      BY <1>1, <1>3, <1>4
    <3> QED
      BY <3>1
  <2>2. \A m \in B : \E i \in 1 .. Len(q) : q[i] = m
    <3> SUFFICES ASSUME NEW i \in 1 .. lb
                 PROVE  \E j \in 1 .. Len(q) : q[j] = b[i]
      BY <1>1
    <3>1. i + la + 1 \in 1 .. Len(q) /\ q[i + la + 1] = b[i]
      BY <1>1, <1>3, <1>4
    <3> QED
      BY <3>1
  <2>3. la + 1 \in 1 .. Len(q) /\ q[la + 1] = n
    BY <1>1, <1>3, <1>4
  <2>4. ASSUME NEW i \in 1 .. Len(q)
        PROVE  q[i] \in A \cup {n} \cup B
    <3>1. i <= la \/ i = la + 1 \/ i > la + 1
      BY <1>1, <1>3
    <3> QED
      BY <1>5, <3>1
  <2> QED
    BY <2>1, <2>2, <2>3, <2>4
<1>7. A \subseteq Keys /\ B \subseteq Keys
  BY <1>1 DEF la, lb
<1>8. ASSUME NEW i \in 1 .. Len(q), NEW j \in 1 .. Len(q), i < j
      PROVE  q[i] < q[j]
  <2>0. i \in Int /\ j \in Int /\ la \in Int
    BY <1>1, <1>3
  <2>1. CASE j <= la
    <3>1. i \in 1 .. la /\ j \in 1 .. la
      BY <1>1, <1>8, <2>0, <2>1
    <3> QED
      BY <1>1, <1>5, <1>8, <2>1, <3>1
  <2>2. CASE j = la + 1
    <3>1. i <= la /\ q[j] = n
      BY <1>5, <1>8, <2>0, <2>2
    <3> QED
      BY <1>5, <3>1
  <2>3. CASE j > la + 1
    <3>1. q[j] \in B /\ q[j] = b[j - la - 1] /\ j - la - 1 \in 1 .. lb
      BY <1>5, <2>3
    <3>2. CASE i <= la
      <4>1. q[i] \in A
        BY <1>5, <3>2
      <4>2. q[i] < n /\ n < q[j] /\ q[i] \in Int /\ q[j] \in Int /\ n \in Int
        BY <1>2, <1>7, <3>1, <4>1
      <4> QED
        BY <4>2
    <3>3. CASE i = la + 1
      BY <1>5, <3>1, <3>3
    <3>4. CASE i > la + 1
      <4>1. q[i] = b[i - la - 1] /\ i - la - 1 \in 1 .. lb /\ i - la - 1 < j - la - 1
        BY <1>5, <1>8, <2>0, <3>4
      <4> QED
        BY <1>1, <3>1, <4>1
    <3> QED
      BY <2>0, <3>2, <3>3, <3>4
  <2> QED
    BY <2>0, <2>1, <2>2, <2>3
<1>9. Lists(q, A \cup {n} \cup B)
  BY <1>3, <1>6, <1>8 DEF Lists
<1> QED
  BY <1>9 DEF q

LEMMA WalkIs ==
  ASSUME Tree \in Linking, NEW N \in SUBSET Keys, NEW s, Whole(Tree, N, s)
  PROVE  Lists(Walk, N)
<1> DEFINE C == Cardinality(Keys)
           K == Keys \cup {Nil}
           from == CHOOSE g : g = [i \in 0 .. C |-> [n \in K |->
                     IF n = Nil \/ i = 0 THEN << >>
                     ELSE g[i - 1][child[n].left] \o << n >> \o g[i - 1][child[n].right]]]
           F == [K -> Seq(Keys)]
           base == [n \in K |-> << >>]
           H == [f \in F |-> [n \in K |->
                  IF n = Nil THEN << >> ELSE f[child[n].left] \o << n >> \o f[child[n].right]]]
           holds == {e \in (0 .. C) \X (N \cup {Nil}) : Lists(from[e[1]][e[2]], s[e[2]])}
<1>1. Walk = from[C][root]
  BY DEF Walk
<1>2. C \in Nat /\ Nil \notin N /\ Nil \notin Keys /\ s[root] = N /\ s[Nil] = {} /\ Tree.root = root /\ Tree.child = child
  BY KeysFinite, WholeRoot, TreeAssumption DEF Tree
<1>3. \A n \in Keys : child[n].left \in K /\ child[n].right \in K
  BY <1>2 DEF Linking, Dirs
<1>4. \A i \in 0 .. C, n \in K :
        from[i][n] = IF n = Nil \/ i = 0 THEN << >>
                     ELSE from[i - 1][child[n].left] \o << n >> \o from[i - 1][child[n].right]
  <2>1. base \in F
    OBVIOUS
  <2>2. \A f \in F : H[f] \in F
    <3> SUFFICES ASSUME NEW f \in F, NEW n \in Keys
                 PROVE  f[child[n].left] \o << n >> \o f[child[n].right] \in Seq(Keys)
      OBVIOUS
    <3>1. f[child[n].left] \in Seq(Keys) /\ f[child[n].right] \in Seq(Keys)
      BY <1>3
    <3> QED
      BY <3>1
  <2>3. PICK g : Iterates(C, base, H, g)
    <3> HIDE DEF C, base, H
    <3> QED
      BY <1>2, IterationExists
  <2>4. /\ g[0] = base
        /\ \A i \in 1 .. C : g[i] = H[g[i - 1]]
        /\ \A i \in 0 .. C : g[i] \in F
    <3> HIDE DEF C, base, H, F
    <3> QED
      BY <1>2, <2>1, <2>2, <2>3, IterationStays
  <2>5. \A i \in 0 .. C : g[i] = [n \in K |->
                     IF n = Nil \/ i = 0 THEN << >>
                     ELSE g[i - 1][child[n].left] \o << n >> \o g[i - 1][child[n].right]]
    <3> SUFFICES ASSUME NEW i \in 0 .. C
                 PROVE  g[i] = [n \in K |->
                     IF n = Nil \/ i = 0 THEN << >>
                     ELSE g[i - 1][child[n].left] \o << n >> \o g[i - 1][child[n].right]]
      OBVIOUS
    <3>1. CASE i = 0
      BY <2>4, <3>1
    <3>2. CASE i # 0
      <4>1. i \in 1 .. C /\ i - 1 \in 0 .. C
        BY <1>2, <3>2
      <4>2. g[i] = H[g[i - 1]] /\ g[i - 1] \in F
        BY <2>4, <4>1
      <4> HIDE DEF F, C
      <4> QED
        BY <3>2, <4>2
    <3> QED
      BY <3>1, <3>2
  <2>6. g = [i \in 0 .. C |-> [n \in K |->
                     IF n = Nil \/ i = 0 THEN << >>
                     ELSE g[i - 1][child[n].left] \o << n >> \o g[i - 1][child[n].right]]]
    <3> HIDE DEF C, base, H, F, K
    <3>1. g = [i \in 0 .. C |-> IF i = 0 THEN base ELSE H[g[i - 1]]]
      BY <2>3 DEF Iterates
    <3> QED
      BY <2>5, <3>1
  <2>7. from = [i \in 0 .. C |-> [n \in K |->
                     IF n = Nil \/ i = 0 THEN << >>
                     ELSE from[i - 1][child[n].left] \o << n >> \o from[i - 1][child[n].right]]]
    <3> HIDE DEF C, base, H, F, K
    <3> QED
      BY <2>6
  <2> DEFINE row(i) == [n \in K |->
                     IF n = Nil \/ i = 0 THEN << >>
                     ELSE from[i - 1][child[n].left] \o << n >> \o from[i - 1][child[n].right]]
  <2> HIDE DEF from, C, K
  <2>8. \A i \in 0 .. C : from[i] = row(i)
    <3>1. from = [i \in 0 .. C |-> row(i)]
      BY <2>7
    <3> HIDE DEF row
    <3> QED
      BY <3>1
  <2> QED
    BY <2>8
<1> HIDE DEF from, C
<1>5. ASSUME NEW i \in 0 .. C
      PROVE  << i, Nil >> \in holds
  <2>1. from[i][Nil] = << >>
    BY <1>4
  <2>2. Lists(<< >>, {})
    BY DEF Lists
  <2> QED
    BY <1>2, <2>1, <2>2
<1>6. ASSUME NEW i \in 1 .. C, NEW n \in N, \A d \in Dirs : << i - 1, Tree.child[n][d] >> \in holds
      PROVE  << i, n >> \in holds
  <2> DEFINE l == child[n].left
             r == child[n].right
             a == from[i - 1][l]
             b == from[i - 1][r]
  <2>1. Lists(a, s[l]) /\ Lists(b, s[r])
    BY <1>2, <1>6, Directions
  <2>2. s[n] = s[l] \cup {n} \cup s[r] /\ (\A m \in s[l] : m < n) /\ (\A m \in s[r] : n < m)
    <3>1. SearchTree(N, Nil, Tree.root, On(Tree, "left"), On(Tree, "right"), Tree.parent, s, Order("left"))
      BY Directions DEF Whole, Facing
    <3>2. On(Tree, "left")[n] = l /\ On(Tree, "right")[n] = r
      BY <1>2 DEF On
    <3> HIDE DEF l, r
    <3>3. s[n] = {n} \cup s[l] \cup s[r]
      BY <3>1, <3>2 DEF SearchTree, Shape, Split
    <3>4. (\A m \in s[l] : << m, n >> \in Order("left")) /\ (\A m \in s[r] : << n, m >> \in Order("left"))
      BY <3>1, <3>2 DEF SearchTree, Sorted
    <3> QED
      BY <3>3, <3>4 DEF Order
  <2>3. from[i][n] = a \o << n >> \o b
    <3>1. i \in 0 .. C /\ i # 0 /\ n \in K /\ n # Nil
      BY <1>2
    <3> HIDE DEF K
    <3> QED
      BY <1>4, <3>1
  <2> HIDE DEF l, r, a, b
  <2>4. Lists(a \o << n >> \o b, s[l] \cup {n} \cup s[r])
    BY <2>1, <2>2, ListsJoin
  <2>5. Lists(from[i][n], s[n]) /\ i \in 0 .. C
    BY <1>2, <2>2, <2>3, <2>4
  <2> QED
    BY <2>5
<1>7. << C, root >> \in holds
  <2> HIDE DEF holds
  <2> QED
    BY <1>2, <1>5, <1>6, ByLevels DEF C
<1> QED
  BY <1>1, <1>2, <1>7

LEMMA BlackHeightsIs ==
  ASSUME Tree \in Linking, NEW N \in SUBSET Keys, NEW s, Whole(Tree, N, s), NEW h, Heights(Tree, N, h)
  PROVE  BlackHeights = {h[root]}
<1> DEFINE C == Cardinality(Keys)
           K == Keys \cup {Nil}
           black(n) == IF color[n] = "black" THEN 1 ELSE 0
           from == CHOOSE g : g = [i \in 0 .. C |-> [n \in K |->
                     IF n = Nil \/ i = 0 THEN {0}
                     ELSE {j + (IF color[n] = "black" THEN 1 ELSE 0) : j \in g[i - 1][child[n].left] \cup g[i - 1][child[n].right]}]]
           F == [K -> SUBSET Nat]
           base == [n \in K |-> {0}]
           H == [f \in F |-> [n \in K |->
                  IF n = Nil THEN {0} ELSE {j + black(n) : j \in f[child[n].left] \cup f[child[n].right]}]]
           holds == {e \in (0 .. C) \X (N \cup {Nil}) : from[e[1]][e[2]] = {h[e[2]]}}
<1>1. BlackHeights = from[C][root]
  BY DEF BlackHeights
<1>2. C \in Nat /\ Nil \notin N /\ Nil \notin Keys /\ Tree.root = root /\ Tree.child = child /\ Tree.color = color
      /\ root \in N \cup {Nil}
  BY KeysFinite, WholeRoot, TreeAssumption DEF Tree
<1>3. \A n \in Keys : child[n].left \in K /\ child[n].right \in K
  BY <1>2 DEF Linking, Dirs
<1>4. \A i \in 0 .. C, n \in K :
        from[i][n] = IF n = Nil \/ i = 0 THEN {0}
                     ELSE {j + black(n) : j \in from[i - 1][child[n].left] \cup from[i - 1][child[n].right]}
  <2>0. from = CHOOSE g : g = [i \in 0 .. C |-> [n \in K |->
                     IF n = Nil \/ i = 0 THEN {0}
                     ELSE {j + black(n) : j \in g[i - 1][child[n].left] \cup g[i - 1][child[n].right]}]]
    OBVIOUS
  <2>1. base \in F
    OBVIOUS
  <2>2. \A f \in F : H[f] \in F
    <3> SUFFICES ASSUME NEW f \in F, NEW n \in Keys
                 PROVE  {j + black(n) : j \in f[child[n].left] \cup f[child[n].right]} \in SUBSET Nat
      OBVIOUS
    <3>1. f[child[n].left] \in SUBSET Nat /\ f[child[n].right] \in SUBSET Nat
      BY <1>3
    <3> QED
      BY <3>1
  <2> HIDE DEF black, from
  <2>3. PICK g : Iterates(C, base, H, g)
    <3> HIDE DEF C, base, H
    <3> QED
      BY <1>2, IterationExists
  <2>4. /\ g[0] = base
        /\ \A i \in 1 .. C : g[i] = H[g[i - 1]]
        /\ \A i \in 0 .. C : g[i] \in F
    <3> HIDE DEF C, base, H, F
    <3> QED
      BY <1>2, <2>1, <2>2, <2>3, IterationStays
  <2>5. \A i \in 0 .. C : g[i] = [n \in K |->
                     IF n = Nil \/ i = 0 THEN {0}
                     ELSE {j + black(n) : j \in g[i - 1][child[n].left] \cup g[i - 1][child[n].right]}]
    <3> SUFFICES ASSUME NEW i \in 0 .. C
                 PROVE  g[i] = [n \in K |->
                     IF n = Nil \/ i = 0 THEN {0}
                     ELSE {j + black(n) : j \in g[i - 1][child[n].left] \cup g[i - 1][child[n].right]}]
      OBVIOUS
    <3>1. CASE i = 0
      BY <2>4, <3>1
    <3>2. CASE i # 0
      <4>1. i \in 1 .. C /\ i - 1 \in 0 .. C
        BY <1>2, <3>2
      <4>2. g[i] = H[g[i - 1]] /\ g[i - 1] \in F
        BY <2>4, <4>1
      <4> HIDE DEF F, C
      <4> QED
        BY <3>2, <4>2
    <3> QED
      BY <3>1, <3>2
  <2>6. g = [i \in 0 .. C |-> [n \in K |->
                     IF n = Nil \/ i = 0 THEN {0}
                     ELSE {j + black(n) : j \in g[i - 1][child[n].left] \cup g[i - 1][child[n].right]}]]
    <3> HIDE DEF C, base, H, F, K
    <3>1. g = [i \in 0 .. C |-> IF i = 0 THEN base ELSE H[g[i - 1]]]
      BY <2>3 DEF Iterates
    <3> QED
      BY <2>5, <3>1
  <2>7. from = [i \in 0 .. C |-> [n \in K |->
                     IF n = Nil \/ i = 0 THEN {0}
                     ELSE {j + black(n) : j \in from[i - 1][child[n].left] \cup from[i - 1][child[n].right]}]]
    <3> HIDE DEF C, base, H, F, K
    <3> QED
      BY <2>0, <2>6
  <2> DEFINE row(i) == [n \in K |->
                     IF n = Nil \/ i = 0 THEN {0}
                     ELSE {j + black(n) : j \in from[i - 1][child[n].left] \cup from[i - 1][child[n].right]}]
  <2> HIDE DEF C, K
  <2>8. \A i \in 0 .. C : from[i] = row(i)
    <3>1. from = [i \in 0 .. C |-> row(i)]
      BY <2>7
    <3> HIDE DEF row
    <3> QED
      BY <3>1
  <2> QED
    BY <2>8
<1> HIDE DEF from, C
<1>5. ASSUME NEW i \in 0 .. C
      PROVE  << i, Nil >> \in holds
  <2>1. from[i][Nil] = {0}
    BY <1>4
  <2>2. h[Nil] = 0
    BY DEF Heights
  <2> QED
    BY <1>2, <2>1, <2>2
<1>6. ASSUME NEW i \in 1 .. C, NEW n \in N, \A d \in Dirs : << i - 1, Tree.child[n][d] >> \in holds
      PROVE  << i, n >> \in holds
  <2> DEFINE l == child[n].left
             r == child[n].right
  <2>1. from[i - 1][l] = {h[l]} /\ from[i - 1][r] = {h[r]}
    BY <1>2, <1>6, Directions
  <2>2. h[n] = h[l] + black(n) /\ h[n] = h[r] + black(n) /\ h[n] \in Nat /\ h[l] \in Nat /\ h[r] \in Nat
    <3>1. \A d \in Dirs : h[n] = h[Tree.child[n][d]] + Black(Tree, n)
      BY DEF Heights
    <3>2. \A d \in Dirs : Tree.child[n][d] \in N \cup {Nil}
      BY WholeNode DEF NodeIn, ChildOf
    <3>3. h \in [N \cup {Nil} -> Nat]
      BY DEF Heights
    <3> QED
      BY <1>2, <3>1, <3>2, <3>3, Directions DEF Black
  <2>3. from[i][n] = {j + black(n) : j \in from[i - 1][l] \cup from[i - 1][r]}
    <3>1. i \in 0 .. C /\ i # 0 /\ n \in K /\ n # Nil
      BY <1>2
    <3> HIDE DEF K, black
    <3> QED
      BY <1>4, <3>1
  <2> HIDE DEF black, l, r
  <2>4. h[l] = h[r]
    <3>1. black(n) \in Nat
      BY DEF black
    <3> QED
      BY <2>2, <3>1
  <2>5. from[i][n] = {h[n]} /\ i \in 0 .. C
    BY <1>2, <2>1, <2>2, <2>3, <2>4
  <2> QED
    BY <2>5
<1>7. << C, root >> \in holds
  <2> HIDE DEF holds
  <2> QED
    BY <1>2, <1>5, <1>6, ByLevels DEF C
<1> QED
  BY <1>1, <1>2, <1>7

LEMMA InvTreeOK ==
  ASSUME TreeInv
  PROVE  TreeOK
<1> DEFINE N == In(value)
<1>1. Good(Tree, N) /\ N \in SUBSET Keys
  BY DEF TreeInv, Sound, In
<1>2. PICK s : Whole(Tree, N, s)
  BY <1>1 DEF Good
<1>3. /\ Tree \in Linking /\ Loose(Tree, N)
      /\ Tree.root = root /\ Tree.child = child /\ Tree.parent = parent
  BY <1>1 DEF Good, Tree
<1> HIDE DEF N
<1>4. Lists(Walk, N)
  BY <1>1, <1>2, <1>3, WalkIs
<1> DEFINE order == Walk
           in == {order[i] : i \in DOMAIN order}
<1>5. in = N /\ \A i \in 1 .. Len(order) - 1 : order[i] < order[i + 1]
  <2> HIDE DEF order
  <2>1. /\ order \in Seq(Keys) /\ N = {order[i] : i \in 1 .. Len(order)}
        /\ \A i, j \in 1 .. Len(order) : i < j => order[i] < order[j]
    BY <1>4 DEF Lists, order
  <2>2. DOMAIN order = 1 .. Len(order) /\ Len(order) \in Nat
    BY <2>1
  <2>3. ASSUME NEW i \in 1 .. Len(order) - 1
        PROVE  order[i] < order[i + 1]
    <3>1. i \in 1 .. Len(order) /\ i + 1 \in 1 .. Len(order) /\ i < i + 1
      BY <2>2
    <3> QED
      BY <2>1, <3>1
  <2> QED
    BY <2>1, <2>2, <2>3
<1>6. \A n \in N : /\ \A d \in Dirs : child[n][d] # Nil => parent[child[n][d]] = n
                   /\ n = root => parent[n] = Nil
  BY <1>1, <1>3, GoodNode DEF Sits, ChildOf
<1>7. root # Nil => parent[root] = Nil
  BY <1>1, <1>3, <1>6, GoodNode
<1>8. \A n \in Keys \ N : parent[n] = Nil /\ child[n] = NoLinks
  BY <1>3 DEF Loose
<1>9. N = {n \in Keys : value[n] # Nil}
  BY DEF N, In
<1> QED
  <2> HIDE DEF order
  <2>1. \A n \in in, d \in Dirs : child[n][d] # Nil => parent[child[n][d]] = n
    BY <1>5, <1>6
  <2>2. \A n \in Keys \ in : parent[n] = Nil /\ child[n] = NoLinks
    BY <1>5, <1>8
  <2> HIDE DEF in
  <2> QED
    BY <1>5, <1>7, <1>9, <2>1, <2>2 DEF TreeOK, order, in

LEMMA InvRedBlack ==
  ASSUME TreeInv
  PROVE  RedBlackOK
<1> SUFFICES ASSUME clean, pc = "idle"
             PROVE  RedBlack
  BY DEF RedBlackOK
<1> DEFINE N == In(value)
<1>1. Good(Tree, N) /\ N \in SUBSET Keys /\ RootBlack(Tree, Nil) /\ Balanced(Tree, N, Nil)
  <2>1. cursor = Nil
    BY DEF TreeInv, Sound, Typed
  <2> QED
    BY <2>1 DEF TreeInv, Sound, In, Repairable
<1> HIDE DEF N
<1>2. PICK s : Whole(Tree, N, s)
  BY <1>1 DEF Good
<1>3. PICK h : Heights(Tree, N, h)
  BY <1>1 DEF Balanced
<1>4. /\ Tree \in Linking /\ Loose(Tree, N)
      /\ Tree.root = root /\ Tree.child = child /\ Tree.parent = parent
  BY <1>1 DEF Good, Tree
<1>5. Cardinality(BlackHeights) = 1
  BY <1>1, <1>2, <1>3, <1>4, BlackHeightsIs, FS_Singleton
<1>6. ~ IsRed(Tree, root)
  BY <1>1, <1>4 DEF RootBlack, IsRed
<1>7. ASSUME NEW n \in Keys, NEW d \in Dirs, parent[n] # Nil, IsRed(Tree, n)
      PROVE  ~ IsRed(Tree, child[n][d])
  <2>1. n \in N
    BY <1>4, <1>7 DEF Loose
  <2> QED
    BY <1>1, <1>4, <1>7, <2>1 DEF Balanced, NoReds, IsRed
<1> QED
  BY <1>5, <1>6, <1>7 DEF RedBlack

(* Whatever is put and deleted, in a repair or not: a walk meets the       *)
(* entries that were put and not deleted since (entry.go:389, 563), each   *)
(* once and in the order of their keys, and the parents fit the children,  *)
(* also where a Delete has left out its repair.                            *)
THEOREM SearchTreeKept == Spec => []TreeOK
<1>1. TreeInv => TreeOK
  BY InvTreeOK
<1> QED
  BY <1>1, Inductive, PTL

(* Between two calls the tree has a black root, no red child of a red node *)
(* and as many blacks on one path down as on any other (entry.go:20), as   *)
(* long as no Delete has left out its repair and no black entry was put.   *)
THEOREM RedBlackKept == Spec => []RedBlackOK
<1>1. TreeInv => RedBlackOK
  BY InvRedBlack
<1> QED
  BY <1>1, Inductive, PTL

(* In a clean tree the node that follows a black one is red, or there is   *)
(* none: the loop of fixupDelete (entry.go:616) is left at its first test, *)
(* and no call of Delete rotates.                                          *)
THEOREM CleanDeleteEndsAtOnce == Spec => [](clean /\ pc = "delete" => AtEnd)
<1>1. TreeInv => (clean /\ pc = "delete" => AtEnd)
  BY DEF TreeInv, Sound, Repairable, AtEnd, Tree
<1> QED
  BY <1>1, Inductive, PTL
-----------------------------------------------------------------------------
(* The rounds of a repair.  The history variable only looks on.            *)
LEMMA RoundsRecord == [RoundsNext]_rvars => [Next]_vars
BY DEF RoundsNext, Uncounted, Round, End, Next, Fixup, rvars

(* A behaviour of RBTreeRounds is one of the tree.                         *)
LEMMA RoundsLookOn == RoundsSpec => Spec
<1>1. RoundsInit => Init
  BY DEF RoundsInit
<1> QED
  BY <1>1, RoundsRecord, PTL DEF RoundsSpec, Spec

(* Twice r nodes and one more are at c or below it.                        *)
Climbed(t, N, c, r) == \E s : Whole(t, N, s) /\ 2 * r < Cardinality(s[c])

LEMMA SizeOf ==
  ASSUME NEW t, NEW N \in SUBSET Keys, NEW s, Whole(t, N, s), NEW n \in N
  PROVE  Cardinality(s[n]) \in Nat /\ 0 < Cardinality(s[n]) /\ Cardinality(s[n]) <= Cardinality(N)
<1>1. NodeIn(t, N, s, n)
  BY WholeNode
<1>2. Cardinality(s[n]) <= Cardinality(N)
  BY <1>1, KeysFinite, FS_Subset DEF NodeIn
<1>3. PICK d \in Dirs : d = "left"
  BY Directions
<1>4. /\ Cardinality(s[n]) \in Nat /\ Cardinality(s[t.child[n][d]]) \in Nat
      /\ Cardinality(s[t.child[n][d]]) < Cardinality(s[n])
  BY WholeSizes
<1> QED
  BY <1>2, <1>4

LEMMA ClimbsIn ==
  ASSUME NEW t, NEW N \in SUBSET Keys, Good(t, N), NEW c \in N
  PROVE  Climbed(t, N, c, 0)
<1>1. PICK s : Whole(t, N, s)
  BY DEF Good
<1> QED
  BY <1>1, SizeOf DEF Climbed

LEMMA ClimbedFew ==
  ASSUME NEW t, NEW N \in SUBSET Keys, NEW c \in N, NEW r \in Nat, Climbed(t, N, c, r)
  PROVE  2 * r < Cardinality(N)
<1>1. PICK s : Whole(t, N, s) /\ 2 * r < Cardinality(s[c])
  BY DEF Climbed
<1>2. Cardinality(s[c]) \in Nat /\ Cardinality(s[c]) <= Cardinality(N) /\ Cardinality(N) \in Nat
  BY <1>1, SizeOf, KeysFinite
<1> QED
  BY <1>1, <1>2

(* A node and its sibling are below their parent, and so are two levels.   *)
LEMMA SiblingCounts ==
  ASSUME NEW t, NEW N \in SUBSET Keys, NEW s, Whole(t, N, s), NEW p \in N, NEW d \in Dirs,
         NEW x, x = t.child[p][d], t.child[p][Opp(d)] # Nil
  PROVE  Cardinality(s[x]) + 2 <= Cardinality(s[p])
<1> DEFINE w == t.child[p][Opp(d)]
<1>1. Facing(t, N, s, d) /\ StrictOrder(N, Order(d)) /\ On(t, d)[p] = x /\ On(t, Opp(d))[p] = w
  BY Strict DEF Whole, On
<1>2. /\ s[p] = {p} \cup s[On(t, d)[p]] \cup s[On(t, Opp(d))[p]] /\ s[p] \subseteq N
      /\ p \notin s[On(t, d)[p]] /\ p \notin s[On(t, Opp(d))[p]]
      /\ s[On(t, d)[p]] \cap s[On(t, Opp(d))[p]] = {}
      /\ On(t, Opp(d))[p] # Nil => On(t, Opp(d))[p] \in s[On(t, Opp(d))[p]]
  BY <1>1, Node DEF Facing
<1>3. /\ s[x] \subseteq s[p] /\ s[p] \subseteq N
      /\ p \in s[p] /\ p \notin s[x] /\ w \in s[p] /\ w \notin s[x] /\ w # p
  BY <1>1, <1>2
<1> HIDE DEF w
<1> DEFINE A == s[x] \cup {w}
           B == A \cup {p}
<1>4. IsFiniteSet(s[p]) /\ IsFiniteSet(s[x])
  BY <1>3, KeysFinite, FS_Subset
<1>5. IsFiniteSet(A) /\ Cardinality(A) = Cardinality(s[x]) + 1
  BY <1>3, <1>4, FS_AddElement
<1>6. p \notin A
  BY <1>3
<1>7. IsFiniteSet(B) /\ Cardinality(B) = Cardinality(A) + 1
  BY <1>5, <1>6, FS_AddElement
<1>8. B \subseteq s[p]
  BY <1>3
<1>9. Cardinality(B) <= Cardinality(s[p])
  BY <1>4, <1>8, FS_Subset
<1>10. Cardinality(s[x]) \in Nat /\ Cardinality(s[p]) \in Nat
  BY <1>4, FS_CardinalityType
<1> QED
  BY <1>5, <1>7, <1>9, <1>10

(* The grandparent of a red node's child, and the parent of two children,  *)
(* have what it takes for one round more.                                  *)
LEMMA TwoUp ==
  ASSUME TreeInv, pc = "put", IsRed(Tree, Up(cursor)), NEW r \in Nat,
         Climbed(Tree, In(value), cursor, r)
  PROVE  Up(Up(cursor)) \in In(value) /\ Climbed(Tree, In(value), Up(Up(cursor)), r + 1)
<1> DEFINE t == Tree
           N == In(value)
           z == cursor
           p == t.parent[z]
           g == t.parent[p]
           d == Side(t, p)
<1>1. /\ Typed(value, pc, cursor, clean) /\ Good(t, N) /\ N \in SUBSET Keys /\ RootBlack(t, z)
      /\ Nil \notin Keys
  BY TreeAssumption DEF TreeInv, Sound, In
<1>2. z \in N /\ Up(cursor) = p /\ Up(Up(cursor)) = g /\ IsRed(t, p)
  BY <1>1 DEF Typed, Up, Tree
<1>3. Elders(t, z, p, g, d)
  BY DEF Elders
<1>4. PICK s : Whole(t, N, s) /\ 2 * r < Cardinality(s[z])
  BY DEF Climbed
<1> HIDE DEF t, N, p, g, d
<1>5. /\ p \in N /\ g \in N /\ d \in Dirs /\ Side(t, z) \in Dirs
      /\ t.child[p][Side(t, z)] = z /\ t.child[g][d] = p
  BY <1>1, <1>2, <1>3, RedParent
<1>6. Cardinality(s[z]) < Cardinality(s[p]) /\ Cardinality(s[p]) < Cardinality(s[g])
      /\ Cardinality(s[z]) \in Nat /\ Cardinality(s[p]) \in Nat /\ Cardinality(s[g]) \in Nat
  BY <1>1, <1>4, <1>5, WholeSizes
<1>7. 2 * (r + 1) < Cardinality(s[g])
  BY <1>4, <1>6
<1> QED
  BY <1>2, <1>4, <1>5, <1>7 DEF Climbed, t, N

LEMMA SiblingUp ==
  ASSUME TreeInv, Repairing, child[Up(cursor)][Opp(Side(Tree, cursor))] # Nil, NEW r \in Nat,
         Climbed(Tree, In(value), cursor, r)
  PROVE  Up(cursor) \in In(value) /\ Climbed(Tree, In(value), Up(cursor), r + 1)
<1> DEFINE t == Tree
           N == In(value)
           x == cursor
           p == t.parent[x]
           d == Side(t, x)
<1>1. Good(t, N) /\ N \in SUBSET Keys /\ x \in N /\ x # t.root
  BY RepairingIs DEF TreeInv, Sound, In, Tree
<1>2. Up(cursor) = p /\ t.child[p][Opp(d)] # Nil
  BY DEF Up, Tree
<1>3. PICK s : Whole(t, N, s) /\ 2 * r < Cardinality(s[x])
  BY DEF Climbed
<1> HIDE DEF t, N, p
<1>4. p \in N /\ d \in Dirs /\ t.child[p][d] = x
  BY <1>1, GoodNode DEF Sits, HasParent, p
<1> HIDE DEF d
<1>5. Cardinality(s[x]) + 2 <= Cardinality(s[p])
  BY <1>1, <1>2, <1>3, <1>4, SiblingCounts
<1>6. Cardinality(s[x]) \in Nat /\ Cardinality(s[p]) \in Nat
  BY <1>1, <1>3, <1>4, SizeOf
<1>7. 2 * (r + 1) < Cardinality(s[p])
  BY <1>3, <1>5, <1>6
<1> QED
  BY <1>2, <1>3, <1>4, <1>7 DEF Climbed, t, N

(* What each round makes of the cursor.                                    *)
LEMMA RecolorRound ==
  ASSUME TreeInv, FixupRecolor, NEW r \in Nat, Climbed(Tree, In(value), cursor, r)
  PROVE  Climbed(Tree', In(value'), cursor', r + 1)
<1>1. pc = "put" /\ IsRed(Tree, Up(cursor)) /\ cursor' = Up(Up(cursor)) /\ value' = value
      /\ root' = root /\ child' = child /\ parent' = parent
  BY DEF FixupRecolor
<1>2. Climbed(Tree, In(value), Up(Up(cursor)), r + 1)
  BY <1>1, TwoUp
<1>3. Alike(Tree, In(value), Tree')
  BY <1>1 DEF Alike, Tree
<1> DEFINE t == Tree
           u == Tree'
           N == In(value)
           c == Up(Up(cursor))
<1>4. Alike(t, N, u) /\ Climbed(t, N, c, r + 1) /\ N \in SUBSET Keys
  BY <1>2, <1>3 DEF In
<1> HIDE DEF t, u, N, c
<1>5. Climbed(u, N, c, r + 1)
  BY <1>4, AlikeWhole DEF Climbed
<1>6. cursor' = c /\ In(value') = N
  BY <1>1 DEF c, N
<1> QED
  BY <1>5, <1>6 DEF u

LEMMA RotateRound ==
  ASSUME TreeInv, FixupRotate, NEW r \in Nat, Climbed(Tree, In(value), cursor, r)
  PROVE  PutAtEnd' /\ 2 * (r + 1) < Cardinality(In(value'))
<1>1. pc = "put" /\ IsRed(Tree, Up(cursor)) /\ value' = value
  BY DEF FixupRotate
<1>2. Up(Up(cursor)) \in In(value) /\ Climbed(Tree, In(value), Up(Up(cursor)), r + 1)
  BY <1>1, TwoUp
<1>3. In(value) \in SUBSET Keys /\ r + 1 \in Nat
  BY DEF In
<1>4. 2 * (r + 1) < Cardinality(In(value))
  BY <1>2, <1>3, ClimbedFew
<1> QED
  BY <1>1, <1>4, FixupRotateInv

(* A round of Delete goes up and turns nothing, or is the last.            *)
LEMMA DeleteRound ==
  ASSUME TreeInv, FixupDelete
  PROVE  /\ Repairing /\ child[Up(cursor)][Opp(Side(Tree, cursor))] # Nil
         /\ value' = value /\ pc' = "delete"
         /\ \/ AtEnd'
            \/ cursor' = Up(cursor) /\ root' = root /\ child' = child /\ parent' = parent
<1> DEFINE t == Levelled
           p == Up(cursor)
           o == Opp(Side(Tree, cursor))
           w == t.child[p][o]
           v == child[p][o]
           r == Paint(t, w, "red")
<1>1. /\ Repairing /\ pc = "delete" /\ w # Nil /\ value' = value /\ pc' = pc
      /\ (Become(r) /\ cursor' = p) \/ cursor' = root'
  BY DEF FixupDelete, ShortNow, Repairing
<1>2. /\ Good(t, In(value)) /\ In(value) \in SUBSET Keys /\ p \in In(value)
      /\ Side(Tree, cursor) \in Dirs
      /\ IF IsRed(Tree, v) THEN t.color[p] = "red" ELSE t = Tree
  BY <1>1, RepairingIs DEF Below
<1>3. Tree.child = child /\ Tree.root = root /\ Tree.parent = parent
  BY DEF Tree
<1> HIDE DEF t, p
<1>4. v # Nil
  BY <1>1, <1>2, <1>3 DEF IsRed
<1>5. CASE cursor' = root'
  BY <1>1, <1>4, <1>5 DEF AtEnd, p
<1>6. CASE Become(r) /\ cursor' = p
  <2>1. w \in In(value) /\ w # p
    <3>1. o \in Dirs
      BY <1>2, Directions
    <3> QED
      BY <1>1, <1>2, <3>1, GoodNode DEF Sits, ChildOf
  <2>2. Painted(t, w, "red", r)
    BY <1>2, <2>1, PaintGood DEF Colors
  <2>3. root' = t.root /\ child' = t.child /\ parent' = t.parent /\ color'[p] = t.color[p]
    BY <1>2, <1>6, <2>1, <2>2 DEF Become, Painted
  <2>4. CASE IsRed(Tree, v)
    <3>1. AtEnd'
      BY <1>2, <1>6, <2>3, <2>4 DEF AtEnd
    <3> QED
      BY <1>1, <1>4, <3>1 DEF p
  <2>5. CASE ~ IsRed(Tree, v)
    BY <1>1, <1>2, <1>3, <1>4, <1>6, <2>3, <2>5 DEF p
  <2> QED
    BY <2>4, <2>5
<1> QED
  BY <1>1, <1>5, <1>6

(* A round that finds no sibling finds none the next time.                 *)
LEMMA SpinRound ==
  ASSUME TreeInv, FixupSpin
  PROVE  Alone' /\ pc' = "delete" /\ value' = value
<1> DEFINE u == Levelled
           N == In(value)
           x == cursor
           p == Up(cursor)
           d == Side(Tree, cursor)
<1>1. /\ Repairing /\ pc = "delete" /\ u.child[p][Opp(d)] = Nil /\ Become(u)
      /\ value' = value /\ pc' = pc /\ cursor' = x
  BY DEF FixupSpin, Repairing
<1>2. N \in SUBSET Keys /\ Below(u, N, x, p, d)
  BY <1>1, RepairingIs
<1>3. Tree' = u /\ parent' = u.parent /\ child' = u.child
  BY <1>1, <1>2, Becomes DEF Below, Good, Become
<1> HIDE DEF u, N, p, d
<1>4. Good(u, N) /\ x \in N /\ p \in N /\ d \in Dirs /\ u.child[p][d] = x
  BY <1>2 DEF Below
<1>5. u.parent[x] = p /\ x # u.root
  BY <1>2, <1>4, GoodNode DEF Sits, ChildOf
<1>6. Side(u, x) = d
  BY <1>2, <1>4, <1>5, GoodNode DEF Sits, HasParent
<1>7. Alone'
  <2>1. Side(Tree', cursor') = d /\ parent'[cursor'] = p
    BY <1>1, <1>3, <1>5, <1>6
  <2> QED
    BY <1>1, <1>3, <2>1 DEF Alone, Up
<1> QED
  BY <1>1, <1>7

(* The repair ends in the round that turns the tree.                       *)
LEMMA TurnSettles ==
  ASSUME TreeInv, [Next]_vars, pc # "idle", child' # child
  PROVE  NothingLeft'
<1>1. FixupRotate \/ FixupSpin \/ FixupDelete
  BY DEF Next, Put, PutRoot, PutOver, PutLeaf, Delete, Fixup, FixupRecolor, FixupPutEnd,
         FixupDeleteEnd, vars, links
<1>2. CASE FixupRotate
  <2>1. PutAtEnd' /\ pc' = "put"
    BY <1>2, FixupRotateInv DEF FixupRotate
  <2> QED
    BY <2>1 DEF NothingLeft
<1>3. CASE FixupSpin
  BY <1>3, SpinRound DEF NothingLeft
<1>4. CASE FixupDelete
  <2>1. AtEnd' /\ pc' = "delete"
    BY <1>4, DeleteRound
  <2> QED
    BY <2>1 DEF NothingLeft
<1> QED
  BY <1>1, <1>2, <1>3, <1>4

(* In a repair the cursor has climbed over two nodes in each round, or     *)
(* there is nothing left to do.                                            *)
RoundsInv ==
  /\ rounds \in Nat
  /\ pc = "idle" => rounds = 0
  /\ pc # "idle" => /\ 2 * rounds < Cardinality(In(value))
                    /\ NothingLeft \/ Climbed(Tree, In(value), cursor, rounds)

LEMMA CursorIn ==
  ASSUME TreeInv
  PROVE  In(value) \in SUBSET Keys /\ Good(Tree, In(value)) /\ (pc # "idle" => cursor \in In(value))
BY DEF TreeInv, Sound, Typed, In

(* No round is left where the repair is settled.                           *)
LEMMA RoundClimbs ==
  ASSUME TreeInv, RoundsInv, Round
  PROVE  pc # "idle" /\ Climbed(Tree, In(value), cursor, rounds)
<1>1. ASSUME FixupRecolor \/ FixupRotate
      PROVE  pc = "put" /\ ~ NothingLeft
  BY <1>1 DEF FixupRecolor, FixupRotate, NothingLeft, PutAtEnd
<1>2. ASSUME FixupDelete
      PROVE  pc = "delete" /\ ~ NothingLeft
  <2>1. Repairing /\ child[Up(cursor)][Opp(Side(Tree, cursor))] # Nil
    BY <1>2, DeleteRound
  <2> QED
    BY <2>1 DEF Repairing, NothingLeft, Alone
<1> QED
  BY <1>1, <1>2 DEF Round, RoundsInv

LEMMA RoundsBegin ==
  ASSUME TreeInv', rounds' = 0
  PROVE  RoundsInv'
<1>1. /\ Typed(value', pc', cursor', clean') /\ Good(Tree', In(value'))
  BY DEF TreeInv, Sound
<1>2. pc' # "idle" => cursor' \in In(value')
  BY <1>1 DEF Typed
<1>3. In(value') \in SUBSET Keys
  BY DEF In
<1>4. ASSUME pc' # "idle"
      PROVE  Climbed(Tree', In(value'), cursor', 0) /\ 2 * 0 < Cardinality(In(value'))
  BY <1>1, <1>2, <1>3, <1>4, ClimbsIn, ClimbedFew
<1> QED
  BY <1>4 DEF RoundsInv

LEMMA CountedRound ==
  ASSUME TreeInv, TreeInv', RoundsInv, Round, rounds' = rounds + 1
  PROVE  RoundsInv'
<1>1. rounds \in Nat /\ pc # "idle" /\ Climbed(Tree, In(value), cursor, rounds)
  BY RoundClimbs DEF RoundsInv
<1>2. CASE FixupRecolor
  <2>1. Climbed(Tree', In(value'), cursor', rounds') /\ pc' = "put"
    BY <1>1, <1>2, RecolorRound DEF FixupRecolor
  <2>2. Typed(value', pc', cursor', clean') /\ In(value') \in SUBSET Keys
    BY DEF TreeInv, Sound, In
  <2>3. cursor' \in In(value') /\ rounds' \in Nat
    BY <1>1, <2>1, <2>2 DEF Typed
  <2>4. 2 * rounds' < Cardinality(In(value'))
    BY <2>1, <2>2, <2>3, ClimbedFew
  <2> QED
    BY <2>1, <2>3, <2>4 DEF RoundsInv
<1>3. CASE FixupRotate
  <2>1. PutAtEnd' /\ 2 * (rounds + 1) < Cardinality(In(value')) /\ pc' = "put"
    BY <1>1, <1>3, RotateRound DEF FixupRotate
  <2> QED
    BY <1>1, <2>1 DEF RoundsInv, NothingLeft
<1>4. CASE FixupDelete
  <2>1. /\ Repairing /\ child[Up(cursor)][Opp(Side(Tree, cursor))] # Nil
        /\ value' = value /\ pc' = "delete"
        /\ \/ AtEnd'
           \/ cursor' = Up(cursor) /\ root' = root /\ child' = child /\ parent' = parent
    BY <1>4, DeleteRound
  <2> DEFINE N == In(value)
             c == Up(cursor)
  <2>2. N \in SUBSET Keys /\ c \in N /\ Climbed(Tree, N, c, rounds + 1)
    BY <1>1, <2>1, SiblingUp DEF In
  <2>3. N = In(value')
    BY <2>1
  <2> HIDE DEF N, c
  <2>4. 2 * (rounds + 1) < Cardinality(N)
    BY <1>1, <2>2, ClimbedFew
  <2>5. CASE AtEnd'
    BY <1>1, <2>1, <2>3, <2>4, <2>5 DEF RoundsInv, NothingLeft
  <2>6. CASE cursor' = Up(cursor) /\ root' = root /\ child' = child /\ parent' = parent
    <3>1. Alike(Tree, N, Tree')
      BY <2>6 DEF Alike, Tree
    <3>2. Climbed(Tree', N, c, rounds + 1)
      BY <2>2, <3>1, AlikeWhole DEF Climbed
    <3>3. cursor' = c
      BY <2>6 DEF c
    <3> QED
      BY <1>1, <2>1, <2>3, <2>4, <3>2, <3>3 DEF RoundsInv
  <2> QED
    BY <2>1, <2>5, <2>6
<1> QED
  BY <1>2, <1>3, <1>4 DEF Round

LEMMA NextRounds ==
  ASSUME TreeInv, TreeInv', RoundsInv, [RoundsNext]_rvars
  PROVE  RoundsInv'
<1>1. ASSUME \/ \E k \in Keys : Delete(k)
             \/ \E k \in Keys, v \in Vals : OneUnusual(k, v) /\ Put(k, v),
             UNCHANGED rounds
      PROVE  RoundsInv'
  <2>1. pc = "idle"
    BY <1>1 DEF Delete, Put, PutRoot, PutOver, PutLeaf
  <2>2. rounds' = 0
    BY <1>1, <2>1 DEF RoundsInv
  <2> QED
    BY <2>2, RoundsBegin
<1>2. ASSUME FixupSpin, UNCHANGED rounds
      PROVE  RoundsInv'
  <2>1. pc = "delete" /\ pc' = "delete" /\ value' = value /\ Alone'
    BY <1>2, SpinRound DEF FixupSpin, Repairing
  <2>2. In(value') = In(value)
    BY <2>1
  <2> QED
    BY <1>2, <2>1, <2>2 DEF RoundsInv, NothingLeft
<1>3. ASSUME Round, rounds' = rounds + 1
      PROVE  RoundsInv'
  BY <1>3, CountedRound
<1>4. ASSUME End, rounds' = 0
      PROVE  RoundsInv'
  BY <1>4, RoundsBegin
<1>5. ASSUME UNCHANGED rvars
      PROVE  RoundsInv'
  <2>1. /\ UNCHANGED << root, child, parent, color >> /\ UNCHANGED << value, pc, cursor >>
        /\ rounds' = rounds
    BY <1>5 DEF rvars, vars, links
  <2>2. Tree' = Tree /\ In(value') = In(value)
    BY <2>1 DEF Tree
  <2>3. NothingLeft' <=> NothingLeft
    BY <2>1, <2>2 DEF NothingLeft, PutAtEnd, AtEnd, Alone, Up
  <2> QED
    BY <2>1, <2>2, <2>3 DEF RoundsInv
<1> QED
  BY <1>1, <1>2, <1>3, <1>4, <1>5 DEF RoundsNext, Uncounted

(* RoundsInv holds in every reachable state, with TreeInv beside it.       *)
THEOREM RoundsInductive == RoundsSpec => []RoundsInv
<1>1. RoundsInit => TreeInv /\ RoundsInv
  BY InitInv DEF RoundsInit, RoundsInv, Init
<1>2. TreeInv /\ [RoundsNext]_rvars => TreeInv'
  BY RoundsRecord, TreeInvStep
<1>3. TreeInv /\ TreeInv' /\ RoundsInv /\ [RoundsNext]_rvars => RoundsInv'
  BY NextRounds
<1> QED
  BY <1>1, <1>2, <1>3, PTL DEF RoundsSpec

(* FewRounds of RBTreeRounds: in a tree of any size, in balance or not,    *)
(* the loop of fixupPut (entry.go:423) and that of fixupDelete             *)
(* (entry.go:630) make fewer rounds than half the entries, rounds without  *)
(* a sibling not counted.                                                  *)
THEOREM RepairsAreShort == RoundsSpec => []FewRounds
<1>1. RoundsInv => FewRounds
  BY DEF RoundsInv, FewRounds, In
<1> QED
  BY <1>1, RoundsInductive, PTL

(* TurnsOnce of RBTreeRounds: the round of fixupPut or fixupDelete that    *)
(* rotates leaves nothing to do, or no sibling to do it with, and so no    *)
(* repair rotates in two rounds.                                           *)
THEOREM RepairsTurnOnce == Spec => TurnsOnce
<1>1. TreeInv /\ [Next]_vars => [pc # "idle" /\ child' # child => NothingLeft']_vars
  BY TurnSettles
<1> QED
  BY <1>1, Inductive, PTL DEF Spec, TurnsOnce

(* A round without a sibling, when the last one had none either, changes   *)
(* nothing.                                                                *)
LEMMA AloneStays ==
  ASSUME Repairing, Alone, [Next]_vars
  PROVE  UNCHANGED vars
<1>1. pc = "delete" /\ ~ AtEnd
  BY DEF Repairing
<1>2. Levelled = Tree
  BY DEF Levelled, Alone, IsRed
<1>3. ~ FixupDelete
  BY <1>2 DEF FixupDelete, Alone, Tree
<1>4. CASE FixupSpin
  <2>1. root' = root /\ child' = child /\ parent' = parent /\ color' = color
    BY <1>2, <1>4 DEF FixupSpin, Become, Tree
  <2> QED
    BY <1>4, <2>1 DEF FixupSpin, vars, links
<1> QED
  BY <1>1, <1>3, <1>4 DEF Next, Delete, Put, PutRoot, PutOver, PutLeaf, Fixup, FixupRecolor,
     FixupRotate, FixupPutEnd, FixupDeleteEnd

(* A repair that has nothing left to do does nothing but end, so what      *)
(* TurnsOnce calls the last round is the last to change a link.            *)
THEOREM NothingThenEnds == Spec => [][NothingLeft => End]_vars
<1>1. ASSUME NothingLeft, [Next]_vars
      PROVE  End \/ UNCHANGED vars
  <2>1. CASE pc = "put" /\ PutAtEnd
    BY <1>1, <2>1 DEF Next, Delete, Put, PutRoot, PutOver, PutLeaf, Fixup, FixupRecolor,
       FixupRotate, PutAtEnd, FixupSpin, FixupDelete, Repairing, FixupDeleteEnd, End
  <2>2. CASE pc = "delete" /\ AtEnd
    BY <1>1, <2>2 DEF Next, Delete, Put, PutRoot, PutOver, PutLeaf, Fixup, FixupRecolor,
       FixupRotate, FixupPutEnd, FixupSpin, FixupDelete, Repairing, End
  <2>3. CASE pc = "delete" /\ ~ AtEnd /\ Alone
    BY <1>1, <2>3, AloneStays DEF Repairing
  <2> QED
    BY <1>1, <2>1, <2>2, <2>3 DEF NothingLeft
<1>2. [Next]_vars => [NothingLeft => End]_vars
  BY <1>1
<1> QED
  BY <1>2, PTL DEF Spec

(* A Delete whose repair has come to a missing sibling never returns       *)
(* (entry.go:641): no step from there changes anything.  It says of every  *)
(* tree what the counterexample to DeleteReturns shows of one.             *)
THEOREM SpinsForEver == Spec => [][~ (Repairing /\ Alone)]_vars
<1>1. [Next]_vars => [~ (Repairing /\ Alone)]_vars
  BY AloneStays
<1> QED
  BY <1>1, PTL DEF Spec
=============================================================================
