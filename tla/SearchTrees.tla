---------------------------- MODULE SearchTrees ----------------------------
(***************************************************************************)
(* Binary search trees with links to the parent, for the proofs about the  *)
(* treap of the page heap (trees.go) and the red-black tree (entry.go).    *)
(* A tree is what its links are, as functions of the node: r is the root,  *)
(* L, R and P are left, right and parent, nil is no node, N are the nodes  *)
(* in the tree and s[n] those from n down.  Everything is said of one side *)
(* and holds of the other with L and R swapped and the order reversed.     *)
(***************************************************************************)
EXTENDS Naturals, FiniteSets, FiniteSetTheorems, WellFoundedInduction, TLAPS

Hung(N, nil, r, s) ==
  nil \notin N /\ r \in N \cup {nil} /\ s[nil] = {} /\ s[r] = N
Split(N, nil, L, R, s) ==
  \A n \in N :
    L[n] \in N \cup {nil} /\ R[n] \in N \cup {nil} /\ s[n] = {n} \cup s[L[n]] \cup s[R[n]]
Nested(N, P, s) ==
  \A n \in N : \A m \in s[n] : s[m] \subseteq s[n] /\ (m # n => P[m] \in s[n])
Linked(N, nil, r, L, R, P) ==
  /\ \A n \in N : \A m \in {L[n], R[n]} \ {nil} : P[m] = n
  /\ \A n \in N : IF n = r THEN P[n] = nil ELSE P[n] \in N /\ n \in {L[P[n]], R[P[n]]}

Shape(N, nil, r, L, R, P, s) ==
  /\ Hung(N, nil, r, s)
  /\ Split(N, nil, L, R, s)
  /\ Nested(N, P, s)
  /\ Linked(N, nil, r, L, R, P)

(* Each node stands, in the order ord, between its left and its right.     *)
Sorted(N, L, R, s, ord) ==
  \A n \in N :
    /\ \A m \in s[L[n]] : << m, n >> \in ord
    /\ \A m \in s[R[n]] : << n, m >> \in ord

StrictOrder(N, ord) ==
  /\ \A m \in N : << m, m >> \notin ord
  /\ \A k, m, n \in N : << k, m >> \in ord /\ << m, n >> \in ord => << k, n >> \in ord

SearchTree(N, nil, r, L, R, P, s, ord) ==
  Shape(N, nil, r, L, R, P, s) /\ Sorted(N, L, R, s, ord)

Reverse(ord) == {<< e[2], e[1] >> : e \in ord}

LEMMA Reversed ==
  ASSUME NEW ord, NEW A, ord \subseteq A \X A
  PROVE  \A m, n : << m, n >> \in ord <=> << n, m >> \in Reverse(ord)
BY DEF Reverse

LEMMA Mirror ==
  ASSUME NEW N, NEW nil, NEW r, NEW L, NEW R, NEW P, NEW s, NEW ord, NEW A, ord \subseteq A \X A,
         SearchTree(N, nil, r, L, R, P, s, ord), StrictOrder(N, ord)
  PROVE  SearchTree(N, nil, r, R, L, P, s, Reverse(ord)) /\ StrictOrder(N, Reverse(ord))
<1>1. \A m, n : << m, n >> \in ord <=> << n, m >> \in Reverse(ord)
  BY Reversed
<1>2. Shape(N, nil, r, R, L, P, s)
  BY DEF SearchTree, Shape, Split, Linked
<1>3. Sorted(N, R, L, s, Reverse(ord))
  BY <1>1 DEF SearchTree, Sorted
<1>4. StrictOrder(N, Reverse(ord))
  BY <1>1 DEF StrictOrder
<1> QED
  BY <1>2, <1>3, <1>4 DEF SearchTree

(* What follows from the shape and the order, for one node and two.        *)
LEMMA Node ==
  ASSUME NEW N, NEW nil, NEW r, NEW L, NEW R, NEW P, NEW s, NEW ord,
         SearchTree(N, nil, r, L, R, P, s, ord), StrictOrder(N, ord), NEW n \in N
  PROVE  /\ n \in s[n] /\ s[n] \subseteq N /\ n # nil
         /\ L[n] \in N \cup {nil} /\ R[n] \in N \cup {nil}
         /\ s[n] = {n} \cup s[L[n]] \cup s[R[n]]
         /\ s[L[n]] \subseteq N /\ s[R[n]] \subseteq N
         /\ n \notin s[L[n]] /\ n \notin s[R[n]] /\ L[n] # n /\ R[n] # n
         /\ s[L[n]] \cap s[R[n]] = {}
         /\ L[n] # nil => P[L[n]] = n /\ L[n] \in s[L[n]] /\ L[n] # r
         /\ R[n] # nil => P[R[n]] = n /\ R[n] \in s[R[n]] /\ R[n] # r
         /\ L[n] = R[n] => L[n] = nil
         /\ IF n = r THEN P[n] = nil
            ELSE P[n] \in N /\ P[n] # nil /\ P[n] # n /\ (L[P[n]] = n <=> R[P[n]] # n)
<1> USE DEF SearchTree, Shape
<1>1. \A m \in N : m \in s[m] /\ s[m] \subseteq N /\ m # nil
  BY DEF Hung, Split, Nested
<1>2. \A m \in N : s[L[m]] \subseteq N /\ s[R[m]] \subseteq N /\ L[m] \in N \cup {nil} /\ R[m] \in N \cup {nil}
                   /\ s[m] = {m} \cup s[L[m]] \cup s[R[m]]
  BY <1>1 DEF Hung, Split
<1>3. \A m \in N : m \notin s[L[m]] /\ m \notin s[R[m]] /\ L[m] # m /\ R[m] # m
  BY <1>1, <1>2 DEF Sorted, StrictOrder
<1>4. \A m \in N : s[L[m]] \cap s[R[m]] = {}
  <2> SUFFICES ASSUME NEW m \in N, NEW k \in s[L[m]], k \in s[R[m]]
               PROVE  FALSE
    OBVIOUS
  <2>1. << k, m >> \in ord /\ << m, k >> \in ord /\ k \in N
    BY <1>2 DEF Sorted
  <2> QED
    BY <2>1 DEF StrictOrder
<1>5. \A m \in N : L[m] = R[m] => L[m] = nil
  BY <1>1, <1>2, <1>4
<1>6. \A m \in N : /\ L[m] # nil => P[L[m]] = m /\ L[m] \in s[L[m]] /\ L[m] # r
                   /\ R[m] # nil => P[R[m]] = m /\ R[m] \in s[R[m]] /\ R[m] # r
  <2> SUFFICES ASSUME NEW m \in N, NEW k \in {L[m], R[m]}, k # nil
               PROVE  P[k] = m /\ k \in s[k] /\ k # r
    OBVIOUS
  <2>1. P[k] = m /\ k \in N /\ m # nil
    BY <1>1, <1>2 DEF Linked
  <2> QED
    BY <1>1, <2>1 DEF Linked
<1>7. IF n = r THEN P[n] = nil
      ELSE P[n] \in N /\ P[n] # nil /\ P[n] # n /\ (L[P[n]] = n <=> R[P[n]] # n)
  BY <1>1, <1>2, <1>3, <1>5 DEF Linked, Hung
<1> QED
  BY <1>1, <1>2, <1>3, <1>4, <1>5, <1>6, <1>7

LEMMA NotBothBelow ==
  ASSUME NEW N, NEW nil, NEW r, NEW L, NEW R, NEW P, NEW s, NEW ord,
         SearchTree(N, nil, r, L, R, P, s, ord), StrictOrder(N, ord),
         NEW m \in N, NEW n \in N, m \in s[n], n \in s[m]
  PROVE  m = n
<1>1. /\ s[n] = {n} \cup s[L[n]] \cup s[R[n]] /\ n \notin s[L[n]] /\ n \notin s[R[n]]
      /\ L[n] \in N \cup {nil} /\ R[n] \in N \cup {nil}
  BY Node
<1>2. s[nil] = {}
  BY DEF SearchTree, Shape, Hung
<1>3. \A k \in {L[n], R[n]} : m \in s[k] => s[m] \subseteq s[k]
  BY <1>1, <1>2 DEF SearchTree, Shape, Nested
<1> QED
  BY <1>1, <1>3

(* y goes down to the right and x, its left child, takes its place.        *)
Turned(N, nil, y, r, L, R, P, r2, L2, R2, P2) ==
  LET x == L[y]
      b == R[x]
      p == P[y]
  IN /\ r2 = IF p = nil THEN x ELSE r
     /\ \A n \in N :
          /\ L2[n] = IF n = y THEN b ELSE IF n = p /\ L[n] = y THEN x ELSE L[n]
          /\ R2[n] = IF n = x THEN y ELSE IF n = p /\ R[n] = y THEN x ELSE R[n]
          /\ P2[n] = IF n = x THEN p ELSE IF n = y THEN x ELSE IF n = b THEN y ELSE P[n]

Turn(N, nil, y, L, R, s) ==
  [n \in N \cup {nil} |->
     IF n = L[y] THEN s[y] ELSE IF n = y THEN {y} \cup s[R[L[y]]] \cup s[R[y]] ELSE s[n]]

(* A rotation leaves a search tree of the same nodes in the same order.    *)
LEMMA Rotation ==
  ASSUME NEW N, NEW nil, NEW r, NEW L, NEW R, NEW P, NEW s, NEW ord,
         SearchTree(N, nil, r, L, R, P, s, ord), StrictOrder(N, ord),
         NEW y \in N, L[y] # nil,
         NEW r2, NEW L2, NEW R2, NEW P2, Turned(N, nil, y, r, L, R, P, r2, L2, R2, P2)
  PROVE  SearchTree(N, nil, r2, L2, R2, P2, Turn(N, nil, y, L, R, s), ord)
<1> DEFINE x == L[y]
           a == L[x]
           b == R[x]
           c == R[y]
           p == P[y]
           t == Turn(N, nil, y, L, R, s)
<1>1. /\ r2 = IF p = nil THEN x ELSE r
      /\ \A n \in N :
           /\ L2[n] = IF n = y THEN b ELSE IF n = p /\ L[n] = y THEN x ELSE L[n]
           /\ R2[n] = IF n = x THEN y ELSE IF n = p /\ R[n] = y THEN x ELSE R[n]
           /\ P2[n] = IF n = x THEN p ELSE IF n = y THEN x ELSE IF n = b THEN y ELSE P[n]
  BY DEF Turned
<1>2. \A n \in N \cup {nil} :
        t[n] = IF n = x THEN s[y] ELSE IF n = y THEN {y} \cup s[b] \cup s[c] ELSE s[n]
  BY DEF Turn
<1> HIDE DEF t
<1>3. nil \notin N /\ r \in N \cup {nil} /\ s[nil] = {} /\ s[r] = N
  BY DEF SearchTree, Shape, Hung
<1>4. \A n \in N :
        /\ n \in s[n] /\ s[n] \subseteq N
        /\ L[n] \in N \cup {nil} /\ R[n] \in N \cup {nil}
        /\ s[n] = {n} \cup s[L[n]] \cup s[R[n]]
        /\ L[n] # n /\ R[n] # n
        /\ L[n] # nil => P[L[n]] = n /\ L[n] # r
        /\ R[n] # nil => P[R[n]] = n /\ R[n] # r
        /\ L[n] = R[n] => L[n] = nil
        /\ IF n = r THEN P[n] = nil
           ELSE P[n] \in N /\ P[n] # nil /\ P[n] # n /\ (L[P[n]] = n <=> R[P[n]] # n)
  BY Node
<1>5. x \in N /\ x # y /\ P[x] = y /\ x # r
  BY <1>4
<1>6. /\ a \in N \cup {nil} /\ b \in N \cup {nil} /\ c \in N \cup {nil}
      /\ s[x] = {x} \cup s[a] \cup s[b] /\ s[y] = {y} \cup s[x] \cup s[c]
      /\ y \notin s[x] /\ a # x /\ b # x /\ c # y /\ c # x
      /\ a = b => a = nil
  BY <1>4, <1>5, Node
<1> HIDE DEF x, a, b, c, p
<1>7. /\ a # y /\ b # y /\ p # x /\ p # y
      /\ IF p = nil THEN y = r ELSE p \in N /\ y # r /\ (L[p] = y <=> R[p] # y)
      /\ b # nil => P[b] = x /\ b # r
      /\ a # nil => P[a] = x
      /\ c # nil => P[c] = y
  <2>1. a # y /\ b # y
    BY <1>3, <1>4, <1>6
  <2>2. IF p = nil THEN y = r ELSE p \in N /\ y # r /\ p # y /\ (L[p] = y <=> R[p] # y)
    BY <1>3, <1>4 DEF p
  <2>3. p # x
    BY <1>3, <1>5, <2>1, <2>2 DEF a, b
  <2>4. p # y
    BY <1>3, <2>2
  <2> QED
    BY <1>4, <1>5, <2>1, <2>2, <2>3, <2>4 DEF a, b, c
<1>8. /\ t[x] = s[y] /\ t[y] = {y} \cup s[b] \cup s[c]
      /\ t[a] = s[a] /\ t[b] = s[b] /\ t[c] = s[c] /\ t[nil] = {}
      /\ \A n \in (N \cup {nil}) \ {x, y} : t[n] = s[n]
  BY <1>2, <1>3, <1>5, <1>6, <1>7
<1>9. /\ L2[y] = b /\ R2[y] = c /\ L2[x] = a /\ R2[x] = y
      /\ P2[x] = p /\ P2[y] = x /\ (b # nil => P2[b] = y)
      /\ \A n \in N \ {x, y, b} : P2[n] = P[n]
  BY <1>1, <1>5, <1>6, <1>7 DEF a, c
<1>10. \A n \in N \ {x, y, p} :
         L2[n] = L[n] /\ R2[n] = R[n] /\ L[n] \notin {x, y} /\ R[n] \notin {x, y}
  <2> SUFFICES ASSUME NEW n \in N \ {x, y, p}
               PROVE  L2[n] = L[n] /\ R2[n] = R[n] /\ L[n] \notin {x, y} /\ R[n] \notin {x, y}
    OBVIOUS
  <2>1. L[n] # nil => P[L[n]] = n
    BY <1>4
  <2>2. R[n] # nil => P[R[n]] = n
    BY <1>4
  <2> QED
    BY <1>1, <1>3, <1>5, <2>1, <2>2 DEF p
<1>11. p # nil =>
         /\ p \in N \ {x, y}
         /\ L[p] = y => L2[p] = x /\ R2[p] = R[p] /\ R[p] \notin {x, y}
         /\ L[p] # y => R2[p] = x /\ R[p] = y /\ L2[p] = L[p] /\ L[p] \notin {x, y}
  <2> SUFFICES ASSUME p # nil
               PROVE  /\ p \in N \ {x, y}
                      /\ L[p] = y => L2[p] = x /\ R2[p] = R[p] /\ R[p] \notin {x, y}
                      /\ L[p] # y => R2[p] = x /\ R[p] = y /\ L2[p] = L[p] /\ L[p] \notin {x, y}
    OBVIOUS
  <2>1. p \in N \ {x, y}
    BY <1>7
  <2>2. L[p] # nil => P[L[p]] = p
    BY <1>4, <2>1
  <2>3. R[p] # nil => P[R[p]] = p
    BY <1>4, <2>1
  <2>4. L[p] # x /\ R[p] # x
    BY <1>3, <1>5, <2>1, <2>2, <2>3
  <2> QED
    BY <1>1, <1>7, <2>1, <2>4
<1>12. Hung(N, nil, r2, t)
  BY <1>1, <1>3, <1>5, <1>7, <1>8 DEF Hung
<1>13. Split(N, nil, L2, R2, t)
  <2> SUFFICES ASSUME NEW n \in N
               PROVE  L2[n] \in N \cup {nil} /\ R2[n] \in N \cup {nil}
                      /\ t[n] = {n} \cup t[L2[n]] \cup t[R2[n]]
    BY DEF Split
  <2>1. CASE n = x
    BY <2>1, <1>5, <1>6, <1>8, <1>9
  <2>2. CASE n = y
    BY <2>2, <1>5, <1>6, <1>8, <1>9
  <2>3. CASE n = p
    BY <2>3, <1>3, <1>4, <1>5, <1>8, <1>11
  <2>4. CASE n \notin {x, y, p}
    BY <2>4, <1>4, <1>8, <1>10
  <2> QED
    BY <2>1, <2>2, <2>3, <2>4
<1>14. /\ \A m, n \in N : m \in s[n] => s[m] \subseteq s[n]
       /\ \A m, n \in N : m \in s[n] /\ m # n => P[m] \in s[n]
  BY DEF SearchTree, Shape, Nested
<1>15. /\ \A k \in {b, c} : k # nil => s[k] \subseteq N /\ x \notin s[k] /\ y \notin s[k] /\ k \in s[k]
       /\ s[b] \subseteq N /\ s[c] \subseteq N
  <2>1. x \notin s[b] /\ y \notin s[c] /\ s[x] \cap s[c] = {} /\ x \in s[x]
    BY <1>5, Node DEF b, c, x
  <2> QED
    BY <1>3, <1>4, <1>6, <2>1
<1>16. Nested(N, P2, t)
  <2> SUFFICES ASSUME NEW n \in N, NEW m \in t[n]
               PROVE  t[m] \subseteq t[n] /\ (m # n => P2[m] \in t[n])
    BY DEF Nested
  <2>1. t[y] \subseteq s[y] /\ x \notin t[y] /\ t[x] = s[y] /\ s[y] \subseteq N /\ x \in s[y] /\ y \in s[y]
    BY <1>4, <1>5, <1>6, <1>8, <1>15
  <2>2. CASE n = x
    <3>1. m \in s[y] /\ m \in N
      BY <2>1, <2>2
    <3>2. t[m] \subseteq s[y]
      BY <1>8, <1>14, <2>1, <3>1
    <3>3. m # x => P2[m] \in s[y]
      <4>1. m \notin {x, y} => P[m] \in s[y]
        BY <1>14, <3>1
      <4>2. m \notin {x, y, b} => P2[m] = P[m]
        BY <1>9, <3>1
      <4>3. m = b => P2[m] = y
        BY <1>3, <1>9, <3>1
      <4> QED
        BY <1>9, <2>1, <4>1, <4>2, <4>3
    <3> QED
      BY <2>1, <2>2, <3>2, <3>3
  <2>3. CASE n = y
    <3>1. CASE m = y
      BY <2>3, <3>1
    <3>2. ASSUME NEW k \in {b, c}, k # nil, m \in s[k]
          PROVE  t[m] \subseteq t[y] /\ P2[m] \in t[y]
      <4>1. k \in N /\ s[k] \subseteq t[y] /\ m \in N \ {x, y}
        BY <1>6, <1>8, <1>15, <3>2
      <4>2. t[m] \subseteq t[y]
        BY <1>8, <1>14, <3>2, <4>1
      <4>3. CASE m = b
        BY <1>3, <1>8, <1>9, <4>1, <4>3
      <4>4. CASE m # b /\ m = c
        BY <1>3, <1>7, <1>8, <1>9, <4>1, <4>4
      <4>5. CASE m # b /\ m # c
        <5>1. P2[m] = P[m]
          BY <1>9, <4>1, <4>5
        <5>2. P[m] \in s[k]
          BY <1>14, <3>2, <4>1, <4>5
        <5> QED
          BY <4>1, <4>2, <5>1, <5>2
      <4> QED
        BY <4>2, <4>3, <4>4, <4>5
    <3>3. m = y \/ (b # nil /\ m \in s[b]) \/ (c # nil /\ m \in s[c])
      BY <1>3, <1>8, <2>3
    <3> QED
      BY <2>3, <3>1, <3>2, <3>3
  <2>4. CASE n \notin {x, y}
    <3>1. t[n] = s[n] /\ m \in s[n] /\ m \in N
      BY <1>4, <1>8, <2>4
    <3>2. m = x => y \in s[n]
      BY <1>5, <1>14, <2>4, <3>1
    <3>3. t[m] \subseteq s[n]
      BY <1>8, <1>14, <2>1, <3>1, <3>2
    <3>4. CASE m = x
      <4>1. P2[m] = P[y]
        BY <1>9, <3>4 DEF p
      <4>2. P[y] \in s[n]
        BY <1>14, <2>4, <3>2, <3>4
      <4> QED
        BY <3>1, <3>3, <4>1, <4>2
    <3>5. CASE m = y
      BY <1>9, <1>14, <2>1, <3>1, <3>5
    <3>6. CASE m = b
      <4>1. b # nil /\ P2[m] = y
        BY <1>3, <1>9, <3>1, <3>6
      <4>2. m # n => x \in s[n]
        BY <1>7, <1>14, <3>1, <3>6, <4>1
      <4> QED
        BY <1>5, <1>14, <2>4, <3>1, <3>3, <4>1, <4>2
    <3>7. CASE m \notin {x, y, b}
      BY <1>9, <1>14, <3>1, <3>3, <3>7
    <3> QED
      BY <3>1, <3>3, <3>4, <3>5, <3>6, <3>7
  <2> QED
    BY <2>2, <2>3, <2>4
<1>17. Linked(N, nil, r2, L2, R2, P2)
  <2>1. ASSUME NEW n \in N, NEW m \in {L2[n], R2[n]} \ {nil}
        PROVE  P2[m] = n
    <3>1. \A k \in N : (L[k] # nil => P[L[k]] = k) /\ (R[k] # nil => P[R[k]] = k)
      BY <1>4
    <3>2. CASE n = x
      BY <3>2, <1>5, <1>6, <1>7, <1>9, <2>1
    <3>3. CASE n = y
      BY <3>3, <1>5, <1>6, <1>7, <1>9, <2>1
    <3>4. CASE n = p
      BY <3>4, <3>1, <1>3, <1>4, <1>5, <1>7, <1>9, <1>11, <2>1
    <3>5. CASE n \notin {x, y, p}
      BY <3>5, <3>1, <1>3, <1>4, <1>5, <1>7, <1>9, <1>10, <2>1
    <3> QED
      BY <3>2, <3>3, <3>4, <3>5
  <2>2. ASSUME NEW n \in N, n = r2
        PROVE  P2[n] = nil
    BY <2>2, <1>1, <1>3, <1>4, <1>5, <1>7, <1>9
  <2>3. ASSUME NEW n \in N, n # r2
        PROVE  P2[n] \in N /\ n \in {L2[P2[n]], R2[P2[n]]}
    <3>1. CASE n = x
      BY <3>1, <1>1, <1>7, <1>9, <1>11, <2>3
    <3>2. CASE n = y
      BY <3>2, <1>5, <1>9
    <3>3. CASE n = b
      BY <3>3, <1>3, <1>9
    <3>4. CASE n \notin {x, y, b}
      <4>1. n # r /\ P2[n] = P[n] /\ P[n] \in N /\ n \in {L[P[n]], R[P[n]]}
        BY <3>4, <1>1, <1>4, <1>7, <1>9, <2>3
      <4>2. CASE P[n] = x
        BY <3>4, <4>1, <4>2, <1>9 DEF a, b
      <4>3. CASE P[n] = y
        BY <3>4, <4>1, <4>3, <1>9 DEF x, c
      <4>4. CASE P[n] = p
        BY <3>4, <4>1, <4>4, <1>3, <1>11
      <4>5. CASE P[n] \notin {x, y, p}
        BY <4>1, <4>5, <1>10
      <4> QED
        BY <4>2, <4>3, <4>4, <4>5
    <3> QED
      BY <3>1, <3>2, <3>3, <3>4
  <2> QED
    BY <2>1, <2>2, <2>3 DEF Linked
<1>18. Sorted(N, L2, R2, t, ord)
  <2> SUFFICES ASSUME NEW n \in N
               PROVE  /\ \A m \in t[L2[n]] : << m, n >> \in ord
                      /\ \A m \in t[R2[n]] : << n, m >> \in ord
    BY DEF Sorted
  <2>1. \A k \in N : /\ \A m \in s[L[k]] : << m, k >> \in ord
                     /\ \A m \in s[R[k]] : << k, m >> \in ord
    BY DEF SearchTree, Sorted
  <2>2. /\ \A m \in s[x] : << m, y >> \in ord
        /\ \A m \in s[c] : << y, m >> \in ord
        /\ \A m \in s[a] : << m, x >> \in ord
        /\ \A m \in s[b] : << x, m >> \in ord
    BY <2>1, <1>5 DEF x, a, b, c
  <2>3. CASE n = x
    <3>1. << x, y >> \in ord
      BY <2>2, <1>4, <1>5
    <3>2. \A m \in s[c] : << x, m >> \in ord
      BY <2>2, <3>1, <1>5, <1>15 DEF StrictOrder
    <3> QED
      BY <2>2, <2>3, <3>1, <3>2, <1>8, <1>9
  <2>4. CASE n = y
    BY <2>2, <2>4, <1>6, <1>8, <1>9
  <2>5. CASE n = p
    BY <2>1, <2>5, <1>3, <1>4, <1>8, <1>11
  <2>6. CASE n \notin {x, y, p}
    BY <2>1, <2>6, <1>4, <1>8, <1>10
  <2> QED
    BY <2>3, <2>4, <2>5, <2>6
<1> QED
  BY <1>12, <1>13, <1>16, <1>17, <1>18 DEF SearchTree, Shape, t

-----------------------------------------------------------------------------
(* t becomes the left child of u.                                          *)
LeafLeft(N, nil, t, u, r, L, R, P, r2, L2, R2, P2) ==
  /\ L[u] = nil /\ r2 = r
  /\ \A n \in N : L2[n] = (IF n = u THEN t ELSE L[n]) /\ R2[n] = R[n] /\ P2[n] = P[n]
  /\ L2[t] = nil /\ R2[t] = nil /\ P2[t] = u

WithLeaf(N, nil, t, u, s) ==
  [n \in N \cup {nil, t} |->
     IF n = t THEN {t} ELSE IF u \in s[n] THEN s[n] \cup {t} ELSE s[n]]

(* Where u is below n, t is on the side of n that u is on. *)
Beside(N, L, R, s, ord, t, u) ==
  \A n \in N :
    /\ u \in s[L[n]] => << t, n >> \in ord
    /\ u \in s[R[n]] => << n, t >> \in ord

LEMMA LeafOnLeft ==
  ASSUME NEW N, NEW nil, NEW r, NEW L, NEW R, NEW P, NEW s, NEW ord,
         SearchTree(N, nil, r, L, R, P, s, ord), StrictOrder(N, ord),
         NEW u \in N, NEW t, t \notin N, t # nil,
         Beside(N, L, R, s, ord, t, u), << t, u >> \in ord,
         NEW r2, NEW L2, NEW R2, NEW P2, LeafLeft(N, nil, t, u, r, L, R, P, r2, L2, R2, P2)
  PROVE  SearchTree(N \cup {t}, nil, r2, L2, R2, P2, WithLeaf(N, nil, t, u, s), ord)
<1> DEFINE M == N \cup {t}
           q == WithLeaf(N, nil, t, u, s)
<1>1. /\ L[u] = nil /\ r2 = r
      /\ \A n \in N : L2[n] = (IF n = u THEN t ELSE L[n]) /\ R2[n] = R[n] /\ P2[n] = P[n]
      /\ L2[t] = nil /\ R2[t] = nil /\ P2[t] = u
  BY DEF LeafLeft
<1>2. \A n \in N \cup {nil, t} :
        q[n] = IF n = t THEN {t} ELSE IF u \in s[n] THEN s[n] \cup {t} ELSE s[n]
  BY DEF WithLeaf
<1> HIDE DEF q
<1>3. nil \notin N /\ r \in N \cup {nil} /\ s[nil] = {} /\ s[r] = N
  BY DEF SearchTree, Shape, Hung
<1>4. \A n \in N :
        /\ n \in s[n] /\ s[n] \subseteq N
        /\ L[n] \in N \cup {nil} /\ R[n] \in N \cup {nil}
        /\ s[n] = {n} \cup s[L[n]] \cup s[R[n]]
        /\ n \notin s[L[n]] /\ n \notin s[R[n]]
        /\ L[n] # nil => P[L[n]] = n /\ L[n] # r
        /\ R[n] # nil => P[R[n]] = n /\ R[n] # r
        /\ IF n = r THEN P[n] = nil
           ELSE P[n] \in N /\ n \in {L[P[n]], R[P[n]]}
  BY Node DEF SearchTree, Shape, Linked
<1>5. q[nil] = {} /\ q[t] = {t} /\ \A n \in N : q[n] = IF u \in s[n] THEN s[n] \cup {t} ELSE s[n]
  BY <1>2, <1>3
<1>6. \A k \in N \cup {nil} : q[k] \subseteq M /\ (\A m : m \in q[k] <=> m \in s[k] \/ (m = t /\ u \in s[k]))
  <2> SUFFICES ASSUME NEW k \in N \cup {nil}
               PROVE  q[k] \subseteq M /\ (\A m : m \in q[k] <=> m \in s[k] \/ (m = t /\ u \in s[k]))
    OBVIOUS
  <2>1. s[k] \subseteq N
    BY <1>3, <1>4
  <2>2. CASE u \in s[k]
    <3>1. q[k] = s[k] \cup {t}
      BY <2>2, <1>3, <1>5
    <3> QED
      BY <2>1, <2>2, <3>1
  <2>3. CASE u \notin s[k]
    <3>1. q[k] = s[k]
      BY <2>3, <1>3, <1>5
    <3> QED
      BY <2>1, <2>3, <3>1
  <2> QED
    BY <2>2, <2>3
<1>7. L2[u] = t /\ R2[u] = R[u] /\ q[R[u]] = s[R[u]] /\ R[u] \in N \cup {nil} /\ q[u] = s[u] \cup {t}
      /\ s[u] = {u} \cup s[R[u]]
  <2>1. R[u] \in N \cup {nil} /\ u \notin s[R[u]] /\ s[u] = {u} \cup s[R[u]] /\ u \in s[u]
    BY <1>1, <1>3, <1>4
  <2> QED
    BY <2>1, <1>1, <1>3, <1>5
<1>8. Hung(M, nil, r2, q)
  BY <1>1, <1>3, <1>5 DEF Hung
<1>9. Split(M, nil, L2, R2, q)
  <2> SUFFICES ASSUME NEW n \in M
               PROVE  L2[n] \in M \cup {nil} /\ R2[n] \in M \cup {nil}
                      /\ q[n] = {n} \cup q[L2[n]] \cup q[R2[n]]
    BY DEF Split
  <2>1. CASE n = t
    BY <2>1, <1>1, <1>5
  <2>2. CASE n = u
    BY <2>2, <1>5, <1>7
  <2>3. CASE n \notin {t, u}
    <3>1. n \in N /\ L2[n] = L[n] /\ R2[n] = R[n]
      BY <2>3, <1>1
    <3>2. L[n] \in N \cup {nil} /\ R[n] \in N \cup {nil} /\ s[n] = {n} \cup s[L[n]] \cup s[R[n]]
      BY <1>4, <3>1
    <3>3. \A m : m \in q[n] <=> m \in {n} \cup q[L[n]] \cup q[R[n]]
      BY <1>6, <2>3, <3>1, <3>2
    <3> QED
      BY <3>1, <3>2, <3>3
  <2> QED
    BY <2>1, <2>2, <2>3
<1>10. Nested(M, P2, q)
  <2> SUFFICES ASSUME NEW n \in M, NEW m \in q[n]
               PROVE  q[m] \subseteq q[n] /\ (m # n => P2[m] \in q[n])
    BY DEF Nested
  <2>1. \A j, k \in N : j \in s[k] => s[j] \subseteq s[k] /\ (j # k => P[j] \in s[k])
    BY DEF SearchTree, Shape, Nested
  <2>2. CASE n = t
    BY <2>2, <1>5
  <2>3. CASE n # t /\ m = t
    <3>1. n \in N /\ u \in s[n]
      BY <2>3, <1>4, <1>6
    <3> QED
      BY <2>3, <3>1, <1>1, <1>5, <1>6
  <2>4. CASE n # t /\ m # t
    <3>1. n \in N /\ m \in s[n] /\ s[n] \subseteq q[n] /\ m \in N
      BY <2>4, <1>4, <1>6
    <3>2. s[m] \subseteq s[n] /\ (m # n => P2[m] \in s[n])
      BY <2>1, <3>1, <1>1
    <3>3. q[m] \subseteq q[n]
      BY <1>6, <3>1, <3>2
    <3> QED
      BY <3>1, <3>2, <3>3
  <2> QED
    BY <2>2, <2>3, <2>4
<1>11. Linked(M, nil, r2, L2, R2, P2)
  <2>1. ASSUME NEW n \in M, NEW m \in {L2[n], R2[n]} \ {nil}
        PROVE  P2[m] = n
    <3>1. CASE n = t
      BY <3>1, <1>1, <2>1
    <3>2. CASE n = u
      BY <3>2, <1>1, <1>4, <2>1
    <3>3. CASE n \notin {t, u}
      BY <3>3, <1>1, <1>4, <2>1
    <3> QED
      BY <3>1, <3>2, <3>3
  <2>2. ASSUME NEW n \in M
        PROVE  IF n = r2 THEN P2[n] = nil ELSE P2[n] \in M /\ n \in {L2[P2[n]], R2[P2[n]]}
    <3>1. CASE n = t
      BY <3>1, <1>1, <1>3
    <3>2. CASE n # t /\ n = r
      BY <3>2, <1>1, <1>4
    <3>3. CASE n # t /\ n # r
      <4>1. P2[n] = P[n] /\ P[n] \in N /\ n \in {L[P[n]], R[P[n]]} /\ n # nil
        BY <3>3, <1>1, <1>3, <1>4
      <4> QED
        BY <3>3, <4>1, <1>1
    <3> QED
      BY <3>1, <3>2, <3>3
  <2> QED
    BY <2>1, <2>2 DEF Linked
<1>12. Sorted(M, L2, R2, q, ord)
  <2> SUFFICES ASSUME NEW n \in M
               PROVE  /\ \A m \in q[L2[n]] : << m, n >> \in ord
                      /\ \A m \in q[R2[n]] : << n, m >> \in ord
    BY DEF Sorted
  <2>1. \A k \in N : /\ \A m \in s[L[k]] : << m, k >> \in ord
                     /\ \A m \in s[R[k]] : << k, m >> \in ord
                     /\ u \in s[L[k]] => << t, k >> \in ord
                     /\ u \in s[R[k]] => << k, t >> \in ord
    BY DEF SearchTree, Sorted, Beside
  <2>2. CASE n = t
    BY <2>2, <1>1, <1>5
  <2>3. CASE n = u
    <3>1. q[L2[n]] = {t} /\ q[R2[n]] = s[R[n]]
      BY <2>3, <1>5, <1>7
    <3> QED
      BY <2>1, <2>3, <3>1
  <2>4. CASE n \notin {t, u}
    <3>1. L2[n] = L[n] /\ R2[n] = R[n] /\ L[n] \in N \cup {nil} /\ R[n] \in N \cup {nil} /\ n \in N
      BY <2>4, <1>1, <1>4
    <3> QED
      BY <2>1, <3>1, <1>6
  <2> QED
    BY <2>2, <2>3, <2>4
<1> QED
  BY <1>8, <1>9, <1>10, <1>11, <1>12 DEF SearchTree, Shape, q

(* t, a leaf, leaves the tree.                                             *)
LeafGone(N, nil, t, r, L, R, P, r2, L2, R2, P2) ==
  /\ L[t] = nil /\ R[t] = nil
  /\ r2 = IF P[t] = nil THEN nil ELSE r
  /\ \A n \in N \ {t} :
       /\ L2[n] = IF L[n] = t THEN nil ELSE L[n]
       /\ R2[n] = IF R[n] = t THEN nil ELSE R[n]
       /\ P2[n] = P[n]

Less(N, nil, t, s) == [n \in N \cup {nil} |-> s[n] \ {t}]

LEMMA LeafLeaves ==
  ASSUME NEW N, NEW nil, NEW r, NEW L, NEW R, NEW P, NEW s, NEW ord,
         SearchTree(N, nil, r, L, R, P, s, ord), StrictOrder(N, ord), NEW t \in N,
         NEW r2, NEW L2, NEW R2, NEW P2, LeafGone(N, nil, t, r, L, R, P, r2, L2, R2, P2)
  PROVE  SearchTree(N \ {t}, nil, r2, L2, R2, P2, Less(N, nil, t, s), ord)
<1> DEFINE M == N \ {t}
           q == Less(N, nil, t, s)
<1>1. /\ L[t] = nil /\ R[t] = nil
      /\ r2 = IF P[t] = nil THEN nil ELSE r
      /\ \A n \in M :
           /\ L2[n] = IF L[n] = t THEN nil ELSE L[n]
           /\ R2[n] = IF R[n] = t THEN nil ELSE R[n]
           /\ P2[n] = P[n]
  BY DEF LeafGone
<1>2. \A n \in N \cup {nil} : q[n] = s[n] \ {t}
  BY DEF Less
<1> HIDE DEF q
<1>3. nil \notin N /\ r \in N \cup {nil} /\ s[nil] = {} /\ s[r] = N
  BY DEF SearchTree, Shape, Hung
<1>4. \A n \in N :
        /\ n \in s[n] /\ s[n] \subseteq N
        /\ L[n] \in N \cup {nil} /\ R[n] \in N \cup {nil}
        /\ s[n] = {n} \cup s[L[n]] \cup s[R[n]]
        /\ L[n] # nil => P[L[n]] = n /\ L[n] # r
        /\ R[n] # nil => P[R[n]] = n /\ R[n] # r
        /\ IF n = r THEN P[n] = nil
           ELSE P[n] \in N /\ n \in {L[P[n]], R[P[n]]}
  BY Node DEF SearchTree, Shape, Linked
<1>5. s[t] = {t} /\ q[nil] = {}
  BY <1>1, <1>2, <1>3, <1>4
<1>6. \A n \in N : n # r => P[n] \in M
  BY <1>1, <1>3, <1>4
<1>7. Hung(M, nil, r2, q)
  <2>1. P[t] = nil <=> t = r
    BY <1>3, <1>4
  <2> QED
    BY <2>1, <1>1, <1>2, <1>3, <1>5 DEF Hung
<1>8. Split(M, nil, L2, R2, q)
  <2> SUFFICES ASSUME NEW n \in M
               PROVE  L2[n] \in M \cup {nil} /\ R2[n] \in M \cup {nil}
                      /\ q[n] = {n} \cup q[L2[n]] \cup q[R2[n]]
    BY DEF Split
  <2>1. L2[n] \in M \cup {nil} /\ q[L2[n]] = s[L[n]] \ {t}
    BY <1>1, <1>2, <1>4, <1>5
  <2>2. R2[n] \in M \cup {nil} /\ q[R2[n]] = s[R[n]] \ {t}
    BY <1>1, <1>2, <1>4, <1>5
  <2> QED
    BY <2>1, <2>2, <1>2, <1>4
<1>9. Nested(M, P2, q)
  <2> SUFFICES ASSUME NEW n \in M, NEW m \in q[n]
               PROVE  q[m] \subseteq q[n] /\ (m # n => P2[m] \in q[n])
    BY DEF Nested
  <2>1. m \in M /\ m \in s[n] /\ q[m] = s[m] \ {t} /\ q[n] = s[n] \ {t}
    BY <1>2, <1>4
  <2>2. s[m] \subseteq s[n] /\ (m # n => P[m] \in s[n])
    BY <2>1 DEF SearchTree, Shape, Nested
  <2>3. m # n => m # r
    BY <2>1, <1>3, <1>4, <2>2
  <2> QED
    BY <2>1, <2>2, <2>3, <1>1, <1>6
<1>10. Linked(M, nil, r2, L2, R2, P2)
  <2>1. ASSUME NEW n \in M, NEW m \in {L2[n], R2[n]} \ {nil}
        PROVE  P2[m] = n
    <3>1. m \in {L[n], R[n]} /\ m # t /\ m \in M
      BY <2>1, <1>1, <1>4
    <3> QED
      BY <3>1, <2>1, <1>1, <1>4
  <2>2. ASSUME NEW n \in M
        PROVE  IF n = r2 THEN P2[n] = nil ELSE P2[n] \in M /\ n \in {L2[P2[n]], R2[P2[n]]}
    <3>1. P2[n] = P[n] /\ n # nil /\ n # t
      BY <1>1, <1>3
    <3>2. CASE n = r
      BY <3>1, <3>2, <1>1, <1>3, <1>4
    <3>3. CASE n # r
      BY <3>1, <3>3, <1>1, <1>3, <1>4, <1>6
    <3> QED
      BY <3>2, <3>3
  <2> QED
    BY <2>1, <2>2 DEF Linked
<1>11. Sorted(M, L2, R2, q, ord)
  <2> SUFFICES ASSUME NEW n \in M
               PROVE  /\ \A m \in q[L2[n]] : << m, n >> \in ord
                      /\ \A m \in q[R2[n]] : << n, m >> \in ord
    BY DEF Sorted
  <2>1. /\ \A m \in s[L[n]] : << m, n >> \in ord
        /\ \A m \in s[R[n]] : << n, m >> \in ord
    BY DEF SearchTree, Sorted
  <2>2. q[L2[n]] \subseteq s[L[n]] /\ q[R2[n]] \subseteq s[R[n]]
    BY <1>1, <1>2, <1>4, <1>5
  <2> QED
    BY <2>1, <2>2
<1> QED
  BY <1>7, <1>8, <1>9, <1>10, <1>11 DEF SearchTree, Shape, q

-----------------------------------------------------------------------------
(* The place for t: u is the last node on the way to it and c the child of *)
(* u on the side of t; at the start there is no u and c is the root.       *)
Place(N, nil, r, L, R, s, ord, t, u, c) ==
  IF u = nil THEN c = r
  ELSE /\ u \in N
       /\ Beside(N, L, R, s, ord, t, u)
       /\ \/ << t, u >> \in ord /\ c = L[u]
          \/ << u, t >> \in ord /\ c = R[u]

LEMMA PlaceBelow ==
  ASSUME NEW N, NEW nil, NEW r, NEW L, NEW R, NEW P, NEW s, NEW ord,
         SearchTree(N, nil, r, L, R, P, s, ord), StrictOrder(N, ord),
         NEW t, NEW u, NEW c \in N, Place(N, nil, r, L, R, s, ord, t, u, c), NEW d,
         \/ << t, c >> \in ord /\ d = L[c]
         \/ << c, t >> \in ord /\ d = R[c]
  PROVE  Place(N, nil, r, L, R, s, ord, t, c, d)
<1>1. nil \notin N /\ s[nil] = {} /\ s[r] = N
  BY DEF SearchTree, Shape, Hung
<1>2. ASSUME NEW n \in N, NEW K \in {L, R}, c \in s[K[n]]
      PROVE  u \in N /\ u # nil /\ (u \in s[K[n]] \/ (u = n /\ c = K[n]))
  <2>1. /\ K[n] \in N /\ n \notin s[K[n]] /\ s[K[n]] \subseteq s[n] /\ P[K[n]] = n
    BY <1>1, <1>2, Node
  <2>2. c # r
    <3> SUFFICES ASSUME c = r
                 PROVE  FALSE
      OBVIOUS
    <3>1. n \in s[c] /\ c \in s[n]
      BY <1>1, <1>2, <2>1
    <3>2. n = c
      BY <3>1, NotBothBelow
    <3> QED
      BY <3>2, <1>2, <2>1
  <2>3. u # nil /\ u \in N /\ c \in {L[u], R[u]}
    BY <2>2 DEF Place
  <2>4. P[c] = u
    BY <1>1, <2>3, Node
  <2>5. c # K[n] => u \in s[K[n]]
    BY <1>2, <2>1, <2>4 DEF SearchTree, Shape, Nested
  <2> QED
    BY <2>1, <2>3, <2>4, <2>5
<1>3. ASSUME NEW n \in N, c \in s[L[n]]
      PROVE  << t, n >> \in ord
  <2>1. u # nil /\ (u \in s[L[n]] \/ (u = n /\ c = L[n]))
    BY <1>2, <1>3
  <2>2. L[n] = R[n] => L[n] = nil
    BY Node
  <2> QED
    BY <2>1, <2>2, <1>1, <1>3 DEF Place, Beside
<1>4. ASSUME NEW n \in N, c \in s[R[n]]
      PROVE  << n, t >> \in ord
  <2>1. u # nil /\ (u \in s[R[n]] \/ (u = n /\ c = R[n]))
    BY <1>2, <1>4
  <2>2. L[n] = R[n] => L[n] = nil
    BY Node
  <2> QED
    BY <2>1, <2>2, <1>1, <1>4 DEF Place, Beside
<1> QED
  BY <1>1, <1>3, <1>4 DEF Place, Beside

LEMMA MirrorBack ==
  ASSUME NEW N, NEW nil, NEW r, NEW L, NEW R, NEW P, NEW s, NEW ord, NEW A, ord \subseteq A \X A,
         SearchTree(N, nil, r, R, L, P, s, Reverse(ord)), StrictOrder(N, ord)
  PROVE  SearchTree(N, nil, r, L, R, P, s, ord)
<1>1. \A m, n : << m, n >> \in ord <=> << n, m >> \in Reverse(ord)
  BY Reversed
<1>2. Shape(N, nil, r, L, R, P, s)
  BY DEF SearchTree, Shape, Split, Linked
<1>3. Sorted(N, L, R, s, ord)
  BY <1>1 DEF SearchTree, Sorted
<1> QED
  BY <1>2, <1>3 DEF SearchTree

(* The same rotation to the left: y goes down and R[y] takes its place.    *)
LEMMA RotationLeft ==
  ASSUME NEW N, NEW nil, NEW r, NEW L, NEW R, NEW P, NEW s, NEW ord, NEW A, ord \subseteq A \X A,
         SearchTree(N, nil, r, L, R, P, s, ord), StrictOrder(N, ord),
         NEW y \in N, R[y] # nil,
         NEW r2, NEW L2, NEW R2, NEW P2, Turned(N, nil, y, r, R, L, P, r2, R2, L2, P2)
  PROVE  SearchTree(N, nil, r2, L2, R2, P2, Turn(N, nil, y, R, L, s), ord)
<1>1. SearchTree(N, nil, r, R, L, P, s, Reverse(ord)) /\ StrictOrder(N, Reverse(ord))
  BY Mirror
<1>2. SearchTree(N, nil, r2, R2, L2, P2, Turn(N, nil, y, R, L, s), Reverse(ord))
  BY <1>1, Rotation
<1> QED
  BY <1>2, MirrorBack

LeafPut(N, nil, t, u, ord, r, L, R, P, r2, L2, R2, P2) ==
  /\ r2 = IF u = nil THEN t ELSE r
  /\ \A n \in N :
       /\ L2[n] = IF n = u /\ << t, n >> \in ord THEN t ELSE L[n]
       /\ R2[n] = IF n = u /\ << n, t >> \in ord THEN t ELSE R[n]
       /\ P2[n] = P[n]
  /\ L2[t] = nil /\ R2[t] = nil /\ P2[t] = u

(* A leaf put in its place leaves a search tree.                           *)
LEMMA LeafPlaced ==
  ASSUME NEW N, NEW nil, NEW r, NEW L, NEW R, NEW P, NEW s, NEW ord, NEW A, ord \subseteq A \X A,
         NEW t, t \notin N, t # nil, NEW u,
         SearchTree(N, nil, r, L, R, P, s, ord), StrictOrder(N \cup {t}, ord),
         Place(N, nil, r, L, R, s, ord, t, u, nil),
         NEW r2, NEW L2, NEW R2, NEW P2, LeafPut(N, nil, t, u, ord, r, L, R, P, r2, L2, R2, P2)
  PROVE  SearchTree(N \cup {t}, nil, r2, L2, R2, P2, WithLeaf(N, nil, t, u, s), ord)
<1> DEFINE q == WithLeaf(N, nil, t, u, s)
<1>1. /\ r2 = IF u = nil THEN t ELSE r
      /\ \A n \in N :
           /\ L2[n] = IF n = u /\ << t, n >> \in ord THEN t ELSE L[n]
           /\ R2[n] = IF n = u /\ << n, t >> \in ord THEN t ELSE R[n]
           /\ P2[n] = P[n]
      /\ L2[t] = nil /\ R2[t] = nil /\ P2[t] = u
  BY DEF LeafPut
<1>2. StrictOrder(N, ord) /\ nil \notin N /\ s[nil] = {} /\ s[r] = N
  BY DEF StrictOrder, SearchTree, Shape, Hung
<1>3. \A n \in N : ~ (<< t, n >> \in ord /\ << n, t >> \in ord)
  BY DEF StrictOrder
<1>4. CASE u = nil
  <2>1. N = {} /\ r2 = t
    BY <1>1, <1>2, <1>4 DEF Place
  <2>2. q[t] = {t} /\ q[nil] = {}
    BY <1>2, <1>4 DEF WithLeaf
  <2> HIDE DEF q
  <2>3. SearchTree(N \cup {t}, nil, r2, L2, R2, P2, q, ord)
    BY <1>1, <1>4, <2>1, <2>2 DEF SearchTree, Shape, Hung, Split, Nested, Linked, Sorted
  <2> QED
    BY <2>3 DEF q
<1>5. CASE u # nil /\ << t, u >> \in ord
  <2>1. u \in N /\ Beside(N, L, R, s, ord, t, u) /\ L[u] = nil
    BY <1>3, <1>5 DEF Place
  <2>2. LeafLeft(N, nil, t, u, r, L, R, P, r2, L2, R2, P2)
    BY <1>1, <1>3, <1>5, <2>1 DEF LeafLeft
  <2> QED
    BY <1>2, <1>5, <2>1, <2>2, LeafOnLeft
<1>6. CASE u # nil /\ << u, t >> \in ord
  <2>1. u \in N /\ Beside(N, L, R, s, ord, t, u) /\ R[u] = nil
    BY <1>3, <1>6 DEF Place
  <2>2. LeafLeft(N, nil, t, u, r, R, L, P, r2, R2, L2, P2)
    BY <1>1, <1>3, <1>6, <2>1 DEF LeafLeft
  <2>3. SearchTree(N, nil, r, R, L, P, s, Reverse(ord)) /\ StrictOrder(N, Reverse(ord))
    BY <1>2, Mirror
  <2>4. Beside(N, R, L, s, Reverse(ord), t, u) /\ << t, u >> \in Reverse(ord)
    BY <1>6, <2>1, Reversed DEF Beside
  <2>5. SearchTree(N \cup {t}, nil, r2, R2, L2, P2, q, Reverse(ord))
    BY <2>1, <2>2, <2>3, <2>4, LeafOnLeft
  <2> QED
    BY <2>5, MirrorBack
<1>7. u # nil => << t, u >> \in ord \/ << u, t >> \in ord
  BY DEF Place
<1> QED
  BY <1>4, <1>5, <1>6, <1>7

(* Another order that agrees on the nodes of the tree serves as well. *)
LEMMA Reorder ==
  ASSUME NEW N, NEW nil, NEW r, NEW L, NEW R, NEW P, NEW s, NEW ord, NEW ord2,
         SearchTree(N, nil, r, L, R, P, s, ord), StrictOrder(N, ord),
         \A m, n \in N : << m, n >> \in ord => << m, n >> \in ord2
  PROVE  SearchTree(N, nil, r, L, R, P, s, ord2)
<1>1. \A n \in N : s[L[n]] \subseteq N /\ s[R[n]] \subseteq N
  BY Node
<1>2. Sorted(N, L, R, s, ord2)
  BY <1>1 DEF SearchTree, Sorted
<1> QED
  BY <1>2 DEF SearchTree

-----------------------------------------------------------------------------
(* A model finds the nodes of a tree level by level (Below of PageHeap):   *)
(* they are those of s, when there are as many levels as nodes.            *)

LEMMA LeastNat ==
  ASSUME NEW S, S \subseteq Nat, S # {}
  PROVE  \E m \in S : \A n \in S : m <= n
<1> DEFINE R == OpToRel(<, Nat)
<1>1. IsWellFoundedOn(R, Nat)
  BY NatLessThanWellFounded
<1>2. PICK m \in S : \A y \in S : ~ (<< y, m >> \in R)
  <2> HIDE DEF R
  <2> QED
    BY <1>1, WFMin
<1>3. \A y \in S : ~ (y < m)
  BY <1>2 DEF OpToRel
<1> QED
  BY <1>3

NextLevel(nil, L, R, up) == (up \cup {L[n] : n \in up} \cup {R[n] : n \in up}) \ {nil}
Levels(nil, L, R, t, C, f) ==
  f = [k \in 0 .. C |-> IF k = 0 THEN {t} \ {nil} ELSE NextLevel(nil, L, R, f[k - 1])]

(* The recursive function that lists the levels exists.                    *)
LEMMA LevelsExist ==
  ASSUME NEW nil, NEW L, NEW R, NEW t, NEW C \in Nat
  PROVE  \E f : Levels(nil, L, R, t, C, f)
<1> DEFINE Bad == {c \in Nat : \A f : ~ Levels(nil, L, R, t, c, f)}
<1> SUFFICES ASSUME Bad # {}
             PROVE  FALSE
  OBVIOUS
<1>1. PICK c \in Bad : \A n \in Bad : c <= n
  BY LeastNat
<1>2. c # 0
  <2> DEFINE f == [k \in 0 .. 0 |-> {t} \ {nil}]
  <2>1. \A k \in 0 .. 0 : k = 0
    OBVIOUS
  <2>2. f = [k \in 0 .. 0 |-> IF k = 0 THEN {t} \ {nil} ELSE NextLevel(nil, L, R, f[k - 1])]
    BY <2>1
  <2>3. Levels(nil, L, R, t, 0, f)
    BY <2>2 DEF Levels
  <2> QED
    BY <2>3
<1>3. c - 1 \in Nat /\ c - 1 \notin Bad
  BY <1>1, <1>2
<1>4. PICK f : Levels(nil, L, R, t, c - 1, f)
  BY <1>3
<1> DEFINE g == [k \in 0 .. c |-> IF k < c THEN f[k] ELSE NextLevel(nil, L, R, f[c - 1])]
<1>5. ASSUME NEW k \in 0 .. c
      PROVE  g[k] = IF k = 0 THEN {t} \ {nil} ELSE NextLevel(nil, L, R, g[k - 1])
  <2>1. CASE k = c
    <3>1. c - 1 \in 0 .. c /\ c - 1 < c
      BY <1>3
    <3> QED
      BY <1>2, <2>1, <3>1
  <2>2. CASE k # c
    <3>1. k \in 0 .. c - 1 /\ k < c /\ (k # 0 => k - 1 \in 0 .. c /\ k - 1 < c)
      BY <1>3, <1>5, <2>2
    <3>2. f[k] = IF k = 0 THEN {t} \ {nil} ELSE NextLevel(nil, L, R, f[k - 1])
      BY <1>4, <3>1 DEF Levels
    <3> QED
      BY <3>1, <3>2
  <2> QED
    BY <2>1, <2>2
<1>6. Levels(nil, L, R, t, c, g)
  <2> HIDE DEF g
  <2>1. DOMAIN g = 0 .. c /\ g = [k \in DOMAIN g |-> g[k]]
    BY DEF g
  <2> QED
    BY <1>5, <2>1 DEF Levels
<1> QED
  BY <1>1, <1>6

LEMMA LevelsReach ==
  ASSUME NEW N, NEW nil, NEW r, NEW L, NEW R, NEW P, NEW s, NEW ord,
         SearchTree(N, nil, r, L, R, P, s, ord), StrictOrder(N, ord),
         NEW C \in Nat, IsFiniteSet(N), Cardinality(N) <= C,
         NEW t \in N \cup {nil}, NEW f, Levels(nil, L, R, t, C, f)
  PROVE  f[C] = s[t]
<1>1. f[0] = {t} \ {nil} /\ \A k \in 1 .. C : f[k] = NextLevel(nil, L, R, f[k - 1])
  <2>1. \A k \in 0 .. C : f[k] = IF k = 0 THEN {t} \ {nil} ELSE NextLevel(nil, L, R, f[k - 1])
    BY DEF Levels
  <2>2. 0 \in 0 .. C /\ \A k \in 1 .. C : k \in 0 .. C /\ k # 0
    OBVIOUS
  <2> QED
    BY <2>1, <2>2
<1>2. nil \notin N /\ s[nil] = {} /\ s[t] \subseteq N
  <2>1. nil \notin N /\ s[nil] = {}
    BY DEF SearchTree, Shape, Hung
  <2>2. \A n \in N : s[n] \subseteq N
    BY Node
  <2> QED
    BY <2>1, <2>2
<1>3. \A n \in N : /\ n \in s[n] /\ s[n] \subseteq N /\ s[n] = {n} \cup s[L[n]] \cup s[R[n]]
                   /\ L[n] # nil => L[n] \in s[n]
                   /\ R[n] # nil => R[n] \in s[n]
  BY Node
<1>4. \A k \in 0 .. C : f[k] \subseteq s[t]
  <2> DEFINE Bad == {k \in 0 .. C : ~ (f[k] \subseteq s[t])}
  <2> SUFFICES ASSUME Bad # {}
               PROVE  FALSE
    OBVIOUS
  <2>1. PICK k \in Bad : \A n \in Bad : k <= n
    <3>1. Bad \subseteq Nat
      OBVIOUS
    <3> HIDE DEF Bad
    <3> QED
      BY <3>1, LeastNat
  <2>2. k # 0
    BY <1>1, <1>2, <1>3, <2>1
  <2>3. k - 1 \in 0 .. C /\ k \in 1 .. C /\ k - 1 \notin Bad
    BY <2>1, <2>2
  <2>4. f[k - 1] \subseteq s[t] /\ f[k] = NextLevel(nil, L, R, f[k - 1])
    BY <1>1, <2>3
  <2>5. ASSUME NEW n \in f[k - 1], NEW m \in {L[n], R[n]} \ {nil}
        PROVE  m \in s[t]
    <3>1. n \in N /\ m \in s[n] /\ t # nil /\ t \in N
      BY <1>2, <1>3, <2>4, <2>5
    <3>2. s[n] \subseteq s[t]
      BY <2>4, <3>1 DEF SearchTree, Shape, Nested
    <3> QED
      BY <3>1, <3>2
  <2>6. f[k] \subseteq s[t]
    BY <2>4, <2>5 DEF NextLevel
  <2> QED
    BY <2>1, <2>6
<1>5. \A m \in s[t] : s[m] \subseteq s[t] /\ m \in N /\ t \in N /\ (m # t => P[m] \in s[t])
  BY <1>2 DEF SearchTree, Shape, Nested
<1>6. \A m \in s[t] : /\ Cardinality(s[m]) \in Nat /\ IsFiniteSet(s[m])
                      /\ Cardinality(s[t]) \in Nat /\ Cardinality(s[t]) <= C /\ IsFiniteSet(s[t])
                      /\ Cardinality(s[m]) >= 1
  <2> SUFFICES ASSUME NEW m \in s[t]
               PROVE  /\ Cardinality(s[m]) \in Nat /\ IsFiniteSet(s[m])
                      /\ Cardinality(s[t]) \in Nat /\ Cardinality(s[t]) <= C /\ IsFiniteSet(s[t])
                      /\ Cardinality(s[m]) >= 1
    OBVIOUS
  <2>1. s[m] \in SUBSET N /\ s[t] \in SUBSET N /\ m \in s[m]
    BY <1>2, <1>3, <1>5
  <2>2. IsFiniteSet(s[m]) /\ IsFiniteSet(s[t]) /\ Cardinality(s[t]) <= Cardinality(N)
    BY <2>1, FS_Subset
  <2>3. Cardinality(s[m]) \in Nat /\ Cardinality(s[t]) \in Nat /\ Cardinality(N) \in Nat
    BY <2>2, FS_CardinalityType
  <2>4. Cardinality(s[m]) # 0
    BY <2>1, <2>2, FS_EmptySet
  <2> QED
    BY <2>2, <2>3, <2>4
<1>7. \A k \in 0 .. C : \A m \in s[t] : Cardinality(s[t]) - Cardinality(s[m]) <= k => m \in f[k]
  <2> DEFINE Bad == {k \in 0 .. C : \E m \in s[t] : Cardinality(s[t]) - Cardinality(s[m]) <= k /\ m \notin f[k]}
  <2> SUFFICES ASSUME Bad # {}
               PROVE  FALSE
    OBVIOUS
  <2>1. PICK k \in Bad : \A n \in Bad : k <= n
    <3>1. Bad \subseteq Nat
      OBVIOUS
    <3> HIDE DEF Bad
    <3> QED
      BY <3>1, LeastNat
  <2>2. PICK m \in s[t] : Cardinality(s[t]) - Cardinality(s[m]) <= k /\ m \notin f[k]
    BY <2>1
  <2>3. \A j \in 0 .. C : t \in f[j]
    <3> DEFINE Out == {j \in 0 .. C : t \notin f[j]}
    <3> SUFFICES ASSUME Out # {}
                 PROVE  FALSE
      OBVIOUS
    <3>1. PICK j \in Out : \A n \in Out : j <= n
      <4>1. Out \subseteq Nat
        OBVIOUS
      <4> HIDE DEF Out
      <4> QED
        BY <4>1, LeastNat
    <3>2. t # nil
      BY <1>2, <2>2
    <3>3. j # 0
      BY <1>1, <3>1, <3>2
    <3>4. j \in 1 .. C /\ j - 1 \in 0 .. C /\ j - 1 \notin Out
      BY <3>1, <3>3
    <3>5. t \in f[j - 1] /\ f[j] = NextLevel(nil, L, R, f[j - 1])
      BY <1>1, <3>4
    <3> QED
      BY <3>1, <3>2, <3>5 DEF NextLevel
  <2>4. m # t
    BY <2>1, <2>2, <2>3
  <2> DEFINE n == P[m]
  <2>5. n \in s[t] /\ n \in N /\ m \in N /\ m \in s[m]
    BY <1>3, <1>5, <2>2, <2>4
  <2>6. m # r
    <3> SUFFICES ASSUME m = r
                 PROVE  FALSE
      OBVIOUS
    <3>1. t \in N /\ t \in s[m]
      BY <1>5, <2>2 DEF SearchTree, Shape, Hung
    <3> QED
      BY <2>2, <2>4, <2>5, <3>1, NotBothBelow
  <2>7. m \in {L[n], R[n]} /\ m # nil /\ n # m
    BY <1>2, <2>5, <2>6, Node DEF SearchTree, Shape, Linked
  <2>8. m \in s[n]
    BY <1>3, <2>5, <2>7
  <2>9. s[m] \subseteq s[n] /\ n \notin s[m] /\ n \in s[n]
    BY <1>3, <2>5, <2>7, <2>8, NotBothBelow DEF SearchTree, Shape, Nested
  <2>10. Cardinality(s[m]) < Cardinality(s[n]) /\ Cardinality(s[n]) <= Cardinality(s[t])
    <3>1. s[m] \in SUBSET s[n] /\ s[m] # s[n] /\ s[n] \in SUBSET s[t]
      BY <1>5, <2>5, <2>9
    <3>2. Cardinality(s[m]) <= Cardinality(s[n]) /\ Cardinality(s[m]) # Cardinality(s[n])
          /\ Cardinality(s[n]) <= Cardinality(s[t])
      BY <1>6, <2>5, <3>1, FS_Subset
    <3> QED
      BY <1>6, <2>2, <2>5, <3>2
  <2> DEFINE cm == Cardinality(s[m])
             cn == Cardinality(s[n])
             ct == Cardinality(s[t])
  <2>11. cm \in Nat /\ cn \in Nat /\ ct \in Nat /\ cm < cn /\ cn <= ct /\ ct - cm <= k /\ k \in 0 .. C
    BY <1>6, <2>1, <2>2, <2>5, <2>10
  <2>12. k - 1 \in 0 .. C /\ k \in 1 .. C /\ ct - cn <= k - 1
    <3> HIDE DEF cm, cn, ct
    <3> QED
      BY <2>11
  <2>13. k - 1 \notin Bad
    BY <2>1, <2>12
  <2>14. n \in f[k - 1]
    BY <2>5, <2>12, <2>13
  <2>15. m \in f[k]
    BY <1>1, <2>7, <2>12, <2>14 DEF NextLevel
  <2> QED
    BY <2>2, <2>15
<1>8. s[t] \subseteq f[C]
  <2> SUFFICES ASSUME NEW m \in s[t]
               PROVE  m \in f[C]
    OBVIOUS
  <2> DEFINE cm == Cardinality(s[m])
             ct == Cardinality(s[t])
  <2>1. cm \in Nat /\ ct \in Nat /\ ct <= C
    BY <1>6
  <2>2. ct - cm <= C
    <3> HIDE DEF cm, ct
    <3> QED
      BY <2>1
  <2> QED
    BY <1>7, <2>2
<1>9. C \in 0 .. C
  OBVIOUS
<1> QED
  BY <1>4, <1>8, <1>9

-----------------------------------------------------------------------------
(* A node with one child at most leaves and its child c takes its place.   *)
Spliced(N, nil, y, c, r, L, R, P, r2, L2, R2, P2) ==
  /\ r2 = IF P[y] = nil THEN c ELSE r
  /\ \A n \in N \ {y} :
       /\ L2[n] = IF L[n] = y THEN c ELSE L[n]
       /\ R2[n] = IF R[n] = y THEN c ELSE R[n]
       /\ P2[n] = IF n = c THEN P[y] ELSE P[n]

LEMMA NodeSpliced ==
  ASSUME NEW N, NEW nil, NEW r, NEW L, NEW R, NEW P, NEW s, NEW ord,
         SearchTree(N, nil, r, L, R, P, s, ord), StrictOrder(N, ord), NEW y \in N,
         NEW c, \/ L[y] = nil /\ c = R[y]
                \/ R[y] = nil /\ c = L[y],
         NEW r2, NEW L2, NEW R2, NEW P2, Spliced(N, nil, y, c, r, L, R, P, r2, L2, R2, P2)
  PROVE  SearchTree(N \ {y}, nil, r2, L2, R2, P2, Less(N, nil, y, s), ord)
<1> DEFINE M == N \ {y}
           q == Less(N, nil, y, s)
<1>1. /\ r2 = IF P[y] = nil THEN c ELSE r
      /\ \A n \in M :
           /\ L2[n] = IF L[n] = y THEN c ELSE L[n]
           /\ R2[n] = IF R[n] = y THEN c ELSE R[n]
           /\ P2[n] = IF n = c THEN P[y] ELSE P[n]
  BY DEF Spliced
<1>2. \A n \in N \cup {nil} : q[n] = s[n] \ {y}
  BY DEF Less
<1> HIDE DEF q
<1>3. nil \notin N /\ r \in N \cup {nil} /\ s[nil] = {} /\ s[r] = N
  BY DEF SearchTree, Shape, Hung
<1>4. \A n \in N :
        /\ n \in s[n] /\ s[n] \subseteq N
        /\ L[n] \in N \cup {nil} /\ R[n] \in N \cup {nil}
        /\ s[n] = {n} \cup s[L[n]] \cup s[R[n]]
        /\ n \notin s[L[n]] /\ n \notin s[R[n]]
        /\ L[n] # nil => P[L[n]] = n /\ L[n] # r
        /\ R[n] # nil => P[R[n]] = n /\ R[n] # r
        /\ IF n = r THEN P[n] = nil
           ELSE P[n] \in N /\ P[n] # n /\ n \in {L[P[n]], R[P[n]]}
  BY Node DEF SearchTree, Shape, Linked
<1>5. /\ s[y] = {y} \cup s[c] /\ y \notin s[c] /\ c \in M \cup {nil} /\ q[nil] = {}
      /\ q[c] = s[y] \ {y} /\ (c # nil => P[c] = y /\ c # r)
      /\ \A m \in {L[y], R[y]} : m = c \/ m = nil
  <2>1. s[y] = {y} \cup s[c] /\ y \notin s[c] /\ c \in N \cup {nil}
    BY <1>3, <1>4
  <2>2. c # y /\ q[nil] = {}
    BY <1>2, <1>3, <1>4, <2>1
  <2>3. q[c] = s[c]
    BY <1>2, <2>1
  <2> QED
    BY <1>4, <2>1, <2>2, <2>3
<1>6. \A n \in M : n # r => P[n] \in N /\ P[n] # n /\ (P[n] = y <=> n = c) /\ n \in {L[P[n]], R[P[n]]}
  BY <1>3, <1>4, <1>5
<1>7. y # r => P[y] \in M /\ y \in {L[P[y]], R[P[y]]}
  BY <1>4
<1>8. Hung(M, nil, r2, q)
  <2>1. P[y] = nil <=> y = r
    BY <1>3, <1>4
  <2> QED
    BY <2>1, <1>1, <1>2, <1>3, <1>5 DEF Hung
<1>9. ASSUME NEW n \in M, NEW k, k \in N \cup {nil}, NEW k2, k2 = IF k = y THEN c ELSE k
      PROVE  k2 \in M \cup {nil} /\ q[k2] = s[k] \ {y}
  BY <1>2, <1>3, <1>5, <1>9
<1>10. Split(M, nil, L2, R2, q)
  <2> SUFFICES ASSUME NEW n \in M
               PROVE  L2[n] \in M \cup {nil} /\ R2[n] \in M \cup {nil}
                      /\ q[n] = {n} \cup q[L2[n]] \cup q[R2[n]]
    BY DEF Split
  <2>1. L2[n] \in M \cup {nil} /\ q[L2[n]] = s[L[n]] \ {y}
    BY <1>1, <1>4, <1>9
  <2>2. R2[n] \in M \cup {nil} /\ q[R2[n]] = s[R[n]] \ {y}
    BY <1>1, <1>4, <1>9
  <2> QED
    BY <2>1, <2>2, <1>2, <1>4
<1>11. Nested(M, P2, q)
  <2> SUFFICES ASSUME NEW n \in M, NEW m \in q[n]
               PROVE  q[m] \subseteq q[n] /\ (m # n => P2[m] \in q[n])
    BY DEF Nested
  <2>1. m \in M /\ m \in s[n] /\ q[m] = s[m] \ {y} /\ q[n] = s[n] \ {y}
    BY <1>2, <1>4
  <2>2. \A k \in s[n] : s[k] \subseteq s[n] /\ (k # n => P[k] \in s[n])
    BY DEF SearchTree, Shape, Nested
  <2>3. m # n => m # r
    BY <2>1, <2>2, <1>3, <1>4
  <2>4. CASE m = c /\ m # n
    <3>1. y \in s[n] /\ P[y] \in s[n] /\ y # r
      BY <2>1, <2>2, <2>4, <1>3, <1>4, <1>5
    <3>2. P2[m] = P[y] /\ P[y] # y
      BY <2>1, <2>4, <3>1, <1>1, <1>4
    <3> QED
      BY <2>1, <2>2, <3>1, <3>2
  <2>5. CASE m # c /\ m # n
    BY <2>1, <2>2, <2>3, <2>5, <1>1, <1>6
  <2> QED
    BY <2>1, <2>2, <2>4, <2>5
<1>12. Linked(M, nil, r2, L2, R2, P2)
  <2>1. ASSUME NEW n \in M, NEW m \in {L2[n], R2[n]} \ {nil}
        PROVE  P2[m] = n
    <3>1. m \in M /\ (m \in {L[n], R[n]} \/ (m = c /\ y \in {L[n], R[n]}))
      BY <2>1, <1>1, <1>4, <1>5
    <3>2. CASE m \in {L[n], R[n]}
      BY <3>1, <3>2, <2>1, <1>1, <1>4, <1>5
    <3>3. CASE m = c /\ y \in {L[n], R[n]}
      BY <3>1, <3>3, <2>1, <1>1, <1>3, <1>4
    <3> QED
      BY <3>1, <3>2, <3>3
  <2>2. ASSUME NEW n \in M
        PROVE  IF n = r2 THEN P2[n] = nil ELSE P2[n] \in M /\ n \in {L2[P2[n]], R2[P2[n]]}
    <3>1. CASE n = c
      <4>1. P2[n] = P[y] /\ n # nil /\ n # r
        BY <3>1, <1>1, <1>3, <1>5
      <4>2. CASE y = r
        BY <4>1, <4>2, <3>1, <1>1, <1>4
      <4>3. CASE y # r
        <5>1. P[y] \in M /\ y \in {L[P[y]], R[P[y]]} /\ r2 = r
          BY <4>3, <1>1, <1>3, <1>7
        <5>2. n \in {L2[P[y]], R2[P[y]]}
          BY <5>1, <3>1, <1>1
        <5> QED
          BY <4>1, <5>1, <5>2
      <4> QED
        BY <4>2, <4>3
    <3>2. CASE n # c /\ n = r
      <4>1. P[n] = nil /\ P2[n] = nil /\ P[y] # nil
        BY <3>2, <1>1, <1>3, <1>4, <1>7
      <4> QED
        BY <4>1, <3>2, <1>1
    <3>3. CASE n # c /\ n # r
      <4>1. P2[n] = P[n] /\ P[n] \in M /\ n \in {L[P[n]], R[P[n]]} /\ n # y
        BY <3>3, <1>1, <1>6
      <4>2. n \in {L2[P[n]], R2[P[n]]} /\ n # r2
        BY <4>1, <3>3, <1>1
      <4> QED
        BY <4>1, <4>2
    <3> QED
      BY <3>1, <3>2, <3>3
  <2> QED
    BY <2>1, <2>2 DEF Linked
<1>13. Sorted(M, L2, R2, q, ord)
  <2> SUFFICES ASSUME NEW n \in M
               PROVE  /\ \A m \in q[L2[n]] : << m, n >> \in ord
                      /\ \A m \in q[R2[n]] : << n, m >> \in ord
    BY DEF Sorted
  <2>1. /\ \A m \in s[L[n]] : << m, n >> \in ord
        /\ \A m \in s[R[n]] : << n, m >> \in ord
    BY DEF SearchTree, Sorted
  <2>2. q[L2[n]] = s[L[n]] \ {y} /\ q[R2[n]] = s[R[n]] \ {y}
    BY <1>1, <1>4, <1>9
  <2> QED
    BY <2>1, <2>2
<1> QED
  BY <1>8, <1>10, <1>11, <1>12, <1>13 DEF SearchTree, Shape, q

(* A node y takes the place of z, of which it differs in nothing that the  *)
(* order of the others sees.                                               *)
As(z, y, n) == IF n = z THEN y ELSE n
Replaced(N, nil, z, y, r, L, R, P, r2, L2, R2, P2) ==
  /\ r2 = As(z, y, r)
  /\ \A n \in N : /\ L2[As(z, y, n)] = As(z, y, L[n])
                  /\ R2[As(z, y, n)] = As(z, y, R[n])
                  /\ P2[As(z, y, n)] = As(z, y, P[n])

Swap(z, y, S) == IF z \in S THEN (S \ {z}) \cup {y} ELSE S
With(N, nil, z, y, s) ==
  [n \in (N \ {z}) \cup {y, nil} |-> Swap(z, y, s[As(y, z, n)])]

LEMMA NodeReplaced ==
  ASSUME NEW N, NEW nil, NEW r, NEW L, NEW R, NEW P, NEW s, NEW ord,
         SearchTree(N, nil, r, L, R, P, s, ord), StrictOrder(N, ord),
         NEW z \in N, NEW y, y \notin N, y # nil,
         \A n \in N : /\ << n, z >> \in ord => << n, y >> \in ord
                      /\ << z, n >> \in ord => << y, n >> \in ord,
         NEW r2, NEW L2, NEW R2, NEW P2, Replaced(N, nil, z, y, r, L, R, P, r2, L2, R2, P2)
  PROVE  SearchTree((N \ {z}) \cup {y}, nil, r2, L2, R2, P2, With(N, nil, z, y, s), ord)
<1> DEFINE M == (N \ {z}) \cup {y}
           q == With(N, nil, z, y, s)
           a(n) == As(z, y, n)
           b(S) == Swap(z, y, S)
<1>1. r2 = a(r) /\ \A n \in N : L2[a(n)] = a(L[n]) /\ R2[a(n)] = a(R[n]) /\ P2[a(n)] = a(P[n])
  BY DEF Replaced
<1>2. nil \notin N /\ r \in N \cup {nil} /\ s[nil] = {} /\ s[r] = N
  BY DEF SearchTree, Shape, Hung
<1>3. /\ \A n \in N : a(n) \in M /\ a(n) # nil
      /\ a(nil) = nil
      /\ \A m \in M : \E n \in N : m = a(n)
      /\ \A m, n \in N \cup {nil} : a(m) = a(n) => m = n
  BY <1>2 DEF As
<1>4. \A n \in N \cup {nil} : q[a(n)] = b(s[n])
  BY <1>2 DEF With, As
<1>5. \A S \in SUBSET N : \A m : m \in b(S) <=> \E n \in S : m = a(n)
  BY DEF Swap, As
<1>6. \A n \in N :
        /\ n \in s[n] /\ s[n] \subseteq N
        /\ L[n] \in N \cup {nil} /\ R[n] \in N \cup {nil}
        /\ s[n] = {n} \cup s[L[n]] \cup s[R[n]]
        /\ s[L[n]] \subseteq N /\ s[R[n]] \subseteq N
        /\ L[n] # nil => P[L[n]] = n
        /\ R[n] # nil => P[R[n]] = n
        /\ IF n = r THEN P[n] = nil
           ELSE P[n] \in N /\ n \in {L[P[n]], R[P[n]]}
  BY Node DEF SearchTree, Shape, Linked
<1>7. b({}) = {} /\ b(N) = M
  BY DEF Swap
<1> HIDE DEF q, a, b, M
<1>8. Hung(M, nil, r2, q)
  <2>1. r2 \in M \cup {nil} /\ q[r2] = M
    BY <1>1, <1>2, <1>3, <1>4, <1>7
  <2>2. nil \notin M /\ q[nil] = {}
    BY <1>2, <1>3, <1>4, <1>7
  <2> QED
    BY <2>1, <2>2 DEF Hung
<1>9. Split(M, nil, L2, R2, q)
  <2> SUFFICES ASSUME NEW m \in M
               PROVE  L2[m] \in M \cup {nil} /\ R2[m] \in M \cup {nil}
                      /\ q[m] = {m} \cup q[L2[m]] \cup q[R2[m]]
    BY DEF Split
  <2>1. PICK n \in N : m = a(n)
    BY <1>3
  <2>2. L2[m] = a(L[n]) /\ R2[m] = a(R[n]) /\ q[m] = b(s[n])
    BY <2>1, <1>1, <1>4
  <2>3. q[L2[m]] = b(s[L[n]]) /\ q[R2[m]] = b(s[R[n]])
    BY <2>2, <1>4, <1>6
  <2>4. b(s[n]) = {a(n)} \cup b(s[L[n]]) \cup b(s[R[n]])
    BY <1>5, <1>6
  <2>5. L2[m] \in M \cup {nil} /\ R2[m] \in M \cup {nil}
    BY <2>2, <1>3, <1>6
  <2> QED
    BY <2>1, <2>2, <2>3, <2>4, <2>5
<1>10. Nested(M, P2, q)
  <2> SUFFICES ASSUME NEW m \in M, NEW k \in q[m]
               PROVE  q[k] \subseteq q[m] /\ (k # m => P2[k] \in q[m])
    BY DEF Nested
  <2>1. PICK n \in N : m = a(n)
    BY <1>3
  <2>2. q[m] = b(s[n])
    BY <2>1, <1>4
  <2>3. PICK j \in s[n] : k = a(j)
    BY <2>2, <1>5, <1>6
  <2>4. j \in N /\ s[j] \subseteq s[n] /\ (j # n => P[j] \in s[n])
    BY <2>3, <1>6 DEF SearchTree, Shape, Nested
  <2>5. q[k] = b(s[j]) /\ P2[k] = a(P[j])
    BY <2>3, <2>4, <1>1, <1>4
  <2>6. b(s[j]) \subseteq b(s[n])
    BY <2>4, <1>5, <1>6
  <2>7. k # m => P2[k] \in q[m]
    BY <2>1, <2>2, <2>3, <2>4, <2>5, <1>5, <1>6
  <2> QED
    BY <2>2, <2>5, <2>6, <2>7
<1>11. Linked(M, nil, r2, L2, R2, P2)
  <2>1. ASSUME NEW m \in M, NEW k \in {L2[m], R2[m]} \ {nil}
        PROVE  P2[k] = m
    <3>1. PICK n \in N : m = a(n)
      BY <1>3
    <3>2. PICK j \in {L[n], R[n]} : k = a(j)
      BY <2>1, <3>1, <1>1
    <3>3. j # nil /\ j \in N /\ P[j] = n
      BY <2>1, <3>2, <1>3, <1>6
    <3> QED
      BY <3>1, <3>2, <3>3, <1>1
  <2>2. ASSUME NEW m \in M
        PROVE  IF m = r2 THEN P2[m] = nil ELSE P2[m] \in M /\ m \in {L2[P2[m]], R2[P2[m]]}
    <3>1. PICK n \in N : m = a(n)
      BY <1>3
    <3>2. P2[m] = a(P[n]) /\ (m = r2 <=> n = r)
      BY <3>1, <1>1, <1>2, <1>3
    <3>3. CASE n = r
      BY <3>1, <3>2, <3>3, <1>3, <1>6
    <3>4. CASE n # r
      <4>1. P[n] \in N /\ n \in {L[P[n]], R[P[n]]}
        BY <3>4, <1>6
      <4>2. a(n) \in {L2[a(P[n])], R2[a(P[n])]} /\ a(P[n]) \in M
        BY <4>1, <1>1, <1>3
      <4> QED
        BY <4>2, <3>1, <3>2, <3>4
    <3> QED
      BY <3>3, <3>4
  <2> QED
    BY <2>1, <2>2 DEF Linked
<1>12. Sorted(M, L2, R2, q, ord)
  <2>1. ASSUME NEW n \in N, NEW j \in N, j # n
        PROVE  << j, n >> \in ord => << a(j), a(n) >> \in ord
    BY <2>1 DEF a, As
  <2> SUFFICES ASSUME NEW m \in M
               PROVE  /\ \A k \in q[L2[m]] : << k, m >> \in ord
                      /\ \A k \in q[R2[m]] : << m, k >> \in ord
    BY DEF Sorted
  <2>2. PICK n \in N : m = a(n)
    BY <1>3
  <2>3. q[L2[m]] = b(s[L[n]]) /\ q[R2[m]] = b(s[R[n]])
    BY <2>2, <1>1, <1>4, <1>6
  <2>4. /\ \A j \in s[L[n]] : << j, n >> \in ord /\ j # n /\ j \in N
        /\ \A j \in s[R[n]] : << n, j >> \in ord /\ j # n /\ j \in N
    BY <1>6 DEF SearchTree, Sorted, StrictOrder
  <2>5. /\ \A k \in q[L2[m]] : << k, m >> \in ord
    <3> SUFFICES ASSUME NEW k \in q[L2[m]]
                 PROVE  << k, m >> \in ord
      OBVIOUS
    <3>1. PICK j \in s[L[n]] : k = a(j)
      BY <2>3, <1>5, <1>6
    <3> QED
      BY <3>1, <2>1, <2>2, <2>4
  <2>6. \A k \in q[R2[m]] : << m, k >> \in ord
    <3> SUFFICES ASSUME NEW k \in q[R2[m]]
                 PROVE  << m, k >> \in ord
      OBVIOUS
    <3>1. PICK j \in s[R[n]] : k = a(j)
      BY <2>3, <1>5, <1>6
    <3> QED
      BY <3>1, <2>1, <2>2, <2>4
  <2> QED
    BY <2>5, <2>6
<1> QED
  BY <1>8, <1>9, <1>10, <1>11, <1>12 DEF SearchTree, Shape, q, M

-----------------------------------------------------------------------------
(* A function that a recursive definition iterates exists, and where every *)
(* step that is not the last makes something smaller, it ends.             *)
Iterates(C, base, H, g) == g = [i \in 0 .. C |-> IF i = 0 THEN base ELSE H[g[i - 1]]]

LEMMA IterationExists ==
  ASSUME NEW C \in Nat, NEW base, NEW H
  PROVE  \E g : Iterates(C, base, H, g)
<1> DEFINE Bad == {c \in Nat : \A g : ~ Iterates(c, base, H, g)}
<1> SUFFICES ASSUME Bad # {}
             PROVE  FALSE
  OBVIOUS
<1>1. PICK c \in Bad : \A n \in Bad : c <= n
  BY LeastNat
<1>2. c # 0
  <2> DEFINE g == [i \in 0 .. 0 |-> base]
  <2>1. \A i \in 0 .. 0 : i = 0
    OBVIOUS
  <2>2. g = [i \in 0 .. 0 |-> IF i = 0 THEN base ELSE H[g[i - 1]]]
    BY <2>1
  <2>3. Iterates(0, base, H, g)
    BY <2>2 DEF Iterates
  <2> QED
    BY <2>3
<1>3. c - 1 \in Nat /\ c - 1 \notin Bad
  BY <1>1, <1>2
<1>4. PICK f : Iterates(c - 1, base, H, f)
  BY <1>3
<1> DEFINE g == [i \in 0 .. c |-> IF i < c THEN f[i] ELSE H[f[c - 1]]]
<1>5. ASSUME NEW i \in 0 .. c
      PROVE  g[i] = IF i = 0 THEN base ELSE H[g[i - 1]]
  <2>1. CASE i = c
    <3>1. c - 1 \in 0 .. c /\ c - 1 < c
      BY <1>3
    <3> QED
      BY <1>2, <2>1, <3>1
  <2>2. CASE i # c
    <3>1. i \in 0 .. c - 1 /\ i < c /\ (i # 0 => i - 1 \in 0 .. c /\ i - 1 < c)
      BY <1>3, <1>5, <2>2
    <3>2. f[i] = IF i = 0 THEN base ELSE H[f[i - 1]]
      BY <1>4, <3>1 DEF Iterates
    <3> QED
      BY <3>1, <3>2
  <2> QED
    BY <2>1, <2>2
<1>6. Iterates(c, base, H, g)
  <2> HIDE DEF g
  <2>1. DOMAIN g = 0 .. c /\ g = [i \in DOMAIN g |-> g[i]]
    BY DEF g
  <2> QED
    BY <1>5, <2>1 DEF Iterates
<1> QED
  BY <1>1, <1>6

LEMMA IterationStays ==
  ASSUME NEW C \in Nat, NEW I, NEW base \in I, NEW H, \A w \in I : H[w] \in I,
         NEW g, Iterates(C, base, H, g)
  PROVE  /\ g[0] = base
         /\ \A i \in 1 .. C : g[i] = H[g[i - 1]]
         /\ \A i \in 0 .. C : g[i] \in I
<1>1. g[0] = base
  <2>1. 0 \in 0 .. C
    OBVIOUS
  <2> QED
    BY <2>1 DEF Iterates
<1>2. \A i \in 1 .. C : g[i] = H[g[i - 1]]
  <2>1. \A i \in 1 .. C : i \in 0 .. C /\ i # 0
    OBVIOUS
  <2> QED
    BY <2>1 DEF Iterates
<1>3. \A i \in 0 .. C : g[i] \in I
  <2> DEFINE Bad == {i \in 0 .. C : g[i] \notin I}
  <2> SUFFICES ASSUME Bad # {}
               PROVE  FALSE
    OBVIOUS
  <2>1. PICK i \in Bad : \A n \in Bad : i <= n
    <3>1. Bad \subseteq Nat
      OBVIOUS
    <3> HIDE DEF Bad
    <3> QED
      BY <3>1, LeastNat
  <2>2. i # 0
    BY <1>1, <2>1
  <2>3. i - 1 \in 0 .. C /\ i \in 1 .. C /\ i - 1 \notin Bad
    BY <2>1, <2>2
  <2>4. g[i - 1] \in I /\ g[i] = H[g[i - 1]]
    BY <1>2, <2>3
  <2> QED
    BY <2>1, <2>4
<1> QED
  BY <1>1, <1>2, <1>3

Descends(C, I, base, H, size, Stop) ==
  /\ C \in Nat /\ base \in I /\ size \in [I -> Nat] /\ size[base] <= C
  /\ \A w \in I : H[w] \in I
  /\ \A w \in I \cap Stop : H[w] = w
  /\ \A w \in I \ Stop : size[H[w]] < size[w]

LEMMA IterationEnds ==
  ASSUME NEW C, NEW I, NEW base, NEW H, NEW size, NEW Stop, Descends(C, I, base, H, size, Stop),
         NEW g, Iterates(C, base, H, g)
  PROVE  g[C] \in I \cap Stop
<1>0. /\ C \in Nat /\ base \in I /\ size \in [I -> Nat] /\ size[base] <= C
      /\ \A w \in I : H[w] \in I
      /\ \A w \in I \cap Stop : H[w] = w
      /\ \A w \in I \ Stop : size[H[w]] < size[w]
  BY DEF Descends
<1>1. /\ g[0] = base
      /\ \A i \in 1 .. C : g[i] = H[g[i - 1]]
      /\ \A i \in 0 .. C : g[i] \in I
  BY <1>0, IterationStays
<1>2. \A w \in I : size[w] \in Nat
  BY <1>0
<1>3. \A i \in 0 .. C : g[i] \in Stop \/ size[g[i]] + i <= size[base]
  <2> DEFINE Bad == {i \in 0 .. C : ~ (g[i] \in Stop \/ size[g[i]] + i <= size[base])}
  <2> SUFFICES ASSUME Bad # {}
               PROVE  FALSE
    OBVIOUS
  <2>1. PICK i \in Bad : \A n \in Bad : i <= n
    <3>1. Bad \subseteq Nat
      BY <1>0
    <3> HIDE DEF Bad
    <3> QED
      BY <3>1, LeastNat
  <2>2. i # 0
    BY <1>0, <1>1, <1>2, <2>1
  <2>3. i - 1 \in 0 .. C /\ i \in 1 .. C /\ i - 1 \notin Bad
    BY <1>0, <2>1, <2>2
  <2>4. g[i - 1] \in I /\ g[i] = H[g[i - 1]] /\ g[i] \in I
    BY <1>1, <2>3
  <2>5. g[i - 1] \in Stop \/ size[g[i - 1]] + (i - 1) <= size[base]
    BY <2>3
  <2>6. CASE g[i - 1] \in Stop
    BY <1>0, <2>1, <2>4, <2>6
  <2>7. CASE g[i - 1] \notin Stop
    <3>1. size[g[i]] < size[g[i - 1]]
      BY <1>0, <2>4, <2>7
    <3>2. size[g[i]] \in Nat /\ size[g[i - 1]] \in Nat /\ size[base] \in Nat
      BY <1>0, <1>2, <2>4
    <3>3. size[g[i]] + i <= size[base]
      BY <2>3, <2>5, <2>7, <3>1, <3>2
    <3> QED
      BY <2>1, <3>3
  <2> QED
    BY <2>6, <2>7
<1>4. C \in 0 .. C /\ g[C] \in I
  BY <1>0, <1>1
<1>5. ASSUME g[C] \notin Stop
      PROVE  FALSE
  <2>1. size[g[C]] + C <= size[base] /\ size[H[g[C]]] < size[g[C]] /\ H[g[C]] \in I
    BY <1>0, <1>3, <1>4, <1>5
  <2>2. size[g[C]] \in Nat /\ size[H[g[C]]] \in Nat /\ size[base] \in Nat
    BY <1>0, <1>2, <1>4, <2>1
  <2> QED
    BY <1>0, <2>1, <2>2
<1> QED
  BY <1>4, <1>5

-----------------------------------------------------------------------------
(* Fewer nodes hang below a child than below its parent.                   *)
LEMMA FewerBelow ==
  ASSUME NEW N, NEW nil, NEW r, NEW L, NEW R, NEW P, NEW s, NEW ord,
         SearchTree(N, nil, r, L, R, P, s, ord), StrictOrder(N, ord), IsFiniteSet(N),
         NEW n \in N, NEW m \in {L[n], R[n]}
  PROVE  /\ Cardinality(s[n]) \in Nat /\ Cardinality(s[m]) \in Nat
         /\ Cardinality(s[m]) < Cardinality(s[n]) /\ Cardinality(s[n]) <= Cardinality(N)
<1>1. /\ n \in s[n] /\ s[n] \subseteq N /\ s[n] = {n} \cup s[L[n]] \cup s[R[n]]
      /\ n \notin s[L[n]] /\ n \notin s[R[n]]
  BY Node
<1>2. s[m] \subseteq s[n] /\ s[m] # s[n]
  BY <1>1
<1>3. IsFiniteSet(s[n]) /\ Cardinality(s[n]) <= Cardinality(N)
  BY <1>1, FS_Subset
<1>4. IsFiniteSet(s[m]) /\ Cardinality(s[m]) <= Cardinality(s[n]) /\ Cardinality(s[m]) # Cardinality(s[n])
  BY <1>2, <1>3, FS_Subset
<1>5. Cardinality(s[n]) \in Nat /\ Cardinality(s[m]) \in Nat
  BY <1>3, <1>4, FS_CardinalityType
<1> QED
  BY <1>3, <1>4, <1>5

(* The nodes below n that are at w or after it, all of them when w is the  *)
(* leftmost.                                                               *)
FromOn(s, ord, n, w) == \A m \in s[n] : m \in s[w] \/ << w, m >> \in ord

LEMMA LeftwardsFromOn ==
  ASSUME NEW N, NEW nil, NEW r, NEW L, NEW R, NEW P, NEW s, NEW ord,
         SearchTree(N, nil, r, L, R, P, s, ord), StrictOrder(N, ord),
         NEW n \in N, NEW w \in s[n], FromOn(s, ord, n, w)
  PROVE  /\ L[w] = nil => \A m \in s[n] : m = w \/ << w, m >> \in ord
         /\ L[w] # nil => L[w] \in s[n] /\ FromOn(s, ord, n, L[w])
<1>1. w \in N /\ s[n] \subseteq N /\ s[w] \subseteq s[n] /\ s[nil] = {}
  BY Node DEF SearchTree, Shape, Hung, Nested
<1>2. /\ s[w] = {w} \cup s[L[w]] \cup s[R[w]] /\ (L[w] # nil => L[w] \in s[L[w]])
      /\ s[L[w]] \subseteq N /\ s[R[w]] \subseteq N
  BY <1>1, Node
<1>3. /\ \A m \in s[L[w]] : << m, w >> \in ord
      /\ \A m \in s[R[w]] : << w, m >> \in ord
  BY <1>1 DEF SearchTree, Sorted
<1>4. ASSUME L[w] # nil, NEW m \in s[n]
      PROVE  m \in s[L[w]] \/ << L[w], m >> \in ord
  <2>1. << L[w], w >> \in ord /\ L[w] \in N /\ m \in N
    BY <1>1, <1>2, <1>3, <1>4
  <2>2. m \in s[L[w]] \/ m = w \/ << w, m >> \in ord
    BY <1>2, <1>3 DEF FromOn
  <2> QED
    BY <1>1, <2>1, <2>2 DEF StrictOrder
<1> QED
  BY <1>1, <1>2, <1>3, <1>4 DEF FromOn

(* A node that is not below z is on the same side of all that are.         *)
LEMMA SameSide ==
  ASSUME NEW N, NEW nil, NEW r, NEW L, NEW R, NEW P, NEW s, NEW ord,
         SearchTree(N, nil, r, L, R, P, s, ord), StrictOrder(N, ord), IsFiniteSet(N),
         NEW z \in N, NEW m \in s[z], NEW n \in N \ s[z], << z, n >> \in ord
  PROVE  << m, n >> \in ord
<1> DEFINE A == {a \in N : z \in s[a] /\ n \in s[a]}
           Sizes == {Cardinality(s[a]) : a \in A}
<1>1. \A a \in N : /\ a \in s[a] /\ s[a] \subseteq N /\ s[a] = {a} \cup s[L[a]] \cup s[R[a]]
                   /\ L[a] \in N \cup {nil} /\ R[a] \in N \cup {nil}
                   /\ s[L[a]] \subseteq N /\ s[R[a]] \subseteq N
  BY Node
<1>2. nil \notin N /\ r \in N \cup {nil} /\ s[nil] = {} /\ s[r] = N
  BY DEF SearchTree, Shape, Hung
<1>3. r \in A
  BY <1>1, <1>2
<1>4. \A a \in A : Cardinality(s[a]) \in Nat
  BY FewerBelow
<1>5. PICK a \in A : \A b \in A : Cardinality(s[a]) <= Cardinality(s[b])
  <2>1. Sizes \subseteq Nat /\ Sizes # {}
    BY <1>3, <1>4
  <2>2. PICK i \in Sizes : \A j \in Sizes : i <= j
    <3> HIDE DEF Sizes
    <3> QED
      BY <2>1, LeastNat
  <2> QED
    BY <2>2
<1>6. ASSUME NEW c \in {L[a], R[a]}
      PROVE  ~ (z \in s[c] /\ n \in s[c])
  <2>1. Cardinality(s[c]) < Cardinality(s[a]) /\ Cardinality(s[c]) \in Nat /\ Cardinality(s[a]) \in Nat
    BY FewerBelow
  <2>2. c \notin A
    BY <1>5, <2>1
  <2> QED
    BY <1>1, <1>2, <2>2
<1>7. \A b \in N \cup {nil} : z \in s[b] => m \in s[b]
  BY <1>1, <1>2 DEF SearchTree, Shape, Nested
<1>8. /\ \A k \in s[L[a]] : << k, a >> \in ord /\ k \in N
      /\ \A k \in s[R[a]] : << a, k >> \in ord /\ k \in N
  BY <1>1 DEF SearchTree, Sorted
<1>9. a \in N /\ a # z /\ z \in N /\ n \in N /\ m \in N
  BY <1>1
<1>10. CASE z \in s[L[a]]
  <2>1. m \in s[L[a]] /\ (n = a \/ n \in s[R[a]])
    BY <1>1, <1>6, <1>7, <1>10
  <2> QED
    BY <1>8, <1>9, <2>1 DEF StrictOrder
<1>11. CASE z \in s[R[a]]
  <2>1. n = a \/ n \in s[L[a]]
    BY <1>1, <1>6, <1>11
  <2>2. << n, z >> \in ord
    BY <1>8, <1>9, <1>11, <2>1 DEF StrictOrder
  <2> QED
    BY <1>9, <2>2 DEF StrictOrder
<1> QED
  BY <1>1, <1>9, <1>10, <1>11
=============================================================================
