---------------------------- MODULE RBTreeProofs ----------------------------
(***************************************************************************)
(* Proofs about RBTree for every set of keys, values and addresses.        *)
(*                                                                         *)
(* A tree is looked at through two functions: K, what is below each node,  *)
(* and b, how many black nodes are on each way down from it.  Rotations,   *)
(* recolouring and moved data are followed through both; the recursive     *)
(* functions (find, leftmost, ++, the loop) are then told by K alone.      *)
(***************************************************************************)
EXTENDS RBTree, SequenceFacts

-----------------------------------------------------------------------------
(* Trees and their fields. *)

Links == {"parent", "left", "right"}
Field == {"key", "value", "parent", "left", "right", "color"}

\* What is at an address when these are in use.
Cell(L) == [key : Key, value : Value, parent : L \cup {Null}, left : L \cup {Null},
            right : L \cup {Null}, color : {RED, BLACK}]

\* What a field may hold.
Holds(L, f) ==
    IF f = "key" THEN Key ELSE IF f = "value" THEN Value
    ELSE IF f = "color" THEN {RED, BLACK} ELSE L \cup {Null}

\* A root, and cells at finitely many addresses.
Heap(T, L) ==
    /\ T = [root |-> T.root, heap |-> T.heap]
    /\ T.root \in L \cup {Null}
    /\ IsFiniteSet(L) /\ L \subseteq Node
    /\ T.heap \in [L -> Cell(L)]

\* One field of one cell, or the root, is written.
Put(T, U, n, f, x) ==
    /\ U.root = T.root
    /\ \A m \in DOMAIN T.heap : \A g \in Field :
          U.heap[m][g] = IF m = n /\ g = f THEN x ELSE T.heap[m][g]

LEMMA PutIs ==
    ASSUME NEW T, NEW L, Heap(T, L), NEW n \in L, NEW f \in Field, NEW x \in Holds(L, f),
           NEW U, U = [T EXCEPT !.heap[n][f] = x]
    PROVE  Heap(U, L) /\ Put(T, U, n, f, x)
<1>1. PICK c, d, h, C : c = T.heap[n] /\ d = [c EXCEPT ![f] = x] /\ h = U.heap /\ C = Cell(L)
  OBVIOUS
<1>2. c \in C /\ T.heap \in [L -> C]
  BY <1>1 DEF Heap
<1>3. d \in C /\ \A g \in Field : d[g] = IF g = f THEN x ELSE c[g]
  <2>1. CASE f = "key"
    BY <1>1, <1>2, <2>1 DEF Cell, Holds, Field
  <2>2. CASE f = "value"
    BY <1>1, <1>2, <2>2 DEF Cell, Holds, Field
  <2>3. CASE f = "parent"
    BY <1>1, <1>2, <2>3 DEF Cell, Holds, Field
  <2>4. CASE f = "left"
    BY <1>1, <1>2, <2>4 DEF Cell, Holds, Field
  <2>5. CASE f = "right"
    BY <1>1, <1>2, <2>5 DEF Cell, Holds, Field
  <2>6. CASE f = "color"
    BY <1>1, <1>2, <2>6 DEF Cell, Holds, Field
  <2>. QED
    BY <2>1, <2>2, <2>3, <2>4, <2>5, <2>6 DEF Field
<1>4. U = [root |-> T.root, heap |-> [T.heap EXCEPT ![n] = d]]
  BY <1>1 DEF Heap
<1>5. h = [T.heap EXCEPT ![n] = d] /\ U.root = T.root /\ U = [root |-> U.root, heap |-> U.heap]
  BY <1>1, <1>4
<1>6. h \in [L -> C] /\ \A m \in L : h[m] = IF m = n THEN d ELSE T.heap[m]
  BY <1>2, <1>3, <1>5
<1>7. Heap(U, L)
  BY <1>1, <1>5, <1>6 DEF Heap
<1>8. DOMAIN T.heap = L
  BY <1>2
<1>9. ASSUME NEW m \in L, NEW g \in Field
      PROVE  U.heap[m][g] = IF m = n /\ g = f THEN x ELSE T.heap[m][g]
  BY <1>1, <1>3, <1>6
<1>. QED
  BY <1>5, <1>7, <1>8, <1>9 DEF Put

LEMMA RootPut ==
    ASSUME NEW T, NEW L, Heap(T, L), NEW x \in L \cup {Null}, NEW U, U = [T EXCEPT !.root = x]
    PROVE  Heap(U, L) /\ U.root = x /\ U.heap = T.heap
<1>1. U = [root |-> x, heap |-> T.heap]
  BY DEF Heap
<1>. QED
  BY <1>1 DEF Heap

LEMMA HeapDomain == \A T, L : Heap(T, L) => DOMAIN T.heap = L /\ Null \notin L
  BY NodeAssumption DEF Heap

\* What the cells of a heap hold.
LEMMA CellFields ==
    ASSUME NEW T, NEW L, Heap(T, L), NEW n \in L
    PROVE  /\ T.heap[n].key \in Key /\ T.heap[n].key \in Int /\ T.heap[n].value \in Value
           /\ T.heap[n].color \in {RED, BLACK}
           /\ T.heap[n].parent \in L \cup {Null}
           /\ \A s \in Side : T.heap[n][s] \in L \cup {Null}
<1>1. PICK C : C = Cell(L)
  OBVIOUS
<1>2. T.heap[n] \in C
  BY <1>1 DEF Heap
<1>. QED
  BY <1>1, <1>2, KeyAssumption DEF Cell, Side

LEMMA PaintIs ==
    ASSUME NEW T, NEW L, Heap(T, L), NEW n \in L, NEW color \in {RED, BLACK},
           NEW U, U = Paint(T, n, color)
    PROVE  Heap(U, L) /\ Put(T, U, n, "color", color)
<1>1. "color" \in Field /\ color \in Holds(L, "color")
  BY DEF Field, Holds
<1>2. U = [T EXCEPT !.heap[n]["color"] = color]
  BY DEF Paint
<1>. QED
  BY <1>1, <1>2, PutIs

LEMMA AdoptIs ==
    ASSUME NEW T, NEW L, Heap(T, L), NEW c \in L \cup {Null}, NEW p \in L \cup {Null},
           NEW U, U = Adopt(T, c, p)
    PROVE  Heap(U, L) /\ Put(T, U, c, "parent", p)
<1>1. CASE c = Null
  <2>1. U = T /\ c \notin L /\ DOMAIN T.heap = L
    BY <1>1, HeapDomain DEF Adopt
  <2>. QED
    BY <2>1 DEF Put
<1>2. CASE c # Null
  <2>1. c \in L /\ U = [T EXCEPT !.heap[c]["parent"] = p]
    BY <1>2 DEF Adopt
  <2>2. "parent" \in Field /\ p \in Holds(L, "parent")
    BY DEF Field, Holds
  <2>. QED
    BY <2>1, <2>2, PutIs
<1>. QED
  BY <1>1, <1>2

LEMMA SideFields ==
    ASSUME NEW s \in Side
    PROVE  /\ s \in Field /\ s \notin {"key", "value", "color", "parent"}
           /\ Opposite(s) \in Side /\ Opposite(s) # s /\ Opposite(Opposite(s)) = s
           /\ \A r \in Side : r = s \/ r = Opposite(s)
           /\ \A L : Holds(L, s) = L \cup {Null}
  BY DEF Side, Field, Opposite, Holds

LEMMA LinkIs ==
    ASSUME NEW T, NEW L, Heap(T, L), NEW p \in L \cup {Null}, NEW old, NEW new \in L \cup {Null},
           NEW U, U = Link(T, p, old, new)
    PROVE  /\ Heap(U, L)
           /\ IF p = Null THEN U.root = new /\ U.heap = T.heap
              ELSE Put(T, U, p, SideOf(T, p, old), new)
<1>1. CASE p = Null
  BY <1>1, RootPut DEF Link
<1>2. CASE p # Null
  <2>1. PICK s \in Side : s = SideOf(T, p, old)
    BY DEF SideOf, Side
  <2>2. p \in L /\ s \in Field /\ new \in Holds(L, s)
    BY <1>2, SideFields
  <2>3. U = [T EXCEPT !.heap[p][s] = new]
    BY <1>2, <2>1 DEF Link
  <2>. QED
    BY <1>2, <2>1, <2>2, <2>3, PutIs
<1>. QED
  BY <1>1, <1>2

\* left_rotate and right_rotate, link by link.
Rotated(T, U, n, side) ==
    LET temp  == T.heap[n][Opposite(side)]
        inner == T.heap[temp][side]
        p     == T.heap[n].parent
    IN  /\ U.root = IF p = Null THEN temp ELSE T.root
        /\ \A m \in DOMAIN T.heap : \A g \in Field :
              U.heap[m][g] = IF m = n /\ g = Opposite(side) THEN inner
                             ELSE IF m = n /\ g = "parent" THEN temp
                             ELSE IF m = temp /\ g = side THEN n
                             ELSE IF m = temp /\ g = "parent" THEN p
                             ELSE IF m = inner /\ g = "parent" THEN n
                             ELSE IF m = p /\ g = SideOf(T, p, n) THEN temp
                             ELSE T.heap[m][g]

LEMMA RotateIs ==
    ASSUME NEW T, NEW L, Heap(T, L), NEW n \in L, NEW side \in Side,
           NEW t \in L, t = T.heap[n][Opposite(side)], t # n,
           T.heap[t][side] \notin {n, t}, T.heap[n].parent \notin {n, t},
           NEW U, U = Rotate(T, n, side)
    PROVE  Heap(U, L) /\ Rotated(T, U, n, side)
<1>1. PICK i, p, o : i = T.heap[t][side] /\ p = T.heap[n].parent /\ o = Opposite(side)
  OBVIOUS
<1>2. i \in L \cup {Null} /\ p \in L \cup {Null} /\ o \in Side /\ o # side
  BY <1>1, CellFields, SideFields
<1>3. PICK A : A = [T EXCEPT !.heap[n][o] = i]
  OBVIOUS
<1>4. PICK B : B = Adopt(A, i, n)
  OBVIOUS
<1>5. PICK C : C = Adopt(B, t, p)
  OBVIOUS
<1>6. PICK D : D = Link(C, p, n, t)
  OBVIOUS
<1>7. PICK E : E = [D EXCEPT !.heap[t][side] = n]
  OBVIOUS
<1>8. U = Adopt(E, n, t)
  BY <1>1, <1>3, <1>4, <1>5, <1>6, <1>7 DEF Rotate
<1>9. Heap(A, L) /\ Put(T, A, n, o, i)
  <2>1. o \in Field /\ i \in Holds(L, o)
    BY <1>2, SideFields
  <2>. QED
    BY <1>3, <2>1, PutIs
<1>10. Heap(B, L) /\ Put(A, B, i, "parent", n)
  BY <1>2, <1>4, <1>9, AdoptIs
<1>11. Heap(C, L) /\ Put(B, C, t, "parent", p)
  BY <1>2, <1>5, <1>10, AdoptIs
<1>12. /\ Heap(D, L)
       /\ IF p = Null THEN D.root = t /\ D.heap = C.heap ELSE Put(C, D, p, SideOf(C, p, n), t)
  BY <1>2, <1>6, <1>11, LinkIs
<1>13. Heap(E, L) /\ Put(D, E, t, side, n)
  <2>1. side \in Field /\ n \in Holds(L, side)
    BY SideFields
  <2>. QED
    BY <1>7, <1>12, <2>1, PutIs
<1>14. Heap(U, L) /\ Put(E, U, n, "parent", t)
  BY <1>8, <1>13, AdoptIs
<1>15. /\ DOMAIN T.heap = L /\ DOMAIN A.heap = L /\ DOMAIN B.heap = L /\ DOMAIN C.heap = L
       /\ DOMAIN D.heap = L /\ DOMAIN E.heap = L /\ Null \notin L
  BY <1>9, <1>10, <1>11, <1>12, <1>13, HeapDomain
<1>16. p # Null => SideOf(C, p, n) = SideOf(T, p, n)
  <2>1. ASSUME p # Null PROVE C.heap[p].left = T.heap[p].left
    <3>1. p \in L /\ p # n /\ "left" \in Field /\ "left" # "parent"
      BY <1>1, <1>2, <2>1 DEF Field
    <3>2. A.heap[p]["left"] = T.heap[p]["left"]
      BY <1>9, <1>15, <3>1 DEF Put
    <3>3. B.heap[p]["left"] = A.heap[p]["left"]
      BY <1>10, <1>15, <3>1 DEF Put
    <3>4. C.heap[p]["left"] = B.heap[p]["left"]
      BY <1>11, <1>15, <3>1 DEF Put
    <3>. QED
      BY <3>2, <3>3, <3>4
  <2>. QED
    BY <2>1 DEF SideOf
<1>17. U.root = IF p = Null THEN t ELSE T.root
  BY <1>9, <1>10, <1>11, <1>12, <1>13, <1>14 DEF Put
<1>18. ASSUME NEW m \in L, NEW g \in Field
       PROVE  U.heap[m][g] = IF m = n /\ g = o THEN i
                             ELSE IF m = n /\ g = "parent" THEN t
                             ELSE IF m = t /\ g = side THEN n
                             ELSE IF m = t /\ g = "parent" THEN p
                             ELSE IF m = i /\ g = "parent" THEN n
                             ELSE IF m = p /\ g = SideOf(T, p, n) THEN t
                             ELSE T.heap[m][g]
  <2>1. PICK s \in Side : s = SideOf(T, p, n)
    BY DEF SideOf, Side
  <2>2. A.heap[m][g] = IF m = n /\ g = o THEN i ELSE T.heap[m][g]
    BY <1>9, <1>15 DEF Put
  <2>3. B.heap[m][g] = IF m = i /\ g = "parent" THEN n ELSE A.heap[m][g]
    BY <1>10, <1>15 DEF Put
  <2>4. C.heap[m][g] = IF m = t /\ g = "parent" THEN p ELSE B.heap[m][g]
    BY <1>11, <1>15 DEF Put
  <2>5. D.heap[m][g] = IF m = p /\ g = s THEN t ELSE C.heap[m][g]
    BY <1>12, <1>15, <1>16, <2>1 DEF Put
  <2>6. E.heap[m][g] = IF m = t /\ g = side THEN n ELSE D.heap[m][g]
    BY <1>13, <1>15 DEF Put
  <2>7. U.heap[m][g] = IF m = n /\ g = "parent" THEN t ELSE E.heap[m][g]
    BY <1>14, <1>15 DEF Put
  <2>8. s # "parent" /\ side # "parent" /\ o # "parent"
    BY <1>2, SideFields
  <2>9. i # n /\ i # t /\ p # n /\ p # t
    BY <1>1
  <2>. QED
    BY <1>2, <2>1, <2>2, <2>3, <2>4, <2>5, <2>6, <2>7, <2>8, <2>9
<1>. QED
  BY <1>1, <1>14, <1>15, <1>17, <1>18 DEF Rotated

-----------------------------------------------------------------------------
(* Search trees. *)

\* The node m may be below n on this side.
On(T, n, side, m) ==
    IF side = "left" THEN T.heap[m].key < T.heap[n].key ELSE T.heap[n].key < T.heap[m].key

\* What is below n and n itself, in order.
Split(T, K, n) ==
    /\ K[n] = K[T.heap[n].left] \cup {n} \cup K[T.heap[n].right]
    /\ \A s \in Side : \A m \in K[T.heap[n][s]] : On(T, n, s, m)

\* K is what is below each node.
Tree(T, L, K) ==
    /\ Heap(T, L)
    /\ K \in [L \cup {Null} -> SUBSET L]
    /\ K[Null] = {} /\ K[T.root] = L
    /\ \A n \in L : Split(T, K, n)
    /\ T.root # Null => T.heap[T.root].parent = Null
    /\ \A n \in L : \A s \in Side : T.heap[n][s] # Null => T.heap[T.heap[n][s]].parent = n

LEMMA TreeFields ==
    ASSUME NEW T, NEW L, NEW K, Tree(T, L, K)
    PROVE  /\ Heap(T, L) /\ Null \notin L /\ IsFiniteSet(L) /\ T.root \in L \cup {Null}
           /\ \A n \in L \cup {Null} : K[n] \subseteq L
           /\ K[Null] = {} /\ K[T.root] = L
           /\ \A n \in L : \A s \in Side : T.heap[n][s] \in L \cup {Null}
           /\ \A n \in L : T.heap[n].key \in Int /\ T.heap[n].parent \in L \cup {Null}
<1>1. Heap(T, L)
  BY DEF Tree
<1>2. \A n \in L \cup {Null} : K[n] \subseteq L
  BY DEF Tree
<1>3. T.root \in L \cup {Null} /\ IsFiniteSet(L) /\ Null \notin L
  BY <1>1, HeapDomain DEF Heap
<1>. QED
  BY <1>1, <1>2, <1>3, CellFields DEF Tree

\* A child's parent is the node.
LEMMA ChildIs ==
    ASSUME NEW T, NEW L, NEW K, Tree(T, L, K), NEW n \in L, NEW s \in Side
    PROVE  /\ T.heap[n][s] \in L \cup {Null}
           /\ T.heap[n][s] # Null => T.heap[T.heap[n][s]].parent = n
<1>1. T.heap[n][s] \in L \cup {Null}
  BY TreeFields
<1>. QED
  BY <1>1 DEF Tree

\* Below one child, the other, and the node itself, there are different nodes.
LEMMA SplitIs ==
    ASSUME NEW T, NEW L, NEW K, Tree(T, L, K), NEW n \in L, NEW s \in Side
    PROVE  /\ n \in K[n]
           /\ K[n] = K[T.heap[n][s]] \cup {n} \cup K[T.heap[n][Opposite(s)]]
           /\ n \notin K[T.heap[n][s]]
           /\ K[T.heap[n][s]] \subseteq K[n]
           /\ \A m \in K[T.heap[n][s]] : On(T, n, s, m) /\ m \notin K[T.heap[n][Opposite(s)]]
<1>1. /\ T.heap[n].left \in L \cup {Null} /\ T.heap[n].right \in L \cup {Null}
      /\ \A m \in L : T.heap[m].key \in Int
      /\ \A m \in L \cup {Null} : K[m] \subseteq L
  BY TreeFields DEF Side
<1>2. Split(T, K, n)
  BY DEF Tree
<1>3. CASE s = "left"
  BY <1>1, <1>2, <1>3 DEF Split, On, Side, Opposite
<1>4. CASE s = "right"
  BY <1>1, <1>2, <1>4 DEF Split, On, Side, Opposite
<1>. QED
  BY <1>3, <1>4 DEF Side

\* What holds below the children holds below the node: it holds everywhere.
LEMMA TreeInduction ==
    ASSUME NEW T, NEW L, NEW K, Tree(T, L, K), NEW P, Null \in P,
           \A n \in L : T.heap[n].left \in P /\ T.heap[n].right \in P => n \in P
    PROVE  L \subseteq P
<1>. SUFFICES ASSUME L \ P # {} PROVE FALSE
  OBVIOUS
<1>1. PICK Sizes : Sizes = {Cardinality(K[n]) : n \in L \ P}
  OBVIOUS
<1>2. \A n \in L \cup {Null} : K[n] \subseteq L /\ IsFiniteSet(K[n]) /\ Cardinality(K[n]) \in Nat
  <2>1. ASSUME NEW n \in L \cup {Null}
        PROVE  K[n] \subseteq L /\ IsFiniteSet(K[n]) /\ Cardinality(K[n]) \in Nat
    <3>1. K[n] \subseteq L /\ IsFiniteSet(L)
      BY TreeFields
    <3>2. IsFiniteSet(K[n])
      BY <3>1, FS_Subset
    <3>. QED
      BY <3>1, <3>2, FS_CardinalityType
  <2>. QED
    BY <2>1
<1>3. Sizes \subseteq Nat /\ Sizes # {}
  BY <1>1, <1>2
<1>4. PICK n \in L \ P : \A m \in L \ P : Cardinality(K[n]) <= Cardinality(K[m])
  <2>1. Min(Sizes) \in Sizes /\ \A x \in Sizes : Min(Sizes) <= x
    BY <1>3, MinIsLeast
  <2>2. PICK n \in L \ P : Min(Sizes) = Cardinality(K[n])
    BY <1>1, <2>1
  <2>. QED
    BY <1>1, <2>1, <2>2
<1>5. ASSUME NEW s \in Side, T.heap[n][s] \notin P PROVE FALSE
  <2>1. PICK c \in L \ P : c = T.heap[n][s]
    BY <1>5, TreeFields
  <2>2. K[c] \subseteq K[n] /\ n \in K[n] /\ n \notin K[c]
    BY <2>1, SplitIs
  <2>3. Cardinality(K[c]) < Cardinality(K[n])
    <3>1. IsFiniteSet(K[n]) /\ K[c] # K[n] /\ Cardinality(K[n]) \in Nat /\ Cardinality(K[c]) \in Nat
      BY <1>2, <2>2
    <3>2. Cardinality(K[c]) <= Cardinality(K[n]) /\ (Cardinality(K[c]) = Cardinality(K[n]) => K[c] = K[n])
      BY <2>2, <3>1, FS_Subset
    <3>. QED
      BY <3>1, <3>2
  <2>. QED
    BY <1>2, <1>4, <2>1, <2>3
<1>6. T.heap[n].left \in P /\ T.heap[n].right \in P
  BY <1>5 DEF Side
<1>. QED
  BY <1>4, <1>6

\* A set of nodes that has the root and the children of its nodes has all.
LEMMA TreeDescent ==
    ASSUME NEW T, NEW L, NEW K, Tree(T, L, K), NEW P, T.root \in P,
           \A n \in L \cap P : \A s \in Side : T.heap[n][s] \in P
    PROVE  L \subseteq P
<1>1. PICK Q : Q = {n \in L \cup {Null} : n \in P => K[n] \subseteq P}
  OBVIOUS
<1>2. Null \in Q
  BY <1>1, TreeFields
<1>3. ASSUME NEW n \in L, T.heap[n].left \in Q, T.heap[n].right \in Q PROVE n \in Q
  <2>1. SUFFICES ASSUME n \in P PROVE K[n] \subseteq P
    BY <1>1
  <2>2. K[T.heap[n].left] \subseteq P /\ K[T.heap[n].right] \subseteq P
    BY <1>1, <1>3, <2>1 DEF Side
  <2>3. K[n] = K[T.heap[n].left] \cup {n} \cup K[T.heap[n].right]
    BY DEF Tree, Split
  <2>. QED
    BY <2>1, <2>2, <2>3
<1>4. L \subseteq Q
  BY <1>2, <1>3, TreeInduction
<1>5. K[T.root] \subseteq P
  BY <1>1, <1>2, <1>4, TreeFields
<1>. QED
  BY <1>5, TreeFields

\* All that is below a node below n is below n.
LEMMA Nested ==
    ASSUME NEW T, NEW L, NEW K, Tree(T, L, K)
    PROVE  \A n \in L \cup {Null} : \A m \in K[n] : K[m] \subseteq K[n]
<1>1. PICK P : P = {n \in L \cup {Null} : \A m \in K[n] : K[m] \subseteq K[n]}
  OBVIOUS
<1>2. Null \in P
  BY <1>1, TreeFields
<1>3. ASSUME NEW n \in L, T.heap[n].left \in P, T.heap[n].right \in P PROVE n \in P
  <2>1. K[n] = K[T.heap[n].left] \cup {n} \cup K[T.heap[n].right]
    BY DEF Tree, Split
  <2>2. \A m \in K[n] : K[m] \subseteq K[n]
    BY <1>1, <1>3, <2>1
  <2>. QED
    BY <1>1, <2>2
<1>4. L \subseteq P
  BY <1>2, <1>3, TreeInduction
<1>. QED
  BY <1>1, <1>2, <1>4

\* Each node but the root is a child, of its parent alone.
LEMMA ParentIs ==
    ASSUME NEW T, NEW L, NEW K, Tree(T, L, K), NEW n \in L
    PROVE  LET p == T.heap[n].parent IN
           IF n = T.root THEN p = Null
           ELSE /\ p \in L /\ T.heap[p][SideOf(T, p, n)] = n
                /\ \A s \in Side : T.heap[p][s] = n => s = SideOf(T, p, n)
<1>1. CASE n = T.root
  BY <1>1, TreeFields DEF Tree
<1>2. CASE n # T.root
  <2>1. PICK P : P = {T.root, Null} \cup {m \in L : \E p \in L : \E s \in Side : T.heap[p][s] = m}
    OBVIOUS
  <2>2. \A m \in L \cap P : \A s \in Side : T.heap[m][s] \in P
    BY <2>1, TreeFields
  <2>3. n \in P
    BY <2>1, <2>2, TreeDescent
  <2>4. PICK p \in L, s \in Side : T.heap[p][s] = n
    BY <1>2, <2>1, <2>3, TreeFields
  <2>5. T.heap[n].parent = p
    <3>1. T.heap[p][s] # Null
      BY <2>4, TreeFields
    <3>2. T.heap[T.heap[p][s]].parent = p
      BY <3>1 DEF Tree
    <3>. QED
      BY <2>4, <3>2
  <2>6. \A r \in Side : T.heap[p][r] = n => r = s
    <3>1. n \in K[T.heap[p][s]] /\ n \notin K[T.heap[p][Opposite(s)]]
      BY <2>4, SplitIs
    <3>2. n \in K[n]
      BY SplitIs DEF Side
    <3>. QED
      BY <3>1, <3>2, SideFields
  <2>7. s = SideOf(T, p, n)
    BY <2>4, <2>6 DEF SideOf, Side
  <2>. QED
    BY <1>2, <2>4, <2>5, <2>6, <2>7
<1>. QED
  BY <1>1, <1>2

\* Keys, values and colours are where they were.
SameKeys(T, U) ==
    \A n \in DOMAIN T.heap : U.heap[n].key = T.heap[n].key /\ U.heap[n].value = T.heap[n].value

SameColors(T, U) == \A n \in DOMAIN T.heap : U.heap[n].color = T.heap[n].color

\* What a rotation does, node by node.
Turned(T, U, L, n, side, t, i, p) ==
    /\ n \in L /\ t \in L /\ i \in L \cup {Null} /\ p \in L \cup {Null}
    /\ n # t /\ i \notin {n, t} /\ p \notin {n, t} /\ (i # Null => p # i)
    /\ T.heap[n][Opposite(side)] = t /\ T.heap[t][side] = i /\ T.heap[n].parent = p
    /\ U.root = IF n = T.root THEN t ELSE T.root
    /\ (n = T.root) <=> (p = Null)
    /\ U.heap[n][Opposite(side)] = i /\ U.heap[n][side] = T.heap[n][side]
    /\ U.heap[t][side] = n /\ U.heap[t][Opposite(side)] = T.heap[t][Opposite(side)]
    /\ \A x \in L \ {n, t} : \A s \in Side :
          U.heap[x][s] = IF T.heap[x][s] = n THEN t ELSE T.heap[x][s]
    /\ \A x \in L : U.heap[x].parent = IF x = n THEN t
                                       ELSE IF x = t THEN p
                                       ELSE IF x = i THEN n
                                       ELSE T.heap[x].parent
    /\ SameKeys(T, U) /\ SameColors(T, U)

LEMMA RotateTurns ==
    ASSUME NEW T, NEW L, NEW K, Tree(T, L, K), NEW n \in L, NEW side \in Side,
           NEW t \in L, T.heap[n][Opposite(side)] = t,
           NEW U, U = Rotate(T, n, side)
    PROVE  Heap(U, L) /\ \E i, p : Turned(T, U, L, n, side, t, i, p)
<1>1. PICK i, p, o : i = T.heap[t][side] /\ p = T.heap[n].parent /\ o = Opposite(side)
  OBVIOUS
<1>2. i \in L \cup {Null} /\ p \in L \cup {Null} /\ o \in Side /\ o # side /\ Opposite(o) = side
  BY <1>1, TreeFields, SideFields
<1>3. t \in K[n] /\ n \notin K[t] /\ t # n
  BY <1>1, <1>2, SplitIs
<1>4. i # Null => i \in K[t] /\ t \notin K[i] /\ i \in K[i]
  BY <1>1, <1>2, SplitIs
<1>5. i \notin {n, t}
  BY <1>2, <1>3, <1>4, TreeFields
<1>6. p # Null => p \in L /\ T.heap[p][SideOf(T, p, n)] = n /\ p \notin K[n] /\ n # T.root
  <2>1. SUFFICES ASSUME p # Null
                 PROVE  p \in L /\ T.heap[p][SideOf(T, p, n)] = n /\ p \notin K[n] /\ n # T.root
    OBVIOUS
  <2>2. p \in L /\ T.heap[p][SideOf(T, p, n)] = n /\ n # T.root
    BY <1>1, <2>1, ParentIs, TreeFields
  <2>3. SideOf(T, p, n) \in Side
    BY DEF SideOf, Side
  <2>. QED
    BY <2>2, <2>3, SplitIs
<1>7. n \in K[n]
  BY SplitIs
<1>8. p \notin {n, t} /\ (i # Null => p # i)
  <2>1. i # Null => i \in K[n]
    BY <1>1, <1>2, <1>3, <1>4, SplitIs
  <2>. QED
    BY <1>2, <1>3, <1>6, <1>7, <2>1, TreeFields
<1>9. Heap(U, L) /\ Rotated(T, U, n, side)
  <2>1. Heap(T, L)
    BY DEF Tree
  <2>. QED
    BY <1>1, <1>3, <1>5, <1>8, <2>1, RotateIs
<1>10. DOMAIN T.heap = L /\ Null \notin L
  BY HeapDomain, <1>9 DEF Tree
<1>11. /\ U.root = IF p = Null THEN t ELSE T.root
       /\ \A m \in L : \A g \in Field :
             U.heap[m][g] = IF m = n /\ g = o THEN i
                            ELSE IF m = n /\ g = "parent" THEN t
                            ELSE IF m = t /\ g = side THEN n
                            ELSE IF m = t /\ g = "parent" THEN p
                            ELSE IF m = i /\ g = "parent" THEN n
                            ELSE IF m = p /\ g = SideOf(T, p, n) THEN t
                            ELSE T.heap[m][g]
  BY <1>1, <1>9, <1>10 DEF Rotated
<1>12. (n = T.root) <=> (p = Null)
  BY <1>1, <1>6, <1>10, ParentIs
<1>13. /\ U.heap[n][o] = i /\ U.heap[n][side] = T.heap[n][side]
       /\ U.heap[t][side] = n /\ U.heap[t][o] = T.heap[t][o]
  <2>1. side \in Field /\ o \in Field /\ side # "parent" /\ o # "parent"
    BY <1>2, SideFields
  <2>. QED
    BY <1>2, <1>3, <1>8, <1>11, <2>1
<1>14. ASSUME NEW x \in L \ {n, t}, NEW s \in Side
       PROVE  U.heap[x][s] = IF T.heap[x][s] = n THEN t ELSE T.heap[x][s]
  <2>1. s \in Field /\ s # "parent"
    BY SideFields
  <2>2. U.heap[x][s] = IF x = p /\ s = SideOf(T, p, n) THEN t ELSE T.heap[x][s]
    BY <1>11, <2>1
  <2>3. T.heap[x][s] = n => x = p
    BY <1>1, <1>10 DEF Tree
  <2>4. x = p /\ T.heap[x][s] = n => s = SideOf(T, p, n)
    BY <1>1, <1>6, <1>10, ParentIs
  <2>5. x = p /\ s = SideOf(T, p, n) => T.heap[x][s] = n
    BY <1>6, <1>10
  <2>. QED
    BY <2>2, <2>3, <2>4, <2>5
<1>15. ASSUME NEW x \in L
       PROVE  U.heap[x].parent = IF x = n THEN t ELSE IF x = t THEN p ELSE IF x = i THEN n
                                 ELSE T.heap[x].parent
  <2>1. "parent" \in Field /\ o # "parent" /\ side # "parent" /\ SideOf(T, p, n) # "parent"
    BY <1>2, SideFields DEF Field, SideOf
  <2>2. U.heap[x]["parent"] = IF x = n THEN t ELSE IF x = t THEN p ELSE IF x = i THEN n
                              ELSE T.heap[x]["parent"]
    BY <1>3, <1>5, <1>11, <2>1
  <2>. QED
    BY <2>2
<1>16. SameKeys(T, U) /\ SameColors(T, U)
  <2>1. ASSUME NEW m \in L, NEW g \in {"key", "value", "color"} PROVE U.heap[m][g] = T.heap[m][g]
    <3>1. g \in Field /\ g # "parent" /\ g # o /\ g # side /\ g # SideOf(T, p, n)
      BY <1>2 DEF Field, SideOf, Side
    <3>. QED
      BY <1>11, <3>1
  <2>2. \A m \in L : /\ U.heap[m]["key"] = T.heap[m]["key"]
                     /\ U.heap[m]["value"] = T.heap[m]["value"]
                     /\ U.heap[m]["color"] = T.heap[m]["color"]
    BY <2>1
  <2>. QED
    BY <1>10, <2>2 DEF SameKeys, SameColors
<1>17. U.root = IF n = T.root THEN t ELSE T.root
  BY <1>11, <1>12
<1>18. Turned(T, U, L, n, side, t, i, p)
  BY <1>1, <1>2, <1>3, <1>5, <1>8, <1>12, <1>13, <1>14, <1>15, <1>16, <1>17 DEF Turned
<1>. QED
  BY <1>9, <1>18

\* What is below the nodes of the same keys is in the same order.
LEMMA OnStays ==
    ASSUME NEW T, NEW U, NEW L, SameKeys(T, U), DOMAIN T.heap = L
    PROVE  \A n, m \in L : \A s \in Side : On(U, n, s, m) <=> On(T, n, s, m)
  BY DEF SameKeys, On

LEMMA OnIsTransitive ==
    ASSUME NEW T, NEW L, Heap(T, L), NEW n \in L, NEW m \in L, NEW k \in L, NEW s \in Side
    PROVE  /\ On(T, n, s, m) /\ On(T, m, s, k) => On(T, n, s, k)
           /\ On(T, n, s, m) <=> On(T, m, Opposite(s), n)
<1>1. T.heap[n].key \in Int /\ T.heap[m].key \in Int /\ T.heap[k].key \in Int
  BY CellFields
<1>. QED
  BY <1>1 DEF On, Opposite, Side

\* To split at one side and the other is to split.
LEMMA SplitBySides ==
    ASSUME NEW T, NEW K, NEW n, NEW s \in Side,
           K[n] = K[T.heap[n][s]] \cup {n} \cup K[T.heap[n][Opposite(s)]],
           \A m \in K[T.heap[n][s]] : On(T, n, s, m),
           \A m \in K[T.heap[n][Opposite(s)]] : On(T, n, Opposite(s), m)
    PROVE  Split(T, K, n)
<1>1. CASE s = "left"
  BY <1>1 DEF Split, Opposite, Side
<1>2. CASE s = "right"
  BY <1>2 DEF Split, Opposite, Side
<1>. QED
  BY <1>1, <1>2 DEF Side

\* A rotation keeps the tree a tree: t is above n.
LEMMA RotateKeeps ==
    ASSUME NEW T, NEW L, NEW K, Tree(T, L, K), NEW n \in L, NEW side \in Side,
           NEW t \in L, NEW U, NEW i, NEW p, Heap(U, L), Turned(T, U, L, n, side, t, i, p)
    PROVE  \E J : Tree(U, L, J)
<1>1. PICK o : o = Opposite(side)
  OBVIOUS
<1>2. o \in Side /\ o # side /\ Opposite(o) = side /\ \A s \in Side : s = side \/ s = o
  BY <1>1, SideFields
<1>3. PICK c, d : c = T.heap[n][side] /\ d = T.heap[t][o]
  OBVIOUS
<1>4. c \in L \cup {Null} /\ d \in L \cup {Null} /\ i \in L \cup {Null} /\ t \in L /\ n \in L /\ n # t
  BY <1>2, <1>3, TreeFields DEF Turned
<1>5. PICK A, B, C : A = K[c] /\ B = K[i] /\ C = K[d]
  OBVIOUS
<1>6. T.heap[n][o] = t /\ T.heap[t][side] = i
  BY <1>1 DEF Turned
<1>7. /\ K[n] = A \cup {n} \cup K[t] /\ n \notin A /\ n \notin K[t] /\ n \in K[n]
      /\ (\A m \in A : On(T, n, side, m) /\ m \notin K[t]) /\ \A m \in K[t] : On(T, n, o, m)
  BY <1>2, <1>3, <1>5, <1>6, SplitIs
<1>8. /\ K[t] = B \cup {t} \cup C /\ t \notin B /\ t \notin C
      /\ (\A m \in B : On(T, t, side, m) /\ m \notin C) /\ \A m \in C : On(T, t, o, m)
  BY <1>2, <1>3, <1>5, <1>6, SplitIs
<1>9. PICK J : J = [x \in L \cup {Null} |-> IF x = n THEN A \cup {n} \cup B
                                            ELSE IF x = t THEN K[n] ELSE K[x]]
  OBVIOUS
<1>10. Null \notin L /\ A \subseteq L /\ B \subseteq L /\ K[n] \subseteq L
       /\ (\A x \in L \cup {Null} : K[x] \subseteq L) /\ K[Null] = {} /\ DOMAIN T.heap = L
  BY <1>4, <1>5, HeapDomain, TreeFields
<1>11. /\ J[n] = A \cup {n} \cup B /\ J[t] = K[n]
       /\ \A x \in (L \cup {Null}) \ {n, t} : J[x] = K[x]
  BY <1>4, <1>9
<1>12. J \in [L \cup {Null} -> SUBSET L]
  BY <1>4, <1>9, <1>10
<1>13. J[Null] = {}
  BY <1>4, <1>10, <1>11
<1>14. J[U.root] = L
  <2>1. K[T.root] = L /\ T.root \in L \cup {Null}
    BY TreeFields
  <2>2. T.root # t
    <3>1. T.root = t => T.heap[T.heap[n][o]].parent = Null /\ T.heap[n][o] # Null
      BY <1>4, <1>6, <1>10 DEF Tree
    <3>2. T.heap[n][o] # Null => T.heap[T.heap[n][o]].parent = n
      BY <1>2 DEF Tree
    <3>. QED
      BY <1>4, <1>10, <3>1, <3>2
  <2>3. U.root = IF n = T.root THEN t ELSE T.root
    BY DEF Turned
  <2>. QED
    BY <1>11, <2>1, <2>2, <2>3
<1>15. \A x, y \in L : \A s \in Side : On(U, x, s, y) <=> On(T, x, s, y)
  BY <1>10, OnStays DEF Turned
<1>16. Heap(T, L)
  BY TreeFields
<1>17. c # n /\ c # t /\ i # n /\ i # t /\ d # n /\ d # t
  <2>1. \A x \in L : x \in K[x]
    BY <1>2, SplitIs
  <2>. QED
    BY <1>4, <1>5, <1>7, <1>8, <1>10, <2>1
<1>18. Split(U, J, n)
  <2>1. U.heap[n][side] = c /\ U.heap[n][o] = i
    BY <1>1, <1>3 DEF Turned
  <2>2. J[c] = A /\ J[i] = B
    BY <1>4, <1>5, <1>11, <1>17
  <2>3. \A m \in A : On(U, n, side, m)
    BY <1>2, <1>4, <1>7, <1>10, <1>15
  <2>4. \A m \in B : On(U, n, o, m)
    BY <1>2, <1>4, <1>7, <1>8, <1>10, <1>15
  <2>. QED
    BY <1>1, <1>11, <2>1, <2>2, <2>3, <2>4, SplitBySides
<1>19. Split(U, J, t)
  <2>1. U.heap[t][side] = n /\ U.heap[t][o] = d
    BY <1>1, <1>3 DEF Turned
  <2>2. J[d] = C /\ J[n] = A \cup {n} \cup B
    BY <1>4, <1>5, <1>11, <1>17
  <2>3. On(T, t, side, n)
    <3>1. t \in K[t]
      BY <1>8
    <3>2. On(T, n, o, t)
      BY <1>7, <3>1
    <3>. QED
      BY <1>2, <1>4, <1>16, <3>2, OnIsTransitive
  <2>4. ASSUME NEW m \in A PROVE On(T, t, side, m)
    <3>1. m \in L /\ On(T, n, side, m)
      BY <1>7, <1>10
    <3>. QED
      BY <1>4, <1>16, <2>3, <3>1, OnIsTransitive
  <2>5. \A m \in A \cup {n} \cup B : On(T, t, side, m)
    BY <1>8, <2>3, <2>4
  <2>6. \A m \in A \cup {n} \cup B : On(U, t, side, m)
    BY <1>4, <1>10, <1>15, <2>5
  <2>7. \A m \in C : On(U, t, o, m)
    BY <1>2, <1>4, <1>8, <1>10, <1>15, <1>5
  <2>8. J[t] = A \cup {n} \cup B \cup {t} \cup C
    BY <1>7, <1>8, <1>11
  <2>. QED
    BY <1>1, <2>1, <2>2, <2>6, <2>7, <2>8, SplitBySides
<1>20. ASSUME NEW x \in L \ {n, t} PROVE Split(U, J, x)
  <2>1. ASSUME NEW s \in Side PROVE J[U.heap[x][s]] = K[T.heap[x][s]]
    <3>1. U.heap[x][s] = IF T.heap[x][s] = n THEN t ELSE T.heap[x][s]
      BY <1>20 DEF Turned
    <3>2. T.heap[x][s] # t
      <4>1. T.heap[x][s] # Null => T.heap[T.heap[x][s]].parent = x
        BY DEF Tree
      <4>2. T.heap[T.heap[n][o]].parent = n
        BY <1>2, <1>4, <1>6, <1>10 DEF Tree
      <4>. QED
        BY <1>4, <1>6, <1>10, <4>1, <4>2
    <3>3. T.heap[x][s] \in L \cup {Null}
      BY TreeFields
    <3>. QED
      BY <1>11, <3>1, <3>2, <3>3
  <2>3. Split(T, K, x)
    BY DEF Tree
  <2>4. J[x] = J[U.heap[x].left] \cup {x} \cup J[U.heap[x].right]
    BY <1>11, <2>1, <2>3 DEF Split, Side
  <2>5. ASSUME NEW s \in Side, NEW m \in J[U.heap[x][s]] PROVE On(U, x, s, m)
    <3>1. m \in K[T.heap[x][s]] /\ m \in L
      BY <1>10, <2>1, <2>5, TreeFields
    <3>2. On(T, x, s, m)
      BY <2>3, <3>1 DEF Split
    <3>. QED
      BY <1>15, <3>1, <3>2
  <2>. QED
    BY <2>4, <2>5 DEF Split
<1>21. U.root # Null => U.heap[U.root].parent = Null
  <2>1. CASE n = T.root
    <3>1. U.root = t /\ p = Null /\ U.heap[t].parent = p
      BY <1>4, <2>1 DEF Turned
    <3>. QED
      BY <3>1
  <2>2. CASE n # T.root
    <3>1. SUFFICES ASSUME T.root # Null PROVE U.heap[T.root].parent = Null
      BY <2>2 DEF Turned
    <3>2. T.root \in L /\ T.heap[T.root].parent = Null
      BY <3>1, TreeFields DEF Tree
    <3>3. T.root # t /\ T.root # i
      <4>1. T.heap[t].parent = n
        BY <1>2, <1>4, <1>6, <1>10 DEF Tree
      <4>2. i # Null => T.heap[i].parent = t
        BY <1>4, <1>6 DEF Tree
      <4>. QED
        BY <1>4, <1>10, <3>2, <4>1, <4>2
    <3>. QED
      BY <2>2, <3>2, <3>3 DEF Turned
  <2>. QED
    BY <2>1, <2>2
<1>22. ASSUME NEW x \in L, NEW s \in Side, U.heap[x][s] # Null
       PROVE  U.heap[U.heap[x][s]].parent = x
  <2>1. PICK y : y = U.heap[x][s]
    OBVIOUS
  <2>2. \A z \in L : U.heap[z].parent = IF z = n THEN t ELSE IF z = t THEN p
                                        ELSE IF z = i THEN n ELSE T.heap[z].parent
    BY DEF Turned
  <2>3. \A z \in L : \A r \in Side : T.heap[z][r] \in L \cup {Null}
                     /\ (T.heap[z][r] # Null => T.heap[T.heap[z][r]].parent = z)
    BY ChildIs
  <2>4. CASE x = n /\ s = side
    <3>1. y = c /\ y \in L /\ T.heap[c].parent = n
      BY <1>3, <1>4, <1>22, <2>1, <2>3, <2>4 DEF Turned
    <3>2. y # i
      BY <1>4, <1>6, <1>10, <2>3, <3>1
    <3>. QED
      BY <1>17, <2>1, <2>2, <2>4, <3>1, <3>2
  <2>5. CASE x = n /\ s = o
    <3>1. y = i /\ y \in L
      BY <1>1, <1>4, <1>22, <2>1, <2>5 DEF Turned
    <3>. QED
      BY <1>17, <2>1, <2>2, <2>5, <3>1
  <2>6. CASE x = t /\ s = side
    <3>1. y = n
      BY <2>1, <2>6 DEF Turned
    <3>. QED
      BY <1>4, <2>1, <2>2, <2>6, <3>1
  <2>7. CASE x = t /\ s = o
    <3>1. y = d /\ y \in L /\ T.heap[d].parent = t
      BY <1>1, <1>2, <1>3, <1>4, <1>22, <2>1, <2>3, <2>7 DEF Turned
    <3>2. y # i
      <4>1. y \in C
        <5>1. y \in K[y]
          BY <1>2, <3>1, SplitIs
        <5>. QED
          BY <1>5, <3>1, <5>1
      <4>2. i \in L => i \in B
        BY <1>2, <1>5, SplitIs
      <4>. QED
        BY <1>8, <3>1, <4>1, <4>2
    <3>. QED
      BY <1>17, <2>1, <2>2, <2>7, <3>1, <3>2
  <2>8. CASE x \notin {n, t}
    <3>1. y = IF T.heap[x][s] = n THEN t ELSE T.heap[x][s]
      BY <2>1, <2>8 DEF Turned
    <3>2. CASE T.heap[x][s] = n
      <4>1. y = t /\ T.heap[n].parent = x
        BY <1>4, <1>10, <2>3, <3>1, <3>2
      <4>2. p = x
        BY <4>1 DEF Turned
      <4>. QED
        BY <1>4, <2>1, <2>2, <4>1, <4>2
    <3>3. CASE T.heap[x][s] # n
      <4>1. y = T.heap[x][s] /\ y \in L /\ T.heap[y].parent = x
        BY <1>22, <2>1, <2>3, <3>1, <3>3
      <4>2. y # t /\ y # i
        BY <1>2, <1>4, <1>6, <1>10, <2>3, <2>8, <4>1
      <4>. QED
        BY <2>1, <2>2, <3>3, <4>1, <4>2
    <3>. QED
      BY <3>2, <3>3
  <2>. QED
    BY <1>2, <2>4, <2>5, <2>6, <2>7, <2>8
<1>23. Tree(U, L, J)
  BY <1>12, <1>13, <1>14, <1>18, <1>19, <1>20, <1>21, <1>22 DEF Tree
<1>. QED
  BY <1>23

-----------------------------------------------------------------------------
(* Colours. *)

\* Of these trees only colours differ.
SameShape(T, U, L) ==
    /\ U.root = T.root
    /\ \A n \in L : U.heap[n].parent = T.heap[n].parent /\ \A s \in Side : U.heap[n][s] = T.heap[n][s]
    /\ SameKeys(T, U)

LEMMA ShapeKeeps ==
    ASSUME NEW T, NEW L, NEW K, Tree(T, L, K), NEW U, Heap(U, L), SameShape(T, U, L)
    PROVE  Tree(U, L, K)
<1>1. DOMAIN T.heap = L /\ Null \notin L /\ U.root = T.root /\ T.root \in L \cup {Null}
  BY HeapDomain, TreeFields DEF SameShape
<1>2. \A n, m \in L : \A s \in Side : On(U, n, s, m) <=> On(T, n, s, m)
  BY <1>1, OnStays DEF SameShape
<1>3. ASSUME NEW n \in L PROVE Split(U, K, n)
  <2>1. Split(T, K, n)
    BY DEF Tree
  <2>2. \A s \in Side : U.heap[n][s] = T.heap[n][s] /\ K[T.heap[n][s]] \subseteq L
    BY TreeFields DEF SameShape
  <2>3. K[n] = K[U.heap[n].left] \cup {n} \cup K[U.heap[n].right]
    BY <2>1, <2>2 DEF Split, Side
  <2>4. \A s \in Side : \A m \in K[U.heap[n][s]] : On(U, n, s, m)
    BY <1>2, <2>1, <2>2 DEF Split
  <2>. QED
    BY <2>3, <2>4 DEF Split
<1>4. U.root # Null => U.heap[U.root].parent = Null
  BY <1>1 DEF Tree, SameShape
<1>5. \A n \in L : \A s \in Side : U.heap[n][s] # Null => U.heap[U.heap[n][s]].parent = n
  <2>1. ASSUME NEW n \in L, NEW s \in Side, U.heap[n][s] # Null
        PROVE  U.heap[U.heap[n][s]].parent = n
    <3>1. PICK c : c = T.heap[n][s] /\ c = U.heap[n][s]
      BY DEF SameShape
    <3>2. T.heap[n][s] \in L /\ T.heap[T.heap[n][s]].parent = n
      <4>1. T.heap[n][s] # Null
        BY <2>1, <3>1
      <4>. QED
        BY <4>1, ChildIs
    <3>3. c \in L /\ T.heap[c].parent = n
      BY <3>1, <3>2
    <3>. QED
      BY <3>1, <3>3 DEF SameShape
  <2>. QED
    BY <2>1
<1>6. K \in [L \cup {Null} -> SUBSET L] /\ K[Null] = {} /\ K[U.root] = L
  BY <1>1 DEF Tree
<1>. QED
  BY <1>3, <1>4, <1>5, <1>6 DEF Tree

\* One node gets a colour; Null has none to get.
Painted(T, U, L, n, color) ==
    SameShape(T, U, L) /\ \A m \in L : U.heap[m].color = IF m = n THEN color ELSE T.heap[m].color

LEMMA PaintKeeps ==
    ASSUME NEW T, NEW L, NEW K, Tree(T, L, K), NEW n \in L, NEW color \in {RED, BLACK},
           NEW U, U = Paint(T, n, color)
    PROVE  Tree(U, L, K) /\ Painted(T, U, L, n, color)
<1>1. Heap(U, L) /\ Put(T, U, n, "color", color)
  BY PaintIs DEF Tree
<1>2. DOMAIN T.heap = L
  BY HeapDomain DEF Tree
<1>3. /\ U.root = T.root
      /\ \A m \in L : \A g \in Field :
            U.heap[m][g] = IF m = n /\ g = "color" THEN color ELSE T.heap[m][g]
  BY <1>1, <1>2 DEF Put
<1>4. ASSUME NEW m \in L
      PROVE  /\ U.heap[m]["parent"] = T.heap[m]["parent"]
             /\ U.heap[m]["key"] = T.heap[m]["key"] /\ U.heap[m]["value"] = T.heap[m]["value"]
             /\ U.heap[m]["left"] = T.heap[m]["left"] /\ U.heap[m]["right"] = T.heap[m]["right"]
             /\ U.heap[m]["color"] = IF m = n THEN color ELSE T.heap[m]["color"]
  BY <1>3 DEF Field
<1>5. SameShape(T, U, L)
  BY <1>2, <1>3, <1>4 DEF SameShape, SameKeys, Side
<1>6. Painted(T, U, L, n, color)
  BY <1>4, <1>5 DEF Painted
<1>. QED
  BY <1>1, <1>5, <1>6, ShapeKeeps

\* How many black nodes are missing on this side of n, when one is missing on
\* that side of u.
Missing(n, s, u, side) == IF n = u /\ s = side THEN 1 ELSE 0
Dark(T, n) == IF Color(T, n) = BLACK THEN 1 ELSE 0

\* b counts the black nodes from n down, on both sides.
RankAt(T, b, n, u, side) ==
    \A s \in Side : b[n] = b[T.heap[n][s]] + Missing(n, s, u, side) + Dark(T, n)

Ranked(b, L) == b \in [L \cup {Null} -> Nat] /\ b[Null] = 0

Ranks(T, L, b, u, side) == Ranked(b, L) /\ \A n \in L : RankAt(T, b, n, u, side)

\* No red node is below a red one, but for x below another or one below y.
RedAt(T, n, x, y) ==
    \A s \in Side : Color(T, n) = RED /\ Color(T, T.heap[n][s]) = RED => T.heap[n][s] = x \/ n = y

Reds(T, L, x, y) == \A n \in L : RedAt(T, n, x, y)

LEMMA ColorIs ==
    ASSUME NEW T, NEW L, Heap(T, L)
    PROVE  /\ Color(T, Null) = BLACK /\ RED # BLACK
           /\ \A n \in L \cup {Null} : Color(T, n) \in {RED, BLACK} /\ Dark(T, n) \in {0, 1}
           /\ \A n \in L : Color(T, n) = T.heap[n].color
           /\ \A n \in L \cup {Null} : Color(T, n) = RED => n \in L /\ Dark(T, n) = 0
           /\ \A n \in L \cup {Null} : Color(T, n) = BLACK => Dark(T, n) = 1
<1>1. Null \notin L /\ \A n \in L : T.heap[n].color \in {RED, BLACK}
  BY HeapDomain, CellFields
<1>2. RED # BLACK
  BY DEF RED, BLACK
<1>. QED
  BY <1>1, <1>2 DEF Color, Dark

\* What a reader of colours and links sees of it.
SeenPainted(T, U, L, n, color) ==
    /\ \A m \in L \cup {Null} : Color(U, m) = IF m = n THEN color ELSE Color(T, m)
    /\ \A m \in L : \A s \in Side : U.heap[m][s] = T.heap[m][s]
    /\ \A m \in L : U.heap[m].parent = T.heap[m].parent
    /\ U.root = T.root

LEMMA PaintedColors ==
    ASSUME NEW T, NEW L, Heap(T, L), NEW U, NEW n \in L, NEW color, Painted(T, U, L, n, color)
    PROVE  SeenPainted(T, U, L, n, color)
  BY HeapDomain DEF SeenPainted, Painted, SameShape, Color

LEMMA TurnedColors ==
    ASSUME NEW T, NEW L, Heap(T, L), NEW U, NEW n, NEW side, NEW t, NEW i, NEW p,
           Turned(T, U, L, n, side, t, i, p)
    PROVE  \A m \in L \cup {Null} : Color(U, m) = Color(T, m) /\ Dark(U, m) = Dark(T, m)
  BY HeapDomain DEF Turned, SameColors, Color, Dark

\* A rotation changes the ranks of the two nodes it turns at most.
LEMMA TurnedRanks ==
    ASSUME NEW T, NEW L, NEW K, Tree(T, L, K), NEW n \in L, NEW side \in Side, NEW t \in L,
           NEW U, NEW i, NEW p, Turned(T, U, L, n, side, t, i, p),
           NEW b, NEW c, Ranked(b, L), Ranked(c, L),
           \A x \in (L \cup {Null}) \ {n, t} : c[x] = b[x], c[t] = b[n],
           NEW u, NEW ms, \A x \in L \ {n, t} : RankAt(T, b, x, u, ms),
           RankAt(U, c, n, u, ms), RankAt(U, c, t, u, ms)
    PROVE  Ranks(U, L, c, u, ms)
<1>1. ASSUME NEW x \in L \ {n, t} PROVE RankAt(U, c, x, u, ms)
  <2>1. ASSUME NEW s \in Side
        PROVE  c[x] = c[U.heap[x][s]] + Missing(x, s, u, ms) + Dark(U, x)
    <3>1. U.heap[x][s] = IF T.heap[x][s] = n THEN t ELSE T.heap[x][s]
      BY <1>1 DEF Turned
    <3>2. T.heap[x][s] # t
      <4>1. t = T.heap[n][Opposite(side)] /\ Opposite(side) \in Side /\ t # Null
        BY SideFields, TreeFields DEF Turned
      <4>2. T.heap[t].parent = n
        BY <4>1, ChildIs
      <4>. QED
        BY <1>1, <4>1, <4>2, ChildIs
    <3>3. T.heap[x][s] \in L \cup {Null}
      BY TreeFields
    <3>4. c[U.heap[x][s]] = b[T.heap[x][s]]
      BY <3>1, <3>2, <3>3
    <3>5. Dark(U, x) = Dark(T, x)
      BY TurnedColors, TreeFields
    <3>6. b[x] = b[T.heap[x][s]] + Missing(x, s, u, ms) + Dark(T, x)
      BY <1>1 DEF RankAt
    <3>. QED
      BY <3>4, <3>5, <3>6
  <2>. QED
    BY <2>1 DEF RankAt
<1>. QED
  BY <1>1 DEF Ranks

\* The same of red nodes, whatever n is below of.
RedBut(T, z, n, x, y) ==
    \A s \in Side :
        T.heap[z][s] # n /\ Color(T, z) = RED /\ Color(T, T.heap[z][s]) = RED
        => T.heap[z][s] = x \/ z = y

LEMMA TurnedReds ==
    ASSUME NEW T, NEW L, NEW K, Tree(T, L, K), NEW n \in L, NEW side \in Side, NEW t \in L,
           NEW U, NEW i, NEW p, Turned(T, U, L, n, side, t, i, p),
           NEW x, NEW y, \A z \in L \ {n, t} : RedBut(T, z, n, x, y),
           Color(T, p) = RED /\ Color(T, t) = RED => t = x \/ p = y,
           RedAt(U, n, x, y), RedAt(U, t, x, y)
    PROVE  Reds(U, L, x, y)
<1>1. ASSUME NEW z \in L \ {n, t} PROVE RedAt(U, z, x, y)
  <2>1. ASSUME NEW s \in Side, Color(U, z) = RED, Color(U, U.heap[z][s]) = RED
        PROVE  U.heap[z][s] = x \/ z = y
    <3>1. U.heap[z][s] = IF T.heap[z][s] = n THEN t ELSE T.heap[z][s]
      BY <1>1 DEF Turned
    <3>2. T.heap[z][s] \in L \cup {Null} /\ \A m \in L \cup {Null} : Color(U, m) = Color(T, m)
      BY TreeFields, TurnedColors
    <3>3. CASE T.heap[z][s] = n
      <4>1. z = p
        <5>1. T.heap[n].parent = z
          BY <3>3, ChildIs, TreeFields
        <5>. QED
          BY <5>1 DEF Turned
      <4>. QED
        BY <2>1, <3>1, <3>2, <3>3, <4>1
    <3>4. CASE T.heap[z][s] # n
      BY <1>1, <2>1, <3>1, <3>2, <3>4 DEF RedBut
    <3>. QED
      BY <3>3, <3>4
  <2>. QED
    BY <2>1 DEF RedAt
<1>. QED
  BY <1>1 DEF Reds

\* A node is not its own child, nor are its children one another.
LEMMA Apart ==
    ASSUME NEW T, NEW L, NEW K, Tree(T, L, K), NEW n \in L, NEW s \in Side
    PROVE  /\ T.heap[n][s] # n /\ n # Null
           /\ T.heap[n][s] # Null => /\ T.heap[n][s] # T.heap[n][Opposite(s)]
                                     /\ T.heap[n][s] \in L /\ T.heap[n][s] # T.root
                                     /\ \A r \in Side : T.heap[T.heap[n][s]][r] # n
<1>1. T.heap[n][s] \in L \cup {Null} /\ Null \notin L
  BY TreeFields
<1>2. ASSUME T.heap[n][s] # Null
      PROVE  /\ T.heap[n][s] # T.heap[n][Opposite(s)] /\ T.heap[n][s] # T.root
             /\ T.heap[n][s] # n /\ \A r \in Side : T.heap[T.heap[n][s]][r] # n
  <2>1. PICK c \in L : c = T.heap[n][s]
    BY <1>1, <1>2
  <2>2. c \in K[c] /\ \A r \in Side : K[T.heap[c][r]] \subseteq K[c]
    BY SplitIs DEF Side
  <2>3. n \notin K[c] /\ (\A m \in K[c] : m \notin K[T.heap[n][Opposite(s)]]) /\ n \in K[n]
    BY <2>1, SplitIs
  <2>4. c # T.root
    BY <1>1, <1>2, <2>1, ChildIs DEF Tree
  <2>. QED
    BY <1>1, <2>1, <2>2, <2>3, <2>4
<1>. QED
  BY <1>1, <1>2

-----------------------------------------------------------------------------
(* A red child is rotated above its black parent, and they swap colours: the *)
(* step that three branches of the repairs have in common.                   *)

Raised(T, U, L, n, side, t, x, b, u, ms) ==
    /\ \E J : Tree(U, L, J)
    /\ SameKeys(T, U)
    /\ \A m \in L \cup {Null} :
          Color(U, m) = IF m = n THEN RED ELSE IF m = t THEN BLACK ELSE Color(T, m)
    /\ U.root = IF n = T.root THEN t ELSE T.root
    /\ U.heap[n][Opposite(side)] = T.heap[t][side] /\ U.heap[n][side] = T.heap[n][side]
    /\ U.heap[t][side] = n /\ U.heap[t][Opposite(side)] = T.heap[t][Opposite(side)]
    /\ \A m \in L \ {n, t} : \A s \in Side :
          U.heap[m][s] = IF T.heap[m][s] = n THEN t ELSE T.heap[m][s]
    /\ Ranks(U, L, b, u, ms)
    /\ Reds(U, L, x, Null)

LEMMA Raises ==
    ASSUME NEW T, NEW L, NEW K, Tree(T, L, K), NEW n \in L, NEW side \in Side,
           NEW t \in L, T.heap[n][Opposite(side)] = t,
           Color(T, n) = BLACK, Color(T, t) = RED, Color(T, T.heap[n][side]) = BLACK,
           NEW x, x = Null \/ x # T.heap[t][side], Reds(T, L, x, Null),
           NEW b, NEW u, NEW ms \in Side, Ranks(T, L, b, u, ms), u # t, u = n => ms = side,
           NEW U, U = Rotate(Paint(Paint(T, t, BLACK), n, RED), n, side)
    PROVE  \E c : Raised(T, U, L, n, side, t, x, c, u, ms)
<1>1. PICK A, B : A = Paint(T, t, BLACK) /\ B = Paint(A, n, RED)
  OBVIOUS
<1>2. Heap(T, L) /\ Null \notin L /\ DOMAIN T.heap = L
  BY TreeFields, HeapDomain
<1>3. Tree(A, L, K) /\ Painted(T, A, L, t, BLACK)
  BY <1>1, PaintKeeps
<1>4. Tree(B, L, K) /\ Painted(A, B, L, n, RED)
  BY <1>1, <1>3, PaintKeeps
<1>5. Heap(A, L) /\ Heap(B, L) /\ DOMAIN A.heap = L /\ DOMAIN B.heap = L
  BY <1>3, <1>4, HeapDomain DEF Tree
<1>6. n # t
  BY ColorIs, <1>2
<1>7. /\ \A m \in L \cup {Null} : Color(B, m) = IF m = n THEN RED ELSE IF m = t THEN BLACK
                                               ELSE Color(T, m)
      /\ \A m \in L : \A s \in Side : B.heap[m][s] = T.heap[m][s]
      /\ \A m \in L : B.heap[m].parent = T.heap[m].parent
      /\ B.root = T.root
  <2>1. SeenPainted(T, A, L, t, BLACK)
    BY <1>2, <1>3, PaintedColors
  <2>2. SeenPainted(A, B, L, n, RED)
    BY <1>4, <1>5, PaintedColors
  <2>. QED
    BY <1>6, <2>1, <2>2 DEF SeenPainted
<1>8. SameKeys(T, B)
  BY <1>2, <1>3, <1>4, <1>5 DEF Painted, SameShape, SameKeys
<1>9. PICK o : o = Opposite(side)
  OBVIOUS
<1>10. o \in Side /\ o # side /\ Opposite(o) = side /\ \A s \in Side : s = side \/ s = o
  BY <1>9, SideFields
<1>11. B.heap[n][o] = t
  BY <1>7, <1>9, <1>10
<1>12. Heap(U, L) /\ \E i, a : Turned(B, U, L, n, side, t, i, a)
  BY <1>1, <1>4, <1>9, <1>11, RotateTurns
<1>13. PICK i, a : Turned(B, U, L, n, side, t, i, a)
  BY <1>12
<1>14. \E J : Tree(U, L, J)
  BY <1>4, <1>12, <1>13, RotateKeeps
<1>15. SameKeys(T, U)
  BY <1>2, <1>5, <1>8, <1>13 DEF Turned, SameKeys
<1>16. \A m \in L \cup {Null} : Color(U, m) = IF m = n THEN RED ELSE IF m = t THEN BLACK
                                             ELSE Color(T, m)
  BY <1>5, <1>7, <1>13, TurnedColors
<1>17. PICK d, e : d = T.heap[n][side] /\ e = T.heap[t][o]
  OBVIOUS
<1>18. i = T.heap[t][side] /\ i \in L \cup {Null} /\ d \in L \cup {Null} /\ e \in L \cup {Null}
  <2>1. B.heap[t][side] = i
    BY <1>13 DEF Turned
  <2>2. i = T.heap[t][side]
    BY <1>7, <2>1
  <2>. QED
    BY <1>10, <1>17, <2>2, TreeFields
<1>19. /\ U.heap[n][o] = i /\ U.heap[n][side] = d /\ U.heap[t][side] = n /\ U.heap[t][o] = e
       /\ U.root = IF n = T.root THEN t ELSE T.root
  <2>1. /\ U.heap[n][o] = i /\ U.heap[n][side] = B.heap[n][side]
        /\ U.heap[t][side] = n /\ U.heap[t][o] = B.heap[t][o]
        /\ U.root = IF n = B.root THEN t ELSE B.root
    BY <1>9, <1>13 DEF Turned
  <2>. QED
    BY <1>7, <1>10, <1>17, <2>1
<1>20. \A m \in L \ {n, t} : \A s \in Side :
          U.heap[m][s] = IF T.heap[m][s] = n THEN t ELSE T.heap[m][s]
  <2>1. \A m \in L \ {n, t} : \A s \in Side :
           U.heap[m][s] = IF B.heap[m][s] = n THEN t ELSE B.heap[m][s]
    BY <1>13 DEF Turned
  <2>. QED
    BY <1>7, <2>1
<1>21. d # n /\ d # t /\ i # n /\ i # t /\ e # n /\ e # t
  <2>1. d # n /\ d # t
    BY <1>2, <1>9, <1>10, <1>17, Apart
  <2>2. i # t /\ e # t
    BY <1>10, <1>17, <1>18, Apart
  <2>3. i # n /\ e # n
    BY <1>2, <1>9, <1>10, <1>17, <1>18, Apart
  <2>. QED
    BY <2>1, <2>2, <2>3
<1>22. Color(T, i) = BLACK /\ Color(T, d) = BLACK
  <2>1. RedAt(T, t, x, Null)
    BY DEF Reds
  <2>2. Color(T, i) # RED
    BY <1>2, <1>18, <2>1, ColorIs DEF RedAt
  <2>. QED
    BY <1>2, <1>17, <1>18, <2>2, ColorIs
<1>23. Reds(U, L, x, Null)
  <2>1. ASSUME NEW z \in L \ {n, t} PROVE RedBut(B, z, n, x, Null)
    <3>1. ASSUME NEW s \in Side, B.heap[z][s] # n, Color(B, z) = RED, Color(B, B.heap[z][s]) = RED
          PROVE  B.heap[z][s] = x \/ z = Null
      <4>1. PICK k \in L \cup {Null} : k = T.heap[z][s] /\ k = B.heap[z][s]
        BY <1>7, TreeFields
      <4>2. Color(T, k) = RED /\ Color(T, z) = RED
        BY <1>2, <1>7, <2>1, <3>1, <4>1, ColorIs
      <4>. QED
        BY <2>1, <4>1, <4>2 DEF Reds, RedAt
    <3>. QED
      BY <3>1 DEF RedBut
  <2>2. \A s \in Side : Color(U, U.heap[n][s]) # RED
    BY <1>2, <1>10, <1>16, <1>18, <1>19, <1>21, <1>22, ColorIs
  <2>3. Color(U, t) # RED /\ Color(B, t) # RED
    BY <1>2, <1>6, <1>7, <1>16, ColorIs
  <2>4. RedAt(U, n, x, Null) /\ RedAt(U, t, x, Null)
    BY <2>2, <2>3 DEF RedAt
  <2>. QED
    BY <1>4, <1>13, <2>1, <2>3, <2>4, TurnedReds
<1>24. PICK c : c = [b EXCEPT ![n] = b[t], ![t] = b[n]]
  OBVIOUS
<1>25. Ranked(b, L) /\ \A m \in L : RankAt(T, b, m, u, ms)
  BY DEF Ranks
<1>26. /\ Ranked(c, L) /\ c[n] = b[t] /\ c[t] = b[n]
       /\ \A m \in (L \cup {Null}) \ {n, t} : c[m] = b[m]
  <2>1. b \in [L \cup {Null} -> Nat] /\ b[Null] = 0 /\ b[t] \in Nat /\ b[n] \in Nat
    BY <1>25 DEF Ranked
  <2>2. c \in [L \cup {Null} -> Nat] /\ c[n] = b[t] /\ c[t] = b[n]
        /\ \A m \in (L \cup {Null}) \ {n, t} : c[m] = b[m]
    BY <1>6, <1>24, <2>1
  <2>. QED
    BY <1>2, <2>1, <2>2 DEF Ranked
<1>27. Ranks(U, L, c, u, ms)
  <2>1. ASSUME NEW m \in L \ {n, t} PROVE RankAt(B, b, m, u, ms)
    <3>1. Dark(B, m) = Dark(T, m) /\ \A s \in Side : B.heap[m][s] = T.heap[m][s]
      BY <1>7, <2>1 DEF Dark
    <3>. QED
      BY <1>25, <2>1, <3>1 DEF RankAt
  <2>2. Dark(T, n) = 1 /\ Dark(T, t) = 0 /\ Dark(U, n) = 0 /\ Dark(U, t) = 1
    BY <1>2, <1>6, <1>16, ColorIs DEF Dark
  <2>3. /\ Missing(n, o, u, ms) = 0 /\ \A s \in Side : Missing(t, s, u, ms) = 0
        /\ Missing(n, side, u, ms) \in Nat
    BY <1>10 DEF Missing
  <2>4. \A m \in L \cup {Null} : b[m] \in Nat
    BY <1>25 DEF Ranked
  <2>5. b[n] = b[t] + 1 /\ b[n] = b[d] + Missing(n, side, u, ms) + 1 /\ b[t] = b[i] /\ b[t] = b[e]
    <3>1. b[n] = b[t] + 0 + 1 /\ b[n] = b[d] + Missing(n, side, u, ms) + 1
      BY <1>9, <1>10, <1>17, <1>25, <2>2, <2>3 DEF RankAt
    <3>2. b[t] = b[i] + 0 + 0 /\ b[t] = b[e] + 0 + 0
      BY <1>10, <1>17, <1>18, <1>25, <2>2, <2>3 DEF RankAt
    <3>. QED
      BY <1>18, <2>3, <2>4, <3>1, <3>2
  <2>6. c[d] = b[d] /\ c[i] = b[i] /\ c[e] = b[e]
    BY <1>18, <1>21, <1>26
  <2>7. b[d] \in Nat /\ b[i] \in Nat /\ b[e] \in Nat /\ b[n] \in Nat /\ b[t] \in Nat
    BY <1>18, <2>4
  <2>8. RankAt(U, c, n, u, ms)
    <3>1. c[n] = c[i] + Missing(n, o, u, ms) + Dark(U, n)
      <4>1. c[n] = b[i] /\ c[i] = b[i]
        BY <1>26, <2>5, <2>6
      <4>2. b[i] = b[i] + 0 + 0
        BY <2>7
      <4>. QED
        BY <2>2, <2>3, <4>1, <4>2
    <3>2. c[n] = c[d] + Missing(n, side, u, ms) + Dark(U, n)
      BY <1>26, <2>2, <2>3, <2>5, <2>6, <2>7
    <3>. QED
      BY <1>10, <1>19, <3>1, <3>2 DEF RankAt
  <2>9. RankAt(U, c, t, u, ms)
    <3>1. c[t] = c[n] + Missing(t, side, u, ms) + Dark(U, t)
      BY <1>26, <2>2, <2>3, <2>5, <2>7
    <3>2. c[t] = c[e] + Missing(t, o, u, ms) + Dark(U, t)
      BY <1>10, <1>26, <2>2, <2>3, <2>5, <2>6, <2>7
    <3>. QED
      BY <1>10, <1>19, <3>1, <3>2 DEF RankAt
  <2>. QED
    BY <1>4, <1>13, <1>25, <1>26, <2>1, <2>8, <2>9, TurnedRanks
<1>28. Raised(T, U, L, n, side, t, x, c, u, ms)
  BY <1>9, <1>14, <1>15, <1>16, <1>17, <1>18, <1>19, <1>20, <1>23, <1>27 DEF Raised
<1>. QED
  BY <1>28

-----------------------------------------------------------------------------
(* The repair after an insertion. *)

\* After an insertion one red node may be below another one: n.
Growing(T, L, b, n) ==
    /\ n \in L /\ Color(T, n) = RED
    /\ Ranks(T, L, b, Null, "left")
    /\ Reds(T, L, n, Null)
    /\ T.root = n \/ Color(T, T.root) = BLACK

\* Then there is a black node above the two.
Pair(T, L, n, p, g, side) ==
    /\ p = Parent(T, n) /\ g = Parent(T, p) /\ side = SideOf(T, g, p) /\ side \in Side
    /\ n \in L /\ p \in L /\ g \in L /\ n # p /\ p # g /\ n # g
    /\ T.heap[g][side] = p /\ T.root \notin {n, p} /\ Color(T, T.root) = BLACK
    /\ Color(T, n) = RED /\ Color(T, p) = RED /\ Color(T, g) = BLACK
    /\ \E s \in Side : T.heap[p][s] = n

LEMMA PairIs ==
    ASSUME NEW T, NEW L, NEW K, Tree(T, L, K), NEW b, NEW n, Growing(T, L, b, n),
           Color(T, Parent(T, n)) = RED
    PROVE  \E p, g, side : Pair(T, L, n, p, g, side)
<1>1. PICK p : p = Parent(T, n)
  OBVIOUS
<1>2. Null \notin L /\ n \in L /\ Heap(T, L)
  BY TreeFields DEF Growing
<1>3. p \in L \cup {Null} /\ p = T.heap[n].parent
  BY <1>1, <1>2, TreeFields DEF Parent
<1>4. p \in L /\ Color(T, p) = RED
  BY <1>1, <1>2, <1>3, ColorIs
<1>5. n # T.root /\ T.heap[p][SideOf(T, p, n)] = n
  BY <1>2, <1>3, <1>4, ParentIs
<1>6. PICK r \in Side : r = SideOf(T, p, n)
  BY DEF SideOf, Side
<1>7. n # p /\ \A s \in Side : T.heap[n][s] # p
  <2>1. T.heap[p][r] = n
    BY <1>5, <1>6
  <2>. QED
    BY <1>2, <1>4, <2>1, Apart
<1>8. Color(T, T.root) = BLACK /\ T.root # p
  BY <1>2, <1>4, <1>5, ColorIs DEF Growing
<1>9. PICK g : g = T.heap[p].parent
  OBVIOUS
<1>10. g \in L /\ T.heap[g][SideOf(T, g, p)] = p
  BY <1>4, <1>8, <1>9, ParentIs
<1>11. PICK side \in Side : side = SideOf(T, g, p)
  BY DEF SideOf, Side
<1>12. T.heap[g][side] = p
  BY <1>10, <1>11
<1>13. p # g /\ n # g
  BY <1>2, <1>4, <1>7, <1>10, <1>12, Apart
<1>14. Color(T, g) = BLACK
  <2>1. RedAt(T, g, n, Null)
    BY <1>10 DEF Growing, Reds
  <2>2. Color(T, g) \in {RED, BLACK} /\ g # Null
    BY <1>2, <1>10, ColorIs
  <2>. QED
    BY <1>4, <1>7, <1>12, <2>1, <2>2 DEF RedAt
<1>15. Color(T, n) = RED
  BY DEF Growing
<1>16. Pair(T, L, n, p, g, side)
  BY <1>1, <1>2, <1>4, <1>5, <1>6, <1>7, <1>8, <1>9, <1>10, <1>11, <1>12, <1>13, <1>14, <1>15
     DEF Pair, Parent
<1>. QED
  BY <1>16

\* A red uncle: the two below g become black and g red, which may be below a red one.
LEMMA Recolored ==
    ASSUME NEW T, NEW L, NEW K, Tree(T, L, K), NEW b, NEW n, Growing(T, L, b, n),
           NEW p, NEW g, NEW side, Pair(T, L, n, p, g, side),
           NEW u, u = T.heap[g][Opposite(side)], Color(T, u) = RED,
           NEW U, U = Paint(Paint(Paint(T, p, BLACK), u, BLACK), g, RED)
    PROVE  Tree(U, L, K) /\ SameKeys(T, U) /\ \E c : Growing(U, L, c, g)
<1>1. PICK A, B : A = Paint(T, p, BLACK) /\ B = Paint(A, u, BLACK)
  OBVIOUS
<1>2. Heap(T, L) /\ Null \notin L /\ n \in L /\ p \in L /\ g \in L /\ side \in Side
  BY TreeFields DEF Pair
<1>3. u \in L /\ u # p /\ u # g /\ Opposite(side) \in Side /\ T.heap[g][side] = p
  <2>1. u \in L \cup {Null} /\ Opposite(side) \in Side
    BY <1>2, TreeFields, SideFields
  <2>2. u \in L
    BY <1>2, <2>1, ColorIs
  <2>3. u # g
    BY <1>2, <2>1, Apart
  <2>4. T.heap[g][side] = p
    BY DEF Pair
  <2>5. u # p
    BY <1>2, <2>4, Apart
  <2>. QED
    BY <2>1, <2>2, <2>3, <2>4, <2>5
<1>4. Tree(A, L, K) /\ Painted(T, A, L, p, BLACK)
  BY <1>1, <1>2, PaintKeeps
<1>5. Tree(B, L, K) /\ Painted(A, B, L, u, BLACK)
  BY <1>1, <1>3, <1>4, PaintKeeps
<1>6. Tree(U, L, K) /\ Painted(B, U, L, g, RED)
  BY <1>1, <1>2, <1>5, PaintKeeps
<1>7. Heap(A, L) /\ Heap(B, L) /\ Heap(U, L) /\ DOMAIN T.heap = L /\ DOMAIN A.heap = L /\ DOMAIN B.heap = L
  BY <1>2, <1>4, <1>5, <1>6, HeapDomain DEF Tree
<1>8. /\ \A m \in L \cup {Null} : Color(U, m) = IF m = g THEN RED
                                               ELSE IF m \in {p, u} THEN BLACK ELSE Color(T, m)
      /\ \A m \in L : \A s \in Side : U.heap[m][s] = T.heap[m][s]
      /\ U.root = T.root
  <2>1. SeenPainted(T, A, L, p, BLACK)
    BY <1>2, <1>4, PaintedColors
  <2>2. SeenPainted(A, B, L, u, BLACK)
    BY <1>3, <1>5, <1>7, PaintedColors
  <2>3. SeenPainted(B, U, L, g, RED)
    BY <1>2, <1>6, <1>7, PaintedColors
  <2>. QED
    BY <1>2, <1>3, <2>1, <2>2, <2>3 DEF SeenPainted
<1>9. SameKeys(T, U)
  BY <1>4, <1>5, <1>6, <1>7 DEF Painted, SameShape, SameKeys
<1>10. PICK c : c = [m \in L \cup {Null} |-> IF m \in {p, u} THEN b[m] + 1 ELSE b[m]]
  OBVIOUS
<1>11. Ranked(b, L) /\ \A m \in L : RankAt(T, b, m, Null, "left")
  BY DEF Growing, Ranks
<1>12. Ranked(c, L)
  BY <1>2, <1>3, <1>10, <1>11 DEF Ranked
<1>13. /\ \A m \in L \cup {Null} : c[m] = IF m \in {p, u} THEN b[m] + 1 ELSE b[m]
       /\ \A m \in L \cup {Null} : b[m] \in Nat
  BY <1>10, <1>11 DEF Ranked
<1>14. T.heap[p].parent = g /\ T.heap[u].parent = g
  BY <1>2, <1>3, ChildIs
<1>15. Color(T, p) = RED /\ Color(T, u) = RED /\ Color(T, g) = BLACK /\ RED # BLACK
  BY ColorIs, <1>2 DEF Pair
<1>16. ASSUME NEW m \in L PROVE RankAt(U, c, m, Null, "left")
  <2>1. ASSUME NEW s \in Side PROVE c[m] = c[U.heap[m][s]] + Missing(m, s, Null, "left") + Dark(U, m)
    <3>1. PICK k : k = T.heap[m][s]
      OBVIOUS
    <3>2. k \in L \cup {Null} /\ (k # Null => T.heap[k].parent = m) /\ k # m
      BY <3>1, ChildIs, Apart
    <3>3. b[m] = b[k] + Missing(m, s, Null, "left") + Dark(T, m)
      BY <1>11, <3>1 DEF RankAt
    <3>4. Missing(m, s, Null, "left") = 0 /\ U.heap[m][s] = k
      BY <1>2, <1>8, <3>1 DEF Missing
    <3>5. CASE m = g
      <4>1. k \in {p, u} /\ Dark(U, m) = 0 /\ Dark(T, m) = 1
        BY <1>3, <1>8, <1>15, <3>1, <3>5, SideFields, <1>2 DEF Dark
      <4>2. c[m] = b[m] /\ c[k] = b[k] + 1
        BY <1>2, <1>3, <1>13, <3>2, <3>5, <4>1, <1>15
      <4>3. b[k] \in Nat
        BY <1>13, <3>2
      <4>. QED
        BY <3>3, <3>4, <4>1, <4>2, <4>3
    <3>6. CASE m \in {p, u}
      <4>1. k \notin {p, u} /\ Dark(U, m) = 1 /\ Dark(T, m) = 0
        BY <1>2, <1>3, <1>8, <1>14, <1>15, <3>2, <3>6 DEF Dark, Pair
      <4>. QED
        BY <1>13, <3>2, <3>3, <3>4, <3>6, <4>1
    <3>7. CASE m \notin {g, p, u}
      <4>1. k \notin {p, u} /\ Dark(U, m) = Dark(T, m)
        BY <1>2, <1>3, <1>8, <1>14, <3>2, <3>7 DEF Dark
      <4>. QED
        BY <1>13, <3>2, <3>3, <3>4, <3>7, <4>1
    <3>. QED
      BY <3>5, <3>6, <3>7
  <2>. QED
    BY <2>1 DEF RankAt
<1>17. ASSUME NEW m \in L PROVE RedAt(U, m, g, Null)
  <2>1. ASSUME NEW s \in Side, Color(U, m) = RED, Color(U, U.heap[m][s]) = RED PROVE U.heap[m][s] = g
    <3>1. PICK k : k = T.heap[m][s]
      OBVIOUS
    <3>2. k \in L \cup {Null} /\ (k # Null => T.heap[k].parent = m)
      BY <3>1, ChildIs
    <3>3. U.heap[m][s] = k
      BY <1>8, <3>1
    <3>4. SUFFICES ASSUME k # g PROVE FALSE
      BY <3>3
    <3>5. k \notin {p, u} /\ Color(T, k) = RED
      BY <1>8, <1>15, <2>1, <3>2, <3>3, <3>4
    <3>6. m # g
      BY <1>2, <1>3, <3>1, <3>5, SideFields
    <3>7. Color(T, m) = RED /\ m \notin {p, u}
      BY <1>8, <1>15, <2>1, <3>6
    <3>8. k = n
      BY <1>2, <2>1, <3>1, <3>5, <3>7 DEF Growing, Reds, RedAt
    <3>9. T.heap[n].parent = p
      BY DEF Pair, Parent
    <3>. QED
      BY <1>2, <3>2, <3>7, <3>8, <3>9
  <2>. QED
    BY <2>1 DEF RedAt
<1>18. U.root = g \/ Color(U, U.root) = BLACK
  BY <1>8, TreeFields DEF Pair
<1>19. Growing(U, L, c, g)
  <2>1. Color(U, g) = RED
    BY <1>2, <1>8
  <2>. QED
    BY <1>2, <1>12, <1>16, <1>17, <1>18, <2>1 DEF Growing, Ranks, Reds
<1>. QED
  BY <1>6, <1>9, <1>19

\* The two red nodes are on the same side below g, whose other child is black.
Straight(T, L, b, n, q, g, side) ==
    /\ side \in Side /\ n \in L /\ q \in L /\ g \in L /\ n # q /\ n # g /\ q # g
    /\ T.heap[g][side] = q /\ T.heap[q][side] = n
    /\ Color(T, n) = RED /\ Color(T, q) = RED /\ Color(T, g) = BLACK
    /\ Color(T, T.heap[g][Opposite(side)]) = BLACK
    /\ T.root \notin {n, q} /\ Color(T, T.root) = BLACK
    /\ Ranks(T, L, b, Null, "left") /\ Reds(T, L, n, Null)

LEMMA Straightened ==
    ASSUME NEW T, NEW L, NEW K, Tree(T, L, K), NEW b, NEW n, Growing(T, L, b, n),
           NEW p, NEW g, NEW side, Pair(T, L, n, p, g, side),
           Color(T, T.heap[g][Opposite(side)]) = BLACK,
           n = T.heap[p][Opposite(side)],
           NEW U, U = Rotate(T, p, side)
    PROVE  (\E J : Tree(U, L, J)) /\ SameKeys(T, U) /\ Straight(U, L, b, p, n, g, side)
<1>1. p \in L /\ n \in L /\ g \in L /\ side \in Side /\ Heap(T, L) /\ Null \notin L
      /\ n # p /\ p # g /\ n # g
  BY TreeFields DEF Pair
<1>2. Heap(U, L) /\ \E i, a : Turned(T, U, L, p, side, n, i, a)
  BY <1>1, RotateTurns
<1>3. PICK i, a : Turned(T, U, L, p, side, n, i, a)
  BY <1>2
<1>4. \E J : Tree(U, L, J)
  BY <1>1, <1>2, <1>3, RotateKeeps
<1>5. SameKeys(T, U)
  BY <1>3 DEF Turned
<1>6. \A m \in L \cup {Null} : Color(U, m) = Color(T, m) /\ Dark(U, m) = Dark(T, m)
  BY <1>1, <1>3, TurnedColors
<1>7. Opposite(side) \in Side /\ Opposite(side) # side /\ Opposite(Opposite(side)) = side
      /\ \A s \in Side : s = side \/ s = Opposite(side)
  BY <1>1, SideFields
<1>8. a = g
  BY <1>3 DEF Turned, Pair, Parent
<1>9. U.heap[g][side] = n /\ U.heap[g][Opposite(side)] = T.heap[g][Opposite(side)]
  <2>1. T.heap[g][side] = p /\ T.heap[g][Opposite(side)] # p
    <3>1. T.heap[g][side] = p
      BY DEF Pair
    <3>. QED
      BY <1>1, <3>1, Apart
  <2>. QED
    BY <1>1, <1>3, <1>7, <2>1 DEF Turned
<1>10. U.heap[n][side] = p /\ U.root = T.root
  BY <1>3 DEF Turned, Pair
<1>11. \A x \in L : RankAt(T, b, x, Null, "left")
  BY DEF Growing, Ranks
<1>12. Color(T, p) = RED /\ Color(T, n) = RED /\ Dark(T, p) = 0 /\ Dark(T, n) = 0
  <2>1. Color(T, p) = RED /\ Color(T, n) = RED
    BY DEF Pair
  <2>. QED
    BY <1>1, <2>1, ColorIs
<1>13. \A s \in Side : b[T.heap[p][s]] = b[p] /\ b[T.heap[n][s]] = b[p]
  <2>1. Ranked(b, L) /\ (\A x \in L \cup {Null} : b[x] \in Nat)
    BY DEF Growing, Ranks, Ranked
  <2>2. \A s \in Side : Missing(p, s, Null, "left") = 0 /\ Missing(n, s, Null, "left") = 0
    BY <1>1 DEF Missing
  <2>3. \A s \in Side : b[p] = b[T.heap[p][s]] /\ b[n] = b[T.heap[n][s]]
    <3>1. ASSUME NEW s \in Side PROVE b[p] = b[T.heap[p][s]] /\ b[n] = b[T.heap[n][s]]
      <4>1. T.heap[p][s] \in L \cup {Null} /\ T.heap[n][s] \in L \cup {Null}
        BY <1>1, TreeFields
      <4>2. b[p] = b[T.heap[p][s]] + 0 + 0 /\ b[n] = b[T.heap[n][s]] + 0 + 0
        BY <1>1, <1>11, <1>12, <2>2 DEF RankAt
      <4>. QED
        BY <2>1, <4>1, <4>2
    <3>. QED
      BY <3>1
  <2>4. b[n] = b[p]
    BY <1>7, <2>3
  <2>. QED
    BY <2>3, <2>4
<1>14. Ranks(U, L, b, Null, "left")
  <2>1. Ranked(b, L) /\ (\A x \in L \cup {Null} : b[x] \in Nat)
    BY DEF Growing, Ranks, Ranked
  <2>2. b[n] = b[p]
    BY <1>7, <1>13
  <2>3. /\ U.heap[p][Opposite(side)] = i /\ U.heap[p][side] = T.heap[p][side]
        /\ U.heap[n][side] = p /\ U.heap[n][Opposite(side)] = T.heap[n][Opposite(side)]
        /\ T.heap[n][side] = i
    BY <1>3 DEF Turned
  <2>4. \A s \in Side : b[U.heap[p][s]] = b[p] /\ b[U.heap[n][s]] = b[p]
    <3>1. ASSUME NEW s \in Side PROVE b[U.heap[p][s]] = b[p] /\ b[U.heap[n][s]] = b[p]
      <4>1. CASE s = side
        <5>1. U.heap[p][s] = T.heap[p][s] /\ U.heap[n][s] = p
          BY <2>3, <4>1
        <5>. QED
          BY <1>13, <5>1
      <4>2. CASE s = Opposite(side)
        <5>1. U.heap[p][s] = T.heap[n][side] /\ U.heap[n][s] = T.heap[n][s]
          BY <2>3, <4>2
        <5>. QED
          BY <1>1, <1>13, <5>1
      <4>. QED
        BY <1>7, <4>1, <4>2
    <3>. QED
      BY <3>1
  <2>5. \A s \in Side : Missing(p, s, Null, "left") = 0 /\ Missing(n, s, Null, "left") = 0
    BY <1>1 DEF Missing
  <2>6. Dark(U, p) = 0 /\ Dark(U, n) = 0
    BY <1>1, <1>6, <1>12
  <2>7. RankAt(U, b, p, Null, "left") /\ RankAt(U, b, n, Null, "left")
    BY <1>1, <2>1, <2>2, <2>4, <2>5, <2>6 DEF RankAt
  <2>. QED
    BY <1>1, <1>3, <1>11, <2>1, <2>2, <2>7, TurnedRanks
<1>15. Reds(U, L, p, Null)
  <2>1. ASSUME NEW x \in L, x # p PROVE RedAt(T, x, p, Null)
    <3>1. ASSUME NEW s \in Side, Color(T, x) = RED, Color(T, T.heap[x][s]) = RED PROVE FALSE
      <4>1. T.heap[x][s] = n
        BY <1>1, <3>1 DEF Growing, Reds, RedAt
      <4>2. T.heap[n].parent = x
        BY <1>1, <4>1, ChildIs
      <4>3. T.heap[n].parent = p
        BY DEF Pair, Parent
      <4>. QED
        BY <2>1, <4>2, <4>3
    <3>. QED
      BY <3>1 DEF RedAt
  <2>2. \A s \in Side : T.heap[n][s] # Null => Color(T, T.heap[n][s]) # RED
    <3>1. ASSUME NEW s \in Side, Color(T, T.heap[n][s]) = RED PROVE FALSE
      <4>1. T.heap[n][s] = n
        BY <1>1, <1>12, <3>1 DEF Growing, Reds, RedAt
      <4>. QED
        BY <1>1, <4>1, Apart
    <3>. QED
      BY <3>1
  <2>3. T.heap[p][side] # n /\ T.heap[p][side] \in L \cup {Null} /\ i \in L \cup {Null}
        /\ T.heap[n][Opposite(side)] \in L \cup {Null}
    <3>1. T.heap[p][Opposite(side)] = n
      BY <1>3 DEF Turned
    <3>2. T.heap[p][side] # n
      BY <1>1, <1>7, <3>1, Apart
    <3>. QED
      BY <1>1, <1>3, <1>7, <3>2, TreeFields DEF Turned
  <2>4. Color(T, T.heap[p][side]) # RED
    BY <1>1, <1>12, <2>3 DEF Growing, Reds, RedAt
  <2>5. Color(T, i) # RED /\ Color(T, T.heap[n][Opposite(side)]) # RED
    <3>1. T.heap[n][side] = i
      BY <1>3 DEF Turned
    <3>. QED
      BY <1>1, <1>7, <2>2, <3>1, ColorIs
  <2>6. /\ U.heap[p][Opposite(side)] = i /\ U.heap[p][side] = T.heap[p][side]
        /\ U.heap[n][side] = p /\ U.heap[n][Opposite(side)] = T.heap[n][Opposite(side)]
    BY <1>3 DEF Turned
  <2>7. RedAt(U, p, p, Null) /\ RedAt(U, n, p, Null)
    <3>1. \A s \in Side : Color(U, U.heap[p][s]) # RED
      BY <1>6, <1>7, <2>3, <2>4, <2>5, <2>6
    <3>2. \A s \in Side : Color(U, U.heap[n][s]) = RED => U.heap[n][s] = p
      BY <1>6, <1>7, <2>3, <2>5, <2>6
    <3>. QED
      BY <3>1, <3>2 DEF RedAt
  <2>8. Color(T, a) # RED
    <3>1. Color(T, g) = BLACK /\ RED # BLACK
      BY <1>1, ColorIs DEF Pair
    <3>. QED
      BY <1>8, <3>1
  <2>9. \A x \in L \ {p, n} : RedBut(T, x, p, p, Null)
    BY <2>1 DEF RedAt, RedBut
  <2>. QED
    BY <1>1, <1>3, <2>7, <2>8, <2>9, TurnedReds
<1>16. Color(U, U.heap[g][Opposite(side)]) = BLACK
  BY <1>1, <1>6, <1>7, <1>9, TreeFields
<1>17. Color(U, U.root) = BLACK
  <2>1. T.root \in L \cup {Null}
    BY TreeFields
  <2>. QED
    BY <1>6, <1>10, <2>1 DEF Pair
<1>18. Color(U, g) = BLACK /\ Color(U, p) = RED /\ Color(U, n) = RED
  BY <1>1, <1>6, <1>12 DEF Pair
<1>19. U.root \notin {n, p}
  BY <1>10 DEF Pair
<1>20. Straight(U, L, b, p, n, g, side)
  BY <1>1, <1>9, <1>10, <1>14, <1>15, <1>16, <1>17, <1>18, <1>19 DEF Straight
<1>. QED
  BY <1>4, <1>5, <1>20

\* Two red nodes on the same side below g: rotated above it, the upper is black.
LEMMA Leveled ==
    ASSUME NEW T, NEW L, NEW K, Tree(T, L, K), NEW b, NEW n, NEW q, NEW g, NEW side,
           Straight(T, L, b, n, q, g, side),
           NEW U, U = Rotate(Paint(Paint(T, q, BLACK), g, RED), g, Opposite(side))
    PROVE  (\E J : Tree(U, L, J)) /\ SameKeys(T, U) /\ \E c : Growing(U, L, c, n)
<1>1. /\ side \in Side /\ n \in L /\ q \in L /\ g \in L /\ n # q /\ n # g /\ q # g
      /\ T.heap[g][side] = q /\ T.heap[q][side] = n
      /\ Color(T, n) = RED /\ Color(T, q) = RED /\ Color(T, g) = BLACK
      /\ Color(T, T.heap[g][Opposite(side)]) = BLACK
      /\ T.root \notin {n, q} /\ Color(T, T.root) = BLACK
      /\ Ranks(T, L, b, Null, "left") /\ Reds(T, L, n, Null)
  BY DEF Straight
<1>2. PICK o : o = Opposite(side)
  OBVIOUS
<1>3. o \in Side /\ Opposite(o) = side /\ "left" \in Side /\ Null \notin L
  BY <1>1, <1>2, SideFields, TreeFields DEF Side
<1>4. n # T.heap[q][o]
  BY <1>1, <1>2, <1>3, Apart
<1>5. \E c : Raised(T, U, L, g, o, q, n, c, Null, "left")
  <2>1. T.heap[g][Opposite(o)] = q /\ Color(T, T.heap[g][o]) = BLACK
        /\ U = Rotate(Paint(Paint(T, q, BLACK), g, RED), g, o)
    BY <1>1, <1>2, <1>3
  <2>2. Null # q /\ (Null = g => "left" = o)
    BY <1>1, <1>3
  <2>. QED
    BY <1>1, <1>3, <1>4, <2>1, <2>2, Raises
<1>6. PICK c : Raised(T, U, L, g, o, q, n, c, Null, "left")
  BY <1>5
<1>7. /\ \E J : Tree(U, L, J)
      /\ SameKeys(T, U)
      /\ \A m \in L \cup {Null} :
            Color(U, m) = IF m = g THEN RED ELSE IF m = q THEN BLACK ELSE Color(T, m)
      /\ U.root = IF g = T.root THEN q ELSE T.root
      /\ Ranks(U, L, c, Null, "left")
      /\ Reds(U, L, n, Null)
  BY <1>6 DEF Raised
<1>8. Color(U, n) = RED
  BY <1>1, <1>7
<1>9. Color(U, U.root) = BLACK
  <2>1. T.root \in L \cup {Null}
    BY TreeFields
  <2>. QED
    BY <1>1, <1>7, <2>1
<1>10. Growing(U, L, c, n)
  BY <1>1, <1>7, <1>8, <1>9 DEF Growing
<1>. QED
  BY <1>7, <1>10

\* One round of fix_insert.
LEMMA FixInsertKeeps ==
    ASSUME NEW L, NEW K, Tree(tree, L, K), NEW b, Growing(tree, L, b, cur), FixInsert
    PROVE  (\E J : Tree(tree', L, J)) /\ SameKeys(tree, tree') /\ \E c : Growing(tree', L, c, cur')
<1>1. \E p, g, side : Pair(tree, L, cur, p, g, side)
  <2>1. Color(tree, Parent(tree, cur)) = RED
    BY DEF FixInsert
  <2>. QED
    BY <2>1, PairIs
<1>2. PICK p, g, side : Pair(tree, L, cur, p, g, side)
  BY <1>1
<1>3. p = Parent(tree, cur) /\ g = Parent(tree, p) /\ side = SideOf(tree, g, p)
  BY <1>2 DEF Pair
<1>4. PICK T, U, n : /\ T = (IF cur = tree.heap[p][Opposite(side)] THEN Rotate(tree, p, side) ELSE tree)
                     /\ n = (IF cur = tree.heap[p][Opposite(side)] THEN p ELSE cur)
                     /\ U = Rotate(Paint(Paint(T, Parent(T, n), BLACK), Parent(T, Parent(T, n)), RED),
                                   Parent(T, Parent(T, n)), Opposite(side))
  OBVIOUS
<1>5. \/ /\ Color(tree, tree.heap[g][Opposite(side)]) = RED
         /\ tree' = Paint(Paint(Paint(tree, p, BLACK), tree.heap[g][Opposite(side)], BLACK), g, RED)
         /\ cur' = g
      \/ /\ Color(tree, tree.heap[g][Opposite(side)]) = BLACK
         /\ tree' = U /\ cur' = n
  BY <1>3, <1>4 DEF FixInsert
<1>6. CASE Color(tree, tree.heap[g][Opposite(side)]) = RED
  <2>1. tree' = Paint(Paint(Paint(tree, p, BLACK), tree.heap[g][Opposite(side)], BLACK), g, RED)
        /\ cur' = g
    BY <1>5, <1>6 DEF RED, BLACK
  <2>2. Tree(tree', L, K) /\ SameKeys(tree, tree') /\ \E c : Growing(tree', L, c, g)
    BY <1>2, <1>6, <2>1, Recolored
  <2>. QED
    BY <2>1, <2>2
<1>7. CASE Color(tree, tree.heap[g][Opposite(side)]) = BLACK
  <2>1. tree' = U /\ cur' = n
    BY <1>5, <1>7 DEF RED, BLACK
  <2>2. p \in L /\ cur \in L /\ g \in L /\ side \in Side /\ cur # p /\ p # g /\ cur # g
        /\ \E s \in Side : tree.heap[p][s] = cur
    BY <1>2 DEF Pair
  <2>3. \E J, q : Tree(T, L, J) /\ SameKeys(tree, T) /\ Straight(T, L, b, n, q, g, side)
    <3>1. CASE cur = tree.heap[p][Opposite(side)]
      <4>1. T = Rotate(tree, p, side) /\ n = p
        BY <1>4, <3>1
      <4>2. (\E J : Tree(T, L, J)) /\ SameKeys(tree, T) /\ Straight(T, L, b, p, cur, g, side)
        BY <1>2, <1>7, <3>1, <4>1, Straightened
      <4>. QED
        BY <4>1, <4>2
    <3>2. CASE cur # tree.heap[p][Opposite(side)]
      <4>1. T = tree /\ n = cur
        BY <1>4, <3>2
      <4>2. tree.heap[p][side] = cur
        BY <2>2, <3>2, SideFields
      <4>3. Straight(tree, L, b, cur, p, g, side)
        BY <1>2, <1>7, <2>2, <4>2 DEF Straight, Pair, Growing
      <4>. QED
        BY <4>1, <4>3 DEF SameKeys
    <3>. QED
      BY <3>1, <3>2
  <2>4. PICK J, q : Tree(T, L, J) /\ SameKeys(tree, T) /\ Straight(T, L, b, n, q, g, side)
    BY <2>3
  <2>5. Parent(T, n) = q /\ Parent(T, q) = g
    <3>1. /\ side \in Side /\ q \in L /\ g \in L /\ n \in L
          /\ T.heap[g][side] = q /\ T.heap[q][side] = n /\ Null \notin L
      BY <2>4, TreeFields DEF Straight
    <3>2. T.heap[q].parent = g /\ T.heap[n].parent = q
      BY <2>4, <3>1, ChildIs
    <3>. QED
      BY <3>2 DEF Parent
  <2>6. U = Rotate(Paint(Paint(T, q, BLACK), g, RED), g, Opposite(side))
    BY <1>4, <2>5
  <2>7. (\E M : Tree(U, L, M)) /\ SameKeys(T, U) /\ \E c : Growing(U, L, c, n)
    BY <2>4, <2>6, Leveled
  <2>8. DOMAIN tree.heap = L /\ DOMAIN T.heap = L
    BY <2>4, HeapDomain DEF Tree
  <2>9. SameKeys(tree, U)
    BY <2>4, <2>7, <2>8 DEF SameKeys
  <2>. QED
    BY <2>1, <2>7, <2>9
<1>. QED
  BY <1>5, <1>6, <1>7

\* What the tree is at rest.
Repaired(T, L, b) ==
    /\ Ranks(T, L, b, Null, "left")
    /\ Reds(T, L, Null, Null)
    /\ Color(T, T.root) = BLACK

\* The node at the root, or a red one where a black one is missing, becomes black.
LEMMA Blackened ==
    ASSUME NEW T, NEW L, NEW K, Tree(T, L, K), NEW n \in L, NEW b, NEW u, NEW side \in Side,
           Ranks(T, L, b, u, side), Reds(T, L, n, n),
           \/ n = T.root /\ u = Null
           \/ /\ n # T.root /\ u \in L /\ T.heap[u][side] = n
              /\ Color(T, n) = RED /\ Color(T, T.root) = BLACK,
           NEW U, U = Paint(T, n, BLACK)
    PROVE  Tree(U, L, K) /\ SameKeys(T, U) /\ \E c : Repaired(U, L, c)
<1>1. Heap(T, L) /\ Null \notin L /\ DOMAIN T.heap = L
  BY TreeFields, HeapDomain
<1>2. Tree(U, L, K) /\ Painted(T, U, L, n, BLACK)
  BY PaintKeeps
<1>3. SameKeys(T, U)
  BY <1>2 DEF Painted, SameShape
<1>4. /\ \A m \in L \cup {Null} : Color(U, m) = IF m = n THEN BLACK ELSE Color(T, m)
      /\ \A m \in L : \A s \in Side : U.heap[m][s] = T.heap[m][s]
      /\ U.root = T.root
  <2>1. SeenPainted(T, U, L, n, BLACK)
    BY <1>1, <1>2, PaintedColors
  <2>. QED
    BY <2>1 DEF SeenPainted
<1>5. T.root \in L \cup {Null} /\ "left" \in Side
  BY TreeFields DEF Side
<1>6. Color(U, U.root) = BLACK
  BY <1>4, <1>5
<1>7. Reds(U, L, Null, Null)
  <2>1. ASSUME NEW z \in L, NEW s \in Side, Color(U, z) = RED, Color(U, U.heap[z][s]) = RED
        PROVE  FALSE
    <3>1. PICK k \in L \cup {Null} : k = T.heap[z][s] /\ k = U.heap[z][s]
      BY <1>4, TreeFields
    <3>2. k # n /\ z # n /\ Color(T, k) = RED /\ Color(T, z) = RED
      BY <1>1, <1>4, <2>1, <3>1, ColorIs
    <3>. QED
      BY <3>1, <3>2 DEF Reds, RedAt
  <2>. QED
    BY <2>1 DEF Reds, RedAt
<1>8. Ranked(b, L) /\ \A m \in L : RankAt(T, b, m, u, side)
  BY DEF Ranks
<1>9. \A m \in L \cup {Null} : b[m] \in Nat
  BY <1>8 DEF Ranked
<1>10. PICK more : more = 1 - Dark(T, n)
  OBVIOUS
<1>11. more \in Nat /\ Dark(T, n) \in {0, 1} /\ Dark(T, n) + more = 1
  <2>1. Dark(T, n) \in {0, 1}
    BY <1>1, ColorIs
  <2>. QED
    BY <1>10, <2>1
<1>12. PICK c : c = [b EXCEPT ![n] = b[n] + more]
  OBVIOUS
<1>13. Ranked(c, L) /\ c[n] = b[n] + more /\ \A m \in (L \cup {Null}) \ {n} : c[m] = b[m]
  <2>1. b \in [L \cup {Null} -> Nat] /\ b[Null] = 0 /\ b[n] + more \in Nat
    BY <1>8, <1>9, <1>11 DEF Ranked
  <2>2. c \in [L \cup {Null} -> Nat] /\ c[n] = b[n] + more
        /\ \A m \in (L \cup {Null}) \ {n} : c[m] = b[m]
    BY <1>12, <2>1
  <2>. QED
    BY <1>1, <2>1, <2>2 DEF Ranked
<1>14. ASSUME NEW m \in L PROVE RankAt(U, c, m, Null, "left")
  <2>1. ASSUME NEW s \in Side
        PROVE  c[m] = c[U.heap[m][s]] + Missing(m, s, Null, "left") + Dark(U, m)
    <3>1. PICK k \in L \cup {Null} : k = T.heap[m][s] /\ k = U.heap[m][s]
      BY <1>4, TreeFields
    <3>2. Missing(m, s, Null, "left") = 0
      BY <1>1 DEF Missing
    <3>3. b[m] = b[k] + Missing(m, s, u, side) + Dark(T, m)
      BY <1>8, <3>1 DEF RankAt
    <3>4. k # m /\ (k # Null => T.heap[k].parent = m /\ k # T.root)
      <4>1. T.heap[m][s] # m /\ (T.heap[m][s] # Null => T.heap[m][s] # T.root)
        BY Apart
      <4>2. T.heap[m][s] # Null => T.heap[T.heap[m][s]].parent = m
        BY ChildIs
      <4>. QED
        BY <3>1, <4>1, <4>2
    <3>5. c[k] = b[k] + Missing(m, s, u, side)
      <4>1. CASE n = T.root /\ u = Null
        <5>1. k # n
          BY <1>1, <3>4, <4>1
        <5>2. Missing(m, s, u, side) = 0
          BY <1>1, <4>1 DEF Missing
        <5>3. c[k] = b[k] /\ b[k] \in Nat
          BY <1>9, <1>13, <5>1
        <5>. QED
          BY <5>2, <5>3
      <4>2. CASE n # T.root
        <5>1. u \in L /\ T.heap[u][side] = n /\ Color(T, n) = RED
          BY <4>2
        <5>2. more = 1
          BY <1>1, <1>10, <5>1, ColorIs
        <5>3. (k = n) <=> (m = u /\ s = side)
          <6>1. k = n => m = u
            BY <1>1, <3>4, <5>1, ChildIs
          <6>2. ASSUME k = n PROVE s = side
            <7>1. T.heap[u][s] = n /\ T.heap[n].parent = u
              BY <1>1, <3>1, <3>4, <6>1, <6>2
            <7>2. \A r \in Side : T.heap[u][r] = n => r = SideOf(T, u, n)
              BY <4>2, <7>1, ParentIs
            <7>. QED
              BY <5>1, <7>1, <7>2
          <6>. QED
            BY <3>1, <5>1, <6>1, <6>2
        <5>4. CASE k = n
          <6>1. Missing(m, s, u, side) = 1 /\ c[k] = b[k] + 1
            BY <1>13, <5>2, <5>3, <5>4 DEF Missing
          <6>. QED
            BY <6>1
        <5>5. CASE k # n
          <6>1. Missing(m, s, u, side) = 0 /\ c[k] = b[k] /\ b[k] \in Nat
            BY <1>9, <1>13, <5>3, <5>5 DEF Missing
          <6>. QED
            BY <6>1
        <5>. QED
          BY <5>4, <5>5
      <4>. QED
        BY <4>1, <4>2
    <3>6. Missing(m, s, u, side) \in Nat /\ b[k] \in Nat /\ Dark(T, m) \in {0, 1}
      BY <1>1, <1>9, ColorIs DEF Missing
    <3>7. c[m] = c[k] + Dark(U, m)
      <4>1. CASE m = n
        <5>1. Dark(U, m) = 1
          BY <1>4, <4>1 DEF Dark
        <5>. QED
          BY <1>11, <1>13, <3>3, <3>5, <3>6, <4>1, <5>1
      <4>2. CASE m # n
        <5>1. Dark(U, m) = Dark(T, m) /\ c[m] = b[m]
          BY <1>4, <1>13, <4>2 DEF Dark
        <5>. QED
          BY <3>3, <3>5, <3>6, <5>1
      <4>. QED
        BY <4>1, <4>2
    <3>8. c[k] + 0 = c[k]
      BY <3>5, <3>6
    <3>. QED
      BY <3>1, <3>2, <3>7, <3>8
  <2>. QED
    BY <2>1 DEF RankAt
<1>15. Repaired(U, L, c)
  BY <1>6, <1>7, <1>13, <1>14 DEF Repaired, Ranks
<1>. QED
  BY <1>2, <1>3, <1>15

\* The end of fix_insert.
LEMMA FixInsertEndsKeeps ==
    ASSUME NEW L, NEW K, Tree(tree, L, K), NEW b, Growing(tree, L, b, cur), FixInsertEnds
    PROVE  Tree(tree', L, K) /\ SameKeys(tree, tree') /\ \E c : Repaired(tree', L, c)
<1>1. tree' = Paint(tree, tree.root, BLACK) /\ Color(tree, Parent(tree, cur)) = BLACK
  BY DEF FixInsertEnds, Finish, InsertDone
<1>2. cur \in L /\ Ranks(tree, L, b, Null, "left") /\ Reds(tree, L, cur, Null)
  BY DEF Growing
<1>3. tree.root \in L /\ Null \notin L /\ Heap(tree, L)
  <2>1. tree.root # Null
    BY <1>2, TreeFields
  <2>. QED
    BY <2>1, TreeFields
<1>4. Reds(tree, L, tree.root, tree.root)
  <2>1. ASSUME NEW z \in L, NEW s \in Side, Color(tree, z) = RED, Color(tree, tree.heap[z][s]) = RED
        PROVE  FALSE
    <3>1. tree.heap[z][s] = cur
      BY <1>2, <1>3, <2>1 DEF Reds, RedAt
    <3>2. tree.heap[cur].parent = z
      BY <1>2, <1>3, <3>1, ChildIs
    <3>. QED
      BY <1>1, <1>3, <2>1, <3>2, ColorIs DEF Parent
  <2>. QED
    BY <2>1 DEF Reds, RedAt
<1>5. "left" \in Side
  BY DEF Side
<1>. QED
  BY <1>1, <1>2, <1>3, <1>4, <1>5, Blackened

-----------------------------------------------------------------------------
(* The repair after an erasure. *)

\* On the side of u where n is, a black node is missing; n or u may be red below red.
Shrinking(T, L, b, n, u) ==
    /\ n \in L \cup {Null} /\ u \in L \cup {Null}
    /\ Reds(T, L, n, n)
    /\ T.root = n \/ Color(T, T.root) = BLACK
    /\ IF n = T.root THEN Ranks(T, L, b, Null, "left")
       ELSE /\ u \in L /\ T.heap[u][SideOf(T, u, n)] = n
            /\ Ranks(T, L, b, u, SideOf(T, u, n))

\* The end of fix_erase.
LEMMA FixEraseEndsKeeps ==
    ASSUME NEW L, NEW K, Tree(tree, L, K), NEW b, Shrinking(tree, L, b, cur, up), FixEraseEnds
    PROVE  Tree(tree', L, K) /\ SameKeys(tree, tree') /\ \E c : Repaired(tree', L, c)
<1>1. /\ tree' = IF cur = Null THEN tree ELSE Paint(tree, cur, BLACK)
      /\ cur = tree.root \/ Color(tree, cur) = RED
  BY DEF FixEraseEnds, Finish
<1>2. Heap(tree, L) /\ Null \notin L /\ cur \in L \cup {Null} /\ Reds(tree, L, cur, cur)
  BY TreeFields DEF Shrinking
<1>3. CASE cur = Null
  <2>1. tree.root = Null /\ tree' = tree
    BY <1>1, <1>2, <1>3, ColorIs
  <2>2. L = {} /\ Color(tree, tree.root) = BLACK /\ Ranks(tree, L, b, Null, "left")
    BY <1>2, <1>3, <2>1, TreeFields, ColorIs DEF Shrinking
  <2>3. Repaired(tree, L, b) /\ SameKeys(tree, tree)
    BY <2>2 DEF Repaired, Reds, SameKeys
  <2>. QED
    BY <2>1, <2>3
<1>4. CASE cur # Null
  <2>1. cur \in L /\ tree' = Paint(tree, cur, BLACK)
    BY <1>1, <1>2, <1>4
  <2>2. CASE cur = tree.root
    <3>1. Ranks(tree, L, b, Null, "left") /\ "left" \in Side
      BY <2>2 DEF Shrinking, Side
    <3>. QED
      BY <1>2, <2>1, <2>2, <3>1, Blackened
  <2>3. CASE cur # tree.root
    <3>1. PICK s \in Side : s = SideOf(tree, up, cur)
      BY DEF SideOf, Side
    <3>2. /\ up \in L /\ tree.heap[up][s] = cur /\ Ranks(tree, L, b, up, s)
          /\ Color(tree, tree.root) = BLACK /\ Color(tree, cur) = RED
      BY <1>1, <2>3, <3>1 DEF Shrinking
    <3>. QED
      BY <1>2, <2>1, <2>3, <3>2, Blackened
  <2>. QED
    BY <2>2, <2>3
<1>. QED
  BY <1>3, <1>4

\* Within a round: n, on this side of u, is black, and no red node is below a red one.
Lacking(T, L, b, n, u, side) ==
    /\ side \in Side /\ u \in L /\ n \in L \cup {Null} /\ T.heap[u][side] = n
    /\ Color(T, n) = BLACK /\ Color(T, T.root) = BLACK
    /\ Ranks(T, L, b, u, side)
    /\ Reds(T, L, Null, Null)

\* Its sibling is there, for one side has a black node more.
Beside(T, L, b, n, u, side, k) ==
    /\ k = T.heap[u][Opposite(side)] /\ k \in L /\ k # u /\ k # n /\ n # u /\ k # T.root
    /\ T.heap[k].parent = u /\ \A r \in Side : T.heap[k][r] # u /\ T.heap[k][r] # k
    /\ Opposite(side) \in Side /\ Opposite(side) # side /\ Opposite(Opposite(side)) = side
    /\ b[n] \in Nat /\ b[k] = b[n] + 1 /\ b[u] = b[k] + Dark(T, u)

LEMMA BesideIs ==
    ASSUME NEW T, NEW L, NEW K, Tree(T, L, K), NEW b, NEW n, NEW u, NEW side,
           Lacking(T, L, b, n, u, side)
    PROVE  \E k : Beside(T, L, b, n, u, side, k)
<1>1. /\ side \in Side /\ u \in L /\ n \in L \cup {Null} /\ T.heap[u][side] = n
      /\ Ranked(b, L) /\ RankAt(T, b, u, u, side)
  BY DEF Lacking, Ranks
<1>2. PICK o, k : o = Opposite(side) /\ k = T.heap[u][o]
  OBVIOUS
<1>3. o \in Side /\ o # side /\ Opposite(o) = side
  BY <1>1, <1>2, SideFields
<1>4. k \in L \cup {Null} /\ Null \notin L /\ Heap(T, L)
  BY <1>1, <1>2, <1>3, TreeFields
<1>5. (\A m \in L \cup {Null} : b[m] \in Nat) /\ b[Null] = 0
  BY <1>1 DEF Ranked
<1>6. PICK dark : dark = Dark(T, u)
  OBVIOUS
<1>7. b[n] \in Nat /\ b[k] \in Nat /\ dark \in {0, 1}
  BY <1>1, <1>4, <1>5, <1>6, ColorIs
<1>8. b[u] = b[n] + 1 + dark /\ b[u] = b[k] + 0 + dark
  <2>1. Missing(u, side, u, side) = 1 /\ Missing(u, o, u, side) = 0
    BY <1>3 DEF Missing
  <2>. QED
    BY <1>1, <1>2, <1>3, <1>6, <2>1 DEF RankAt
<1>9. b[k] = b[n] + 1 /\ b[u] = b[k] + dark
  BY <1>7, <1>8
<1>10. k # Null /\ k \in L
  <2>1. b[k] # 0
    BY <1>7, <1>9
  <2>. QED
    BY <1>4, <1>5, <2>1
<1>11. k # u /\ k # n /\ k # T.root /\ \A r \in Side : T.heap[k][r] # u
  BY <1>1, <1>2, <1>3, <1>10, Apart
<1>12. n # u
  BY <1>1, Apart
<1>13. T.heap[k].parent = u
  BY <1>1, <1>2, <1>3, <1>10, ChildIs
<1>14. \A r \in Side : T.heap[k][r] # k
  BY <1>10, Apart
<1>15. Beside(T, L, b, n, u, side, k)
  BY <1>2, <1>3, <1>6, <1>7, <1>9, <1>10, <1>11, <1>12, <1>13, <1>14 DEF Beside
<1>. QED
  BY <1>15

LEMMA BlackSiblingKeeps ==
    ASSUME NEW T, NEW L, NEW K, Tree(T, L, K), NEW b, NEW n, NEW side,
           Lacking(T, L, b, n, up, side),
           NEW U, U = BlackSibling(T, side)
    PROVE  (\E J : Tree(U, L, J)) /\ SameKeys(T, U)
           /\ (\E c : Lacking(U, L, c, n, up, side)) /\ Color(U, U.heap[up][Opposite(side)]) = BLACK
<1>1. /\ side \in Side /\ up \in L /\ n \in L \cup {Null} /\ T.heap[up][side] = n
      /\ Color(T, n) = BLACK /\ Color(T, T.root) = BLACK
      /\ Ranks(T, L, b, up, side) /\ Reds(T, L, Null, Null)
  BY DEF Lacking
<1>2. \E k : Beside(T, L, b, n, up, side, k)
  BY BesideIs
<1>3. PICK k : Beside(T, L, b, n, up, side, k)
  BY <1>2
<1>4. /\ k = T.heap[up][Opposite(side)] /\ k \in L /\ k # up /\ k # n /\ n # up
      /\ \A r \in Side : T.heap[k][r] # up /\ T.heap[k][r] # k
      /\ b[n] \in Nat /\ b[k] = b[n] + 1 /\ Opposite(side) \in Side
  BY <1>3 DEF Beside
<1>5. Heap(T, L) /\ Null \notin L /\ T.root \in L \cup {Null}
  BY TreeFields
<1>6. CASE Color(T, k) = RED
  <2>1. U = Rotate(Paint(Paint(T, k, BLACK), up, RED), up, side)
    BY <1>4, <1>6 DEF BlackSibling
  <2>2. Color(T, up) = BLACK
    <3>1. Color(T, up) # RED
      BY <1>1, <1>4, <1>5, <1>6 DEF Reds, RedAt
    <3>. QED
      BY <1>1, <1>5, <3>1, ColorIs
  <2>3. \E c : Raised(T, U, L, up, side, k, Null, c, up, side)
    BY <1>1, <1>4, <1>6, <2>1, <2>2, Raises
  <2>4. PICK c : Raised(T, U, L, up, side, k, Null, c, up, side)
    BY <2>3
  <2>5. /\ \E J : Tree(U, L, J)
        /\ SameKeys(T, U)
        /\ \A m \in L \cup {Null} :
              Color(U, m) = IF m = up THEN RED ELSE IF m = k THEN BLACK ELSE Color(T, m)
        /\ U.root = IF up = T.root THEN k ELSE T.root
        /\ U.heap[up][Opposite(side)] = T.heap[k][side] /\ U.heap[up][side] = T.heap[up][side]
        /\ Ranks(U, L, c, up, side)
        /\ Reds(U, L, Null, Null)
    BY <2>4 DEF Raised
  <2>6. PICK near : near = T.heap[k][side]
    OBVIOUS
  <2>7. near \in L \cup {Null} /\ near # up /\ near # k
    BY <1>1, <1>4, <2>6, TreeFields
  <2>8. Color(T, near) = BLACK
    <3>1. Color(T, near) # RED
      BY <1>1, <1>4, <1>5, <1>6, <2>6, ColorIs DEF Reds, RedAt
    <3>. QED
      BY <1>5, <2>7, <3>1, ColorIs
  <2>9. Color(U, near) = BLACK
    BY <2>5, <2>7, <2>8
  <2>10. Color(U, n) = BLACK
    BY <1>1, <1>4, <2>5
  <2>11. Color(U, U.root) = BLACK
    BY <1>1, <1>4, <1>5, <2>5
  <2>12. Lacking(U, L, c, n, up, side)
    BY <1>1, <2>5, <2>10, <2>11 DEF Lacking
  <2>. QED
    BY <2>5, <2>6, <2>9, <2>12
<1>7. CASE Color(T, k) # RED
  <2>1. U = T
    BY <1>4, <1>7 DEF BlackSibling
  <2>2. Color(T, k) = BLACK
    BY <1>4, <1>5, <1>7, ColorIs
  <2>. QED
    BY <1>4, <2>1, <2>2 DEF SameKeys
<1>. QED
  BY <1>6, <1>7

LEMMA RedNephewKeeps ==
    ASSUME NEW T, NEW L, NEW K, Tree(T, L, K), NEW b, NEW n, NEW side,
           Lacking(T, L, b, n, up, side), Color(T, T.heap[up][Opposite(side)]) = BLACK,
           ~ \A s \in Side : Color(T, T.heap[T.heap[up][Opposite(side)]][s]) = BLACK,
           NEW U, U = RedNephew(T, side)
    PROVE  (\E J : Tree(U, L, J)) /\ SameKeys(T, U)
           /\ (\E c : Lacking(U, L, c, n, up, side)) /\ Color(U, U.heap[up][Opposite(side)]) = BLACK
           /\ Color(U, U.heap[U.heap[up][Opposite(side)]][Opposite(side)]) = RED
<1>1. /\ side \in Side /\ up \in L /\ n \in L \cup {Null} /\ T.heap[up][side] = n
      /\ Color(T, n) = BLACK /\ Color(T, T.root) = BLACK
      /\ Ranks(T, L, b, up, side) /\ Reds(T, L, Null, Null)
  BY DEF Lacking
<1>2. \E k : Beside(T, L, b, n, up, side, k)
  BY BesideIs
<1>3. PICK k : Beside(T, L, b, n, up, side, k)
  BY <1>2
<1>4. /\ k = T.heap[up][Opposite(side)] /\ k \in L /\ k # up /\ k # n /\ n # up /\ k # T.root
      /\ \A r \in Side : T.heap[k][r] # up /\ T.heap[k][r] # k
      /\ Opposite(side) \in Side /\ Opposite(side) # side /\ Opposite(Opposite(side)) = side
      /\ Color(T, k) = BLACK /\ T.heap[k].parent = up
  BY <1>3 DEF Beside
<1>5. Heap(T, L) /\ Null \notin L /\ T.root \in L \cup {Null}
  BY TreeFields
<1>6. PICK near, far : near = T.heap[k][side] /\ far = T.heap[k][Opposite(side)]
  OBVIOUS
<1>7. near \in L \cup {Null} /\ far \in L \cup {Null}
  BY <1>1, <1>4, <1>6, TreeFields
<1>8. CASE Color(T, far) = BLACK
  <2>1. Color(T, near) = RED /\ near \in L
    <3>1. Color(T, near) # BLACK
      BY <1>1, <1>4, <1>6, <1>8, SideFields
    <3>. QED
      BY <1>5, <1>7, <3>1, ColorIs
  <2>2. U = Rotate(Paint(Paint(T, near, BLACK), k, RED), k, Opposite(side))
    BY <1>4, <1>6, <1>8 DEF RedNephew
  <2>3. near # up /\ near # k /\ near # n /\ near # T.root
    <3>1. near # T.root
      BY <1>1, <1>4, <1>5, <1>6, <2>1, Apart
    <3>2. near # n
      BY <1>1, <1>5, <2>1, ColorIs
    <3>. QED
      BY <1>1, <1>4, <1>6, <3>1, <3>2
  <2>4. \E c : Raised(T, U, L, k, Opposite(side), near, Null, c, up, side)
    BY <1>1, <1>4, <1>6, <1>8, <2>1, <2>2, <2>3, Raises
  <2>5. PICK c : Raised(T, U, L, k, Opposite(side), near, Null, c, up, side)
    BY <2>4
  <2>6. /\ \E J : Tree(U, L, J)
        /\ SameKeys(T, U)
        /\ \A m \in L \cup {Null} :
              Color(U, m) = IF m = k THEN RED ELSE IF m = near THEN BLACK ELSE Color(T, m)
        /\ U.root = T.root
        /\ U.heap[near][Opposite(side)] = k
        /\ \A m \in L \ {k, near} : \A s \in Side :
              U.heap[m][s] = IF T.heap[m][s] = k THEN near ELSE T.heap[m][s]
        /\ Ranks(U, L, c, up, side)
        /\ Reds(U, L, Null, Null)
    BY <1>4, <2>5 DEF Raised
  <2>7. U.heap[up][side] = n /\ U.heap[up][Opposite(side)] = near
    BY <1>1, <1>4, <2>3, <2>6
  <2>8. Color(U, n) = BLACK /\ Color(U, near) = BLACK /\ Color(U, k) = RED
        /\ Color(U, U.root) = BLACK
    BY <1>1, <1>4, <1>5, <2>1, <2>3, <2>6
  <2>9. Lacking(U, L, c, n, up, side)
    BY <1>1, <2>6, <2>7, <2>8 DEF Lacking
  <2>. QED
    BY <2>6, <2>7, <2>8, <2>9
<1>9. CASE Color(T, far) # BLACK
  <2>1. U = T
    BY <1>4, <1>6, <1>9 DEF RedNephew
  <2>2. Color(T, far) = RED
    BY <1>5, <1>7, <1>9, ColorIs
  <2>. QED
    BY <1>4, <1>6, <2>1, <2>2 DEF SameKeys
<1>. QED
  BY <1>8, <1>9

\* No red nephew: the sibling becomes red, and the black node is missing one level up.
LEMMA MovesUp ==
    ASSUME NEW T, NEW L, NEW K, Tree(T, L, K), NEW b, NEW n, NEW u, NEW side,
           Lacking(T, L, b, n, u, side), NEW k, Beside(T, L, b, n, u, side, k),
           Color(T, k) = BLACK, \A s \in Side : Color(T, T.heap[k][s]) = BLACK,
           NEW U, U = Paint(T, k, RED)
    PROVE  Tree(U, L, K) /\ SameKeys(T, U) /\ \E c : Shrinking(U, L, c, u, T.heap[u].parent)
<1>1. /\ side \in Side /\ u \in L /\ n \in L \cup {Null} /\ T.heap[u][side] = n
      /\ Color(T, n) = BLACK /\ Color(T, T.root) = BLACK
      /\ Ranked(b, L) /\ (\A m \in L : RankAt(T, b, m, u, side)) /\ Reds(T, L, Null, Null)
  BY DEF Lacking, Ranks
<1>2. PICK o : o = Opposite(side)
  OBVIOUS
<1>3. /\ k = T.heap[u][o] /\ k \in L /\ k # u /\ k # n /\ n # u /\ k # T.root
      /\ T.heap[k].parent = u /\ \A r \in Side : T.heap[k][r] # u /\ T.heap[k][r] # k
      /\ o \in Side /\ o # side
      /\ b[n] \in Nat /\ b[k] = b[n] + 1 /\ b[u] = b[k] + Dark(T, u)
  BY <1>2 DEF Beside
<1>4. Heap(T, L) /\ Null \notin L /\ T.root \in L \cup {Null}
  BY TreeFields
<1>5. Tree(U, L, K) /\ Painted(T, U, L, k, RED)
  BY <1>3, PaintKeeps
<1>6. SameKeys(T, U)
  BY <1>5 DEF Painted, SameShape
<1>7. /\ \A m \in L \cup {Null} : Color(U, m) = IF m = k THEN RED ELSE Color(T, m)
      /\ \A m \in L : \A s \in Side : U.heap[m][s] = T.heap[m][s]
      /\ U.root = T.root
  <2>1. SeenPainted(T, U, L, k, RED)
    BY <1>3, <1>4, <1>5, PaintedColors
  <2>. QED
    BY <2>1 DEF SeenPainted
<1>8. Color(U, U.root) = BLACK
  BY <1>1, <1>3, <1>4, <1>7
<1>9. Reds(U, L, u, u)
  <2>1. ASSUME NEW z \in L, NEW s \in Side, Color(U, z) = RED, Color(U, U.heap[z][s]) = RED, z # u
        PROVE  FALSE
    <3>1. PICK h \in L \cup {Null} : h = T.heap[z][s] /\ h = U.heap[z][s]
      BY <1>7, TreeFields
    <3>2. h # Null => T.heap[h].parent = z
      <4>1. T.heap[z][s] # Null => T.heap[T.heap[z][s]].parent = z
        BY ChildIs
      <4>. QED
        BY <3>1, <4>1
    <3>3. h # k
      BY <1>3, <1>4, <2>1, <3>2
    <3>4. Color(T, h) = RED /\ h \in L
      BY <1>4, <1>7, <2>1, <3>1, <3>3, ColorIs
    <3>5. z # k
      BY <3>1, <3>4, ColorIs, <1>4
    <3>. QED
      BY <1>1, <1>4, <1>7, <2>1, <3>1, <3>4, <3>5 DEF Reds, RedAt
  <2>. QED
    BY <2>1 DEF Reds, RedAt
<1>10. PICK g, v, ms : /\ g = T.heap[u].parent
                       /\ v = (IF u = T.root THEN Null ELSE g)
                       /\ ms = (IF u = T.root THEN "left" ELSE SideOf(T, g, u))
  OBVIOUS
<1>11. u # T.root => g \in L /\ T.heap[g][ms] = u /\ ms \in Side
  BY <1>1, <1>10, ParentIs DEF SideOf, Side
<1>12. ASSUME NEW m \in L, NEW s \in Side
       PROVE  Missing(m, s, v, ms) = IF T.heap[m][s] = u THEN 1 ELSE 0
  <2>1. T.heap[m][s] = u => T.heap[u].parent = m /\ u # T.root
    <3>1. T.heap[m][s] # Null => T.heap[m][s] # T.root
      BY Apart
    <3>2. T.heap[m][s] # Null => T.heap[T.heap[m][s]].parent = m
      BY ChildIs
    <3>. QED
      BY <1>1, <1>4, <3>1, <3>2
  <2>2. CASE u = T.root
    BY <1>4, <1>10, <2>1, <2>2 DEF Missing
  <2>3. CASE u # T.root
    <3>1. \A r \in Side : T.heap[g][r] = u => r = ms
      BY <1>1, <1>10, <2>3, ParentIs
    <3>2. (T.heap[m][s] = u) <=> (m = g /\ s = ms)
      BY <1>10, <1>11, <2>1, <2>3, <3>1
    <3>. QED
      BY <1>10, <2>3, <3>2 DEF Missing
  <2>. QED
    BY <2>2, <2>3
<1>13. (\A m \in L \cup {Null} : b[m] \in Nat) /\ b[Null] = 0
  BY <1>1 DEF Ranked
<1>14. PICK c : c = [b EXCEPT ![k] = b[k] - 1, ![u] = b[u] - 1]
  OBVIOUS
<1>15. b[u] \in Nat /\ b[u] - 1 \in Nat /\ b[k] - 1 = b[n] /\ b[u] - 1 = b[n] + Dark(T, u)
       /\ Dark(T, u) \in {0, 1}
  <2>1. Dark(T, u) \in {0, 1}
    BY <1>1, <1>4, ColorIs
  <2>2. PICK dark, x : dark = Dark(T, u) /\ x = b[n]
    OBVIOUS
  <2>3. x \in Nat /\ dark \in {0, 1} /\ b[k] = x + 1 /\ b[u] = b[k] + dark
    BY <1>3, <2>1, <2>2
  <2>4. b[u] \in Nat /\ b[u] - 1 \in Nat /\ b[k] - 1 = x /\ b[u] - 1 = x + dark
    BY <2>3
  <2>. QED
    BY <2>1, <2>2, <2>4
<1>16. /\ Ranked(c, L) /\ c[k] = b[n] /\ c[u] = b[u] - 1
       /\ \A m \in (L \cup {Null}) \ {k, u} : c[m] = b[m]
  <2>1. b \in [L \cup {Null} -> Nat] /\ b[k] - 1 \in Nat /\ b[u] - 1 \in Nat
    BY <1>1, <1>3, <1>15 DEF Ranked
  <2>2. c \in [L \cup {Null} -> Nat] /\ c[k] = b[k] - 1 /\ c[u] = b[u] - 1
        /\ \A m \in (L \cup {Null}) \ {k, u} : c[m] = b[m]
    BY <1>1, <1>3, <1>14, <2>1
  <2>. QED
    BY <1>1, <1>3, <1>4, <1>13, <1>15, <2>2 DEF Ranked
<1>17. ASSUME NEW m \in L PROVE RankAt(U, c, m, v, ms)
  <2>1. ASSUME NEW s \in Side
        PROVE  c[m] = c[U.heap[m][s]] + Missing(m, s, v, ms) + Dark(U, m)
    <3>1. PICK h \in L \cup {Null} : h = T.heap[m][s] /\ h = U.heap[m][s]
      BY <1>7, TreeFields
    <3>2. b[m] = b[h] + Missing(m, s, u, side) + Dark(T, m)
      BY <1>1, <3>1 DEF RankAt
    <3>3. h # m
      <4>1. T.heap[m][s] # m
        BY Apart
      <4>. QED
        BY <3>1, <4>1
    <3>4. PICK more : more = Missing(m, s, v, ms) /\ more = IF h = u THEN 1 ELSE 0
      BY <1>12, <3>1
    <3>5. c[m] = c[h] + more + Dark(U, m)
      <4>1. CASE m = u
        <5>1. Dark(U, m) = Dark(T, u) /\ more = 0
          BY <1>1, <1>3, <1>7, <3>3, <3>4, <4>1 DEF Dark
        <5>2. c[h] = b[n]
          <6>1. CASE s = side
            BY <1>1, <1>3, <1>16, <3>1, <4>1, <6>1
          <6>2. CASE s = o
            BY <1>3, <1>16, <3>1, <4>1, <6>2
          <6>. QED
            BY <1>1, <1>2, <6>1, <6>2, SideFields
        <5>. QED
          BY <1>3, <1>15, <1>16, <4>1, <5>1, <5>2
      <4>2. CASE m = k
        <5>1. Dark(U, m) = 0 /\ Dark(T, m) = 1 /\ more = 0 /\ h # u /\ h # k
          <6>1. Color(T, k) = BLACK /\ Color(U, k) = RED
            BY <1>3, <1>4, <1>7, ColorIs
          <6>2. Dark(T, m) = 1 /\ Dark(U, m) = 0
            BY <4>2, <6>1, <1>4, ColorIs DEF Dark
          <6>3. \A r \in Side : T.heap[k][r] # u /\ T.heap[k][r] # k
            BY <1>3
          <6>4. h # u /\ h # k
            BY <3>1, <4>2, <6>3
          <6>. QED
            BY <3>4, <6>2, <6>4
        <5>2. Missing(m, s, u, side) = 0 /\ c[h] = b[h] /\ b[h] \in Nat
          BY <1>3, <1>13, <1>16, <4>2, <5>1 DEF Missing
        <5>3. b[n] + 1 = b[h] + 0 + 1
          BY <1>3, <3>2, <4>2, <5>1, <5>2
        <5>4. b[n] = b[h]
          BY <1>3, <5>2, <5>3
        <5>. QED
          BY <1>16, <4>2, <5>1, <5>2, <5>4
      <4>3. CASE m \notin {u, k}
        <5>1. Dark(U, m) = Dark(T, m) /\ c[m] = b[m] /\ Missing(m, s, u, side) = 0
          BY <1>7, <1>16, <4>3 DEF Dark, Missing
        <5>2. h # k
          <6>1. h # Null => T.heap[h].parent = m
            <7>1. T.heap[m][s] # Null => T.heap[T.heap[m][s]].parent = m
              BY ChildIs
            <7>. QED
              BY <3>1, <7>1
          <6>. QED
            BY <1>3, <1>4, <4>3, <6>1
        <5>3. b[h] \in Nat /\ Dark(T, m) \in {0, 1}
          BY <1>4, <1>13, ColorIs
        <5>4. CASE h = u
          <6>1. c[h] = b[h] - 1 /\ more = 1
            BY <1>16, <3>4, <5>4
          <6>. QED
            BY <3>2, <5>1, <5>3, <6>1
        <5>5. CASE h # u
          <6>1. c[h] = b[h] /\ more = 0
            BY <1>16, <3>4, <5>2, <5>5
          <6>. QED
            BY <3>2, <5>1, <5>3, <6>1
        <5>. QED
          BY <5>4, <5>5
      <4>. QED
        BY <4>1, <4>2, <4>3
    <3>. QED
      BY <3>1, <3>4, <3>5
  <2>. QED
    BY <2>1 DEF RankAt
<1>18. Shrinking(U, L, c, u, g)
  <2>1. Ranks(U, L, c, v, ms)
    BY <1>16, <1>17 DEF Ranks
  <2>2. g \in L \cup {Null}
    BY <1>1, <1>10, TreeFields
  <2>3. CASE u = T.root
    <3>1. Ranks(U, L, c, Null, "left")
      BY <1>10, <2>1, <2>3
    <3>. QED
      BY <1>1, <1>7, <1>8, <1>9, <2>2, <2>3, <3>1 DEF Shrinking
  <2>4. CASE u # T.root
    <3>1. Ranks(U, L, c, g, ms) /\ ms = SideOf(T, g, u) /\ g \in L /\ T.heap[g][ms] = u /\ ms \in Side
      BY <1>10, <1>11, <2>1, <2>4
    <3>2. SideOf(U, g, u) = ms
      <4>1. U.heap[g].left = T.heap[g].left
        BY <1>7, <3>1 DEF Side
      <4>. QED
        BY <3>1, <4>1 DEF SideOf
    <3>. QED
      BY <1>1, <1>7, <1>8, <1>9, <2>2, <2>4, <3>1, <3>2 DEF Shrinking
  <2>. QED
    BY <2>3, <2>4
<1>. QED
  BY <1>5, <1>6, <1>10, <1>18

\* A red far nephew: it takes the place of the missing black node.
LEMMA Fills ==
    ASSUME NEW T, NEW L, NEW K, Tree(T, L, K), NEW b, NEW n, NEW u, NEW side,
           Lacking(T, L, b, n, u, side), NEW k, Beside(T, L, b, n, u, side, k),
           Color(T, k) = BLACK, NEW f, f = T.heap[k][Opposite(side)], Color(T, f) = RED,
           NEW P, P = Paint(Paint(Paint(T, k, Color(T, u)), u, BLACK), f, BLACK),
           NEW U, U = Rotate(P, u, side)
    PROVE  (\E J : Tree(U, L, J)) /\ SameKeys(T, U) /\ \E c : Repaired(U, L, c)
<1>1. /\ side \in Side /\ u \in L /\ n \in L \cup {Null} /\ T.heap[u][side] = n
      /\ Color(T, n) = BLACK /\ Color(T, T.root) = BLACK
      /\ Ranked(b, L) /\ (\A m \in L : RankAt(T, b, m, u, side)) /\ Reds(T, L, Null, Null)
  BY DEF Lacking, Ranks
<1>2. PICK o : o = Opposite(side)
  OBVIOUS
<1>3. /\ k = T.heap[u][o] /\ k \in L /\ k # u /\ k # n /\ n # u /\ k # T.root
      /\ T.heap[k].parent = u /\ \A r \in Side : T.heap[k][r] # u /\ T.heap[k][r] # k
      /\ o \in Side /\ o # side
      /\ b[n] \in Nat /\ b[k] = b[n] + 1 /\ b[u] = b[k] + Dark(T, u)
  BY <1>2 DEF Beside
<1>3a. k \in L /\ o \in Side /\ side \in Side
  BY <1>1, <1>3
<1>4. Heap(T, L) /\ Null \notin L /\ T.root \in L \cup {Null} /\ DOMAIN T.heap = L
  BY TreeFields, HeapDomain
<1>4a. PICK color, A, B, Q, W, far :
          /\ far = T.heap[k][o] /\ color = Color(T, u) /\ A = Paint(T, k, color)
          /\ B = Paint(A, u, BLACK) /\ Q = Paint(B, far, BLACK) /\ W = Rotate(Q, u, side)
  OBVIOUS
<1>4b. W = U /\ Color(T, far) = RED
  BY <1>2, <1>4a
<1>5. far = T.heap[k][o] /\ far \in L /\ far # u /\ far # k /\ T.heap[far].parent = k /\ far # T.root
  <2>1. far = T.heap[k][o] /\ far \in L \cup {Null}
    <3>1. \A s \in Side : T.heap[k][s] \in L \cup {Null}
      BY <1>3a, TreeFields
    <3>2. far = T.heap[k][o]
      BY <1>4a
    <3>. QED
      BY <1>3, <3>1, <3>2
  <2>2. far \in L
    BY <1>4, <1>4b, <2>1, ColorIs
  <2>3. T.heap[far].parent = k /\ far # T.root
    <3>1. T.heap[k][o] # Null => T.heap[T.heap[k][o]].parent = k
      BY <1>3a, ChildIs
    <3>2. T.heap[k][o] # Null => T.heap[k][o] # T.root
      BY <1>3a, Apart
    <3>. QED
      BY <1>4, <2>1, <2>2, <3>1, <3>2
  <2>. QED
    BY <1>3, <2>1, <2>2, <2>3
<1>6. far # n
  BY <1>1, <1>4, <1>5, <1>4b, ColorIs
<1>7. /\ color = Color(T, u) /\ A = Paint(T, k, color) /\ B = Paint(A, u, BLACK)
      /\ Q = Paint(B, far, BLACK) /\ W = Rotate(Q, u, side)
  BY <1>4a
<1>8. color \in {RED, BLACK}
  BY <1>1, <1>4, <1>7, ColorIs
<1>9. Tree(A, L, K) /\ Painted(T, A, L, k, color)
  BY <1>3, <1>7, <1>8, PaintKeeps
<1>10. Tree(B, L, K) /\ Painted(A, B, L, u, BLACK)
  BY <1>1, <1>7, <1>9, PaintKeeps
<1>11. Tree(Q, L, K) /\ Painted(B, Q, L, far, BLACK)
  BY <1>5, <1>7, <1>10, PaintKeeps
<1>12. /\ Heap(A, L) /\ Heap(B, L) /\ Heap(Q, L)
       /\ DOMAIN A.heap = L /\ DOMAIN B.heap = L /\ DOMAIN Q.heap = L
  BY <1>9, <1>10, <1>11, HeapDomain DEF Tree
<1>13. /\ \A m \in L \cup {Null} : Color(Q, m) = IF m \in {u, far} THEN BLACK
                                                ELSE IF m = k THEN color ELSE Color(T, m)
       /\ \A m \in L : \A s \in Side : Q.heap[m][s] = T.heap[m][s]
       /\ \A m \in L : Q.heap[m].parent = T.heap[m].parent
       /\ Q.root = T.root
  <2>1. SeenPainted(T, A, L, k, color)
    BY <1>3, <1>4, <1>9, PaintedColors
  <2>2. SeenPainted(A, B, L, u, BLACK)
    BY <1>1, <1>10, <1>12, PaintedColors
  <2>3. SeenPainted(B, Q, L, far, BLACK)
    BY <1>5, <1>11, <1>12, PaintedColors
  <2>4. /\ \A m \in L : \A s \in Side : Q.heap[m][s] = T.heap[m][s]
        /\ \A m \in L : Q.heap[m].parent = T.heap[m].parent
        /\ Q.root = T.root
    BY <2>1, <2>2, <2>3 DEF SeenPainted
  <2>5. ASSUME NEW m \in L \cup {Null}
        PROVE  Color(Q, m) = IF m \in {u, far} THEN BLACK ELSE IF m = k THEN color ELSE Color(T, m)
    <3>1. Color(A, m) = IF m = k THEN color ELSE Color(T, m)
      BY <2>1 DEF SeenPainted
    <3>2. Color(B, m) = IF m = u THEN BLACK ELSE Color(A, m)
      BY <2>2 DEF SeenPainted
    <3>3. Color(Q, m) = IF m = far THEN BLACK ELSE Color(B, m)
      BY <2>3 DEF SeenPainted
    <3>. QED
      BY <1>3, <1>5, <3>1, <3>2, <3>3
  <2>. QED
    BY <2>4, <2>5
<1>14. SameKeys(T, Q)
  BY <1>4, <1>9, <1>10, <1>11, <1>12 DEF Painted, SameShape, SameKeys
<1>15. Q.heap[u][o] = k
  BY <1>1, <1>3, <1>13
<1>16. Heap(W, L) /\ \E i, a : Turned(Q, W, L, u, side, k, i, a)
  <2>1. W = Rotate(Q, u, side)
    BY <1>7
  <2>2. Q.heap[u][Opposite(side)] = k
    BY <1>2, <1>15
  <2>. QED
    BY <1>1, <1>3, <1>11, <2>1, <2>2, RotateTurns
<1>17. PICK i, a : Turned(Q, W, L, u, side, k, i, a)
  BY <1>16
<1>18. \E J : Tree(W, L, J)
  BY <1>1, <1>3, <1>11, <1>16, <1>17, RotateKeeps
<1>19. SameKeys(T, W)
  BY <1>4, <1>12, <1>14, <1>17 DEF Turned, SameKeys
<1>20. \A m \in L \cup {Null} : Color(W, m) = Color(Q, m)
  BY <1>12, <1>17, TurnedColors
<1>21. /\ W.heap[u][o] = i /\ W.heap[u][side] = n /\ W.heap[k][side] = u /\ W.heap[k][o] = far
       /\ W.root = IF u = T.root THEN k ELSE T.root
       /\ i = T.heap[k][side] /\ a = T.heap[u].parent /\ a \notin {u, k}
  <2>1. /\ W.heap[u][o] = i /\ W.heap[u][side] = Q.heap[u][side]
        /\ W.heap[k][side] = u /\ W.heap[k][o] = Q.heap[k][o]
        /\ W.root = (IF u = Q.root THEN k ELSE Q.root)
        /\ Q.heap[k][side] = i /\ Q.heap[u].parent = a /\ a \notin {u, k}
    BY <1>2, <1>17 DEF Turned
  <2>. QED
    BY <1>1, <1>3, <1>5, <1>13, <2>1
<1>22. i \in L \cup {Null} /\ i # u /\ i # k /\ i # far
  <2>1. i \in L \cup {Null} /\ i # u /\ i # k
    <3>1. \A s \in Side : T.heap[k][s] \in L \cup {Null}
      BY <1>3a, TreeFields
    <3>. QED
      BY <1>1, <1>3, <1>21, <3>1
  <2>2. i # Null => i # far
    <3>1. T.heap[k][side] # Null => T.heap[k][side] # T.heap[k][Opposite(side)]
      BY <1>3a, Apart
    <3>. QED
      BY <1>2, <1>5, <1>21, <3>1
  <2>. QED
    BY <1>4, <1>5, <2>1, <2>2
<1>23. Color(W, W.root) = BLACK
  <2>1. Color(Q, k) = color
    BY <1>3, <1>5, <1>13
  <2>2. CASE u = T.root
    <3>1. color = BLACK /\ W.root = k
      BY <1>1, <1>7, <1>21, <2>2
    <3>. QED
      BY <1>3, <1>20, <2>1, <3>1
  <2>3. CASE u # T.root
    <3>1. W.root = T.root /\ Color(W, T.root) = Color(Q, T.root)
      BY <1>4, <1>20, <1>21, <2>3
    <3>2. Color(Q, T.root) = Color(T, T.root)
      BY <1>3, <1>4, <1>5, <1>13, <2>3
    <3>. QED
      BY <1>1, <3>1, <3>2
  <2>. QED
    BY <2>2, <2>3
<1>24. Reds(W, L, Null, Null)
  <2>1. ASSUME NEW z \in L \ {u, k} PROVE RedBut(Q, z, u, Null, Null)
    <3>1. ASSUME NEW s \in Side, Q.heap[z][s] # u, Color(Q, z) = RED, Color(Q, Q.heap[z][s]) = RED
          PROVE  FALSE
      <4>1. T.heap[z][s] \in L \cup {Null}
            /\ (T.heap[z][s] # Null => T.heap[T.heap[z][s]].parent = z)
        BY <2>1, ChildIs
      <4>2. PICK h : h = T.heap[z][s]
        OBVIOUS
      <4>3. h \in L \cup {Null} /\ (h # Null => T.heap[h].parent = z)
        BY <4>1, <4>2
      <4>4. h # u /\ Color(Q, h) = RED
        BY <1>13, <2>1, <3>1, <4>2
      <4>5. h # k
        BY <1>3, <1>4, <2>1, <4>3
      <4>6. Color(T, h) = RED /\ Color(T, z) = RED /\ h # Null
        BY <1>4, <1>13, <2>1, <3>1, <4>3, <4>4, <4>5, ColorIs
      <4>. QED
        BY <1>1, <1>4, <2>1, <4>2, <4>6 DEF Reds, RedAt
    <3>. QED
      BY <3>1 DEF RedBut
  <2>2. ASSUME Color(Q, a) = RED, Color(Q, k) = RED PROVE FALSE
    <3>1. a \in L \cup {Null} /\ color = RED
      BY <1>1, <1>3, <1>5, <1>13, <1>21, <2>2, TreeFields
    <3>2. Color(T, a) = RED /\ a \in L /\ Color(T, u) = RED
      BY <1>4, <1>7, <1>13, <1>21, <2>2, <3>1, ColorIs
    <3>3. T.heap[a][SideOf(T, a, u)] = u
      BY <1>1, <1>4, <1>21, <3>2, ParentIs
    <3>4. SideOf(T, a, u) \in Side
      BY DEF SideOf, Side
    <3>. QED
      BY <1>1, <1>4, <3>2, <3>3, <3>4 DEF Reds, RedAt
  <2>3. Color(W, u) # RED /\ Color(W, far) # RED
    BY <1>1, <1>5, <1>13, <1>20, <1>4, ColorIs
  <2>4. RedAt(W, u, Null, Null)
    BY <2>3 DEF RedAt
  <2>5. \A s \in Side : Color(W, W.heap[k][s]) # RED
    BY <1>1, <1>2, <1>21, <2>3, SideFields
  <2>6. RedAt(W, k, Null, Null)
    BY <2>5 DEF RedAt
  <2>. QED
    BY <1>1, <1>3, <1>11, <1>17, <2>1, <2>2, <2>4, <2>6, TurnedReds
<1>25. (\A m \in L \cup {Null} : b[m] \in Nat) /\ b \in [L \cup {Null} -> Nat] /\ b[Null] = 0
  BY <1>1 DEF Ranked
<1>26. PICK x, dark : x = b[n] /\ dark = Dark(T, u)
  OBVIOUS
<1>27. x \in Nat /\ dark \in {0, 1} /\ b[k] = x + 1 /\ b[u] = x + 1 + dark
  <2>1. dark \in {0, 1}
    BY <1>1, <1>4, <1>26, ColorIs
  <2>. QED
    BY <1>3, <1>26, <2>1
<1>28. b[i] = x /\ b[far] = x
  <2>1. \A s \in Side : Missing(k, s, u, side) = 0
    BY <1>3 DEF Missing
  <2>2. Dark(T, k) = 1
    BY DEF Dark
  <2>3. b[k] = b[i] + 0 + 1 /\ b[k] = b[far] + 0 + 1
    BY <1>1, <1>3, <1>5, <1>21, <2>1, <2>2 DEF RankAt
  <2>4. b[i] \in Nat /\ b[far] \in Nat
    BY <1>5, <1>22, <1>25
  <2>. QED
    BY <1>27, <2>3, <2>4
<1>29. PICK d, c : d = [b EXCEPT ![far] = x + 1] /\ c = [d EXCEPT ![u] = x + 1, ![k] = b[u]]
  OBVIOUS
<1>30. /\ d \in [L \cup {Null} -> Nat] /\ d[far] = x + 1
       /\ \A m \in (L \cup {Null}) \ {far} : d[m] = b[m]
  BY <1>5, <1>25, <1>27, <1>29
<1>31. /\ c \in [L \cup {Null} -> Nat] /\ c[u] = x + 1 /\ c[k] = b[u]
       /\ \A m \in (L \cup {Null}) \ {u, k} : c[m] = d[m]
  <2>1. b[u] \in Nat /\ x + 1 \in Nat
    BY <1>1, <1>25, <1>27
  <2>. QED
    BY <1>1, <1>3, <1>29, <1>30, <2>1
<1>32. Ranked(d, L) /\ Ranked(c, L)
  BY <1>1, <1>3, <1>4, <1>5, <1>25, <1>30, <1>31 DEF Ranked
<1>33. "left" \in Side /\ \A m \in L : \A s \in Side : Missing(m, s, Null, "left") = 0
  BY <1>4 DEF Missing, Side
<1>34. ASSUME NEW m \in L \ {u, k} PROVE RankAt(Q, d, m, Null, "left")
  <2>1. ASSUME NEW s \in Side PROVE d[m] = d[Q.heap[m][s]] + Missing(m, s, Null, "left") + Dark(Q, m)
    <3>1. T.heap[m][s] \in L \cup {Null}
          /\ (T.heap[m][s] # Null => T.heap[T.heap[m][s]].parent = m)
      BY <1>34, ChildIs
    <3>2. PICK h : h = T.heap[m][s]
      OBVIOUS
    <3>3. h \in L \cup {Null} /\ h # far /\ Q.heap[m][s] = h
      BY <1>4, <1>5, <1>13, <1>34, <3>1, <3>2
    <3>4. b[m] = b[h] + 0 + Dark(T, m)
      <4>1. Missing(m, s, u, side) = 0
        BY <1>34 DEF Missing
      <4>. QED
        BY <1>1, <1>34, <3>2, <4>1 DEF RankAt
    <3>5. d[h] = b[h] /\ b[h] \in Nat
      BY <1>25, <1>30, <3>3
    <3>6. d[m] = b[h] + 0 + Dark(Q, m)
      <4>1. CASE m = far
        <5>1. Dark(Q, m) = 1 /\ Dark(T, m) = 0 /\ d[m] = x + 1
          <6>1. Color(Q, far) = BLACK /\ Color(T, far) = RED
            BY <1>5, <1>13, <1>4b
          <6>2. Dark(T, far) = 0
            BY <1>4, <1>5, <6>1, ColorIs
          <6>3. Dark(Q, far) = 1
            BY <1>5, <1>12, <6>1, ColorIs
          <6>. QED
            BY <1>30, <4>1, <6>2, <6>3
        <5>2. x = b[h] + 0 + 0
          BY <1>28, <3>4, <4>1, <5>1
        <5>. QED
          BY <3>5, <5>1, <5>2
      <4>2. CASE m # far
        <5>1. Dark(Q, m) = Dark(T, m) /\ d[m] = b[m]
          BY <1>13, <1>30, <1>34, <4>2 DEF Dark
        <5>. QED
          BY <3>4, <5>1
      <4>. QED
        BY <4>1, <4>2
    <3>. QED
      BY <1>33, <1>34, <3>3, <3>5, <3>6
  <2>. QED
    BY <2>1 DEF RankAt
<1>35. Dark(W, u) = 1 /\ Dark(W, k) = dark
  <2>1. Color(W, u) = BLACK
    BY <1>1, <1>13, <1>20
  <2>2. Color(W, k) = Color(T, u)
    <3>1. Color(W, k) = Color(Q, k)
      BY <1>3, <1>20
    <3>2. Color(Q, k) = color
      BY <1>3, <1>5, <1>13
    <3>. QED
      BY <1>4a, <3>1, <3>2
  <2>. QED
    BY <1>26, <2>1, <2>2 DEF Dark
<1>36. RankAt(W, c, u, Null, "left")
  <2>1. c[n] = x /\ c[i] = x /\ c[u] = x + 0 + 1
    <3>1. n \in (L \cup {Null}) \ {u, k, far} /\ i \in (L \cup {Null}) \ {u, k, far}
      BY <1>1, <1>3, <1>6, <1>22
    <3>2. c[n] = b[n] /\ c[i] = b[i]
      BY <1>30, <1>31, <3>1
    <3>. QED
      BY <1>26, <1>27, <1>28, <1>31, <3>2
  <2>2. c[u] = c[n] + Missing(u, side, Null, "left") + Dark(W, u)
    BY <1>1, <1>33, <1>35, <2>1
  <2>3. c[u] = c[i] + Missing(u, o, Null, "left") + Dark(W, u)
    BY <1>1, <1>3, <1>33, <1>35, <2>1
  <2>. QED
    BY <1>1, <1>2, <1>21, <2>2, <2>3, SideFields DEF RankAt
<1>37. RankAt(W, c, k, Null, "left")
  <2>1. c[far] = x + 1 /\ c[u] = x + 1 /\ c[k] = (x + 1) + 0 + dark
    BY <1>5, <1>27, <1>30, <1>31
  <2>2. c[k] = c[u] + Missing(k, side, Null, "left") + Dark(W, k)
    BY <1>1, <1>3, <1>33, <1>35, <2>1
  <2>3. c[k] = c[far] + Missing(k, o, Null, "left") + Dark(W, k)
    BY <1>3, <1>33, <1>35, <2>1
  <2>. QED
    BY <1>1, <1>2, <1>21, <2>2, <2>3, SideFields DEF RankAt
<1>38. Ranks(W, L, c, Null, "left")
  <2>1. c[k] = d[u]
    BY <1>1, <1>5, <1>30, <1>31
  <2>. QED
    BY <1>1, <1>3, <1>11, <1>17, <1>31, <1>32, <1>34, <1>36, <1>37, <2>1, TurnedRanks
<1>39. Repaired(W, L, c)
  BY <1>23, <1>24, <1>38 DEF Repaired
<1>. QED
  BY <1>18, <1>19, <1>39, <1>4b

\* One round of fix_erase.
LEMMA FixEraseKeeps ==
    ASSUME NEW L, NEW K, Tree(tree, L, K), NEW b, Shrinking(tree, L, b, cur, up), FixErase
    PROVE  (\E J : Tree(tree', L, J)) /\ SameKeys(tree, tree')
           /\ \E c : Shrinking(tree', L, c, cur', up')
<1>1. PICK side \in Side : side = SideOf(tree, up, cur)
  BY DEF SideOf, Side
<1>2. PICK T, U, P : /\ T = BlackSibling(tree, side) /\ U = RedNephew(T, side)
                     /\ P = Paint(Paint(Paint(U, U.heap[up][Opposite(side)], Color(U, up)), up, BLACK),
                                  U.heap[U.heap[up][Opposite(side)]][Opposite(side)], BLACK)
  OBVIOUS
<1>3. /\ cur # tree.root /\ Color(tree, cur) = BLACK
      /\ \/ /\ \A s \in Side : Color(T, T.heap[T.heap[up][Opposite(side)]][s]) = BLACK
            /\ tree' = Paint(T, T.heap[up][Opposite(side)], RED)
            /\ cur' = up /\ up' = T.heap[up].parent
         \/ /\ ~ \A s \in Side : Color(T, T.heap[T.heap[up][Opposite(side)]][s]) = BLACK
            /\ tree' = Rotate(P, up, side)
            /\ cur' = tree'.root /\ up' = up
  BY <1>1, <1>2 DEF FixErase, MovedUp, Parent
<1>4. Lacking(tree, L, b, cur, up, side)
  <2>1. /\ cur \in L \cup {Null} /\ Reds(tree, L, cur, cur) /\ Color(tree, tree.root) = BLACK
        /\ up \in L /\ tree.heap[up][side] = cur /\ Ranks(tree, L, b, up, side)
    BY <1>1, <1>3 DEF Shrinking
  <2>2. RED # BLACK
    BY DEF RED, BLACK
  <2>3. Reds(tree, L, Null, Null)
    BY <1>3, <2>1, <2>2 DEF Reds, RedAt
  <2>. QED
    BY <1>3, <2>1, <2>3 DEF Lacking
<1>5. /\ \E J : Tree(T, L, J)
      /\ SameKeys(tree, T) /\ (\E c : Lacking(T, L, c, cur, up, side))
      /\ Color(T, T.heap[up][Opposite(side)]) = BLACK
  BY <1>2, <1>4, BlackSiblingKeeps
<1>6. PICK J, c : Tree(T, L, J) /\ Lacking(T, L, c, cur, up, side)
  BY <1>5
<1>7. DOMAIN tree.heap = L /\ DOMAIN T.heap = L
  BY <1>6, HeapDomain DEF Tree
<1>8. CASE \A s \in Side : Color(T, T.heap[T.heap[up][Opposite(side)]][s]) = BLACK
  <2>1. tree' = Paint(T, T.heap[up][Opposite(side)], RED) /\ cur' = up /\ up' = T.heap[up].parent
    BY <1>3, <1>8
  <2>2. \E k : Beside(T, L, c, cur, up, side, k)
    BY <1>6, BesideIs
  <2>3. PICK k : Beside(T, L, c, cur, up, side, k)
    BY <2>2
  <2>4. k = T.heap[up][Opposite(side)]
    BY <2>3 DEF Beside
  <2>5. Color(T, k) = BLACK /\ (\A s \in Side : Color(T, T.heap[k][s]) = BLACK)
        /\ tree' = Paint(T, k, RED)
    BY <1>5, <1>8, <2>1, <2>4
  <2>6. Tree(tree', L, J) /\ SameKeys(T, tree') /\ \E d : Shrinking(tree', L, d, up, T.heap[up].parent)
    BY <1>6, <2>3, <2>5, MovesUp
  <2>7. SameKeys(tree, tree')
    BY <1>5, <1>7, <2>6 DEF SameKeys
  <2>. QED
    BY <2>1, <2>6, <2>7
<1>9. CASE ~ \A s \in Side : Color(T, T.heap[T.heap[up][Opposite(side)]][s]) = BLACK
  <2>1. tree' = Rotate(P, up, side) /\ cur' = tree'.root /\ up' = up
    BY <1>3, <1>9
  <2>2. /\ \E M : Tree(U, L, M)
        /\ SameKeys(T, U) /\ (\E d : Lacking(U, L, d, cur, up, side))
        /\ Color(U, U.heap[up][Opposite(side)]) = BLACK
        /\ Color(U, U.heap[U.heap[up][Opposite(side)]][Opposite(side)]) = RED
    BY <1>2, <1>5, <1>6, <1>9, RedNephewKeeps
  <2>3. PICK M, d : Tree(U, L, M) /\ Lacking(U, L, d, cur, up, side)
    BY <2>2
  <2>4. \E k : Beside(U, L, d, cur, up, side, k)
    BY <2>3, BesideIs
  <2>5. PICK k : Beside(U, L, d, cur, up, side, k)
    BY <2>4
  <2>6. k = U.heap[up][Opposite(side)]
    BY <2>5 DEF Beside
  <2>7. PICK f : f = U.heap[k][Opposite(side)]
    OBVIOUS
  <2>8. /\ Color(U, k) = BLACK /\ Color(U, f) = RED
        /\ P = Paint(Paint(Paint(U, k, Color(U, up)), up, BLACK), f, BLACK)
    BY <1>2, <2>2, <2>6, <2>7
  <2>9. (\E N : Tree(tree', L, N)) /\ SameKeys(U, tree') /\ \E e : Repaired(tree', L, e)
    BY <2>1, <2>3, <2>5, <2>7, <2>8, Fills
  <2>10. PICK N, e : Tree(tree', L, N) /\ Repaired(tree', L, e)
    BY <2>9
  <2>11. DOMAIN U.heap = L
    BY <2>3, HeapDomain DEF Tree
  <2>12. SameKeys(tree, tree')
    BY <1>5, <1>7, <2>2, <2>9, <2>11 DEF SameKeys
  <2>13. Shrinking(tree', L, e, cur', up')
    <3>1. tree'.root \in L \cup {Null} /\ up \in L /\ Null \notin L
      BY <2>3, <2>10, TreeFields DEF Lacking
    <3>2. Reds(tree', L, tree'.root, tree'.root)
      <4>1. Heap(tree', L)
        BY <2>10, TreeFields
      <4>2. ASSUME NEW m \in L, NEW s \in Side,
                   Color(tree', m) = RED, Color(tree', tree'.heap[m][s]) = RED
            PROVE  FALSE
        <5>1. tree'.heap[m][s] = Null
          BY <2>10, <3>1, <4>2 DEF Repaired, Reds, RedAt
        <5>. QED
          BY <4>1, <4>2, <5>1, ColorIs
      <4>. QED
        BY <4>2 DEF Reds, RedAt
    <3>. QED
      BY <2>1, <2>10, <3>1, <3>2 DEF Shrinking, Repaired
  <2>. QED
    BY <2>9, <2>12, <2>13
<1>. QED
  BY <1>3, <1>8, <1>9

-----------------------------------------------------------------------------
(* Ways down a tree. *)

\* A way that goes on to a child of a node, or ends there.
Way(T, L, next) ==
    /\ next \in [L -> L \cup {Null}]
    /\ \A n \in L : next[n] # Null => \E s \in Side : next[n] = T.heap[n][s]

\* The pairs of a node and where the way from there ends, as the least such relation.
Closed(L, next, R) ==
    /\ R \subseteq L \X L
    /\ \A n \in L : next[n] = Null => <<n, n>> \in R
    /\ \A n, e \in L : next[n] # Null /\ <<next[n], e>> \in R => <<n, e>> \in R

\* There is a function that follows it to its end.
Follows(f, L, next) ==
    /\ f \in [L -> L]
    /\ \A n \in L : f[n] = IF next[n] = Null THEN n ELSE f[next[n]]

LEMMA WaysEnd ==
    ASSUME NEW T, NEW L, NEW K, Tree(T, L, K), NEW next, Way(T, L, next)
    PROVE  \E f : Follows(f, L, next)
<1>1. Null \notin L /\ next \in [L -> L \cup {Null}]
  BY TreeFields DEF Way
<1>2. PICK R : R = {x \in L \X L : \A S : Closed(L, next, S) => x \in S}
  OBVIOUS
<1>3. \A n, e \in L : <<n, e>> \in R <=> \A S : Closed(L, next, S) => <<n, e>> \in S
  BY <1>2
<1>4. Closed(L, next, R)
  <2>1. R \subseteq L \X L
    BY <1>2
  <2>2. ASSUME NEW n \in L, next[n] = Null PROVE <<n, n>> \in R
    BY <1>3, <2>2 DEF Closed
  <2>3. ASSUME NEW n \in L, NEW e \in L, next[n] # Null, <<next[n], e>> \in R PROVE <<n, e>> \in R
    <3>1. next[n] \in L
      BY <1>1, <2>3
    <3>2. ASSUME NEW S, Closed(L, next, S) PROVE <<n, e>> \in S
      <4>1. <<next[n], e>> \in S
        BY <1>3, <2>3, <3>1, <3>2
      <4>. QED
        BY <2>3, <3>2, <4>1 DEF Closed
    <3>. QED
      BY <1>3, <3>2
  <2>. QED
    BY <2>1, <2>2, <2>3 DEF Closed
<1>5. ASSUME NEW n \in L, NEW e \in L, <<n, e>> \in R
      PROVE  IF next[n] = Null THEN e = n ELSE <<next[n], e>> \in R
  <2>1. PICK S : S = {x \in R : IF next[x[1]] = Null THEN x[2] = x[1] ELSE <<next[x[1]], x[2]>> \in R}
    OBVIOUS
  <2>2. \A m, d \in L : <<m, d>> \in S <=>
           <<m, d>> \in R /\ IF next[m] = Null THEN d = m ELSE <<next[m], d>> \in R
    BY <2>1
  <2>3. S \subseteq L \X L
    BY <1>2, <2>1
  <2>4. ASSUME NEW m \in L, next[m] = Null PROVE <<m, m>> \in S
    BY <1>4, <2>2, <2>4 DEF Closed
  <2>5. ASSUME NEW m \in L, NEW d \in L, next[m] # Null, <<next[m], d>> \in S PROVE <<m, d>> \in S
    <3>1. next[m] \in L
      BY <1>1, <2>5
    <3>2. <<next[m], d>> \in R
      BY <2>2, <2>5, <3>1
    <3>3. <<m, d>> \in R
      BY <1>4, <2>5, <3>2 DEF Closed
    <3>. QED
      BY <2>2, <2>5, <3>2, <3>3
  <2>6. Closed(L, next, S)
    BY <2>3, <2>4, <2>5 DEF Closed
  <2>7. <<n, e>> \in S
    BY <1>3, <1>5, <2>6
  <2>. QED
    BY <2>2, <2>7
<1>6. PICK P : P = {n \in L \cup {Null} : n # Null =>
                      \E e \in L : <<n, e>> \in R /\ \A d \in L : <<n, d>> \in R => d = e}
  OBVIOUS
<1>7. L \subseteq P
  <2>1. Null \in P
    BY <1>6
  <2>2. ASSUME NEW n \in L, T.heap[n].left \in P, T.heap[n].right \in P PROVE n \in P
    <3>1. CASE next[n] = Null
      <4>1. <<n, n>> \in R /\ \A d \in L : <<n, d>> \in R => d = n
        BY <1>4, <1>5, <3>1 DEF Closed
      <4>. QED
        BY <1>6, <4>1
    <3>2. CASE next[n] # Null
      <4>1. next[n] \in P /\ next[n] \in L
        BY <1>1, <2>2, <3>2 DEF Way, Side
      <4>2. PICK e \in L : <<next[n], e>> \in R /\ \A d \in L : <<next[n], d>> \in R => d = e
        BY <1>1, <1>6, <4>1
      <4>3. <<n, e>> \in R /\ \A d \in L : <<n, d>> \in R => d = e
        BY <1>4, <1>5, <3>2, <4>2 DEF Closed
      <4>. QED
        BY <1>6, <4>3
    <3>. QED
      BY <3>1, <3>2
  <2>. QED
    BY <2>1, <2>2, TreeInduction
<1>8. PICK f : f = [n \in L |-> CHOOSE e \in L : <<n, e>> \in R]
  OBVIOUS
<1>9. ASSUME NEW n \in L
      PROVE  /\ f[n] \in L /\ <<n, f[n]>> \in R
             /\ \A d \in L : <<n, d>> \in R => d = f[n]
  <2>1. PICK e \in L : <<n, e>> \in R /\ \A d \in L : <<n, d>> \in R => d = e
    BY <1>1, <1>6, <1>7
  <2>2. f[n] = CHOOSE d \in L : <<n, d>> \in R
    BY <1>8
  <2>3. f[n] \in L /\ <<n, f[n]>> \in R
    BY <2>1, <2>2
  <2>. QED
    BY <2>1, <2>3
<1>10. ASSUME NEW n \in L PROVE f[n] = IF next[n] = Null THEN n ELSE f[next[n]]
  <2>1. f[n] \in L /\ <<n, f[n]>> \in R
    BY <1>9
  <2>2. CASE next[n] = Null
    BY <1>5, <2>1, <2>2
  <2>3. CASE next[n] # Null
    <3>1. next[n] \in L /\ <<next[n], f[n]>> \in R
      BY <1>1, <1>5, <2>1, <2>3
    <3>. QED
      BY <1>9, <2>1, <2>3, <3>1
  <2>. QED
    BY <2>2, <2>3
<1>11. Follows(f, L, next)
  BY <1>8, <1>9, <1>10 DEF Follows
<1>. QED
  BY <1>11

\* The way from a node ends at one below it, where it goes no further, and
\* goes through every node above that end.
Ended(K, f, next, n) ==
    /\ f[n] \in K[n] /\ next[f[n]] = Null
    /\ \A m \in K[n] : f[n] \in K[m] => m = f[n] \/ (next[m] # Null /\ f[n] \in K[next[m]])

LEMMA EndsAre ==
    ASSUME NEW T, NEW L, NEW K, Tree(T, L, K), NEW next, Way(T, L, next),
           NEW f, Follows(f, L, next)
    PROVE  \A n \in L : Ended(K, f, next, n)
<1>1. Null \notin L /\ next \in [L -> L \cup {Null}]
  BY TreeFields DEF Way
<1>2. PICK P : P = {n \in L \cup {Null} : n # Null => Ended(K, f, next, n)}
  OBVIOUS
<1>3. Null \in P
  BY <1>2
<1>4. ASSUME NEW n \in L, T.heap[n].left \in P, T.heap[n].right \in P PROVE n \in P
  <2>1. n \in K[n] /\ \A m \in K[n] : m \in L
    BY SplitIs, TreeFields DEF Side
  <2>2. CASE next[n] = Null
    <3>1. f[n] = n
      BY <2>2 DEF Follows
    <3>2. ASSUME NEW m \in K[n], n \in K[m] PROVE m = n
      <4>1. SUFFICES ASSUME m # n PROVE FALSE
        OBVIOUS
      <4>2. PICK s \in Side : m \in K[T.heap[n][s]]
        <5>1. K[n] = K[T.heap[n].left] \cup {n} \cup K[T.heap[n].right]
          BY DEF Tree, Split
        <5>. QED
          BY <3>2, <4>1, <5>1 DEF Side
      <4>3. T.heap[n][s] \in L \cup {Null} /\ n \notin K[T.heap[n][s]]
        BY SplitIs, TreeFields
      <4>4. K[m] \subseteq K[T.heap[n][s]]
        BY <4>2, <4>3, Nested
      <4>. QED
        BY <3>2, <4>3, <4>4
    <3>3. Ended(K, f, next, n)
      BY <2>1, <2>2, <3>1, <3>2 DEF Ended
    <3>. QED
      BY <1>2, <3>3
  <2>3. CASE next[n] # Null
    <3>1. PICK s \in Side : next[n] = T.heap[n][s]
      BY <2>3 DEF Way
    <3>2. PICK c : c = next[n]
      OBVIOUS
    <3>3. c \in L /\ c \in P /\ f[n] = f[c]
      BY <1>1, <1>4, <2>3, <3>1, <3>2 DEF Side, Follows
    <3>4. Ended(K, f, next, c)
      BY <1>1, <1>2, <3>3
    <3>5. /\ K[n] = K[c] \cup {n} \cup K[T.heap[n][Opposite(s)]] /\ K[c] \subseteq K[n]
          /\ \A m \in K[c] : m \notin K[T.heap[n][Opposite(s)]]
      BY <3>1, <3>2, SplitIs
    <3>6. ASSUME NEW m \in K[n], f[n] \in K[m]
          PROVE  m = f[n] \/ (next[m] # Null /\ f[n] \in K[next[m]])
      <4>1. CASE m = n
        BY <2>3, <3>2, <3>3, <3>4, <4>1 DEF Ended
      <4>2. CASE m \in K[c]
        BY <3>3, <3>4, <3>6, <4>2 DEF Ended
      <4>3. CASE m \in K[T.heap[n][Opposite(s)]]
        <5>1. T.heap[n][Opposite(s)] \in L \cup {Null}
          BY TreeFields, SideFields
        <5>2. K[m] \subseteq K[T.heap[n][Opposite(s)]]
          BY <4>3, <5>1, Nested
        <5>. QED
          BY <3>3, <3>4, <3>5, <3>6, <5>2 DEF Ended
      <4>. QED
        BY <3>5, <4>1, <4>2, <4>3
    <3>7. Ended(K, f, next, n)
      BY <3>3, <3>4, <3>5, <3>6 DEF Ended
    <3>. QED
      BY <1>2, <3>7
  <2>. QED
    BY <2>2, <2>3
<1>5. L \subseteq P
  BY <1>3, <1>4, TreeInduction
<1>. QED
  BY <1>1, <1>2, <1>5

\* The first node of those below n.
First(T, K, n, v) ==
    /\ v \in K[n] /\ T.heap[v].left = Null
    /\ \A x \in K[n] : x = v \/ T.heap[v].key < T.heap[x].key

LEMMA LeftmostIs ==
    ASSUME NEW T, NEW L, NEW K, Tree(T, L, K), NEW n \in L
    PROVE  First(T, K, n, Leftmost(T, n))
<1>1. PICK next : next = [m \in L |-> T.heap[m].left]
  OBVIOUS
<1>2. Null \notin L /\ DOMAIN T.heap = L /\ \A m \in L : T.heap[m].left \in L \cup {Null}
  BY TreeFields, HeapDomain DEF Side
<1>3. Way(T, L, next)
  BY <1>1, <1>2 DEF Way, Side
<1>. DEFINE Goes(f) == f = [m \in DOMAIN T.heap |->
                              IF T.heap[m].left = Null THEN m ELSE f[T.heap[m].left]]
<1>4. \E f : Goes(f)
  <2>1. PICK f : Follows(f, L, next)
    BY <1>3, WaysEnd
  <2>2. \A m \in L : f[m] = IF T.heap[m].left = Null THEN m ELSE f[T.heap[m].left]
    BY <1>1, <2>1 DEF Follows
  <2>3. Goes(f)
    BY <1>2, <2>1, <2>2 DEF Follows
  <2>. QED
    BY <2>3
<1>5. PICK f : f = CHOOSE g : Goes(g)
  OBVIOUS
<1>6. Leftmost(T, n) = f[n]
  BY <1>5 DEF Leftmost
<1>7. Goes(f)
  <2>. HIDE DEF Goes
  <2>. QED
    BY <1>4, <1>5
<1>8. \A m \in L : f[m] = IF T.heap[m].left = Null THEN m ELSE f[T.heap[m].left]
  BY <1>2, <1>7
<1>. HIDE DEF Goes
<1>9. PICK P : P = {m \in L \cup {Null} : m # Null => First(T, K, m, f[m])}
  OBVIOUS
<1>10. Null \in P
  BY <1>9
<1>11. ASSUME NEW m \in L, T.heap[m].left \in P, T.heap[m].right \in P PROVE m \in P
  <2>1. PICK c : c = T.heap[m].left
    OBVIOUS
  <2>2. /\ c = T.heap[m]["left"] /\ "left" \in Side /\ Opposite("left") = "right" /\ "right" \in Side
        /\ c \in L \cup {Null} /\ (\A x \in L \cup {Null} : K[x] \subseteq L) /\ K[Null] = {}
        /\ \A x \in L : T.heap[x].key \in Int
    BY <1>2, <2>1, TreeFields DEF Side, Opposite
  <2>3. /\ m \in K[m] /\ K[m] = K[c] \cup {m} \cup K[T.heap[m].right]
        /\ \A x \in K[c] : T.heap[x].key < T.heap[m].key
    <3>1. /\ m \in K[m] /\ K[m] = K[T.heap[m]["left"]] \cup {m} \cup K[T.heap[m][Opposite("left")]]
          /\ \A x \in K[T.heap[m]["left"]] : On(T, m, "left", x)
      BY <2>2, SplitIs
    <3>. QED
      BY <2>2, <3>1 DEF On
  <2>4. \A x \in K[T.heap[m].right] : T.heap[m].key < T.heap[x].key
    <3>1. \A x \in K[T.heap[m]["right"]] : On(T, m, "right", x)
      BY <2>2, SplitIs
    <3>. QED
      BY <3>1 DEF On
  <2>5. CASE c = Null
    <3>1. f[m] = m
      BY <1>8, <2>1, <2>5
    <3>2. First(T, K, m, m)
      BY <2>1, <2>2, <2>3, <2>4, <2>5 DEF First
    <3>. QED
      BY <1>9, <3>1, <3>2
  <2>6. CASE c # Null
    <3>1. f[m] = f[c] /\ c \in L /\ First(T, K, c, f[c])
      BY <1>2, <1>8, <1>9, <1>11, <2>1, <2>2, <2>6
    <3>2. PICK v : v = f[c]
      OBVIOUS
    <3>3. v \in K[c] /\ v \in L /\ T.heap[v].left = Null
          /\ \A x \in K[c] : x = v \/ T.heap[v].key < T.heap[x].key
      BY <2>2, <3>1, <3>2 DEF First
    <3>4. ASSUME NEW x \in K[m] PROVE x = v \/ T.heap[v].key < T.heap[x].key
      <4>1. T.heap[v].key < T.heap[m].key
        BY <2>3, <3>3
      <4>2. CASE x \in K[T.heap[m].right]
        <5>1. x \in L /\ T.heap[m].key < T.heap[x].key
          BY <2>2, <2>4, <4>2, TreeFields
        <5>. QED
          BY <2>2, <3>3, <4>1, <5>1
      <4>. QED
        BY <2>3, <3>3, <4>1, <4>2
    <3>5. First(T, K, m, v)
      BY <2>3, <3>3, <3>4 DEF First
    <3>. QED
      BY <1>9, <3>1, <3>2, <3>5
  <2>. QED
    BY <2>5, <2>6
<1>12. L \subseteq P
  BY <1>10, <1>11, TreeInduction
<1>. QED
  BY <1>2, <1>6, <1>9, <1>12

\* Two nodes have different keys.
LEMMA KeysDiffer ==
    ASSUME NEW T, NEW L, NEW K, Tree(T, L, K)
    PROVE  \A x, y \in L : T.heap[x].key = T.heap[y].key => x = y
<1>1. PICK P : P = {n \in L \cup {Null} : \A x, y \in K[n] : T.heap[x].key = T.heap[y].key => x = y}
  OBVIOUS
<1>2. Null \in P
  BY <1>1, TreeFields
<1>3. ASSUME NEW n \in L, T.heap[n].left \in P, T.heap[n].right \in P PROVE n \in P
  <2>1. PICK A, B : A = K[T.heap[n].left] /\ B = K[T.heap[n].right]
    OBVIOUS
  <2>2. A \subseteq L /\ B \subseteq L /\ \A x \in L : T.heap[x].key \in Int
    BY <2>1, TreeFields DEF Side
  <2>3. /\ K[n] = A \cup {n} \cup B
        /\ (\A x \in A : T.heap[x].key < T.heap[n].key) /\ \A x \in B : T.heap[n].key < T.heap[x].key
    <3>1. Split(T, K, n)
      BY DEF Tree
    <3>2. \A x \in A : On(T, n, "left", x)
      BY <2>1, <3>1 DEF Split, Side
    <3>3. \A x \in B : On(T, n, "right", x)
      BY <2>1, <3>1 DEF Split, Side
    <3>. QED
      BY <2>1, <3>1, <3>2, <3>3 DEF Split, On
  <2>4. /\ \A x, y \in A : T.heap[x].key = T.heap[y].key => x = y
        /\ \A x, y \in B : T.heap[x].key = T.heap[y].key => x = y
    BY <1>1, <1>3, <2>1
  <2>5. ASSUME NEW x \in K[n], NEW y \in K[n], T.heap[x].key = T.heap[y].key PROVE x = y
    <3>1. T.heap[x].key \in Int /\ T.heap[y].key \in Int /\ T.heap[n].key \in Int
      BY <2>2, <2>3
    <3>2. CASE x \in A
      BY <2>3, <2>4, <2>5, <3>1, <3>2
    <3>3. CASE x \in B
      BY <2>3, <2>4, <2>5, <3>1, <3>3
    <3>4. CASE x = n
      BY <2>3, <2>5, <3>1, <3>4
    <3>. QED
      BY <2>3, <3>2, <3>3, <3>4
  <2>. QED
    BY <1>1, <2>5
<1>4. L \subseteq P
  BY <1>2, <1>3, TreeInduction
<1>5. T.root \in P
  BY <1>2, <1>4, TreeFields
<1>. QED
  BY <1>1, <1>5, TreeFields

\* The node below n with the key k, or Null.
At(T, K, k, n, x) ==
    IF x = Null THEN \A m \in K[n] : T.heap[m].key # k ELSE x \in K[n] /\ T.heap[x].key = k

LEMMA TowardIs ==
    ASSUME NEW T, NEW L, NEW K, Tree(T, L, K), NEW k \in Int, NEW n \in L, T.heap[n].key # k,
           NEW s, s = Toward(T, n, k)
    PROVE  /\ s \in Side /\ T.heap[n][s] \in L \cup {Null}
           /\ \A x : At(T, K, k, n, x) <=> At(T, K, k, T.heap[n][s], x)
<1>1. /\ s \in Side /\ T.heap[n].key \in Int
      /\ s = "left" => k < T.heap[n].key
      /\ s = "right" => T.heap[n].key < k
      /\ s = "left" \/ s = "right"
  BY TreeFields DEF Toward, Side
<1>2. PICK c, d : c = T.heap[n][s] /\ d = T.heap[n][Opposite(s)]
  OBVIOUS
<1>3. Null \notin L /\ c \in L \cup {Null} /\ d \in L \cup {Null} /\ K[c] \subseteq L /\ K[d] \subseteq L
      /\ \A m \in L : T.heap[m].key \in Int
  BY <1>1, <1>2, TreeFields, SideFields
<1>4. K[n] = K[c] \cup {n} \cup K[d]
  BY <1>1, <1>2, SplitIs
<1>5. \A m \in K[d] : On(T, n, Opposite(s), m)
  <2>1. Opposite(s) \in Side
    BY <1>1, SideFields
  <2>. QED
    BY <1>2, <2>1, SplitIs
<1>6. \A m \in K[d] : T.heap[m].key # k
  BY <1>1, <1>3, <1>5 DEF On, Opposite
<1>7. \A x : At(T, K, k, n, x) <=> At(T, K, k, c, x)
  BY <1>4, <1>6 DEF At
<1>. QED
  BY <1>1, <1>2, <1>3, <1>7

LEMMA FindIs ==
    ASSUME NEW T, NEW L, NEW K, Tree(T, L, K), NEW k \in Int
    PROVE  At(T, K, k, T.root, Find(T, k))
<1>1. Null \notin L /\ DOMAIN T.heap = L /\ T.root \in L \cup {Null} /\ K[Null] = {}
      /\ \A n \in L \cup {Null} : K[n] \subseteq L
  BY TreeFields, HeapDomain
<1>2. PICK w : w = [n \in L \cup {Null} |-> CHOOSE x : At(T, K, k, n, x)]
  OBVIOUS
<1>3. ASSUME NEW n \in L \cup {Null}
      PROVE  At(T, K, k, n, w[n]) /\ \A x : At(T, K, k, n, x) => x = w[n]
  <2>1. \E x : At(T, K, k, n, x)
    BY <1>1 DEF At
  <2>2. w[n] = CHOOSE x : At(T, K, k, n, x)
    BY <1>2
  <2>3. At(T, K, k, n, w[n])
    BY <2>1, <2>2
  <2>4. \A x, y : At(T, K, k, n, x) /\ At(T, K, k, n, y) => x = y
    BY <1>1, KeysDiffer DEF At
  <2>. QED
    BY <2>3, <2>4
<1>. DEFINE Goes(f) == f = [n \in DOMAIN T.heap \cup {Null} |->
                              IF n = Null \/ T.heap[n].key = k THEN n
                              ELSE f[T.heap[n][Toward(T, n, k)]]]
<1>4. \E f : Goes(f)
  <2>1. ASSUME NEW n \in L \cup {Null}
        PROVE  w[n] = IF n = Null \/ T.heap[n].key = k THEN n ELSE w[T.heap[n][Toward(T, n, k)]]
    <3>1. CASE n = Null
      <4>1. At(T, K, k, n, Null)
        BY <1>1, <3>1 DEF At
      <4>. QED
        BY <1>3, <3>1, <4>1
    <3>2. CASE n # Null /\ T.heap[n].key = k
      <4>1. n \in K[n]
        BY <3>2, SplitIs DEF Side
      <4>2. At(T, K, k, n, n)
        BY <3>2, <4>1 DEF At
      <4>. QED
        BY <1>3, <3>2, <4>2
    <3>3. CASE n # Null /\ T.heap[n].key # k
      <4>1. PICK c : c = T.heap[n][Toward(T, n, k)]
        OBVIOUS
      <4>2. c \in L \cup {Null} /\ \A x : At(T, K, k, n, x) <=> At(T, K, k, c, x)
        BY <3>3, <4>1, TowardIs
      <4>3. w[n] = w[c]
        BY <1>3, <4>2
      <4>. QED
        BY <3>3, <4>1, <4>3
    <3>. QED
      BY <3>1, <3>2, <3>3
  <2>2. Goes(w)
    BY <1>1, <1>2, <2>1
  <2>. QED
    BY <2>2
<1>5. PICK f : f = CHOOSE g : Goes(g)
  OBVIOUS
<1>6. Find(T, k) = f[T.root]
  BY <1>5 DEF Find
<1>7. Goes(f)
  <2>. HIDE DEF Goes
  <2>. QED
    BY <1>4, <1>5
<1>8. \A n \in L \cup {Null} : f[n] = IF n = Null \/ T.heap[n].key = k THEN n
                                      ELSE f[T.heap[n][Toward(T, n, k)]]
  BY <1>1, <1>7
<1>. HIDE DEF Goes
<1>9. PICK P : P = {n \in L \cup {Null} : At(T, K, k, n, f[n])}
  OBVIOUS
<1>10. Null \in P
  <2>1. f[Null] = Null
    BY <1>8
  <2>. QED
    BY <1>1, <1>9, <2>1 DEF At
<1>11. ASSUME NEW n \in L, T.heap[n].left \in P, T.heap[n].right \in P PROVE n \in P
  <2>1. CASE T.heap[n].key = k
    <3>1. n \in K[n] /\ f[n] = n /\ n # Null
      BY <1>1, <1>8, <2>1, SplitIs DEF Side
    <3>. QED
      BY <1>9, <2>1, <3>1 DEF At
  <2>2. CASE T.heap[n].key # k
    <3>1. PICK c, s : s = Toward(T, n, k) /\ c = T.heap[n][s]
      OBVIOUS
    <3>2. s \in Side /\ \A x : At(T, K, k, n, x) <=> At(T, K, k, c, x)
      BY <2>2, <3>1, TowardIs
    <3>3. c \in P
      BY <1>11, <3>1, <3>2 DEF Side
    <3>4. f[n] = f[c]
      BY <1>1, <1>8, <2>2, <3>1
    <3>. QED
      BY <1>9, <3>2, <3>3, <3>4
  <2>. QED
    BY <2>1, <2>2
<1>12. L \subseteq P
  BY <1>10, <1>11, TreeInduction
<1>13. T.root \in P
  BY <1>1, <1>10, <1>12
<1>. QED
  BY <1>6, <1>9, <1>13

\* What find answers is the node with the key, and there is no other.
FoundAt(T, L, k, n) ==
    IF n = Null THEN \A m \in L : T.heap[m].key # k ELSE n \in L /\ T.heap[n].key = k

LEMMA Finds ==
    ASSUME NEW T, NEW L, NEW K, Tree(T, L, K), NEW k \in Int
    PROVE  \A n : n = Find(T, k) <=> FoundAt(T, L, k, n)
<1>1. At(T, K, k, T.root, Find(T, k))
  BY FindIs
<1>2. K[T.root] = L /\ Null \notin L
  BY TreeFields
<1>3. FoundAt(T, L, k, Find(T, k))
  BY <1>1, <1>2 DEF At, FoundAt
<1>4. \A m, n : FoundAt(T, L, k, m) /\ FoundAt(T, L, k, n) => m = n
  BY KeysDiffer DEF FoundAt
<1>. QED
  BY <1>3, <1>4

\* A node that is not below n comes before all that is below it, or after.
LEMMA Outside ==
    ASSUME NEW T, NEW L, NEW K, Tree(T, L, K)
    PROVE  \A n \in L : \A x \in L \ K[n] : \E s \in Side : \A y \in K[n] : On(T, x, s, y)
<1>1. PICK P : P = {n \in L \cup {Null} :
                      n # Null => \A x \in L \ K[n] : \E s \in Side : \A y \in K[n] : On(T, x, s, y)}
  OBVIOUS
<1>2. T.root \in P
  BY <1>1, TreeFields
<1>3. ASSUME NEW n \in L \cap P, NEW r \in Side PROVE T.heap[n][r] \in P
  <2>1. PICK c, d, o : c = T.heap[n][r] /\ o = Opposite(r) /\ d = T.heap[n][o]
    OBVIOUS
  <2>2. c \in L \cup {Null} /\ d \in L \cup {Null} /\ o \in Side /\ Opposite(o) = r /\ Null \notin L
        /\ Heap(T, L) /\ K[n] \subseteq L /\ K[c] \subseteq L /\ K[d] \subseteq L
    BY <2>1, TreeFields, SideFields
  <2>3. K[n] = K[c] \cup {n} \cup K[d] /\ K[c] \subseteq K[n] /\ \A y \in K[c] : On(T, n, r, y)
    BY <2>1, SplitIs
  <2>4. \A x \in K[d] : On(T, n, o, x)
    BY <2>1, <2>2, SplitIs
  <2>5. ASSUME NEW x \in L \ K[c] PROVE \E s \in Side : \A y \in K[c] : On(T, x, s, y)
    <3>1. CASE x \notin K[n]
      <4>1. \E s \in Side : \A y \in K[n] : On(T, x, s, y)
        BY <1>1, <1>3, <2>2, <3>1
      <4>. QED
        BY <2>3, <4>1
    <3>2. CASE x = n
      BY <2>3, <3>2
    <3>3. CASE x \in K[d]
      <4>1. On(T, n, o, x) /\ n \in L /\ x \in L
        BY <2>2, <2>4, <3>3
      <4>2. On(T, x, r, n)
        BY <2>2, <4>1, OnIsTransitive
      <4>3. ASSUME NEW y \in K[c] PROVE On(T, x, r, y)
        <5>1. On(T, n, r, y) /\ y \in L
          BY <2>2, <2>3
        <5>. QED
          BY <2>2, <4>1, <4>2, <5>1, OnIsTransitive
      <4>. QED
        BY <4>3
    <3>. QED
      BY <2>3, <3>1, <3>2, <3>3
  <2>. QED
    BY <1>1, <2>1, <2>2, <2>5
<1>4. L \subseteq P
  BY <1>2, <1>3, TreeDescent
<1>. QED
  BY <1>1, <1>4, TreeFields

-----------------------------------------------------------------------------
(* An insertion. *)

\* Below p, on this side, there is room for the key k.
Room(T, L, K, k, p, s) ==
    /\ p \in L /\ s \in Side /\ s = Toward(T, p, k) /\ T.heap[p][s] = Null
    /\ \A m \in L : p \in K[m] => m = p \/ p \in K[T.heap[m][Toward(T, m, k)]]

LEMMA ParentForIs ==
    ASSUME NEW T, NEW L, NEW K, Tree(T, L, K), NEW k \in Int, T.root # Null
    PROVE  \E s : Room(T, L, K, k, ParentFor(T, k), s)
<1>1. PICK next : next = [m \in L |-> T.heap[m][Toward(T, m, k)]]
  OBVIOUS
<1>2. Null \notin L /\ DOMAIN T.heap = L /\ T.root \in L
  BY TreeFields, HeapDomain
<1>3. \A m \in L : Toward(T, m, k) \in Side /\ T.heap[m][Toward(T, m, k)] \in L \cup {Null}
  <2>1. \A m \in L : Toward(T, m, k) \in Side
    BY DEF Toward, Side
  <2>. QED
    BY <2>1, TreeFields
<1>4. Way(T, L, next)
  BY <1>1, <1>3 DEF Way
<1>. DEFINE Goes(f) == f = [m \in DOMAIN T.heap |->
                              IF T.heap[m][Toward(T, m, k)] = Null THEN m
                              ELSE f[T.heap[m][Toward(T, m, k)]]]
<1>5. PICK h : Follows(h, L, next)
  BY <1>4, WaysEnd
<1>6. \E f : Goes(f)
  <2>1. \A m \in L : h[m] = IF T.heap[m][Toward(T, m, k)] = Null THEN m
                            ELSE h[T.heap[m][Toward(T, m, k)]]
    BY <1>1, <1>5 DEF Follows
  <2>2. Goes(h)
    BY <1>2, <1>5, <2>1 DEF Follows
  <2>. QED
    BY <2>2
<1>7. PICK f : f = CHOOSE g : Goes(g)
  OBVIOUS
<1>8. ParentFor(T, k) = f[T.root]
  BY <1>7 DEF ParentFor
<1>9. Goes(f)
  <2>. HIDE DEF Goes
  <2>. QED
    BY <1>6, <1>7
<1>10. \A m \in L : f[m] = IF next[m] = Null THEN m ELSE f[next[m]]
  BY <1>1, <1>2, <1>9
<1>. HIDE DEF Goes
<1>11. PICK P : P = {m \in L \cup {Null} : m # Null => f[m] = h[m]}
  OBVIOUS
<1>12. ASSUME NEW m \in L, T.heap[m].left \in P, T.heap[m].right \in P PROVE m \in P
  <2>1. next[m] \in P
    BY <1>1, <1>3, <1>12 DEF Side
  <2>2. h[m] = IF next[m] = Null THEN m ELSE h[next[m]]
    BY <1>5 DEF Follows
  <2>3. f[m] = h[m]
    BY <1>10, <1>11, <2>1, <2>2
  <2>. QED
    BY <1>11, <2>3
<1>13. L \subseteq P
  BY <1>11, <1>12, TreeInduction
<1>14. PICK p : p = ParentFor(T, k) /\ p = h[T.root]
  BY <1>2, <1>8, <1>11, <1>13
<1>15. Ended(K, h, next, T.root)
  BY <1>2, <1>4, <1>5, EndsAre
<1>16. K[T.root] = L
  BY TreeFields
<1>17. p \in L /\ next[p] = Null
       /\ \A m \in L : p \in K[m] => m = p \/ (next[m] # Null /\ p \in K[next[m]])
  BY <1>14, <1>15, <1>16 DEF Ended
<1>18. Room(T, L, K, k, p, Toward(T, p, k))
  BY <1>1, <1>3, <1>17 DEF Room
<1>. QED
  BY <1>14, <1>18

\* What there is at an address after an insertion there.
PlacedAt(T, U, L, n, k, v, p) ==
    /\ U.root = IF p = Null THEN n ELSE T.root
    /\ \A m \in L : \A g \in Field :
          U.heap[m][g] = IF m = p /\ g = Toward(T, p, k) THEN n ELSE T.heap[m][g]
    /\ U.heap[n].key = k /\ U.heap[n].value = v /\ U.heap[n].parent = p
    /\ U.heap[n].color = RED /\ \A s \in Side : U.heap[n][s] = Null

LEMMA PlacedIs ==
    ASSUME NEW T, NEW L, Heap(T, L), NEW n \in Node \ L, NEW k \in Key, NEW v \in Value,
           NEW p \in L \cup {Null}, p = ParentFor(T, k),
           NEW U, U = Placed(T, n, k, v)
    PROVE  Heap(U, L \cup {n}) /\ PlacedAt(T, U, L, n, k, v, p)
<1>1. PICK M : M = L \cup {n}
  OBVIOUS
<1>2. DOMAIN T.heap = L /\ Null \notin L /\ n \notin L /\ n # Null /\ n \in M /\ n \in Node
  BY <1>1, HeapDomain, NodeAssumption
<1>3. PICK cell : cell = NewNode(k, v)
  OBVIOUS
<1>4. PICK h, A, B : /\ h = [m \in DOMAIN T.heap \cup {n} |-> IF m = n THEN cell ELSE T.heap[m]]
                     /\ A = [T EXCEPT !.heap = h] /\ B = Adopt(A, n, p)
  OBVIOUS
<1>5. U = IF p = Null THEN [B EXCEPT !.root = n] ELSE [B EXCEPT !.heap[p][Toward(T, p, k)] = n]
  BY <1>3, <1>4 DEF Placed
<1>6. /\ cell \in Cell(M)
      /\ cell["key"] = k /\ cell["value"] = v /\ cell["left"] = Null /\ cell["right"] = Null
      /\ cell["color"] = RED
  BY <1>3 DEF NewNode, Cell
<1>7. \A c \in Cell(L) : c \in Cell(M)
  BY <1>1 DEF Cell
<1>8. A = [root |-> T.root, heap |-> h]
  BY <1>4 DEF Heap
<1>9. Heap(A, M)
  <2>1. PICK C : C = Cell(M)
    OBVIOUS
  <2>2. \A m \in L : T.heap[m] \in C
    BY <1>7, <2>1 DEF Heap
  <2>3. h \in [M -> C]
    BY <1>1, <1>2, <1>4, <1>6, <2>1, <2>2
  <2>4. IsFiniteSet(M)
    BY <1>1, FS_AddElement DEF Heap
  <2>5. M \subseteq Node /\ T.root \in M \cup {Null}
    BY <1>1, <1>2 DEF Heap
  <2>. QED
    BY <1>8, <2>1, <2>3, <2>4, <2>5 DEF Heap
<1>10. A.root = T.root /\ (\A m \in L : A.heap[m] = T.heap[m]) /\ A.heap[n] = cell
  BY <1>2, <1>4, <1>8
<1>11. Heap(B, M) /\ Put(A, B, n, "parent", p)
  <2>1. p \in M \cup {Null} /\ n \in M \cup {Null}
    BY <1>1
  <2>. QED
    BY <1>4, <1>9, <2>1, AdoptIs
<1>12. DOMAIN A.heap = M /\ DOMAIN B.heap = M
  BY <1>9, <1>11, HeapDomain
<1>13. /\ B.root = T.root
       /\ \A m \in L : \A g \in Field : B.heap[m][g] = T.heap[m][g]
       /\ \A g \in Field : B.heap[n][g] = IF g = "parent" THEN p ELSE cell[g]
  <2>1. \A m \in L : m \in M /\ m # n
    BY <1>1, <1>2
  <2>. QED
    BY <1>2, <1>10, <1>11, <1>12, <2>1 DEF Put
<1>14. CASE p = Null
  <2>1. Heap(U, M) /\ U.root = n /\ U.heap = B.heap
    BY <1>2, <1>5, <1>11, <1>14, RootPut
  <2>2. \A m \in L : m # p
    BY <1>2, <1>14
  <2>3. PlacedAt(T, U, L, n, k, v, p)
    BY <1>6, <1>13, <1>14, <2>1, <2>2 DEF PlacedAt, Field, Side
  <2>. QED
    BY <1>1, <2>1, <2>3
<1>15. CASE p # Null
  <2>1. PICK s \in Side : s = Toward(T, p, k)
    BY DEF Toward, Side
  <2>2. s \in Field /\ n \in Holds(M, s) /\ p \in M /\ p \in L /\ p # n
    BY <1>1, <1>2, <1>15, <2>1, SideFields
  <2>3. Heap(U, M) /\ Put(B, U, p, s, n)
    BY <1>5, <1>11, <1>15, <2>1, <2>2, PutIs
  <2>4. U.root = T.root /\ \A m \in M : \A g \in Field :
           U.heap[m][g] = IF m = p /\ g = s THEN n ELSE B.heap[m][g]
    BY <1>12, <1>13, <2>3 DEF Put
  <2>5. \A m \in L : \A g \in Field : U.heap[m][g] = IF m = p /\ g = s THEN n ELSE T.heap[m][g]
    BY <1>1, <1>13, <2>4
  <2>6. \A g \in Field : U.heap[n][g] = IF g = "parent" THEN p ELSE cell[g]
    BY <1>2, <1>13, <2>2, <2>4
  <2>7. PlacedAt(T, U, L, n, k, v, p)
    BY <1>6, <1>15, <2>1, <2>4, <2>5, <2>6 DEF PlacedAt, Field, Side
  <2>. QED
    BY <1>1, <2>3, <2>7
<1>. QED
  BY <1>14, <1>15

\* Where the parent is, if there is one.
Beneath(T, L, K, k, p) ==
    IF p = Null THEN L = {} ELSE \E s : Room(T, L, K, k, p, s)

LEMMA BeneathIs ==
    ASSUME NEW T, NEW L, NEW K, Tree(T, L, K), NEW k \in Int
    PROVE  Beneath(T, L, K, k, ParentFor(T, k)) /\ ParentFor(T, k) \in L \cup {Null}
<1>1. CASE T.root = Null
  <2>1. ParentFor(T, k) = Null
    BY <1>1 DEF ParentFor
  <2>. QED
    BY <1>1, <2>1, TreeFields DEF Beneath
<1>2. CASE T.root # Null
  <2>1. \E s : Room(T, L, K, k, ParentFor(T, k), s)
    BY <1>2, ParentForIs
  <2>. QED
    BY <2>1, TreeFields DEF Beneath, Room
<1>. QED
  BY <1>1, <1>2

LEMMA PlacedTree ==
    ASSUME NEW T, NEW L, NEW K, Tree(T, L, K), NEW n \in Node \ L, NEW k \in Key, NEW v, NEW p,
           \A m \in L : T.heap[m].key # k,
           Beneath(T, L, K, k, p), NEW U, NEW M, M = L \cup {n}, Heap(U, M),
           PlacedAt(T, U, L, n, k, v, p)
    PROVE  \E J : Tree(U, M, J)
<1>1. n \in M /\ n \notin L /\ n # Null /\ Null \notin L /\ k \in Int /\ L \subseteq M
  BY TreeFields, NodeAssumption, KeyAssumption
<1>2. PICK J : J = [m \in M \cup {Null} |-> IF m = n THEN {n} ELSE IF p \in K[m] THEN K[m] \cup {n}
                                            ELSE K[m]]
  OBVIOUS
<1>3. /\ K[Null] = {} /\ K[T.root] = L /\ T.root \in L \cup {Null}
      /\ (\A m \in L \cup {Null} : K[m] \subseteq L)
      /\ \A m \in L : T.heap[m].key \in Int
  BY TreeFields
<1>4. /\ J[n] = {n} /\ J[Null] = {}
      /\ \A m \in L \cup {Null} : J[m] = IF p \in K[m] THEN K[m] \cup {n} ELSE K[m]
  BY <1>1, <1>2, <1>3
<1>5. J \in [M \cup {Null} -> SUBSET M]
  BY <1>1, <1>2, <1>3
<1>6. \A m \in L : Toward(T, m, k) \in Side /\ T.heap[m][Toward(T, m, k)] \in L \cup {Null}
  <2>1. \A m \in L : Toward(T, m, k) \in Side
    BY DEF Toward, Side
  <2>. QED
    BY <2>1, TreeFields
<1>7. /\ U.root = IF p = Null THEN n ELSE T.root
      /\ \A m \in L : \A g \in Field :
            U.heap[m][g] = IF m = p /\ g = Toward(T, p, k) THEN n ELSE T.heap[m][g]
      /\ U.heap[n].key = k /\ U.heap[n].parent = p /\ \A s \in Side : U.heap[n][s] = Null
  BY DEF PlacedAt
<1>8. p # Null => /\ p \in L /\ T.heap[p][Toward(T, p, k)] = Null
                  /\ \A m \in L : p \in K[m] => m = p \/ p \in K[T.heap[m][Toward(T, m, k)]]
  BY DEF Beneath, Room
<1>9. \A m \in L : /\ U.heap[m].key = T.heap[m].key /\ U.heap[m].parent = T.heap[m].parent
                   /\ \A s \in Side : U.heap[m][s] = IF m = p /\ s = Toward(T, p, k) THEN n
                                                     ELSE T.heap[m][s]
  <2>1. ASSUME NEW m \in L PROVE U.heap[m]["key"] = T.heap[m]["key"] /\ U.heap[m]["parent"] = T.heap[m]["parent"]
    <3>1. "key" \in Field /\ "parent" \in Field /\ Toward(T, p, k) \notin {"key", "parent"}
      BY DEF Field, Toward
    <3>. QED
      BY <1>7, <3>1
  <2>2. \A s \in Side : s \in Field
    BY SideFields
  <2>. QED
    BY <1>7, <2>1, <2>2
<1>10. J[U.root] = M
  <2>1. CASE p = Null
    BY <1>4, <1>7, <2>1 DEF Beneath
  <2>2. CASE p # Null
    BY <1>3, <1>4, <1>7, <1>8, <2>2
  <2>. QED
    BY <2>1, <2>2
<1>11. \A m, x \in L : \A s \in Side : On(U, m, s, x) <=> On(T, m, s, x)
  BY <1>9 DEF On
<1>12. \A m \in L : On(U, m, Toward(T, m, k), n)
  BY <1>1, <1>3, <1>7, <1>9 DEF On, Toward
<1>13. ASSUME NEW m \in L PROVE Split(U, J, m)
  <2>1. PICK r, o, c, d : /\ r = Toward(T, m, k) /\ o = Opposite(r)
                          /\ c = T.heap[m][r] /\ d = T.heap[m][o]
    OBVIOUS
  <2>2. r \in Side /\ o \in Side /\ o # r /\ Opposite(o) = r /\ c \in L \cup {Null} /\ d \in L \cup {Null}
    BY <1>6, <2>1, SideFields, TreeFields
  <2>3. /\ m \in K[m] /\ K[m] = K[c] \cup {m} \cup K[d] /\ m \notin K[c]
        /\ \A x \in K[c] : On(T, m, r, x) /\ x \notin K[d]
    BY <2>1, <2>2, SplitIs
  <2>4. m \notin K[d] /\ \A x \in K[d] : On(T, m, o, x)
    BY <2>1, <2>2, SplitIs
  <2>5. U.heap[m][o] = d /\ U.heap[m][r] = IF m = p THEN n ELSE c
    BY <1>9, <2>1, <2>2
  <2>6. p \notin K[d] /\ J[d] = K[d]
    <3>1. p \notin K[d]
      <4>1. SUFFICES ASSUME p \in K[d] PROVE FALSE
        OBVIOUS
      <4>2. p \in L /\ p # Null /\ p \in K[m] /\ m # p
        BY <1>1, <1>3, <2>2, <2>3, <2>4, <4>1
      <4>3. p \in K[c]
        BY <1>8, <2>1, <4>2
      <4>. QED
        BY <2>3, <4>1, <4>3
    <3>. QED
      BY <1>4, <2>2, <3>1
  <2>7. /\ J[m] = J[U.heap[m][r]] \cup {m} \cup K[d]
        /\ \A x \in J[U.heap[m][r]] : x = n \/ x \in K[c]
    <3>1. CASE m = p
      <4>1. c = Null
        BY <1>1, <1>8, <2>1, <3>1
      <4>2. J[m] = K[m] \cup {n} /\ U.heap[m][r] = n
        BY <1>4, <2>3, <2>5, <3>1
      <4>. QED
        BY <1>3, <1>4, <2>3, <4>1, <4>2
    <3>2. CASE m # p
      <4>1. U.heap[m][r] = c /\ J[c] = (IF p \in K[c] THEN K[c] \cup {n} ELSE K[c])
            /\ J[m] = (IF p \in K[m] THEN K[m] \cup {n} ELSE K[m])
        BY <1>4, <2>2, <2>5, <3>2
      <4>2. (p \in K[m]) <=> (p \in K[c])
        BY <2>3, <2>6, <3>2
      <4>. QED
        BY <2>3, <4>1, <4>2
    <3>. QED
      BY <3>1, <3>2
  <2>8. \A x \in J[U.heap[m][r]] : On(U, m, r, x)
    <3>1. K[c] \subseteq L
      BY <1>3, <2>2
    <3>. QED
      BY <1>11, <1>12, <2>1, <2>2, <2>3, <2>7, <3>1
  <2>9. \A x \in K[d] : On(U, m, o, x)
    <3>1. K[d] \subseteq L
      BY <1>3, <2>2
    <3>. QED
      BY <1>11, <2>2, <2>4, <3>1
  <2>10. J[m] = J[U.heap[m][r]] \cup {m} \cup J[U.heap[m][o]]
    BY <2>5, <2>6, <2>7
  <2>11. \A x \in J[U.heap[m][o]] : On(U, m, o, x)
    BY <2>5, <2>6, <2>9
  <2>. QED
    BY <2>1, <2>2, <2>8, <2>10, <2>11, SplitBySides
<1>14. Split(U, J, n)
  BY <1>4, <1>7 DEF Split, Side
<1>15. U.root # Null => U.heap[U.root].parent = Null
  <2>1. CASE p = Null
    BY <1>7, <2>1
  <2>2. CASE p # Null
    <3>1. T.root # Null => T.root \in L /\ T.heap[T.root].parent = Null
      BY <1>3 DEF Tree
    <3>. QED
      BY <1>7, <1>9, <2>2, <3>1
  <2>. QED
    BY <2>1, <2>2
<1>16. ASSUME NEW m \in M, NEW s \in Side, U.heap[m][s] # Null PROVE U.heap[U.heap[m][s]].parent = m
  <2>1. m \in L
    BY <1>7, <1>16
  <2>2. CASE m = p /\ s = Toward(T, p, k)
    <3>1. U.heap[m][s] = n
      BY <1>9, <2>1, <2>2
    <3>. QED
      BY <1>7, <2>2, <3>1
  <2>3. CASE ~(m = p /\ s = Toward(T, p, k))
    <3>1. PICK x : x = T.heap[m][s]
      OBVIOUS
    <3>2. U.heap[m][s] = x
      BY <1>9, <2>1, <2>3, <3>1
    <3>3. T.heap[m][s] # Null => T.heap[m][s] \in L /\ T.heap[T.heap[m][s]].parent = m
      BY <2>1, ChildIs
    <3>. QED
      BY <1>9, <1>16, <3>1, <3>2, <3>3
  <2>. QED
    BY <2>2, <2>3
<1>17. Tree(U, M, J)
  BY <1>4, <1>5, <1>10, <1>13, <1>14, <1>15, <1>16 DEF Tree
<1>. QED
  BY <1>17

\* The new node is red: it is the one that may be below a red one.
LEMMA PlacedGrows ==
    ASSUME NEW T, NEW L, NEW K, Tree(T, L, K), NEW b, Repaired(T, L, b),
           NEW n \in Node \ L, NEW k \in Key, NEW v, NEW p,
           Beneath(T, L, K, k, p), NEW U, NEW M, M = L \cup {n}, Heap(U, M),
           PlacedAt(T, U, L, n, k, v, p)
    PROVE  \E c : Growing(U, M, c, n)
<1>1. n \in M /\ n \notin L /\ n # Null /\ Null \notin L /\ L \subseteq M /\ Heap(T, L)
      /\ T.root \in L \cup {Null}
  BY TreeFields, NodeAssumption
<1>2. /\ U.root = IF p = Null THEN n ELSE T.root
      /\ \A m \in L : \A g \in Field :
            U.heap[m][g] = IF m = p /\ g = Toward(T, p, k) THEN n ELSE T.heap[m][g]
      /\ U.heap[n].color = RED /\ \A s \in Side : U.heap[n][s] = Null
  BY DEF PlacedAt
<1>3. p # Null => p \in L /\ T.heap[p][Toward(T, p, k)] = Null
  BY DEF Beneath, Room
<1>4. \A m \in L : \A s \in Side :
         U.heap[m][s] = IF m = p /\ s = Toward(T, p, k) THEN n ELSE T.heap[m][s]
  <2>1. \A s \in Side : s \in Field
    BY SideFields
  <2>. QED
    BY <1>2, <2>1
<1>5. Color(U, n) = RED /\ \A m \in L \cup {Null} : Color(U, m) = Color(T, m)
  <2>1. ASSUME NEW m \in L PROVE U.heap[m]["color"] = T.heap[m]["color"]
    <3>1. "color" \in Field /\ Toward(T, p, k) # "color"
      BY DEF Field, Toward
    <3>. QED
      BY <1>2, <3>1
  <2>. QED
    BY <1>1, <1>2, <2>1 DEF Color
<1>6. Ranked(b, L) /\ (\A m \in L : RankAt(T, b, m, Null, "left")) /\ Reds(T, L, Null, Null)
      /\ Color(T, T.root) = BLACK
  BY DEF Repaired, Ranks
<1>7. PICK c : c = [m \in M \cup {Null} |-> IF m = n THEN 0 ELSE b[m]]
  OBVIOUS
<1>8. Ranked(c, M) /\ c[n] = 0 /\ (\A m \in L \cup {Null} : c[m] = b[m] /\ b[m] \in Nat) /\ c[Null] = 0
  <2>1. b \in [L \cup {Null} -> Nat] /\ b[Null] = 0
    BY <1>6 DEF Ranked
  <2>2. c \in [M \cup {Null} -> Nat]
    BY <1>7, <2>1
  <2>. QED
    BY <1>1, <1>7, <2>1, <2>2 DEF Ranked
<1>9. \A m \in M : \A s \in Side : Missing(m, s, Null, "left") = 0
  BY <1>1 DEF Missing
<1>10. ASSUME NEW m \in L PROVE RankAt(U, c, m, Null, "left")
  <2>1. ASSUME NEW s \in Side PROVE c[m] = c[U.heap[m][s]] + Missing(m, s, Null, "left") + Dark(U, m)
    <3>1. b[m] = b[T.heap[m][s]] + Missing(m, s, Null, "left") + Dark(T, m)
      BY <1>6 DEF RankAt
    <3>2. Dark(U, m) = Dark(T, m) /\ c[m] = b[m]
      BY <1>5, <1>8 DEF Dark
    <3>3. T.heap[m][s] \in L \cup {Null}
      BY TreeFields
    <3>4. c[U.heap[m][s]] = b[T.heap[m][s]]
      BY <1>1, <1>3, <1>4, <1>8, <3>3
    <3>. QED
      BY <3>1, <3>2, <3>4
  <2>. QED
    BY <2>1 DEF RankAt
<1>11. RankAt(U, c, n, Null, "left")
  <2>1. Dark(U, n) = 0
    BY <1>1, <1>5, ColorIs
  <2>. QED
    BY <1>1, <1>2, <1>8, <1>9, <2>1 DEF RankAt
<1>12. Ranks(U, M, c, Null, "left")
  BY <1>8, <1>10, <1>11 DEF Ranks
<1>13. Reds(U, M, n, Null)
  <2>1. ASSUME NEW m \in M, NEW s \in Side, Color(U, m) = RED, Color(U, U.heap[m][s]) = RED,
               U.heap[m][s] # n
        PROVE  FALSE
    <3>1. m \in L
      <4>1. Color(U, Null) # RED
        BY ColorIs
      <4>. QED
        BY <1>2, <2>1, <4>1
    <3>2. PICK x : x = T.heap[m][s] /\ x \in L \cup {Null}
      BY <3>1, TreeFields
    <3>3. U.heap[m][s] = x
      BY <1>4, <2>1, <3>1, <3>2
    <3>4. Color(T, m) = RED /\ Color(T, x) = RED
      BY <1>5, <2>1, <3>1, <3>2, <3>3
    <3>5. x = Null
      BY <1>1, <1>6, <3>1, <3>2, <3>4 DEF Reds, RedAt
    <3>. QED
      BY <1>1, <3>4, <3>5, ColorIs
  <2>. QED
    BY <2>1 DEF Reds, RedAt
<1>14. U.root = n \/ Color(U, U.root) = BLACK
  BY <1>1, <1>2, <1>5, <1>6
<1>15. Growing(U, M, c, n)
  BY <1>1, <1>5, <1>12, <1>13, <1>14 DEF Growing
<1>. QED
  BY <1>15

\* A free address there is, Fresh finds.
LEMMA FreshIs ==
    ASSUME NEW T, NEW k \in Int, DOMAIN T.heap \subseteq Node, Node # DOMAIN T.heap
    PROVE  Fresh(T, k) \in Node \ DOMAIN T.heap
<1>. DEFINE far(n) == IF n < k THEN k - n ELSE n - k
<1>1. PICK free : free = Node \ DOMAIN T.heap
  OBVIOUS
<1>2. free # {} /\ free \subseteq Nat
  BY <1>1, NodeAssumption
<1>3. \A n \in free : far(n) \in Nat
  BY <1>2
<1>4. PICK Ds : Ds = {far(n) : n \in free}
  OBVIOUS
<1>. HIDE DEF far
<1>5. Ds \subseteq Nat /\ Ds # {}
  BY <1>2, <1>3, <1>4
<1>6. Min(Ds) \in Ds /\ \A x \in Ds : Min(Ds) <= x
  BY <1>5, MinIsLeast
<1>7. \E n \in free : \A m \in free : far(n) <= far(m)
  BY <1>4, <1>6
<1>8. Fresh(T, k) = CHOOSE n \in free : \A m \in free : far(n) <= far(m)
  BY <1>1 DEF Fresh, far
<1>. QED
  BY <1>1, <1>7, <1>8

-----------------------------------------------------------------------------
(* An erasure. *)

\* The victim v of n, its child c and its parent p, on whose side s it is.
Taken(T, L, K, n, v, c, p, s) ==
    /\ n \in L /\ v \in L /\ c \in L \cup {Null} /\ p \in L \cup {Null} /\ s \in Side
    /\ p = T.heap[v].parent /\ ((p = Null) <=> (v = T.root))
    /\ c # v /\ p # v /\ (c # Null => c # p)
    /\ K[v] = K[c] \cup {v} /\ v \notin K[c]
    /\ s = SideOf(T, p, v)
    /\ \A m \in L : \A r \in Side : (T.heap[m][r] = v) <=> (m = p /\ r = s)
    /\ \A m \in L : (T.heap[m].parent = v) <=> (m = c)
    /\ \E r \in Side : T.heap[v][r] = c /\ T.heap[v][Opposite(r)] = Null
    /\ v = n \/ (T.heap[n].right \in L /\ First(T, K, T.heap[n].right, v))

LEMMA TakenIs ==
    ASSUME NEW T, NEW L, NEW K, Tree(T, L, K), NEW n \in L,
           NEW v, v = Victim(T, n), NEW c, c = OnlyChild(T, v), NEW p, p = T.heap[v].parent
    PROVE  \E s : Taken(T, L, K, n, v, c, p, s)
<1>1. /\ Null \notin L /\ (\A m \in L : \A r \in Side : T.heap[m][r] \in L \cup {Null})
      /\ (\A m \in L \cup {Null} : K[m] \subseteq L) /\ K[Null] = {}
      /\ "left" \in Side /\ "right" \in Side
  BY TreeFields DEF Side
<1>2. /\ v = n \/ (T.heap[n].right \in L /\ First(T, K, T.heap[n].right, v))
      /\ v \in L /\ (T.heap[v].left = Null \/ T.heap[v].right = Null)
  <2>1. CASE T.heap[n].left = Null \/ T.heap[n].right = Null
    BY <2>1 DEF Victim
  <2>2. CASE ~(T.heap[n].left = Null \/ T.heap[n].right = Null)
    <3>1. v = Leftmost(T, T.heap[n].right) /\ T.heap[n].right \in L
      BY <1>1, <2>2 DEF Victim
    <3>2. First(T, K, T.heap[n].right, v)
      BY <3>1, LeftmostIs
    <3>3. v \in L /\ T.heap[v].left = Null
      BY <1>1, <3>1, <3>2 DEF First
    <3>. QED
      BY <3>1, <3>2, <3>3
  <2>. QED
    BY <2>1, <2>2
<1>3. PICK r \in Side : T.heap[v][r] = c /\ T.heap[v][Opposite(r)] = Null
  <2>1. Opposite("left") = "right" /\ Opposite("right") = "left"
    BY DEF Opposite
  <2>2. CASE T.heap[v].left = Null
    <3>1. c = T.heap[v]["right"] /\ T.heap[v]["left"] = Null
      BY <2>2 DEF OnlyChild
    <3>. QED
      BY <1>1, <2>1, <3>1
  <2>3. CASE T.heap[v].left # Null
    <3>1. c = T.heap[v]["left"] /\ T.heap[v]["right"] = Null
      BY <1>2, <2>3 DEF OnlyChild
    <3>. QED
      BY <1>1, <2>1, <3>1
  <2>. QED
    BY <2>2, <2>3
<1>4. c \in L \cup {Null} /\ p \in L \cup {Null}
  BY <1>1, <1>2, <1>3, TreeFields
<1>5. K[v] = K[c] \cup {v} /\ v \notin K[c]
  <2>1. K[v] = K[T.heap[v][r]] \cup {v} \cup K[T.heap[v][Opposite(r)]] /\ v \notin K[T.heap[v][r]]
    BY <1>2, SplitIs
  <2>. QED
    BY <1>1, <1>3, <2>1
<1>6. c # v
  <2>1. v \in K[v] /\ (c # Null => c \in K[c])
    BY <1>2, <1>4, SplitIs DEF Side
  <2>. QED
    BY <1>1, <1>2, <1>5, <2>1
<1>7. PICK s \in Side : s = SideOf(T, p, v)
  BY DEF SideOf, Side
<1>8. /\ v = T.root => p = Null
      /\ v # T.root => /\ p \in L /\ T.heap[p][s] = v
                       /\ \A q \in Side : T.heap[p][q] = v => q = s
  BY <1>2, <1>7, ParentIs
<1>9. (p = Null) <=> (v = T.root)
  BY <1>1, <1>8
<1>10. p # v /\ (c # Null => c # p)
  <2>1. CASE p = Null
    BY <1>1, <1>2, <2>1
  <2>2. CASE p # Null
    <3>1. p \in L /\ T.heap[p][s] = v
      BY <1>8, <1>9, <2>2
    <3>2. p \notin K[v] /\ p \in K[p]
      BY <3>1, SplitIs
    <3>3. v \in K[v] /\ (c # Null => c \in K[c])
      BY <1>2, <1>4, SplitIs DEF Side
    <3>. QED
      BY <1>5, <3>2, <3>3
  <2>. QED
    BY <2>1, <2>2
<1>11. ASSUME NEW m \in L, NEW q \in Side PROVE (T.heap[m][q] = v) <=> (m = p /\ q = s)
  <2>1. ASSUME T.heap[m][q] = v PROVE m = p /\ q = s
    <3>1. T.heap[v].parent = m
      BY <1>1, <1>2, <2>1, ChildIs
    <3>2. p = m
      BY <3>1
    <3>. QED
      BY <1>1, <1>8, <1>9, <2>1, <3>2
  <2>2. ASSUME m = p, q = s PROVE T.heap[m][q] = v
    BY <1>1, <1>8, <1>9, <2>2
  <2>. QED
    BY <2>1, <2>2
<1>12. ASSUME NEW m \in L PROVE (T.heap[m].parent = v) <=> (m = c)
  <2>1. ASSUME T.heap[m].parent = v PROVE m = c
    <3>1. m # T.root /\ T.heap[v][SideOf(T, v, m)] = m
      BY <1>1, <1>2, <2>1, ParentIs
    <3>2. SideOf(T, v, m) \in Side
      BY DEF SideOf, Side
    <3>. QED
      BY <1>1, <1>3, <3>1, <3>2, SideFields
  <2>2. ASSUME m = c PROVE T.heap[m].parent = v
    <3>1. T.heap[v][r] = m /\ m # Null
      BY <1>1, <1>3, <2>2
    <3>. QED
      BY <1>2, <3>1, ChildIs
  <2>. QED
    BY <2>1, <2>2
<1>13. p = T.heap[v].parent /\ \E q \in Side : T.heap[v][q] = c /\ T.heap[v][Opposite(q)] = Null
  BY <1>3
<1>14. Taken(T, L, K, n, v, c, p, s)
  BY <1>2, <1>4, <1>5, <1>6, <1>7, <1>9, <1>10, <1>11, <1>12, <1>13 DEF Taken
<1>. QED
  BY <1>14

\* What there is after an erasure: only data of n, the link to v and the way up from c change.
CutOut(T, U, M, n, v, c, p, s) ==
    /\ U.root = IF p = Null THEN c ELSE T.root
    /\ \A m \in M : /\ U.heap[m].key = IF m = n THEN T.heap[v].key ELSE T.heap[m].key
                    /\ U.heap[m].value = IF m = n THEN T.heap[v].value ELSE T.heap[m].value
                    /\ U.heap[m].color = T.heap[m].color
                    /\ U.heap[m].parent = IF m = c THEN p ELSE T.heap[m].parent
                    /\ \A r \in Side : U.heap[m][r] = IF m = p /\ r = s THEN c ELSE T.heap[m][r]

LEMMA RemovedIs ==
    ASSUME NEW T, NEW L, NEW K, Tree(T, L, K), NEW n \in L,
           NEW v, v = Victim(T, n), NEW c, c = OnlyChild(T, v), NEW p, p = T.heap[v].parent,
           NEW s, Taken(T, L, K, n, v, c, p, s),
           NEW U, U = Removed(T, n), NEW M, M = L \ {v}
    PROVE  Heap(U, M) /\ CutOut(T, U, M, n, v, c, p, s)
<1>1. /\ v \in L /\ c \in L \cup {Null} /\ p \in L \cup {Null} /\ s \in Side
      /\ c # v /\ p # v /\ ((p = Null) <=> (v = T.root))
      /\ s = SideOf(T, p, v)
      /\ (\A m \in L : \A r \in Side : (T.heap[m][r] = v) <=> (m = p /\ r = s))
      /\ \A m \in L : (T.heap[m].parent = v) <=> (m = c)
  BY DEF Taken
<1>2. Heap(T, L) /\ DOMAIN T.heap = L /\ Null \notin L /\ T.root \in L \cup {Null}
  BY TreeFields, HeapDomain
<1>3. PICK key, value : key = T.heap[v].key /\ value = T.heap[v].value
  OBVIOUS
<1>4. key \in Key /\ value \in Value
  BY <1>1, <1>2, <1>3, CellFields
<1>5. PICK x, y, A, B, C, D :
          /\ x = p /\ y = c
          /\ A = [T EXCEPT !.heap[n]["key"] = key] /\ B = [A EXCEPT !.heap[n]["value"] = value]
          /\ C = Link(B, x, v, y) /\ D = Adopt(C, y, x)
  OBVIOUS
<1>6. U = [D EXCEPT !.heap = [m \in DOMAIN D.heap \ {v} |-> D.heap[m]]]
  <2>1. MoveData(T, v, n) = B
    BY <1>3, <1>5 DEF MoveData
  <2>. QED
    BY <1>5, <2>1 DEF Removed
<1>7. Heap(A, L) /\ Put(T, A, n, "key", key)
  <2>1. "key" \in Field /\ key \in Holds(L, "key")
    BY <1>4 DEF Field, Holds
  <2>. QED
    BY <1>2, <1>5, <2>1, PutIs
<1>8. Heap(B, L) /\ Put(A, B, n, "value", value)
  <2>1. "value" \in Field /\ value \in Holds(L, "value")
    BY <1>4 DEF Field, Holds
  <2>. QED
    BY <1>5, <1>7, <2>1, PutIs
<1>9. DOMAIN A.heap = L /\ DOMAIN B.heap = L
  BY <1>7, <1>8, HeapDomain
<1>10. /\ B.root = T.root
       /\ \A m \in L : \A g \in Field :
             B.heap[m][g] = IF m = n /\ g = "key" THEN key
                            ELSE IF m = n /\ g = "value" THEN value ELSE T.heap[m][g]
  BY <1>2, <1>7, <1>8, <1>9 DEF Put
<1>11. x \in L \cup {Null} /\ y \in L \cup {Null} /\ x # v /\ y # v
  BY <1>1, <1>5
<1>12. SideOf(B, x, v) = s \/ x = Null
  <2>1. SUFFICES ASSUME x # Null PROVE SideOf(B, x, v) = s
    OBVIOUS
  <2>2. "left" \in Field /\ "left" \notin {"key", "value"} /\ x \in L
    BY <1>11, <2>1 DEF Field
  <2>3. B.heap[x]["left"] = T.heap[x]["left"]
    BY <1>10, <2>2
  <2>. QED
    BY <1>1, <1>5, <2>3 DEF SideOf
<1>13. Heap(C, L) /\ IF x = Null THEN C.root = y /\ C.heap = B.heap ELSE Put(B, C, x, s, y)
  <2>1. /\ Heap(C, L)
        /\ IF x = Null THEN C.root = y /\ C.heap = B.heap ELSE Put(B, C, x, SideOf(B, x, v), y)
    <3>1. C = Link(B, x, v, y)
      BY <1>5
    <3>. QED
      BY <1>8, <1>11, <3>1, LinkIs
  <2>. QED
    BY <1>12, <2>1
<1>14. Heap(D, L) /\ Put(C, D, y, "parent", x)
  BY <1>5, <1>11, <1>13, AdoptIs
<1>15. DOMAIN C.heap = L /\ DOMAIN D.heap = L
  BY <1>13, <1>14, HeapDomain
<1>16. /\ C.root = IF x = Null THEN y ELSE T.root
       /\ \A m \in L : \A g \in Field : C.heap[m][g] = IF m = x /\ g = s THEN y ELSE B.heap[m][g]
  <2>1. CASE x = Null
    BY <1>2, <1>13, <2>1
  <2>2. CASE x # Null
    BY <1>9, <1>10, <1>13, <2>2 DEF Put
  <2>. QED
    BY <2>1, <2>2
<1>17. /\ D.root = IF x = Null THEN y ELSE T.root
       /\ \A m \in L : \A g \in Field :
             D.heap[m][g] = IF m = y /\ g = "parent" THEN x ELSE IF m = x /\ g = s THEN y
                            ELSE B.heap[m][g]
  BY <1>14, <1>15, <1>16 DEF Put
<1>18. ASSUME NEW m \in L
       PROVE  /\ D.heap[m]["key"] = IF m = n THEN key ELSE T.heap[m]["key"]
              /\ D.heap[m]["value"] = IF m = n THEN value ELSE T.heap[m]["value"]
              /\ D.heap[m]["color"] = T.heap[m]["color"]
              /\ D.heap[m]["parent"] = IF m = y THEN x ELSE T.heap[m]["parent"]
              /\ \A r \in Side : D.heap[m][r] = IF m = x /\ r = s THEN y ELSE T.heap[m][r]
  <2>1. s \notin {"key", "value", "color", "parent"}
    BY <1>1, SideFields
  <2>2. \A g \in Field \ {"key", "value"} : B.heap[m][g] = T.heap[m][g]
    BY <1>10
  <2>3. /\ D.heap[m]["color"] = T.heap[m]["color"]
        /\ D.heap[m]["parent"] = IF m = y THEN x ELSE T.heap[m]["parent"]
    BY <1>17, <2>1, <2>2 DEF Field
  <2>4. /\ D.heap[m]["key"] = IF m = n THEN key ELSE T.heap[m]["key"]
        /\ D.heap[m]["value"] = IF m = n THEN value ELSE T.heap[m]["value"]
    BY <1>10, <1>17, <2>1 DEF Field
  <2>5. ASSUME NEW r \in Side PROVE D.heap[m][r] = IF m = x /\ r = s THEN y ELSE T.heap[m][r]
    <3>1. r \in Field /\ r \notin {"key", "value", "parent"}
      BY SideFields
    <3>. QED
      BY <1>17, <2>2, <3>1
  <2>. QED
    BY <2>3, <2>4, <2>5
<1>19. PICK h : h = [m \in M |-> D.heap[m]]
  OBVIOUS
<1>20. U = [root |-> D.root, heap |-> h]
  <2>1. D = [root |-> D.root, heap |-> D.heap] /\ DOMAIN D.heap \ {v} = M
    BY <1>14, <1>15 DEF Heap
  <2>. QED
    BY <1>6, <1>19, <2>1
<1>21. U.root = D.root /\ \A m \in M : U.heap[m] = D.heap[m]
  BY <1>19, <1>20
<1>22. Heap(U, M)
  <2>1. ASSUME NEW m \in M PROVE D.heap[m] \in Cell(M)
    <3>1. m \in L /\ m # v /\ D.heap[m] \in Cell(L)
      BY <1>14 DEF Heap
    <3>2. PICK d : d = D.heap[m]
      OBVIOUS
    <3>3. d["parent"] # v
      <4>1. d["parent"] = IF m = y THEN x ELSE T.heap[m]["parent"]
        BY <1>18, <3>1, <3>2
      <4>2. (T.heap[m]["parent"] = v) <=> (m = y)
        BY <1>1, <1>5, <3>1
      <4>. QED
        BY <1>11, <4>1, <4>2
    <3>4. \A r \in Side : d[r] # v
      <4>1. \A r \in Side : d[r] = IF m = x /\ r = s THEN y ELSE T.heap[m][r]
        BY <1>18, <3>1, <3>2
      <4>2. \A r \in Side : (T.heap[m][r] = v) <=> (m = x /\ r = s)
        BY <1>1, <1>5, <3>1
      <4>. QED
        BY <1>11, <4>1, <4>2
    <3>5. d \in Cell(L) /\ d.parent # v /\ d.left # v /\ d.right # v
      BY <3>1, <3>2, <3>3, <3>4 DEF Side
    <3>6. d \in Cell(M)
      BY <3>5 DEF Cell
    <3>. QED
      BY <3>2, <3>6
  <2>2. PICK Cs : Cs = Cell(M)
    OBVIOUS
  <2>3. h \in [M -> Cs]
    BY <1>19, <2>1, <2>2
  <2>4. IsFiniteSet(M) /\ M \subseteq Node
    BY <1>2, FS_Subset DEF Heap
  <2>5. D.root \in M \cup {Null}
    <3>1. (x = Null) <=> (v = T.root)
      BY <1>1, <1>5
    <3>2. D.root = IF x = Null THEN y ELSE T.root
      BY <1>17
    <3>3. y \in M \cup {Null} /\ (T.root # v => T.root \in M \cup {Null})
      BY <1>2, <1>11
    <3>. QED
      BY <3>1, <3>2, <3>3
  <2>. QED
    BY <1>20, <2>2, <2>3, <2>4, <2>5 DEF Heap
<1>23. CutOut(T, U, M, n, v, c, p, s)
  <2>1. U.root = IF p = Null THEN c ELSE T.root
    BY <1>5, <1>17, <1>21
  <2>2. ASSUME NEW m \in M
        PROVE  /\ U.heap[m].key = IF m = n THEN T.heap[v].key ELSE T.heap[m].key
               /\ U.heap[m].value = IF m = n THEN T.heap[v].value ELSE T.heap[m].value
               /\ U.heap[m].color = T.heap[m].color
               /\ U.heap[m].parent = IF m = c THEN p ELSE T.heap[m].parent
               /\ \A r \in Side : U.heap[m][r] = IF m = p /\ r = s THEN c ELSE T.heap[m][r]
    <3>1. m \in L /\ U.heap[m] = D.heap[m]
      BY <1>21
    <3>2. /\ D.heap[m].key = (IF m = n THEN key ELSE T.heap[m].key)
          /\ D.heap[m].value = (IF m = n THEN value ELSE T.heap[m].value)
          /\ D.heap[m].color = T.heap[m].color
          /\ D.heap[m].parent = (IF m = y THEN x ELSE T.heap[m].parent)
          /\ \A r \in Side : D.heap[m][r] = IF m = x /\ r = s THEN y ELSE T.heap[m][r]
      BY <1>18, <3>1
    <3>. QED
      BY <1>3, <1>5, <3>1, <3>2
  <2>. QED
    BY <2>1, <2>2 DEF CutOut
<1>. QED
  BY <1>22, <1>23

LEMMA RemovedTree ==
    ASSUME NEW T, NEW L, NEW K, Tree(T, L, K), NEW n, NEW v, NEW c, NEW p, NEW s,
           Taken(T, L, K, n, v, c, p, s), NEW U, NEW M, M = L \ {v}, Heap(U, M),
           CutOut(T, U, M, n, v, c, p, s)
    PROVE  \E J : Tree(U, M, J)
<1>1. /\ n \in L /\ v \in L /\ c \in L \cup {Null} /\ p \in L \cup {Null} /\ s \in Side
      /\ p = T.heap[v].parent /\ ((p = Null) <=> (v = T.root))
      /\ c # v /\ p # v
      /\ K[v] = K[c] \cup {v} /\ v \notin K[c]
      /\ (\A m \in L : \A r \in Side : (T.heap[m][r] = v) <=> (m = p /\ r = s))
      /\ (\A m \in L : (T.heap[m].parent = v) <=> (m = c))
      /\ (v = n \/ (T.heap[n].right \in L /\ First(T, K, T.heap[n].right, v)))
  BY DEF Taken
<1>2. /\ Heap(T, L) /\ Null \notin L /\ T.root \in L \cup {Null}
      /\ (\A m \in L \cup {Null} : K[m] \subseteq L) /\ K[Null] = {} /\ K[T.root] = L
      /\ (\A m \in L : \A r \in Side : T.heap[m][r] \in L \cup {Null})
      /\ \A m \in L : T.heap[m].key \in Int
  BY TreeFields
<1>3. /\ U.root = IF p = Null THEN c ELSE T.root
      /\ \A m \in M : /\ U.heap[m].key = IF m = n THEN T.heap[v].key ELSE T.heap[m].key
                      /\ U.heap[m].parent = IF m = c THEN p ELSE T.heap[m].parent
                      /\ \A r \in Side : U.heap[m][r] = IF m = p /\ r = s THEN c ELSE T.heap[m][r]
  BY DEF CutOut
<1>4. PICK J : J = [m \in M \cup {Null} |-> K[m] \ {v}]
  OBVIOUS
<1>5. J \in [M \cup {Null} -> SUBSET M] /\ J[Null] = {}
  BY <1>2, <1>4
<1>6. J[U.root] = M
  <2>1. CASE p = Null
    <3>1. U.root = c /\ c \in M \cup {Null} /\ K[v] = L
      BY <1>1, <1>2, <1>3, <2>1
    <3>. QED
      BY <1>1, <1>4, <3>1
  <2>2. CASE p # Null
    <3>1. U.root = T.root /\ T.root \in M \cup {Null}
      BY <1>1, <1>2, <1>3, <2>2
    <3>. QED
      BY <1>2, <1>4, <3>1
  <2>. QED
    BY <2>1, <2>2
<1>7. ASSUME NEW m \in M, NEW r \in Side PROVE J[U.heap[m][r]] = K[T.heap[m][r]] \ {v}
  <2>1. PICK d : d = T.heap[m][r] /\ d \in L \cup {Null}
    BY <1>2, <1>7
  <2>2. CASE m = p /\ r = s
    <3>1. U.heap[m][r] = c /\ d = v /\ c \in M \cup {Null}
      BY <1>1, <1>3, <2>1, <2>2
    <3>. QED
      BY <1>1, <1>4, <2>1, <3>1
  <2>3. CASE ~(m = p /\ r = s)
    <3>1. U.heap[m][r] = d
      BY <1>3, <2>1, <2>3
    <3>2. (T.heap[m][r] = v) <=> (m = p /\ r = s)
      BY <1>1, <1>7
    <3>3. d \in M \cup {Null}
      BY <2>1, <2>3, <3>2
    <3>. QED
      BY <1>4, <2>1, <3>1, <3>3
  <2>. QED
    BY <2>2, <2>3
<1>8. ASSUME NEW m \in M, NEW r \in Side, NEW x \in J[U.heap[m][r]] PROVE On(U, m, r, x)
  <2>1. PICK d : d = T.heap[m][r] /\ d \in L \cup {Null}
    BY <1>2, <1>8
  <2>2. x \in K[d] /\ x # v /\ x \in M /\ m \in L
    BY <1>2, <1>7, <1>8, <2>1
  <2>3. On(T, m, r, x) /\ m \notin K[d]
    BY <2>1, <2>2, SplitIs
  <2>4. U.heap[x].key = (IF x = n THEN T.heap[v].key ELSE T.heap[x].key)
        /\ U.heap[m].key = (IF m = n THEN T.heap[v].key ELSE T.heap[m].key)
    BY <1>3, <2>2
  <2>5. CASE v = n
    BY <2>2, <2>3, <2>4, <2>5 DEF On
  <2>6. CASE v # n
    <3>1. PICK e : e = T.heap[n].right /\ e \in L /\ v \in K[e]
                   /\ \A y \in K[e] : y = v \/ T.heap[v].key < T.heap[y].key
      BY <1>1, <2>6 DEF First
    <3>2. "right" \in Side /\ e = T.heap[n]["right"]
      BY <3>1 DEF Side
    <3>3. On(T, n, "right", v) /\ K[e] \subseteq K[n]
      BY <1>1, <3>1, <3>2, SplitIs
    <3>4. T.heap[n].key < T.heap[v].key
      BY <3>3 DEF On
    <3>5. T.heap[n].key \in Int /\ T.heap[v].key \in Int /\ T.heap[x].key \in Int
      BY <1>1, <1>2, <2>2
    <3>6. CASE m = n
      <4>1. x # n
        BY <2>2, <2>3, <3>6
      <4>2. CASE r = "left"
        <5>1. T.heap[x].key < T.heap[n].key
          BY <2>3, <3>6, <4>2 DEF On
        <5>. QED
          BY <2>4, <3>4, <3>5, <3>6, <4>1, <4>2, <5>1 DEF On
      <4>3. CASE r = "right"
        <5>1. d = e
          BY <2>1, <3>2, <3>6, <4>3
        <5>. QED
          BY <2>2, <2>4, <3>1, <3>6, <4>1, <4>3, <5>1 DEF On
      <4>. QED
        BY <4>2, <4>3 DEF Side
    <3>7. CASE m # n /\ x = n
      <4>1. K[n] \subseteq K[d]
        BY <2>1, <2>2, <3>7, Nested
      <4>2. v \in K[d]
        BY <3>1, <3>3, <4>1
      <4>3. On(T, m, r, v)
        BY <2>1, <2>2, <4>2, SplitIs
      <4>. QED
        BY <2>4, <3>7, <4>3 DEF On
    <3>8. CASE m # n /\ x # n
      BY <2>3, <2>4, <3>8 DEF On
    <3>. QED
      BY <3>6, <3>7, <3>8
  <2>. QED
    BY <2>5, <2>6
<1>9. ASSUME NEW m \in M PROVE Split(U, J, m)
  <2>1. "left" \in Side /\ "right" \in Side /\ Opposite("left") = "right"
    BY DEF Side, Opposite
  <2>2. K[m] = K[T.heap[m]["left"]] \cup {m} \cup K[T.heap[m]["right"]]
    BY <1>9 DEF Tree, Split
  <2>3. J[m] = K[m] \ {v} /\ m # v
    BY <1>4
  <2>4. J[m] = J[U.heap[m]["left"]] \cup {m} \cup J[U.heap[m]["right"]]
    BY <1>7, <2>1, <2>2, <2>3
  <2>. QED
    BY <1>8, <2>1, <2>4, SplitBySides
<1>10. U.root # Null => U.heap[U.root].parent = Null
  <2>1. CASE p = Null
    <3>1. U.root = c /\ (c # Null => c \in M)
      BY <1>1, <1>3, <2>1
    <3>. QED
      BY <1>3, <2>1, <3>1
  <2>2. CASE p # Null
    <3>1. U.root = T.root /\ T.root # v
      BY <1>1, <1>3, <2>2
    <3>2. T.root # Null => T.root \in M /\ T.heap[T.root].parent = Null
      BY <1>2, <3>1 DEF Tree
    <3>3. T.root # Null => T.root # c
      BY <1>1, <1>2, <3>2
    <3>. QED
      BY <1>3, <3>1, <3>2, <3>3
  <2>. QED
    BY <2>1, <2>2
<1>11. ASSUME NEW m \in M, NEW r \in Side, U.heap[m][r] # Null PROVE U.heap[U.heap[m][r]].parent = m
  <2>1. CASE m = p /\ r = s
    <3>1. U.heap[m][r] = c /\ c \in M
      BY <1>1, <1>3, <1>11, <2>1
    <3>. QED
      BY <1>3, <2>1, <3>1
  <2>2. CASE ~(m = p /\ r = s)
    <3>1. PICK y : y = T.heap[m][r]
      OBVIOUS
    <3>2. U.heap[m][r] = y /\ T.heap[m][r] # Null
      BY <1>3, <1>11, <2>2, <3>1
    <3>3. T.heap[m][r] \in L /\ T.heap[T.heap[m][r]].parent = m /\ m \in L
      BY <3>2, ChildIs
    <3>4. (T.heap[m][r] = v) <=> (m = p /\ r = s)
      BY <1>1, <1>11
    <3>5. y \in M /\ T.heap[y].parent = m
      BY <2>2, <3>1, <3>3, <3>4
    <3>6. y # c
      BY <1>1, <3>5
    <3>. QED
      BY <1>3, <3>2, <3>5, <3>6
  <2>. QED
    BY <2>1, <2>2
<1>12. Tree(U, M, J)
  BY <1>5, <1>6, <1>9, <1>10, <1>11 DEF Tree
<1>. QED
  BY <1>12

\* The erasure of a red node leaves the tree repaired; of a black one, a black
\* node is missing below its parent.
LEMMA RemovedColors ==
    ASSUME NEW T, NEW L, NEW K, Tree(T, L, K), NEW b, Repaired(T, L, b),
           NEW n, NEW v, NEW c, NEW p, NEW s, Taken(T, L, K, n, v, c, p, s),
           NEW U, NEW M, M = L \ {v}, Heap(U, M), CutOut(T, U, M, n, v, c, p, s)
    PROVE  \E d : IF Color(T, v) = RED THEN Repaired(U, M, d) ELSE Shrinking(U, M, d, c, p)
<1>1. /\ n \in L /\ v \in L /\ c \in L \cup {Null} /\ p \in L \cup {Null} /\ s \in Side
      /\ p = T.heap[v].parent /\ ((p = Null) <=> (v = T.root))
      /\ c # v /\ p # v
      /\ (\A m \in L : \A r \in Side : (T.heap[m][r] = v) <=> (m = p /\ r = s))
      /\ (\A m \in L : (T.heap[m].parent = v) <=> (m = c))
      /\ \E r \in Side : T.heap[v][r] = c
  BY DEF Taken
<1>2. /\ Heap(T, L) /\ Null \notin L /\ T.root \in L \cup {Null} /\ L = K[T.root] /\ K[Null] = {}
      /\ (\A m \in L : \A r \in Side : T.heap[m][r] \in L \cup {Null})
  BY TreeFields
<1>3. /\ U.root = IF p = Null THEN c ELSE T.root
      /\ \A m \in M : /\ U.heap[m].color = T.heap[m].color
                      /\ \A r \in Side : U.heap[m][r] = IF m = p /\ r = s THEN c ELSE T.heap[m][r]
  BY DEF CutOut
<1>4. Ranked(b, L) /\ (\A m \in L : RankAt(T, b, m, Null, "left")) /\ Reds(T, L, Null, Null)
      /\ Color(T, T.root) = BLACK
  BY DEF Repaired, Ranks
<1>5. (\A m \in L \cup {Null} : b[m] \in Nat) /\ b[Null] = 0
  BY <1>4 DEF Ranked
<1>6. ASSUME NEW m \in L, NEW r \in Side PROVE b[m] = b[T.heap[m][r]] + Dark(T, m)
  <2>1. b[m] = b[T.heap[m][r]] + Missing(m, r, Null, "left") + Dark(T, m)
    BY <1>4 DEF RankAt
  <2>2. Missing(m, r, Null, "left") = 0
    BY <1>2 DEF Missing
  <2>3. Dark(T, m) \in {0, 1} /\ b[T.heap[m][r]] \in Nat
    BY <1>2, <1>5, ColorIs
  <2>. QED
    BY <2>1, <2>2, <2>3
<1>7. b[v] = b[c] + Dark(T, v)
  BY <1>1, <1>6
<1>8. c \in M \cup {Null} /\ p \in M \cup {Null}
  BY <1>1
<1>9. PICK d : d = [m \in M \cup {Null} |-> b[m]]
  OBVIOUS
<1>10. Ranked(d, M) /\ \A m \in M \cup {Null} : d[m] = b[m]
  BY <1>5, <1>9 DEF Ranked
<1>11. \A m \in M \cup {Null} : Color(U, m) = Color(T, m) /\ Dark(U, m) = Dark(T, m)
  BY <1>3 DEF Color, Dark
<1>12. ASSUME NEW m \in M, NEW r \in Side
       PROVE  \/ m = p /\ r = s /\ U.heap[m][r] = c /\ d[m] = d[c] + Dark(T, v) + Dark(U, m)
              \/ /\ ~(m = p /\ r = s) /\ U.heap[m][r] = T.heap[m][r]
                 /\ U.heap[m][r] \in M \cup {Null} /\ d[m] = d[U.heap[m][r]] + Dark(U, m)
  <2>1. b[m] = b[T.heap[m][r]] + Dark(T, m)
    BY <1>6
  <2>2. CASE m = p /\ r = s
    <3>1. T.heap[m][r] = v
      BY <1>1, <2>2
    <3>2. d[m] = d[c] + Dark(T, v) + Dark(U, m)
      BY <1>7, <1>8, <1>10, <1>11, <2>1, <3>1
    <3>. QED
      BY <1>3, <2>2, <3>2
  <2>3. CASE ~(m = p /\ r = s)
    <3>1. T.heap[m][r] \in L \cup {Null} /\ T.heap[m][r] # v
      BY <1>1, <1>2, <2>3
    <3>2. U.heap[m][r] = T.heap[m][r] /\ U.heap[m][r] \in M \cup {Null}
      BY <1>3, <2>3, <3>1
    <3>3. d[m] = d[U.heap[m][r]] + Dark(U, m)
      BY <1>10, <1>11, <2>1, <3>2
    <3>. QED
      BY <2>3, <3>2, <3>3
  <2>. QED
    BY <2>2, <2>3
<1>13. ASSUME NEW m \in M, NEW r \in Side, Color(U, m) = RED, Color(U, U.heap[m][r]) = RED
       PROVE  m = p /\ r = s /\ U.heap[m][r] = c
  <2>1. SUFFICES ASSUME U.heap[m][r] = T.heap[m][r], U.heap[m][r] \in M \cup {Null} PROVE FALSE
    BY <1>12, <1>13
  <2>2. PICK x : x = T.heap[m][r]
    OBVIOUS
  <2>3. Color(T, m) = RED /\ Color(T, x) = RED
    BY <1>11, <1>13, <2>1, <2>2
  <2>4. x = Null
    BY <1>2, <1>4, <2>2, <2>3 DEF Reds, RedAt
  <2>. QED
    BY <1>2, <2>3, <2>4, ColorIs
<1>14. p # Null => Color(U, U.root) = BLACK
  BY <1>1, <1>2, <1>3, <1>4, <1>11
<1>15. CASE Color(T, v) = RED
  <2>1. Dark(T, v) = 0 /\ RED # BLACK
    BY <1>1, <1>2, <1>15, ColorIs
  <2>2. p # Null
    BY <1>1, <1>4, <1>15, <2>1
  <2>3. ASSUME NEW m \in M, NEW r \in Side
        PROVE  d[m] = d[U.heap[m][r]] + Missing(m, r, Null, "left") + Dark(U, m)
    <3>1. Missing(m, r, Null, "left") = 0
      BY <1>2 DEF Missing
    <3>2. PICK y : y = U.heap[m][r]
      OBVIOUS
    <3>3. d[m] = d[y] + Dark(U, m) /\ y \in M \cup {Null}
      <4>1. d[c] \in Nat /\ Dark(U, m) \in {0, 1}
        BY <1>5, <1>8, <1>10, ColorIs
      <4>2. d[m] = d[c] + Dark(T, v) + Dark(U, m) => d[m] = d[c] + Dark(U, m)
        BY <2>1, <4>1
      <4>. QED
        BY <1>8, <1>12, <3>2, <4>2
    <3>4. d[y] \in Nat /\ Dark(U, m) \in {0, 1}
      BY <1>5, <1>10, <3>3, ColorIs
    <3>. QED
      BY <3>1, <3>2, <3>3, <3>4
  <2>4. Ranks(U, M, d, Null, "left")
    BY <1>10, <2>3 DEF Ranks, RankAt
  <2>5. Reds(U, M, Null, Null)
    <3>1. ASSUME NEW m \in M, NEW r \in Side, Color(U, m) = RED, Color(U, U.heap[m][r]) = RED
          PROVE  FALSE
      <4>1. Color(T, c) = RED
        BY <1>8, <1>11, <1>13, <3>1
      <4>2. PICK q \in Side : T.heap[v][q] = c
        BY <1>1
      <4>3. c = Null
        BY <1>1, <1>2, <1>4, <1>15, <4>1, <4>2 DEF Reds, RedAt
      <4>. QED
        BY <1>2, <4>1, <4>3, ColorIs
    <3>. QED
      BY <3>1 DEF Reds, RedAt
  <2>6. Repaired(U, M, d)
    BY <1>14, <2>2, <2>4, <2>5 DEF Repaired
  <2>. QED
    BY <1>15, <2>6
<1>16. CASE Color(T, v) # RED
  <2>1. Dark(T, v) = 1
    BY <1>1, <1>2, <1>16, ColorIs
  <2>2. Reds(U, M, c, c)
    BY <1>13 DEF Reds, RedAt
  <2>3. CASE p = Null
    <3>1. U.root = c
      BY <1>3, <2>3
    <3>2. ASSUME NEW m \in M, NEW r \in Side
          PROVE  d[m] = d[U.heap[m][r]] + Missing(m, r, Null, "left") + Dark(U, m)
      <4>1. Missing(m, r, Null, "left") = 0 /\ m # p
        BY <1>2, <2>3 DEF Missing
      <4>2. PICK y : y = U.heap[m][r]
        OBVIOUS
      <4>3. d[m] = d[y] + Dark(U, m) /\ y \in M \cup {Null}
        BY <1>12, <4>1, <4>2
      <4>4. d[y] \in Nat /\ Dark(U, m) \in {0, 1}
        BY <1>5, <1>10, <4>3, ColorIs
      <4>. QED
        BY <4>1, <4>2, <4>3, <4>4
    <3>3. Ranks(U, M, d, Null, "left")
      BY <1>10, <3>2 DEF Ranks, RankAt
    <3>4. Shrinking(U, M, d, c, p)
      BY <1>8, <2>2, <3>1, <3>3 DEF Shrinking
    <3>. QED
      BY <1>16, <3>4
  <2>4. CASE p # Null
    <3>1. U.root = T.root /\ U.root # Null /\ p \in M /\ p \in L
      BY <1>1, <1>2, <1>3, <1>8, <2>4
    <3>2. U.root # c
      <4>1. T.heap[T.root].parent = Null
        BY <3>1 DEF Tree
      <4>2. c \in L => T.heap[c].parent = v
        BY <1>1
      <4>. QED
        BY <1>1, <1>2, <3>1, <4>1, <4>2
    <3>3. U.heap[p][s] = c
      BY <1>1, <1>3, <3>1
    <3>4. s = SideOf(U, p, c)
      <4>1. CASE s = "left"
        BY <3>3, <4>1 DEF SideOf
      <4>2. CASE s = "right"
        <5>1. PICK y : y = T.heap[p]["left"]
          OBVIOUS
        <5>2. "left" \in Side /\ "left" # s
          BY <4>2 DEF Side
        <5>3. U.heap[p]["left"] = y
          BY <1>3, <3>1, <5>1, <5>2
        <5>4. y # c
          <6>1. CASE c = Null
            <7>1. b[v] = 1
              BY <1>5, <1>7, <2>1, <6>1
            <7>2. T.heap[p][s] = v
              BY <1>1, <3>1
            <7>3. b[p] = b[v] + Dark(T, p) /\ b[p] = b[y] + Dark(T, p)
              BY <1>1, <1>6, <3>1, <5>1, <5>2, <7>2
            <7>4. y \in L \cup {Null}
              BY <1>2, <3>1, <5>1, <5>2
            <7>5. b[y] \in Nat /\ b[v] \in Nat /\ Dark(T, p) \in {0, 1}
              BY <1>1, <1>2, <1>5, <3>1, <7>4, ColorIs
            <7>. QED
              BY <1>5, <6>1, <7>1, <7>3, <7>5
          <6>2. CASE c # Null
            <7>1. T.heap[c].parent = v
              BY <1>1, <6>2
            <7>2. T.heap[p]["left"] # Null => T.heap[T.heap[p]["left"]].parent = p
              BY <3>1, <5>2, ChildIs
            <7>. QED
              BY <1>1, <5>1, <6>2, <7>1, <7>2
          <6>. QED
            BY <6>1, <6>2
        <5>. QED
          BY <4>2, <5>3, <5>4 DEF SideOf
      <4>. QED
        BY <1>1, <4>1, <4>2 DEF Side
    <3>5. ASSUME NEW m \in M, NEW r \in Side
          PROVE  d[m] = d[U.heap[m][r]] + Missing(m, r, p, s) + Dark(U, m)
      <4>1. Missing(m, r, p, s) = IF m = p /\ r = s THEN 1 ELSE 0
        BY DEF Missing
      <4>2. PICK y : y = U.heap[m][r]
        OBVIOUS
      <4>3. /\ y \in M \cup {Null}
            /\ d[m] = IF m = p /\ r = s THEN d[y] + 1 + Dark(U, m) ELSE d[y] + Dark(U, m)
        BY <1>8, <1>12, <2>1, <4>2
      <4>4. d[y] \in Nat /\ Dark(U, m) \in {0, 1}
        BY <1>5, <1>10, <4>3, ColorIs
      <4>. QED
        BY <4>1, <4>2, <4>3, <4>4
    <3>6. Ranks(U, M, d, p, SideOf(U, p, c))
      BY <1>10, <3>4, <3>5 DEF Ranks, RankAt
    <3>7. Shrinking(U, M, d, c, p)
      BY <1>8, <1>14, <2>2, <2>4, <3>1, <3>2, <3>3, <3>4, <3>6 DEF Shrinking
    <3>. QED
      BY <1>16, <3>7
  <2>. QED
    BY <2>3, <2>4
<1>. QED
  BY <1>15, <1>16

-----------------------------------------------------------------------------
(* The inductive invariant: the tree is a search tree in every state; at     *)
(* rest it is also coloured right, and within a repair but for one place.    *)

Sound(L, K, b) ==
    /\ Tree(tree, L, K)
    /\ \/ at = "idle" /\ cur = Null /\ up = Null /\ Repaired(tree, L, b)
       \/ at = "fixInsert" /\ up = Null /\ Growing(tree, L, b, cur)
       \/ at = "fixErase" /\ Shrinking(tree, L, b, cur, up)

IInv == \E K, b : Sound(Live, K, b)

\* All of a tree with nothing in it.
LEMMA EmptyIsSound ==
    \E K, b : Tree(Empty, {}, K) /\ Repaired(Empty, {}, b)
<1>1. PICK K, b : K = [x \in {Null} |-> {}] /\ b = [x \in {Null} |-> 0]
  OBVIOUS
<1>2. PICK h, C : h = << >> /\ C = Cell({})
  OBVIOUS
<1>3. Empty = [root |-> Null, heap |-> h]
  BY <1>2 DEF Empty
<1>4. Heap(Empty, {})
  <2>1. h \in [{} -> C]
    BY <1>2
  <2>2. IsFiniteSet({})
    BY FS_EmptySet
  <2>. QED
    BY <1>2, <1>3, <2>1, <2>2 DEF Heap
<1>5. Tree(Empty, {}, K)
  BY <1>1, <1>3, <1>4 DEF Tree
<1>6. Repaired(Empty, {}, b)
  <2>1. Ranks(Empty, {}, b, Null, "left")
    BY <1>1 DEF Ranks, Ranked
  <2>. QED
    BY <1>3, <2>1 DEF Repaired, Reds, Color
<1>. QED
  BY <1>5, <1>6

LEMMA InitIsSound == Init => IInv
<1>1. SUFFICES ASSUME Init PROVE IInv
  OBVIOUS
<1>2. tree = Empty /\ at = "idle" /\ cur = Null /\ up = Null
  BY <1>1 DEF Init
<1>3. Live = {}
  BY <1>2 DEF Live, Empty
<1>4. PICK K, b : Tree(tree, {}, K) /\ Repaired(tree, {}, b)
  BY <1>2, EmptyIsSound
<1>5. Sound({}, K, b)
  BY <1>2, <1>4 DEF Sound
<1>. QED
  BY <1>3, <1>5 DEF IInv

\* What an insertion does.
Inserted(L, K, n, k, v, p) ==
    /\ n \in Node \ L /\ Beneath(tree, L, K, k, p) /\ (\A m \in L : tree.heap[m].key # k)
    /\ Heap(tree', L \cup {n}) /\ PlacedAt(tree, tree', L, n, k, v, p)
    /\ cur' = n

LEMMA InsertIs ==
    ASSUME NEW L, NEW K, Tree(tree, L, K), NEW k \in Key, NEW v \in Value, Insert(k, v)
    PROVE  \E n, p : Inserted(L, K, n, k, v, p)
<1>1. DOMAIN tree.heap = L /\ L \subseteq Node /\ Heap(tree, L) /\ k \in Int
  BY TreeFields, HeapDomain, KeyAssumption DEF Heap
<1>2. Find(tree, k) = Null /\ Node # L
  BY <1>1 DEF Insert
<1>3. PICK n : n = Fresh(tree, k)
  OBVIOUS
<1>4. n \in Node \ L
  BY <1>1, <1>2, <1>3, FreshIs
<1>5. tree' = Placed(tree, n, k, v) /\ cur' = n
  BY <1>3 DEF Insert
<1>6. PICK p : p = ParentFor(tree, k)
  OBVIOUS
<1>7. Beneath(tree, L, K, k, p) /\ p \in L \cup {Null}
  BY <1>1, <1>6, BeneathIs
<1>8. Heap(tree', L \cup {n}) /\ PlacedAt(tree, tree', L, n, k, v, p)
  BY <1>1, <1>4, <1>5, <1>6, <1>7, PlacedIs
<1>9. \A m \in L : tree.heap[m].key # k
  <2>1. FoundAt(tree, L, k, Null)
    BY <1>1, <1>2, Finds
  <2>. QED
    BY <2>1 DEF FoundAt
<1>10. Inserted(L, K, n, k, v, p)
  BY <1>4, <1>5, <1>7, <1>8, <1>9 DEF Inserted
<1>. QED
  BY <1>10

LEMMA InsertKeeps ==
    ASSUME NEW L, NEW K, Tree(tree, L, K), NEW b, Repaired(tree, L, b),
           NEW k \in Key, NEW v \in Value, NEW n, NEW p, Inserted(L, K, n, k, v, p)
    PROVE  (\E J : Tree(tree', L \cup {n}, J)) /\ \E c : Growing(tree', L \cup {n}, c, n)
<1>1. PICK M : M = L \cup {n}
  OBVIOUS
<1>2. /\ n \in Node \ L /\ Beneath(tree, L, K, k, p) /\ (\A m \in L : tree.heap[m].key # k)
      /\ Heap(tree', M) /\ PlacedAt(tree, tree', L, n, k, v, p)
  BY <1>1 DEF Inserted
<1>3. \E J : Tree(tree', M, J)
  BY <1>1, <1>2, PlacedTree
<1>4. \E c : Growing(tree', M, c, n)
  BY <1>1, <1>2, PlacedGrows
<1>. QED
  BY <1>1, <1>3, <1>4

\* What the assignment of a value does.
Assigned(L, n, v) ==
    /\ n \in L /\ Heap(tree', L) /\ tree'.root = tree.root
    /\ \A m \in L : /\ tree'.heap[m].value = IF m = n THEN v ELSE tree.heap[m].value
                    /\ \A g \in Field \ {"value"} : tree'.heap[m][g] = tree.heap[m][g]

LEMMA AssignIs ==
    ASSUME NEW L, NEW K, Tree(tree, L, K), NEW k \in Key, NEW v \in Value, Assign(k, v)
    PROVE  Assigned(L, Find(tree, k), v) /\ tree.heap[Find(tree, k)].key = k
<1>1. DOMAIN tree.heap = L /\ Heap(tree, L) /\ k \in Int
  BY TreeFields, HeapDomain, KeyAssumption
<1>2. PICK n : n = Find(tree, k)
  OBVIOUS
<1>3. n # Null /\ tree' = [tree EXCEPT !.heap[n]["value"] = v]
  BY <1>2 DEF Assign
<1>4. n \in L /\ tree.heap[n].key = k
  <2>1. FoundAt(tree, L, k, n)
    BY <1>1, <1>2, Finds
  <2>. QED
    BY <1>3, <2>1 DEF FoundAt
<1>5. Heap(tree', L) /\ Put(tree, tree', n, "value", v)
  <2>1. "value" \in Field /\ v \in Holds(L, "value")
    BY DEF Field, Holds
  <2>. QED
    BY <1>1, <1>3, <1>4, <2>1, PutIs
<1>6. tree'.root = tree.root
  BY <1>5 DEF Put
<1>7. ASSUME NEW m \in L
      PROVE  /\ tree'.heap[m].value = IF m = n THEN v ELSE tree.heap[m].value
             /\ \A g \in Field \ {"value"} : tree'.heap[m][g] = tree.heap[m][g]
  <2>1. \A g \in Field : tree'.heap[m][g] = IF m = n /\ g = "value" THEN v ELSE tree.heap[m][g]
    BY <1>1, <1>5 DEF Put
  <2>2. tree'.heap[m]["value"] = IF m = n THEN v ELSE tree.heap[m]["value"]
    BY <2>1 DEF Field
  <2>. QED
    BY <2>1, <2>2
<1>8. Assigned(L, n, v)
  BY <1>4, <1>5, <1>6, <1>7 DEF Assigned
<1>. QED
  BY <1>2, <1>4, <1>8

\* What a value is does not matter to the shape and the colours.
LEMMA AssignKeeps ==
    ASSUME NEW L, NEW K, Tree(tree, L, K), NEW n, NEW v, Assigned(L, n, v)
    PROVE  /\ Tree(tree', L, K)
           /\ \A b : Repaired(tree, L, b) => Repaired(tree', L, b)
<1>1. PICK U : U = tree'
  OBVIOUS
<1>2. DOMAIN tree.heap = L /\ Heap(tree, L) /\ Null \notin L
  BY TreeFields, HeapDomain
<1>3. /\ Heap(U, L) /\ U.root = tree.root
      /\ \A m \in L : \A g \in Field \ {"value"} : U.heap[m][g] = tree.heap[m][g]
  BY <1>1 DEF Assigned
<1>4. ASSUME NEW m \in L
      PROVE  /\ U.heap[m]["key"] = tree.heap[m]["key"]
             /\ U.heap[m]["color"] = tree.heap[m]["color"]
             /\ U.heap[m]["parent"] = tree.heap[m]["parent"]
             /\ \A s \in Side : U.heap[m][s] = tree.heap[m][s]
  BY <1>3, SideFields DEF Field
<1>5. Tree(U, L, K)
  <2>1. K \in [L \cup {Null} -> SUBSET L] /\ K[Null] = {} /\ K[U.root] = L
    BY <1>3 DEF Tree
  <2>2. ASSUME NEW m \in L PROVE Split(U, K, m)
    <3>1. \A s \in Side : U.heap[m][s] = tree.heap[m][s] /\ K[tree.heap[m][s]] \subseteq L
      BY <1>4, TreeFields
    <3>2. Split(tree, K, m)
      BY DEF Tree
    <3>3. K[m] = K[U.heap[m].left] \cup {m} \cup K[U.heap[m].right]
      BY <3>1, <3>2 DEF Split, Side
    <3>4. \A s \in Side : \A x \in K[U.heap[m][s]] : On(U, m, s, x)
      BY <1>4, <3>1, <3>2 DEF Split, On
    <3>. QED
      BY <3>3, <3>4 DEF Split
  <2>3. U.root # Null => U.heap[U.root].parent = Null
    <3>1. tree.root \in L \cup {Null}
      BY TreeFields
    <3>2. tree.root # Null => tree.heap[tree.root].parent = Null
      BY DEF Tree
    <3>. QED
      BY <1>3, <1>4, <3>1, <3>2
  <2>4. ASSUME NEW m \in L, NEW s \in Side, U.heap[m][s] # Null PROVE U.heap[U.heap[m][s]].parent = m
    <3>1. tree.heap[m][s] # Null
      BY <1>4, <2>4
    <3>2. tree.heap[m][s] \in L /\ tree.heap[tree.heap[m][s]].parent = m
      BY <3>1, ChildIs
    <3>. QED
      BY <1>4, <3>2
  <2>. QED
    BY <1>3, <2>1, <2>2, <2>3, <2>4 DEF Tree
<1>6. ASSUME NEW b, Repaired(tree, L, b) PROVE Repaired(U, L, b)
  <2>1. \A m \in L \cup {Null} : Color(U, m) = Color(tree, m) /\ Dark(U, m) = Dark(tree, m)
    BY <1>4 DEF Color, Dark
  <2>2. Ranks(U, L, b, Null, "left")
    <3>1. Ranked(b, L) /\ \A m \in L : RankAt(tree, b, m, Null, "left")
      BY <1>6 DEF Repaired, Ranks
    <3>2. \A m \in L : RankAt(U, b, m, Null, "left")
      BY <1>4, <2>1, <3>1 DEF RankAt
    <3>. QED
      BY <3>1, <3>2 DEF Ranks
  <2>3. Reds(U, L, Null, Null)
    <3>1. ASSUME NEW m \in L, NEW s \in Side, Color(U, m) = RED, Color(U, U.heap[m][s]) = RED
          PROVE  U.heap[m][s] = Null
      <4>1. PICK y : y = tree.heap[m][s] /\ y \in L \cup {Null}
        BY TreeFields
      <4>2. U.heap[m][s] = y /\ Color(tree, m) = RED /\ Color(tree, tree.heap[m][s]) = RED
        BY <1>4, <2>1, <3>1, <4>1
      <4>3. tree.heap[m][s] = Null
        BY <1>2, <1>6, <4>2 DEF Repaired, Reds, RedAt
      <4>. QED
        BY <4>1, <4>2, <4>3
    <3>. QED
      BY <3>1 DEF Reds, RedAt
  <2>4. Color(U, U.root) = BLACK
    BY <1>2, <1>3, <1>6, <2>1 DEF Repaired, Heap
  <2>. QED
    BY <2>2, <2>3, <2>4 DEF Repaired
<1>. QED
  BY <1>1, <1>5, <1>6

\* What an erasure does, before its repair.
Erased(L, K, n, k, v, c, p, s) ==
    /\ n \in L /\ tree.heap[n].key = k
    /\ Taken(tree, L, K, n, v, c, p, s)
    /\ Heap(tree', L \ {v}) /\ CutOut(tree, tree', L \ {v}, n, v, c, p, s)
    /\ \/ Color(tree, v) = BLACK /\ at' = "fixErase" /\ cur' = c /\ up' = p
       \/ Color(tree, v) = RED /\ UNCHANGED <<at, cur, up>>

LEMMA EraseIs ==
    ASSUME NEW L, NEW K, Tree(tree, L, K), NEW k \in Key, Erase(k)
    PROVE  \E n, v, c, p, s : Erased(L, K, n, k, v, c, p, s)
<1>1. DOMAIN tree.heap = L /\ Heap(tree, L) /\ k \in Int
  BY TreeFields, HeapDomain, KeyAssumption
<1>2. PICK n, v : n = Find(tree, k) /\ v = Victim(tree, n)
  OBVIOUS
<1>3. PICK c, p : c = OnlyChild(tree, v) /\ p = tree.heap[v].parent
  OBVIOUS
<1>4. /\ n # Null /\ tree' = Removed(tree, n)
      /\ \/ Color(tree, v) = BLACK /\ at' = "fixErase" /\ cur' = c /\ up' = p
         \/ Color(tree, v) = RED /\ UNCHANGED <<at, cur, up>>
  BY <1>2, <1>3 DEF Erase
<1>5. n \in L /\ tree.heap[n].key = k
  <2>1. FoundAt(tree, L, k, n)
    BY <1>1, <1>2, Finds
  <2>. QED
    BY <1>4, <2>1 DEF FoundAt
<1>6. PICK s : Taken(tree, L, K, n, v, c, p, s)
  BY <1>2, <1>3, <1>5, TakenIs
<1>7. PICK M : M = L \ {v}
  OBVIOUS
<1>8. Heap(tree', M) /\ CutOut(tree, tree', M, n, v, c, p, s)
  BY <1>2, <1>3, <1>4, <1>5, <1>6, <1>7, RemovedIs
<1>9. Erased(L, K, n, k, v, c, p, s)
  BY <1>4, <1>5, <1>6, <1>7, <1>8 DEF Erased
<1>. QED
  BY <1>9

LEMMA EraseKeeps ==
    ASSUME NEW L, NEW K, Tree(tree, L, K), NEW b, Repaired(tree, L, b),
           NEW n, NEW k, NEW v, NEW c, NEW p, NEW s, Erased(L, K, n, k, v, c, p, s)
    PROVE  /\ \E J : Tree(tree', L \ {v}, J)
           /\ \E d : IF Color(tree, v) = RED THEN Repaired(tree', L \ {v}, d)
                     ELSE Shrinking(tree', L \ {v}, d, c, p)
<1>1. PICK M : M = L \ {v}
  OBVIOUS
<1>2. Taken(tree, L, K, n, v, c, p, s) /\ Heap(tree', M) /\ CutOut(tree, tree', M, n, v, c, p, s)
  BY <1>1 DEF Erased
<1>3. \E J : Tree(tree', M, J)
  BY <1>1, <1>2, RemovedTree
<1>4. \E d : IF Color(tree, v) = RED THEN Repaired(tree', M, d) ELSE Shrinking(tree', M, d, c, p)
  BY <1>1, <1>2, RemovedColors
<1>. QED
  BY <1>1, <1>3, <1>4

LEMMA LiveIs ==
    ASSUME NEW L, NEW K, NEW b, Sound(L, K, b)
    PROVE  L = Live
<1>1. Heap(tree, L)
  BY TreeFields DEF Sound
<1>. QED
  BY <1>1, HeapDomain DEF Live

LEMMA LiveNext ==
    ASSUME NEW L, NEW K, NEW b, Sound(L, K, b)'
    PROVE  IInv'
<1>1. Tree(tree', L, K)
  BY DEF Sound
<1>2. Heap(tree', L)
  BY <1>1, TreeFields
<1>3. L = Live'
  BY <1>2, HeapDomain DEF Live
<1>. QED
  BY <1>3 DEF IInv

\* Every step keeps the invariant.
LEMMA NextIsSound == IInv /\ [Next]_vars => IInv'
<1>. SUFFICES ASSUME IInv, [Next]_vars PROVE IInv'
  OBVIOUS
<1>1. PICK L, K, b : L = Live /\ Sound(L, K, b)
  BY DEF IInv
<1>2. Tree(tree, L, K)
  BY <1>1 DEF Sound
<1>3. Null \notin L
  BY <1>2, TreeFields
<1>4. ASSUME at = "idle" PROVE cur = Null /\ up = Null /\ Repaired(tree, L, b)
  BY <1>1, <1>4 DEF Sound
<1>5. ASSUME NEW k \in Key, NEW v \in ValuesOf[k], Insert(k, v) PROVE IInv'
  <2>1. v \in Value
    BY KeyAssumption
  <2>2. at = "idle" /\ at' = "fixInsert" /\ up' = up
    BY <1>5 DEF Insert
  <2>3. PICK n, p : Inserted(L, K, n, k, v, p)
    BY <1>2, <1>5, <2>1, InsertIs
  <2>4. PICK M : M = L \cup {n}
    OBVIOUS
  <2>5. Repaired(tree, L, b) /\ up = Null /\ cur' = n
    BY <1>4, <2>2, <2>3 DEF Inserted
  <2>6. PICK J, d : Tree(tree', M, J) /\ Growing(tree', M, d, n)
    BY <1>2, <2>1, <2>3, <2>4, <2>5, InsertKeeps
  <2>7. Sound(M, J, d)'
    BY <2>2, <2>5, <2>6 DEF Sound
  <2>. QED
    BY <2>7, LiveNext
<1>6. ASSUME NEW k \in Key, NEW v \in ValuesOf[k], Assign(k, v) PROVE IInv'
  <2>1. v \in Value
    BY KeyAssumption
  <2>2. at = "idle" /\ at' = at /\ cur' = cur /\ up' = up
    BY <1>6 DEF Assign
  <2>3. PICK n : Assigned(L, n, v)
    BY <1>2, <1>6, <2>1, AssignIs
  <2>4. Tree(tree', L, K) /\ Repaired(tree', L, b)
    BY <1>2, <1>4, <2>2, <2>3, AssignKeeps
  <2>5. Sound(L, K, b)'
    BY <1>4, <2>2, <2>4 DEF Sound
  <2>. QED
    BY <2>5, LiveNext
<1>7. ASSUME NEW k \in Key, Erase(k) PROVE IInv'
  <2>1. at = "idle"
    BY <1>7 DEF Erase
  <2>2. PICK n, v, c, p, s : Erased(L, K, n, k, v, c, p, s)
    BY <1>2, <1>7, EraseIs
  <2>3. PICK M : M = L \ {v}
    OBVIOUS
  <2>4. PICK J, d : /\ Tree(tree', M, J)
                    /\ IF Color(tree, v) = RED THEN Repaired(tree', M, d)
                       ELSE Shrinking(tree', M, d, c, p)
    BY <1>2, <1>4, <2>1, <2>2, <2>3, EraseKeeps
  <2>5. RED # BLACK
    BY <1>2, TreeFields, ColorIs
  <2>6. \/ Color(tree, v) = BLACK /\ at' = "fixErase" /\ cur' = c /\ up' = p
        \/ Color(tree, v) = RED /\ at' = at /\ cur' = cur /\ up' = up
    BY <2>2 DEF Erased
  <2>7. Sound(M, J, d)'
    BY <1>4, <2>1, <2>4, <2>5, <2>6 DEF Sound
  <2>. QED
    BY <2>7, LiveNext
<1>8. ASSUME Clear PROVE IInv'
  <2>1. tree' = Empty /\ at = "idle" /\ at' = at /\ cur' = cur /\ up' = up
    BY <1>8 DEF Clear
  <2>2. PICK J, d : Tree(tree', {}, J) /\ Repaired(tree', {}, d)
    BY <2>1, EmptyIsSound
  <2>3. Sound({}, J, d)'
    BY <1>4, <2>1, <2>2 DEF Sound
  <2>. QED
    BY <2>3, LiveNext
<1>9. ASSUME FixInsert PROVE IInv'
  <2>1. at = "fixInsert" /\ at' = at /\ up' = up
    BY <1>9 DEF FixInsert
  <2>2. up = Null /\ Growing(tree, L, b, cur)
    BY <1>1, <2>1 DEF Sound
  <2>3. PICK J, d : Tree(tree', L, J) /\ Growing(tree', L, d, cur')
    BY <1>2, <1>9, <2>2, FixInsertKeeps
  <2>4. Sound(L, J, d)'
    BY <2>1, <2>2, <2>3 DEF Sound
  <2>. QED
    BY <2>4, LiveNext
<1>10. ASSUME FixInsertEnds PROVE IInv'
  <2>1. at = "fixInsert" /\ at' = "idle" /\ cur' = Null /\ up' = Null
    BY <1>10 DEF FixInsertEnds, Finish
  <2>2. Growing(tree, L, b, cur)
    BY <1>1, <2>1 DEF Sound
  <2>3. PICK d : Tree(tree', L, K) /\ Repaired(tree', L, d)
    BY <1>2, <1>10, <2>2, FixInsertEndsKeeps
  <2>4. Sound(L, K, d)'
    BY <2>1, <2>3 DEF Sound
  <2>. QED
    BY <2>4, LiveNext
<1>11. ASSUME FixErase PROVE IInv'
  <2>1. at = "fixErase" /\ at' = at
    BY <1>11 DEF FixErase
  <2>2. Shrinking(tree, L, b, cur, up)
    BY <1>1, <2>1 DEF Sound
  <2>3. PICK J, d : Tree(tree', L, J) /\ Shrinking(tree', L, d, cur', up')
    BY <1>2, <1>11, <2>2, FixEraseKeeps
  <2>4. Sound(L, J, d)'
    BY <2>1, <2>3 DEF Sound
  <2>. QED
    BY <2>4, LiveNext
<1>12. ASSUME FixEraseEnds PROVE IInv'
  <2>1. at = "fixErase" /\ at' = "idle" /\ cur' = Null /\ up' = Null
    BY <1>12 DEF FixEraseEnds, Finish
  <2>2. Shrinking(tree, L, b, cur, up)
    BY <1>1, <2>1 DEF Sound
  <2>3. PICK d : Tree(tree', L, K) /\ Repaired(tree', L, d)
    BY <1>2, <1>12, <2>2, FixEraseEndsKeeps
  <2>4. Sound(L, K, d)'
    BY <2>1, <2>3 DEF Sound
  <2>. QED
    BY <2>4, LiveNext
<1>13. CASE UNCHANGED vars
  BY <1>13 DEF IInv, Sound, Live, vars
<1>. QED
  BY <1>5, <1>6, <1>7, <1>8, <1>9, <1>10, <1>11, <1>12, <1>13 DEF Next, Repair

\* No step of an insertion or an erasure breaks the order of the keys, and each
\* round of fix_insert and fix_erase leaves the colours wrong in one place at
\* most, the one the next round looks at.
THEOREM TreeStaysSound == Spec => []IInv
<1>1. Init => IInv
  BY InitIsSound
<1>2. IInv /\ [Next]_vars => IInv'
  BY NextIsSound
<1>. QED
  BY <1>1, <1>2, PTL DEF Spec

-----------------------------------------------------------------------------
(* What follows of it. *)

\* The black nodes on the ways down are those the ranks count.
LEMMA BlackHeightIs ==
    ASSUME NEW T, NEW L, NEW K, Tree(T, L, K), NEW b, Ranks(T, L, b, Null, "left")
    PROVE  BlackHeight(T) \in Nat
<1>1. Null \notin L /\ DOMAIN T.heap = L /\ T.root \in L \cup {Null} /\ Heap(T, L)
      /\ \A n \in L : T.heap[n].left \in L \cup {Null} /\ T.heap[n].right \in L \cup {Null}
  BY TreeFields, HeapDomain DEF Side
<1>2. b \in [L \cup {Null} -> Nat] /\ b[Null] = 0
  BY DEF Ranks, Ranked
<1>3. ASSUME NEW n \in L
      PROVE  /\ b[T.heap[n].left] \in Nat /\ b[T.heap[n].right] \in Nat
             /\ b[T.heap[n].left] = b[T.heap[n].right]
             /\ b[n] = b[T.heap[n].left] + IF T.heap[n].color = BLACK THEN 1 ELSE 0
  <2>1. \A s \in Side : b[n] = b[T.heap[n][s]] + Missing(n, s, Null, "left") + Dark(T, n)
    BY DEF Ranks, RankAt
  <2>2. PICK l, r, x : l = b[T.heap[n].left] /\ r = b[T.heap[n].right] /\ x = Dark(T, n)
    OBVIOUS
  <2>3. \A s \in Side : Missing(n, s, Null, "left") = 0
    BY <1>1 DEF Missing
  <2>4. b[n] = l + 0 + x /\ b[n] = r + 0 + x
    BY <2>1, <2>2, <2>3 DEF Side
  <2>5. l \in Nat /\ r \in Nat
    BY <1>1, <1>2, <2>2
  <2>6. x = IF T.heap[n].color = BLACK THEN 1 ELSE 0
    BY <1>1, <2>2 DEF Dark, Color
  <2>7. l = r /\ b[n] = l + x
    BY <2>4, <2>5, <2>6
  <2>. QED
    BY <2>2, <2>5, <2>6, <2>7
<1>. DEFINE Counts(f) ==
        f = [n \in DOMAIN T.heap \cup {Null} |->
               IF n = Null THEN 0
               ELSE LET l == f[T.heap[n].left]
                        r == f[T.heap[n].right]
                    IN  IF l # r \/ l = -1 THEN -1
                        ELSE l + IF T.heap[n].color = BLACK THEN 1 ELSE 0]
<1>4. Counts(b)
  <2>1. ASSUME NEW n \in L \cup {Null}
        PROVE  b[n] = IF n = Null THEN 0
                      ELSE LET l == b[T.heap[n].left]
                               r == b[T.heap[n].right]
                           IN  IF l # r \/ l = -1 THEN -1
                               ELSE l + IF T.heap[n].color = BLACK THEN 1 ELSE 0
    <3>1. CASE n = Null
      BY <1>2, <3>1
    <3>2. CASE n # Null
      <4>1. n \in L
        BY <3>2
      <4>. QED
        BY <1>3, <3>2, <4>1
    <3>. QED
      BY <3>1, <3>2
  <2>. QED
    BY <1>1, <1>2, <2>1
<1>5. PICK f : f = CHOOSE g : Counts(g)
  OBVIOUS
<1>6. BlackHeight(T) = f[T.root]
  BY <1>5 DEF BlackHeight
<1>7. Counts(f)
  <2>. HIDE DEF Counts
  <2>. QED
    BY <1>4, <1>5
<1>8. \A n \in L \cup {Null} :
         f[n] = IF n = Null THEN 0
                ELSE IF f[T.heap[n].left] # f[T.heap[n].right] \/ f[T.heap[n].left] = -1 THEN -1
                     ELSE f[T.heap[n].left] + IF T.heap[n].color = BLACK THEN 1 ELSE 0
  BY <1>1, <1>7
<1>. HIDE DEF Counts
<1>9. PICK P : P = {n \in L \cup {Null} : f[n] = b[n]}
  OBVIOUS
<1>10. Null \in P
  BY <1>2, <1>8, <1>9
<1>11. ASSUME NEW n \in L, T.heap[n].left \in P, T.heap[n].right \in P PROVE n \in P
  <2>1. f[T.heap[n].left] = b[T.heap[n].left] /\ f[T.heap[n].right] = b[T.heap[n].right] /\ n # Null
    BY <1>1, <1>9, <1>11
  <2>2. f[n] = b[n]
    BY <1>3, <1>8, <2>1
  <2>. QED
    BY <1>9, <2>2
<1>12. L \subseteq P
  BY <1>10, <1>11, TreeInduction
<1>. QED
  BY <1>1, <1>2, <1>6, <1>9, <1>10, <1>12

LEMMA TypeHolds == IInv => TypeOK
<1>1. SUFFICES ASSUME IInv PROVE TypeOK
  OBVIOUS
<1>2. PICK L, K, b : L = Live /\ Sound(L, K, b)
  BY <1>1 DEF IInv
<1>3. Heap(tree, L)
  BY <1>2, TreeFields DEF Sound
<1>4. PICK C : C = Cell(L)
  OBVIOUS
<1>5. tree.root \in L \cup {Null} /\ L \subseteq Node /\ tree.heap \in [L -> C]
  BY <1>3, <1>4 DEF Heap
<1>6. C = [key : Key, value : Value, parent : Live \cup {Null}, left : Live \cup {Null},
           right : Live \cup {Null}, color : {RED, BLACK}]
  BY <1>2, <1>4 DEF Cell
<1>7. at \in {"idle", "fixInsert", "fixErase"} /\ cur \in L \cup {Null} /\ up \in L \cup {Null}
  BY <1>2 DEF Sound, Growing, Shrinking
<1>. QED
  BY <1>2, <1>5, <1>6, <1>7 DEF TypeOK

\* At every moment links lead to nodes in use only.
THEOREM TypeCorrect == Spec => []TypeOK
<1>1. Spec => []IInv
  BY TreeStaysSound
<1>2. IInv => TypeOK
  BY TypeHolds
<1>. QED
  BY <1>1, <1>2, PTL

LEMMA BalanceHolds == IInv => Balanced
<1>1. SUFFICES ASSUME IInv, at = "idle"
               PROVE  /\ Color(tree, tree.root) = BLACK
                      /\ \A n \in Live : tree.heap[n].color = RED =>
                            Color(tree, tree.heap[n].parent) = BLACK
                      /\ BlackHeight(tree) # -1
  BY DEF Balanced
<1>2. PICK L, K, b : L = Live /\ Tree(tree, L, K) /\ Repaired(tree, L, b)
  BY <1>1 DEF IInv, Sound
<1>3. BlackHeight(tree) # -1
  <2>1. BlackHeight(tree) \in Nat
    BY <1>2, BlackHeightIs DEF Repaired
  <2>. QED
    BY <2>1
<1>4. Color(tree, tree.root) = BLACK /\ Reds(tree, L, Null, Null) /\ Heap(tree, L) /\ Null \notin L
  BY <1>2, TreeFields DEF Repaired
<1>5. ASSUME NEW n \in L, tree.heap[n].color = RED PROVE Color(tree, tree.heap[n].parent) = BLACK
  <2>1. PICK p : p = tree.heap[n].parent
    OBVIOUS
  <2>2. CASE n = tree.root
    <3>1. Color(tree, n) = RED /\ RED # BLACK
      BY <1>4, <1>5, ColorIs
    <3>. QED
      BY <1>4, <2>2, <3>1
  <2>3. CASE n # tree.root
    <3>1. PICK s \in Side : s = SideOf(tree, p, n)
      BY DEF SideOf, Side
    <3>2. p \in L /\ tree.heap[p][s] = n
      BY <1>2, <2>1, <2>3, <3>1, ParentIs
    <3>3. Color(tree, n) = RED
      BY <1>4, <1>5, ColorIs
    <3>4. Color(tree, p) # RED
      BY <1>4, <3>2, <3>3 DEF Reds, RedAt
    <3>. QED
      BY <1>4, <2>1, <3>2, <3>4, ColorIs
  <2>. QED
    BY <2>2, <2>3
<1>. QED
  BY <1>2, <1>3, <1>4, <1>5

\* After every call of the map the tree is balanced, however many records the
\* tables have.
THEOREM TreeStaysBalanced == Spec => []Balanced
<1>1. Spec => []IInv
  BY TreeStaysSound
<1>2. IInv => Balanced
  BY BalanceHolds
<1>. QED
  BY <1>1, <1>2, PTL

-----------------------------------------------------------------------------
(* The map it is. *)

\* The keys of these nodes, each with the value of its node.
Describes(c, T, L) ==
    /\ c = [k \in DOMAIN c |-> c[k]]
    /\ DOMAIN c = {T.heap[n].key : n \in L}
    /\ \A n \in L : c[T.heap[n].key] = T.heap[n].value

ContentOf(T) == [k \in {x \in Key : Find(T, x) # Null} |-> T.heap[Find(T, k)].value]

LEMMA ContentIs ==
    ASSUME NEW T, NEW L, NEW K, Tree(T, L, K)
    PROVE  \A c : Describes(c, T, L) <=> c = ContentOf(T)
<1>1. /\ \A n \in L : T.heap[n].key \in Key /\ T.heap[n].key \in Int
      /\ Null \notin L
  BY TreeFields, CellFields
<1>2. ASSUME NEW n \in L PROVE Find(T, T.heap[n].key) = n
  <2>1. PICK k \in Int : k = T.heap[n].key
    BY <1>1
  <2>2. FoundAt(T, L, k, n)
    BY <1>1, <2>1 DEF FoundAt
  <2>. QED
    BY <2>1, <2>2, Finds
<1>3. ASSUME NEW k \in Key, Find(T, k) # Null
      PROVE  Find(T, k) \in L /\ T.heap[Find(T, k)].key = k
  <2>1. k \in Int
    BY KeyAssumption
  <2>2. FoundAt(T, L, k, Find(T, k))
    BY <2>1, Finds
  <2>. QED
    BY <1>3, <2>2 DEF FoundAt
<1>4. PICK F : F = {k \in Key : Find(T, k) # Null}
  OBVIOUS
<1>5. F = {T.heap[n].key : n \in L}
  BY <1>1, <1>2, <1>3, <1>4
<1>6. PICK d : d = ContentOf(T)
  OBVIOUS
<1>7. d = [k \in F |-> T.heap[Find(T, k)].value]
  BY <1>4, <1>6 DEF ContentOf
<1>8. \A n \in L : d[T.heap[n].key] = T.heap[n].value
  BY <1>2, <1>5, <1>7
<1>9. DOMAIN d = F /\ d = [k \in DOMAIN d |-> d[k]]
  BY <1>7
<1>10. Describes(d, T, L)
  BY <1>5, <1>8, <1>9 DEF Describes
<1>11. ASSUME NEW c, Describes(c, T, L) PROVE c = d
  <2>1. c = [k \in DOMAIN c |-> c[k]] /\ DOMAIN c = F
        /\ \A n \in L : c[T.heap[n].key] = T.heap[n].value
    BY <1>5, <1>11 DEF Describes
  <2>2. \A k \in F : c[k] = d[k]
    BY <1>5, <1>8, <2>1
  <2>. QED
    BY <1>9, <2>1, <2>2
<1>. QED
  BY <1>6, <1>10, <1>11

\* Where keys and values stay, the map does.
LEMMA SameContent ==
    ASSUME NEW T, NEW U, NEW L, NEW K, NEW J, Tree(T, L, K), Tree(U, L, J), SameKeys(T, U)
    PROVE  ContentOf(U) = ContentOf(T)
<1>1. PICK c : c = ContentOf(T)
  OBVIOUS
<1>2. Describes(c, T, L) /\ DOMAIN T.heap = L
  BY <1>1, ContentIs, TreeFields, HeapDomain
<1>3. \A n \in L : U.heap[n].key = T.heap[n].key /\ U.heap[n].value = T.heap[n].value
  BY <1>2 DEF SameKeys
<1>4. Describes(c, U, L)
  BY <1>2, <1>3 DEF Describes
<1>. QED
  BY <1>1, <1>4, ContentIs

LEMMA EmptyContent == ContentOf(Empty) = << >>
<1>1. PICK K : Tree(Empty, {}, K)
  BY EmptyIsSound
<1>2. PICK c : c = << >>
  OBVIOUS
<1>3. Describes(c, Empty, {})
  BY <1>2 DEF Describes
<1>. QED
  BY <1>1, <1>2, <1>3, ContentIs

LEMMA InsertMaps ==
    ASSUME NEW L, NEW K, Tree(tree, L, K), NEW b, Repaired(tree, L, b),
           NEW k \in Key, NEW v \in Value, NEW n, NEW p, Inserted(L, K, n, k, v, p),
           NEW c, c = ContentOf(tree)
    PROVE  /\ k \notin DOMAIN c
           /\ ContentOf(tree') = [x \in DOMAIN c \cup {k} |-> IF x = k THEN v ELSE c[x]]
<1>1. PICK M, U : M = L \cup {n} /\ U = tree'
  OBVIOUS
<1>2. n \notin L /\ (\A m \in L : tree.heap[m].key # k) /\ PlacedAt(tree, U, L, n, k, v, p)
  BY <1>1 DEF Inserted
<1>3. Describes(c, tree, L)
  BY ContentIs
<1>4. k \notin DOMAIN c
  BY <1>2, <1>3 DEF Describes
<1>5. ASSUME NEW m \in L
      PROVE  U.heap[m]["key"] = tree.heap[m]["key"] /\ U.heap[m]["value"] = tree.heap[m]["value"]
  <2>1. Toward(tree, p, k) \notin {"key", "value"}
    BY DEF Toward
  <2>. QED
    BY <1>2, <2>1 DEF PlacedAt, Field
<1>6. U.heap[n].key = k /\ U.heap[n].value = v
  BY <1>2 DEF PlacedAt
<1>7. PICK d : d = [x \in DOMAIN c \cup {k} |-> IF x = k THEN v ELSE c[x]]
  OBVIOUS
<1>8. DOMAIN d = {U.heap[m].key : m \in M}
  <2>1. {U.heap[m].key : m \in M} = {tree.heap[m].key : m \in L} \cup {k}
    BY <1>1, <1>2, <1>5, <1>6
  <2>. QED
    BY <1>3, <1>7, <2>1 DEF Describes
<1>9. ASSUME NEW m \in M PROVE d[U.heap[m].key] = U.heap[m].value
  <2>1. CASE m = n
    BY <1>6, <1>7, <2>1
  <2>2. CASE m \in L
    <3>1. PICK x : x = tree.heap[m].key
      OBVIOUS
    <3>2. x \in DOMAIN c /\ x # k /\ c[x] = tree.heap[m].value
      BY <1>2, <1>3, <2>2, <3>1 DEF Describes
    <3>. QED
      BY <1>5, <1>7, <2>2, <3>1, <3>2
  <2>. QED
    BY <1>1, <2>1, <2>2
<1>10. Describes(d, U, M)
  <2>1. d = [x \in DOMAIN d |-> d[x]]
    BY <1>7
  <2>. QED
    BY <1>8, <1>9, <2>1 DEF Describes
<1>11. \E J : Tree(U, M, J)
  BY <1>1, InsertKeeps
<1>12. d = ContentOf(U)
  BY <1>10, <1>11, ContentIs
<1>. QED
  BY <1>1, <1>4, <1>7, <1>12

LEMMA AssignMaps ==
    ASSUME NEW L, NEW K, Tree(tree, L, K), NEW k, NEW v, NEW n,
           Assigned(L, n, v), tree.heap[n].key = k, NEW c, c = ContentOf(tree)
    PROVE  ContentOf(tree') = [x \in DOMAIN c \cup {k} |-> IF x = k THEN v ELSE c[x]]
<1>1. PICK U : U = tree'
  OBVIOUS
<1>2. n \in L /\ \A m \in L : /\ U.heap[m].value = IF m = n THEN v ELSE tree.heap[m].value
                              /\ \A g \in Field \ {"value"} : U.heap[m][g] = tree.heap[m][g]
  BY <1>1 DEF Assigned
<1>3. \A m \in L : U.heap[m]["key"] = tree.heap[m]["key"]
  BY <1>2 DEF Field
<1>4. Describes(c, tree, L)
  BY ContentIs
<1>5. PICK d : d = [x \in DOMAIN c \cup {k} |-> IF x = k THEN v ELSE c[x]]
  OBVIOUS
<1>6. k \in DOMAIN c
  BY <1>2, <1>4 DEF Describes
<1>7. DOMAIN d = {U.heap[m].key : m \in L}
  BY <1>3, <1>4, <1>5, <1>6 DEF Describes
<1>8. ASSUME NEW m \in L PROVE d[U.heap[m].key] = U.heap[m].value
  <2>1. CASE m = n
    BY <1>2, <1>3, <1>5, <2>1
  <2>2. CASE m # n
    <3>1. PICK x : x = tree.heap[m].key
      OBVIOUS
    <3>2. x \in DOMAIN c /\ c[x] = tree.heap[m].value
      BY <1>4, <3>1 DEF Describes
    <3>3. x # k
      BY <1>2, <2>2, <3>1, KeysDiffer
    <3>. QED
      BY <1>2, <1>3, <1>5, <2>2, <3>1, <3>2, <3>3
  <2>. QED
    BY <2>1, <2>2
<1>9. Describes(d, U, L)
  <2>1. d = [x \in DOMAIN d |-> d[x]]
    BY <1>5
  <2>. QED
    BY <1>7, <1>8, <2>1 DEF Describes
<1>10. Tree(U, L, K)
  BY <1>1, AssignKeeps
<1>. QED
  BY <1>1, <1>5, <1>9, <1>10, ContentIs

LEMMA EraseMaps ==
    ASSUME NEW L, NEW K, Tree(tree, L, K), NEW b, Repaired(tree, L, b),
           NEW n, NEW k, NEW v, NEW e, NEW p, NEW s, Erased(L, K, n, k, v, e, p, s),
           NEW c, c = ContentOf(tree)
    PROVE  k \in DOMAIN c /\ ContentOf(tree') = [x \in DOMAIN c \ {k} |-> c[x]]
<1>1. PICK M, U : M = L \ {v} /\ U = tree'
  OBVIOUS
<1>2. /\ n \in L /\ tree.heap[n].key = k /\ v \in L
      /\ \A m \in M : /\ U.heap[m].key = IF m = n THEN tree.heap[v].key ELSE tree.heap[m].key
                      /\ U.heap[m].value = IF m = n THEN tree.heap[v].value ELSE tree.heap[m].value
  BY <1>1 DEF Erased, Taken, CutOut
<1>3. Describes(c, tree, L)
  BY ContentIs
<1>4. \A x, y \in L : tree.heap[x].key = tree.heap[y].key => x = y
  BY KeysDiffer
<1>5. PICK d : d = [x \in DOMAIN c \ {k} |-> c[x]]
  OBVIOUS
<1>6. k \in DOMAIN c
  BY <1>2, <1>3 DEF Describes
<1>7. \* Each node that stays has the key and value of another one than n.
      ASSUME NEW m \in M
      PROVE  \E y \in L \ {n} : U.heap[m].key = tree.heap[y].key /\ U.heap[m].value = tree.heap[y].value
  <2>1. CASE m = n
    BY <1>1, <1>2, <2>1
  <2>2. CASE m # n
    BY <1>1, <1>2, <2>2
  <2>. QED
    BY <2>1, <2>2
<1>8. ASSUME NEW y \in L \ {n} PROVE \E m \in M : U.heap[m].key = tree.heap[y].key
  <2>1. CASE y = v
    <3>1. n \in M
      BY <1>1, <1>2, <2>1
    <3>. QED
      BY <1>2, <2>1, <3>1
  <2>2. CASE y # v
    <3>1. y \in M
      BY <1>1, <2>2
    <3>. QED
      BY <1>2, <3>1
  <2>. QED
    BY <2>1, <2>2
<1>9. DOMAIN d = {U.heap[m].key : m \in M}
  <2>1. DOMAIN d = {tree.heap[y].key : y \in L \ {n}}
    BY <1>2, <1>3, <1>4, <1>5 DEF Describes
  <2>. QED
    BY <1>7, <1>8, <2>1
<1>10. ASSUME NEW m \in M PROVE d[U.heap[m].key] = U.heap[m].value
  <2>1. PICK y \in L \ {n} : U.heap[m].key = tree.heap[y].key /\ U.heap[m].value = tree.heap[y].value
    BY <1>7
  <2>2. PICK x : x = tree.heap[y].key
    OBVIOUS
  <2>3. x \in DOMAIN c /\ c[x] = tree.heap[y].value /\ x # k
    BY <1>2, <1>3, <1>4, <2>2 DEF Describes
  <2>. QED
    BY <1>5, <2>1, <2>2, <2>3
<1>11. Describes(d, U, M)
  <2>1. d = [x \in DOMAIN d |-> d[x]]
    BY <1>5
  <2>. QED
    BY <1>9, <1>10, <2>1 DEF Describes
<1>12. \E J : Tree(U, M, J)
  BY <1>1, EraseKeeps
<1>13. d = ContentOf(U)
  BY <1>11, <1>12, ContentIs
<1>. QED
  BY <1>1, <1>5, <1>6, <1>13

\* The repairs leave the map as it is.
LEMMA RepairMaps == IInv /\ (Repair \/ UNCHANGED vars) => UNCHANGED Content
<1>. SUFFICES ASSUME IInv, Repair \/ UNCHANGED vars PROVE UNCHANGED Content
  OBVIOUS
<1>1. PICK L, K, b : L = Live /\ Sound(L, K, b)
  BY DEF IInv
<1>2. Tree(tree, L, K)
  BY <1>1 DEF Sound
<1>3. Content = ContentOf(tree) /\ Content' = ContentOf(tree')
  BY DEF Content, Found, ContentOf
<1>4. ASSUME NEW J, Tree(tree', L, J), SameKeys(tree, tree') PROVE UNCHANGED Content
  BY <1>2, <1>3, <1>4, SameContent
<1>5. ASSUME FixInsert PROVE UNCHANGED Content
  <2>1. Growing(tree, L, b, cur)
    BY <1>1, <1>5 DEF Sound, FixInsert
  <2>2. (\E J : Tree(tree', L, J)) /\ SameKeys(tree, tree')
    BY <1>2, <1>5, <2>1, FixInsertKeeps
  <2>. QED
    BY <1>4, <2>2
<1>6. ASSUME FixInsertEnds PROVE UNCHANGED Content
  <2>1. Growing(tree, L, b, cur)
    BY <1>1, <1>6 DEF Sound, FixInsertEnds
  <2>2. Tree(tree', L, K) /\ SameKeys(tree, tree')
    BY <1>2, <1>6, <2>1, FixInsertEndsKeeps
  <2>. QED
    BY <1>4, <2>2
<1>7. ASSUME FixErase PROVE UNCHANGED Content
  <2>1. Shrinking(tree, L, b, cur, up)
    BY <1>1, <1>7 DEF Sound, FixErase
  <2>2. (\E J : Tree(tree', L, J)) /\ SameKeys(tree, tree')
    BY <1>2, <1>7, <2>1, FixEraseKeeps
  <2>. QED
    BY <1>4, <2>2
<1>8. ASSUME FixEraseEnds PROVE UNCHANGED Content
  <2>1. Shrinking(tree, L, b, cur, up)
    BY <1>1, <1>8 DEF Sound, FixEraseEnds
  <2>2. Tree(tree', L, K) /\ SameKeys(tree, tree')
    BY <1>2, <1>8, <2>1, FixEraseEndsKeeps
  <2>. QED
    BY <1>4, <2>2
<1>9. CASE UNCHANGED vars
  BY <1>3, <1>9 DEF vars
<1>. QED
  BY <1>5, <1>6, <1>7, <1>8, <1>9 DEF Repair

\* Every step of the tree is one of the map, or leaves it as it is.
LEMMA StepMaps == IInv /\ [Next]_vars => [Map!Next]_Content
<1>. SUFFICES ASSUME IInv, [Next]_vars PROVE [Map!Next]_Content
  OBVIOUS
<1>1. PICK L, K, b : L = Live /\ Sound(L, K, b)
  BY DEF IInv
<1>2. Tree(tree, L, K)
  BY <1>1 DEF Sound
<1>3. ASSUME at = "idle" PROVE Repaired(tree, L, b)
  BY <1>1, <1>3 DEF Sound
<1>4. Content = ContentOf(tree) /\ Content' = ContentOf(tree')
  BY DEF Content, Found, ContentOf
<1>5. PICK c : c = Content
  OBVIOUS
<1>6. ASSUME NEW k \in Key, NEW v \in ValuesOf[k], Insert(k, v) PROVE Map!Next
  <2>1. v \in Value /\ at = "idle"
    BY <1>6, KeyAssumption DEF Insert
  <2>2. PICK n, p : Inserted(L, K, n, k, v, p)
    BY <1>2, <1>6, <2>1, InsertIs
  <2>3. k \notin DOMAIN c /\ Content' = [x \in DOMAIN c \cup {k} |-> IF x = k THEN v ELSE c[x]]
    BY <1>2, <1>3, <1>4, <1>5, <2>1, <2>2, InsertMaps
  <2>4. Map!Insert(k, v)
    BY <1>5, <2>3 DEF Map!Insert, Map!With
  <2>. QED
    BY <2>4 DEF Map!Next
<1>7. ASSUME NEW k \in Key, NEW v \in ValuesOf[k], Assign(k, v) PROVE Map!Next
  <2>1. v \in Value
    BY KeyAssumption
  <2>2. PICK n : Assigned(L, n, v) /\ tree.heap[n].key = k
    BY <1>2, <1>7, <2>1, AssignIs
  <2>3. Content' = [x \in DOMAIN c \cup {k} |-> IF x = k THEN v ELSE c[x]]
    BY <1>2, <1>4, <1>5, <2>2, AssignMaps
  <2>4. Map!Assign(k, v)
    BY <1>5, <2>3 DEF Map!Assign, Map!With
  <2>. QED
    BY <2>4 DEF Map!Next
<1>8. ASSUME NEW k \in Key, Erase(k) PROVE Map!Next
  <2>1. at = "idle"
    BY <1>8 DEF Erase
  <2>2. PICK n, v, e, p, s : Erased(L, K, n, k, v, e, p, s)
    BY <1>2, <1>8, EraseIs
  <2>3. Content' = [x \in DOMAIN c \ {k} |-> c[x]]
    BY <1>2, <1>3, <1>4, <1>5, <2>1, <2>2, EraseMaps
  <2>4. Map!Erase(k)
    BY <1>5, <2>3 DEF Map!Erase
  <2>. QED
    BY <2>4 DEF Map!Next
<1>9. ASSUME Clear PROVE Map!Next
  <2>1. Content' = << >>
    BY <1>4, <1>9, EmptyContent DEF Clear
  <2>. QED
    BY <2>1 DEF Map!Next, Map!Clear
<1>10. CASE Repair \/ UNCHANGED vars
  BY <1>10, RepairMaps
<1>. QED
  BY <1>6, <1>7, <1>8, <1>9, <1>10 DEF Next

\* Whatever rotations and moves of data an insertion and an erasure make,
\* find answers at each moment as if the tree were a plain map.
THEOREM TreeIsAMap == Spec => ImplementsMap
<1>1. Init => Map!Init
  <2>1. SUFFICES ASSUME Init PROVE Content = << >>
    BY DEF Map!Init
  <2>2. Content = ContentOf(tree) /\ tree = Empty
    BY <2>1 DEF Content, Found, ContentOf, Init
  <2>. QED
    BY <2>2, EmptyContent
<1>2. IInv /\ [Next]_vars => [Map!Next]_Content
  BY StepMaps
<1>3. Spec => []IInv
  BY TreeStaysSound
<1>. QED
  BY <1>1, <1>2, <1>3, PTL DEF Spec, ImplementsMap, Map!Spec

\* The first node below the right child has the next key.
LEMMA FirstIsNext ==
    ASSUME NEW T, NEW L, NEW K, Tree(T, L, K), NEW n \in L, NEW v,
           T.heap[n].right \in L, First(T, K, T.heap[n].right, v)
    PROVE  /\ v \in L /\ T.heap[n].key < T.heap[v].key
           /\ \A x \in L : T.heap[n].key < T.heap[x].key => T.heap[v].key <= T.heap[x].key
<1>1. v \in L
  BY TreeFields DEF First
<1>2. \A x \in L : T.heap[x].key \in Int
  BY TreeFields
<1>3. PICK l, r : l = T.heap[n]["left"] /\ r = T.heap[n]["right"]
  OBVIOUS
<1>4. "left" \in Side /\ "right" \in Side /\ Opposite("right") = "left"
  BY DEF Side, Opposite
<1>5. n \in K[n] /\ K[n] = K[r] \cup {n} \cup K[l] /\ \A x \in K[r] : On(T, n, "right", x)
  BY <1>1, <1>3, <1>4, SplitIs
<1>6. \A x \in K[l] : On(T, n, "left", x)
  BY <1>1, <1>3, <1>4, SplitIs
<1>7. v \in K[r] /\ \A x \in K[r] : x = v \/ T.heap[v].key < T.heap[x].key
  BY <1>1, <1>3 DEF First
<1>8. T.heap[n].key < T.heap[v].key
  BY <1>5, <1>7 DEF On
<1>9. ASSUME NEW x \in L, T.heap[n].key < T.heap[x].key PROVE T.heap[v].key <= T.heap[x].key
  <2>1. CASE x \in K[r]
    BY <1>1, <1>2, <1>7, <2>1
  <2>2. CASE x \in K[l]
    <3>1. T.heap[x].key < T.heap[n].key
      BY <1>6, <2>2 DEF On
    <3>. QED
      BY <1>1, <1>2, <1>9, <3>1
  <2>3. CASE x \notin K[n]
    <3>1. PICK q \in Side : \A y \in K[n] : On(T, x, q, y)
      BY <1>1, <2>3, Outside
    <3>2. On(T, x, q, n) /\ On(T, x, q, v)
      BY <1>5, <1>7, <3>1
    <3>3. q # "right"
      BY <1>1, <1>2, <1>9, <3>2 DEF On
    <3>4. T.heap[v].key < T.heap[x].key
      BY <3>2, <3>3 DEF On, Side
    <3>. QED
      BY <1>1, <1>2, <3>4
  <2>4. x # n
    BY <1>1, <1>2, <1>9
  <2>. QED
    BY <1>5, <2>1, <2>2, <2>3, <2>4
<1>. QED
  BY <1>1, <1>8, <1>9

\* The victim is the node itself or the one with the next key.
LEMMA VictimIsNext ==
    ASSUME NEW T, NEW L, NEW K, Tree(T, L, K), NEW n, NEW v, NEW c, NEW p, NEW s,
           Taken(T, L, K, n, v, c, p, s), v # n
    PROVE  /\ T.heap[n].key < T.heap[v].key
           /\ \A x \in L : T.heap[n].key < T.heap[x].key => T.heap[v].key <= T.heap[x].key
<1>1. n \in L /\ T.heap[n].right \in L /\ First(T, K, T.heap[n].right, v)
  BY DEF Taken
<1>. QED
  BY <1>1, FirstIsNext

\* What an erasure leaves where it is.
LEMMA EraseStays ==
    ASSUME NEW L, NEW K, Tree(tree, L, K), NEW k, NEW n, NEW v, NEW c, NEW p, NEW s,
           Erased(L, K, n, k, v, c, p, s),
           NEW m \in L, tree.heap[m].key # k,
           \/ ~(tree.heap[m].key > k)
           \/ \E x \in L : tree.heap[x].key > k /\ ~(tree.heap[m].key <= tree.heap[x].key)
    PROVE  m \in L \ {v} /\ tree'.heap[m].key = tree.heap[m].key
<1>1. /\ n \in L /\ tree.heap[n].key = k /\ Taken(tree, L, K, n, v, c, p, s)
      /\ \A x \in L \ {v} : tree'.heap[x].key = IF x = n THEN tree.heap[v].key ELSE tree.heap[x].key
  BY DEF Erased, CutOut
<1>2. m # n
  BY <1>1
<1>3. m # v
  <2>1. SUFFICES ASSUME m = v PROVE FALSE
    OBVIOUS
  <2>2. /\ k < tree.heap[v].key
        /\ \A x \in L : k < tree.heap[x].key => tree.heap[v].key <= tree.heap[x].key
    BY <1>1, <1>2, <2>1, VictimIsNext
  <2>3. k \in Int /\ \A x \in L : tree.heap[x].key \in Int
    BY <1>1, TreeFields
  <2>. QED
    BY <2>1, <2>2, <2>3
<1>. QED
  BY <1>1, <1>2, <1>3

\* An erasure from a map at rest.
LEMMA ErasureStays ==
    ASSUME NEW L, NEW K, Tree(tree, L, K), NEW k \in Key, Erase(k),
           NEW j \in Found \ ({k} \cup NextKey(k)), NEW m, m = Find(tree, j)
    PROVE  m \in Live' /\ tree'.heap[m].key = j
<1>1. PICK n, v, c, p, s : Erased(L, K, n, k, v, c, p, s)
  BY EraseIs
<1>2. j \in Key /\ m # Null /\ j # k /\ j \in Int /\ k \in Int
  BY KeyAssumption DEF Found
<1>3. m \in L /\ tree.heap[m].key = j
  <2>1. FoundAt(tree, L, j, m)
    BY <1>2, Finds
  <2>. QED
    BY <1>2, <2>1 DEF FoundAt
<1>4. ~(j > k) \/ \E x \in L : tree.heap[x].key > k /\ ~(j <= tree.heap[x].key)
  <2>1. SUFFICES ASSUME j > k PROVE \E x \in L : tree.heap[x].key > k /\ ~(j <= tree.heap[x].key)
    OBVIOUS
  <2>2. PICK i \in Found : i > k /\ ~(j <= i)
    BY <2>1 DEF NextKey
  <2>3. PICK x : x = Find(tree, i)
    OBVIOUS
  <2>4. i \in Int /\ x # Null
    BY <2>3, KeyAssumption DEF Found
  <2>5. x \in L /\ tree.heap[x].key = i
    <3>1. FoundAt(tree, L, i, x)
      BY <2>3, <2>4, Finds
    <3>. QED
      BY <2>4, <3>1 DEF FoundAt
  <2>. QED
    BY <2>2, <2>5
<1>5. m \in L \ {v} /\ tree'.heap[m].key = j
  BY <1>1, <1>2, <1>3, <1>4, EraseStays
<1>6. Live' = L \ {v}
  <2>1. Heap(tree', L \ {v})
    BY <1>1 DEF Erased
  <2>. QED
    BY <2>1, HeapDomain DEF Live
<1>. QED
  BY <1>5, <1>6

LEMMA StepStays ==
    ASSUME IInv, [Next]_vars, NEW k \in Found, Found \ Found' = {k},
           NEW j \in Found \ ({k} \cup NextKey(k)), NEW m, m = Find(tree, j)
    PROVE  m \in Live' /\ tree'.heap[m].key = j
<1>1. PICK L, K, b : L = Live /\ Sound(L, K, b)
  BY DEF IInv
<1>2. Tree(tree, L, K)
  BY <1>1 DEF Sound
<1>3. Content = ContentOf(tree) /\ Content' = ContentOf(tree')
  BY DEF Content, Found, ContentOf
<1>4. Found = DOMAIN Content /\ Found' = DOMAIN Content'
  BY DEF Content
<1>5. PICK d : d = Content
  OBVIOUS
<1>6. [Map!Next]_Content
  BY StepMaps
<1>7. ASSUME NEW i \in Key, Erase(i) PROVE i = k
  <2>1. Repaired(tree, L, b)
    BY <1>1, <1>7 DEF Sound, Erase
  <2>2. PICK n, v, e, p, s : Erased(L, K, n, i, v, e, p, s)
    BY <1>2, <1>7, EraseIs
  <2>3. Content' = [x \in DOMAIN d \ {i} |-> d[x]]
    BY <1>2, <1>3, <1>5, <2>1, <2>2, EraseMaps
  <2>4. DOMAIN Content' = DOMAIN d \ {i}
    BY <2>3
  <2>. QED
    BY <1>4, <1>5, <2>4
<1>8. CASE \E i \in Key : Erase(i)
  <2>1. k \in Key /\ Erase(k)
    BY <1>7, <1>8
  <2>. QED
    BY <1>2, <2>1, ErasureStays
<1>9. ASSUME Clear PROVE FALSE
  <2>1. Content' = << >>
    BY <1>3, <1>9, EmptyContent DEF Clear
  <2>2. Found' = {}
    BY <1>4, <2>1
  <2>. QED
    BY <2>2
<1>10. ASSUME ~(\E i \in Key : Erase(i)), ~Clear PROVE FALSE
  <2>1. CASE \E i \in Key : \E v \in ValuesOf[i] : Insert(i, v) \/ Assign(i, v)
    <3>1. PICK i \in Key : \E v \in ValuesOf[i] : Insert(i, v) \/ Assign(i, v)
      BY <2>1
    <3>2. PICK v \in ValuesOf[i] : Insert(i, v) \/ Assign(i, v)
      BY <3>1
    <3>3. v \in Value
      BY <3>2, KeyAssumption
    <3>4. Content' = [x \in DOMAIN d \cup {i} |-> IF x = i THEN v ELSE d[x]]
      <4>1. CASE Insert(i, v)
        <5>1. Repaired(tree, L, b)
          BY <1>1, <4>1 DEF Sound, Insert
        <5>2. PICK n, p : Inserted(L, K, n, i, v, p)
          BY <1>2, <3>3, <4>1, InsertIs
        <5>. QED
          BY <1>2, <1>3, <1>5, <3>3, <5>1, <5>2, InsertMaps
      <4>2. CASE Assign(i, v)
        <5>1. PICK n : Assigned(L, n, v) /\ tree.heap[n].key = i
          BY <1>2, <3>3, <4>2, AssignIs
        <5>. QED
          BY <1>2, <1>3, <1>5, <5>1, AssignMaps
      <4>. QED
        BY <3>2, <4>1, <4>2
    <3>5. DOMAIN Content' = DOMAIN d \cup {i}
      BY <3>4
    <3>. QED
      BY <1>4, <1>5, <3>5
  <2>2. CASE Repair \/ UNCHANGED vars
    <3>1. Found' = Found
      BY <1>4, <2>2, RepairMaps
    <3>. QED
      BY <3>1
  <2>. QED
    BY <1>10, <2>1, <2>2 DEF Next
<1>. QED
  BY <1>8, <1>9, <1>10

\* A loop that erases entries it has passed goes on with the iterator it has.
THEOREM IteratorsStayWhereTheyAre == Spec => IteratorsStay
<1>1. Spec => []IInv
  BY TreeStaysSound
<1>2. ASSUME IInv, [Next]_vars
      PROVE  [LET gone == Found \ Found' IN
              \A k \in gone :
                 gone = {k} =>
                     \A j \in Found \ ({k} \cup NextKey(k)) :
                         LET n == Find(tree, j)
                         IN  n \in Live' /\ tree'.heap[n].key = j]_vars
  BY <1>2, StepStays
<1>. QED
  BY <1>1, <1>2, PTL DEF Spec, IteratorsStay

-----------------------------------------------------------------------------
(* A loop over the map. *)

\* The node after n in the order of keys, or Null.
Follower(T, L, n, x) ==
    IF x = Null THEN \A y \in L : T.heap[y].key <= T.heap[n].key
    ELSE /\ x \in L /\ T.heap[n].key < T.heap[x].key
         /\ \A y \in L : T.heap[n].key < T.heap[y].key => T.heap[x].key <= T.heap[y].key

\* The node after all that is below m.
Above(T, L, K, m, x) ==
    IF x = Null THEN \A y \in L \ K[m] : T.heap[y].key < T.heap[m].key
    ELSE /\ x \in L \ K[m] /\ T.heap[m].key < T.heap[x].key
         /\ \A y \in L \ K[m] : T.heap[y].key < T.heap[m].key \/ T.heap[x].key <= T.heap[y].key

LEMMA AboveOnce ==
    ASSUME NEW T, NEW L, NEW K, Tree(T, L, K), NEW m \in L, NEW x, NEW y,
           Above(T, L, K, m, x), Above(T, L, K, m, y)
    PROVE  x = y
<1>1. \A z \in L : T.heap[z].key \in Int
  BY TreeFields
<1>2. \A v, w : v = Null /\ w # Null => ~(Above(T, L, K, m, v) /\ Above(T, L, K, m, w))
  BY <1>1 DEF Above
<1>3. CASE x # Null /\ y # Null
  <2>1. /\ x \in L \ K[m] /\ T.heap[m].key < T.heap[x].key
        /\ \A z \in L \ K[m] : T.heap[z].key < T.heap[m].key \/ T.heap[x].key <= T.heap[z].key
    BY <1>3 DEF Above
  <2>2. /\ y \in L \ K[m] /\ T.heap[m].key < T.heap[y].key
        /\ \A z \in L \ K[m] : T.heap[z].key < T.heap[m].key \/ T.heap[y].key <= T.heap[z].key
    BY <1>3 DEF Above
  <2>3. T.heap[x].key = T.heap[y].key
    BY <1>1, <2>1, <2>2
  <2>. QED
    BY <2>1, <2>2, <2>3, KeysDiffer
<1>. QED
  BY <1>2, <1>3

\* One step down changes it or not.
LEMMA AboveStep ==
    ASSUME NEW T, NEW L, NEW K, Tree(T, L, K), NEW n \in L, NEW s \in Side,
           NEW m \in L, m = T.heap[n][s]
    PROVE  IF s = "left" THEN Above(T, L, K, m, n)
           ELSE \A x : Above(T, L, K, n, x) => Above(T, L, K, m, x)
<1>1. /\ Null \notin L /\ (\A x \in L : T.heap[x].key \in Int)
      /\ \A x \in L \cup {Null} : K[x] \subseteq L
  BY TreeFields
<1>2. PICK o, d : o = Opposite(s) /\ d = T.heap[n][o]
  OBVIOUS
<1>3. o \in Side /\ Opposite(o) = s /\ d \in L \cup {Null}
  BY <1>2, SideFields, TreeFields
<1>4. /\ m \in K[m] /\ n \in K[n] /\ n \notin K[m] /\ K[n] = K[m] \cup {n} \cup K[d]
      /\ \A x \in K[m] : On(T, n, s, x)
  BY <1>2, SplitIs DEF Side
<1>5. \A x \in K[d] : On(T, n, o, x)
  BY <1>2, <1>3, SplitIs
<1>6. \A y \in L \ K[n] : \/ T.heap[y].key < T.heap[m].key /\ T.heap[y].key < T.heap[n].key
                          \/ T.heap[m].key < T.heap[y].key /\ T.heap[n].key < T.heap[y].key
  <2>1. ASSUME NEW y \in L \ K[n]
        PROVE  \/ T.heap[y].key < T.heap[m].key /\ T.heap[y].key < T.heap[n].key
               \/ T.heap[m].key < T.heap[y].key /\ T.heap[n].key < T.heap[y].key
    <3>1. PICK q \in Side : \A z \in K[n] : On(T, y, q, z)
      BY Outside
    <3>. QED
      BY <1>4, <3>1 DEF On, Side
  <2>. QED
    BY <2>1
<1>7. CASE s = "left"
  <2>1. T.heap[m].key < T.heap[n].key
    BY <1>4, <1>7 DEF On
  <2>2. ASSUME NEW y \in L \ K[m]
        PROVE  T.heap[y].key < T.heap[m].key \/ T.heap[n].key <= T.heap[y].key
    <3>1. CASE y = n
      BY <1>1, <3>1
    <3>2. CASE y \in K[d]
      <4>1. T.heap[n].key < T.heap[y].key
        BY <1>2, <1>5, <1>7, <3>2 DEF On, Opposite
      <4>. QED
        BY <1>1, <4>1
    <3>3. CASE y \notin K[n]
      BY <1>1, <1>6, <3>3
    <3>. QED
      BY <1>4, <3>1, <3>2, <3>3
  <2>3. Above(T, L, K, m, n)
    BY <1>1, <1>4, <2>1, <2>2 DEF Above
  <2>. QED
    BY <1>7, <2>3
<1>8. CASE s = "right"
  <2>1. T.heap[n].key < T.heap[m].key
    BY <1>4, <1>8 DEF On
  <2>2. \A y \in K[d] : T.heap[y].key < T.heap[m].key
    <3>1. \A y \in K[d] : T.heap[y].key < T.heap[n].key /\ y \in L
      BY <1>1, <1>2, <1>3, <1>5, <1>8 DEF On, Opposite
    <3>. QED
      BY <1>1, <2>1, <3>1
  <2>3. ASSUME NEW x, Above(T, L, K, n, x) PROVE Above(T, L, K, m, x)
    <3>1. CASE x = Null
      <4>1. \A y \in L \ K[n] : T.heap[y].key < T.heap[n].key
        BY <2>3, <3>1 DEF Above
      <4>2. \A y \in L \ K[n] : T.heap[y].key < T.heap[m].key
        BY <1>1, <2>1, <4>1
      <4>3. \A y \in L \ K[m] : T.heap[y].key < T.heap[m].key
        BY <1>4, <2>1, <2>2, <4>2
      <4>. QED
        BY <3>1, <4>3 DEF Above
    <3>2. CASE x # Null
      <4>1. /\ x \in L \ K[n] /\ T.heap[n].key < T.heap[x].key
            /\ \A y \in L \ K[n] : T.heap[y].key < T.heap[n].key \/ T.heap[x].key <= T.heap[y].key
        BY <2>3, <3>2 DEF Above
      <4>2. T.heap[m].key < T.heap[x].key
        BY <1>1, <1>6, <4>1
      <4>3. \A y \in L \ K[n] : T.heap[y].key < T.heap[m].key \/ T.heap[x].key <= T.heap[y].key
        BY <1>1, <2>1, <4>1
      <4>4. \A y \in L \ K[m] : T.heap[y].key < T.heap[m].key \/ T.heap[x].key <= T.heap[y].key
        BY <1>4, <2>1, <2>2, <4>3
      <4>. QED
        BY <1>4, <3>2, <4>1, <4>2, <4>4 DEF Above
    <3>. QED
      BY <3>1, <3>2
  <2>. QED
    BY <1>8, <2>3
<1>. QED
  BY <1>7, <1>8 DEF Side

\* What a climb from m answers: the function within Following.
Climb(T) ==
    CHOOSE g : g = [m \in DOMAIN T.heap |->
                      LET p == T.heap[m].parent
                      IN  IF p # Null /\ T.heap[p].right = m THEN g[p] ELSE p]

LEMMA ClimbIs ==
    ASSUME NEW T, NEW L, NEW K, Tree(T, L, K), NEW f, f = Climb(T)
    PROVE  \A m \in L : Above(T, L, K, m, f[m])
<1>1. /\ Null \notin L /\ DOMAIN T.heap = L /\ T.root \in L \cup {Null} /\ K[T.root] = L
      /\ T.root # Null => T.heap[T.root].parent = Null
  BY TreeFields, HeapDomain DEF Tree
<1>2. T.root # Null => Above(T, L, K, T.root, Null)
  BY <1>1 DEF Above
<1>3. PICK P : P = {m \in L \cup {Null} : m # Null => \E x : Above(T, L, K, m, x)}
  OBVIOUS
<1>4. L \subseteq P
  <2>1. T.root \in P
    BY <1>1, <1>2, <1>3
  <2>2. ASSUME NEW n \in L \cap P, NEW s \in Side PROVE T.heap[n][s] \in P
    <3>1. PICK m : m = T.heap[n][s] /\ m \in L \cup {Null}
      BY TreeFields
    <3>2. \E x : Above(T, L, K, n, x)
      BY <1>1, <1>3, <2>2
    <3>3. m # Null => \E x : Above(T, L, K, m, x)
      BY <3>1, <3>2, AboveStep
    <3>. QED
      BY <1>3, <3>1, <3>3
  <2>. QED
    BY <2>1, <2>2, TreeDescent
<1>5. PICK w : w = [m \in L |-> CHOOSE x : Above(T, L, K, m, x)]
  OBVIOUS
<1>6. \A m \in L : Above(T, L, K, m, w[m])
  BY <1>1, <1>3, <1>4, <1>5
<1>. DEFINE Climbs(g) == g = [m \in DOMAIN T.heap |->
                                LET p == T.heap[m].parent
                                IN  IF p # Null /\ T.heap[p].right = m THEN g[p] ELSE p]
<1>7. ASSUME NEW m \in L
      PROVE  w[m] = LET p == T.heap[m].parent
                    IN  IF p # Null /\ T.heap[p].right = m THEN w[p] ELSE p
  <2>1. PICK p : p = T.heap[m].parent
    OBVIOUS
  <2>2. CASE m = T.root
    <3>1. p = Null /\ Above(T, L, K, m, Null)
      BY <1>1, <1>2, <2>1, <2>2
    <3>2. w[m] = Null
      BY <1>6, <3>1, AboveOnce
    <3>. QED
      BY <2>1, <3>1, <3>2
  <2>3. CASE m # T.root
    <3>1. PICK s \in Side : s = SideOf(T, p, m)
      BY DEF SideOf, Side
    <3>2. p \in L /\ T.heap[p][s] = m /\ \A q \in Side : T.heap[p][q] = m => q = s
      BY <2>1, <2>3, <3>1, ParentIs
    <3>3. CASE s = "left"
      <4>1. Above(T, L, K, m, p)
        BY <3>2, <3>3, AboveStep
      <4>2. w[m] = p
        BY <1>6, <4>1, AboveOnce
      <4>3. T.heap[p]["right"] # m
        BY <3>2, <3>3 DEF Side
      <4>. QED
        BY <2>1, <4>2, <4>3
    <3>4. CASE s = "right"
      <4>1. Above(T, L, K, m, w[p])
        BY <1>6, <3>2, <3>4, AboveStep
      <4>2. w[m] = w[p]
        BY <1>6, <4>1, AboveOnce
      <4>3. T.heap[p].right = m /\ p # Null
        BY <1>1, <3>2, <3>4
      <4>. QED
        BY <2>1, <4>2, <4>3
    <3>. QED
      BY <3>3, <3>4 DEF Side
  <2>. QED
    BY <2>2, <2>3
<1>8. Climbs(w)
  <2>1. w = [m \in L |-> w[m]]
    BY <1>5
  <2>2. w = [m \in L |-> LET p == T.heap[m].parent
                         IN  IF p # Null /\ T.heap[p].right = m THEN w[p] ELSE p]
    BY <1>7, <2>1
  <2>. QED
    BY <1>1, <2>2
<1>9. Climbs(f)
  <2>1. f = CHOOSE g : Climbs(g)
    BY DEF Climb
  <2>. HIDE DEF Climbs
  <2>. QED
    BY <1>8, <2>1
<1>10. \A m \in L : f[m] = LET p == T.heap[m].parent
                           IN  IF p # Null /\ T.heap[p].right = m THEN f[p] ELSE p
  <2>1. f = [m \in L |-> LET p == T.heap[m].parent
                         IN  IF p # Null /\ T.heap[p].right = m THEN f[p] ELSE p]
    BY <1>1, <1>9
  <2>. HIDE DEF Climbs
  <2>. QED
    BY ONLY <2>1
<1>. HIDE DEF Climbs
<1>11. PICK Q : Q = {m \in L \cup {Null} : m # Null => Above(T, L, K, m, f[m])}
  OBVIOUS
<1>12. T.root \in Q
  <2>1. T.root # Null => f[T.root] = Null
    BY <1>1, <1>10
  <2>. QED
    BY <1>1, <1>2, <1>11, <2>1
<1>13. ASSUME NEW n \in L \cap Q, NEW s \in Side PROVE T.heap[n][s] \in Q
  <2>1. PICK m : m = T.heap[n][s] /\ m \in L \cup {Null}
    BY TreeFields
  <2>2. SUFFICES ASSUME m \in L PROVE Above(T, L, K, m, f[m])
    BY <1>11, <2>1
  <2>3. T.heap[m].parent = n
    <3>1. T.heap[n][s] # Null => T.heap[T.heap[n][s]].parent = n
      BY ChildIs
    <3>. QED
      BY <1>1, <2>1, <2>2, <3>1
  <2>4. f[m] = IF T.heap[n].right = m THEN f[n] ELSE n
    <3>1. PICK p : p = T.heap[m].parent
      OBVIOUS
    <3>2. f[m] = IF p # Null /\ T.heap[p].right = m THEN f[p] ELSE p
      BY <1>10, <2>2, <3>1
    <3>3. p = n /\ n # Null
      BY <1>1, <2>3, <3>1
    <3>. QED
      BY <3>2, <3>3
  <2>5. CASE s = "left"
    <3>1. T.heap[n]["right"] # m
      <4>1. m # T.root /\ \A q \in Side : T.heap[n][q] = m => q = SideOf(T, n, m)
        BY <1>1, <2>2, <2>3, ParentIs
      <4>. QED
        BY <2>1, <2>5, <4>1 DEF Side
    <3>. QED
      BY <2>1, <2>2, <2>4, <2>5, <3>1, AboveStep
  <2>6. CASE s = "right"
    <3>1. f[m] = f[n]
      BY <2>1, <2>4, <2>6
    <3>2. Above(T, L, K, n, f[n])
      BY <1>1, <1>11
    <3>3. \A x : Above(T, L, K, n, x) => Above(T, L, K, m, x)
      BY <2>1, <2>2, <2>6, AboveStep
    <3>. QED
      BY <3>1, <3>2, <3>3
  <2>. QED
    BY <2>5, <2>6 DEF Side
<1>14. L \subseteq Q
  BY <1>12, <1>13, TreeDescent
<1>. QED
  BY <1>1, <1>11, <1>14

\* ++ leads to the node after.
LEMMA FollowingIs ==
    ASSUME NEW T, NEW L, NEW K, Tree(T, L, K), NEW n \in L
    PROVE  Follower(T, L, n, Following(T, n))
<1>1. /\ Null \notin L /\ (\A x \in L : T.heap[x].key \in Int) /\ K[Null] = {}
      /\ "left" \in Side /\ "right" \in Side /\ Opposite("left") = "right"
  BY TreeFields DEF Side, Opposite
<1>2. T.heap[n].right \in L \cup {Null}
  BY <1>1, TreeFields
<1>3. CASE T.heap[n].right # Null
  <2>1. Following(T, n) = Leftmost(T, T.heap[n].right)
    BY <1>3 DEF Following
  <2>2. First(T, K, T.heap[n].right, Following(T, n))
    BY <1>2, <1>3, <2>1, LeftmostIs
  <2>. QED
    BY <1>1, <1>2, <1>3, <2>2, FirstIsNext DEF Follower
<1>4. CASE T.heap[n].right = Null
  <2>1. PICK f : f = Climb(T)
    OBVIOUS
  <2>2. Following(T, n) = f[n]
    BY <1>4, <2>1 DEF Following, Climb
  <2>3. PICK x : x = f[n]
    OBVIOUS
  <2>4. Above(T, L, K, n, x)
    BY <2>1, <2>3, ClimbIs
  <2>5. PICK l : l = T.heap[n]["left"]
    OBVIOUS
  <2>6. K[n] = K[l] \cup {n} /\ \A y \in K[l] : On(T, n, "left", y)
    <3>1. K[n] = K[T.heap[n]["left"]] \cup {n} \cup K[T.heap[n]["right"]]
          /\ \A y \in K[T.heap[n]["left"]] : On(T, n, "left", y)
      BY <1>1, SplitIs
    <3>. QED
      BY <1>1, <1>4, <2>5, <3>1
  <2>7. \A y \in K[n] : T.heap[y].key <= T.heap[n].key /\ ~(T.heap[n].key < T.heap[y].key)
    <3>1. \A y \in K[l] : T.heap[y].key < T.heap[n].key /\ y \in L
      BY <1>1, <2>5, <2>6, TreeFields DEF On
    <3>. QED
      BY <1>1, <2>6, <3>1
  <2>8. CASE x = Null
    <3>1. \A y \in L \ K[n] : T.heap[y].key < T.heap[n].key
      BY <2>4, <2>8 DEF Above
    <3>2. \A y \in L : T.heap[y].key <= T.heap[n].key
      BY <1>1, <2>7, <3>1
    <3>. QED
      BY <2>2, <2>3, <2>8, <3>2 DEF Follower
  <2>9. CASE x # Null
    <3>1. /\ x \in L /\ T.heap[n].key < T.heap[x].key
          /\ \A y \in L \ K[n] : T.heap[y].key < T.heap[n].key \/ T.heap[x].key <= T.heap[y].key
      BY <2>4, <2>9 DEF Above
    <3>2. \A y \in L : T.heap[n].key < T.heap[y].key => T.heap[x].key <= T.heap[y].key
      BY <1>1, <2>7, <3>1
    <3>. QED
      BY <2>2, <2>3, <2>9, <3>1, <3>2 DEF Follower
  <2>. QED
    BY <2>8, <2>9
<1>. QED
  BY <1>2, <1>3, <1>4

\* begin() is at the least key.
Least(T, L, x) == IF x = Null THEN L = {} ELSE x \in L /\ \A y \in L : T.heap[x].key <= T.heap[y].key

LEMMA BeginIs ==
    ASSUME NEW T, NEW L, NEW K, Tree(T, L, K)
    PROVE  Least(T, L, Begin(T))
<1>1. T.root \in L \cup {Null} /\ Null \notin L /\ K[T.root] = L /\ K[Null] = {}
      /\ \A x \in L : T.heap[x].key \in Int
  BY TreeFields
<1>2. CASE T.root = Null
  BY <1>1, <1>2 DEF Begin, Least
<1>3. CASE T.root # Null
  <2>1. PICK v : v = Leftmost(T, T.root)
    OBVIOUS
  <2>2. First(T, K, T.root, v) /\ Begin(T) = v
    BY <1>1, <1>3, <2>1, LeftmostIs DEF Begin
  <2>3. v \in L /\ \A y \in L : T.heap[v].key <= T.heap[y].key
    BY <1>1, <2>2 DEF First
  <2>. QED
    BY <1>1, <2>2, <2>3 DEF Least
<1>. QED
  BY <1>2, <1>3

\* What holds at the end, and at a node if at the one after it, holds everywhere.
LEMMA LoopInduction ==
    ASSUME NEW T, NEW L, NEW K, Tree(T, L, K), NEW P, Null \in P,
           \A n \in L : Following(T, n) \in P => n \in P
    PROVE  L \subseteq P
<1>. SUFFICES ASSUME L \ P # {} PROVE FALSE
  OBVIOUS
<1>1. IsFiniteSet(L) /\ Null \notin L /\ \A x \in L : T.heap[x].key \in Int
  BY TreeFields
<1>2. PICK after : after = [n \in L |-> {y \in L : T.heap[n].key < T.heap[y].key}]
  OBVIOUS
<1>3. PICK Sizes : Sizes = {Cardinality(after[n]) : n \in L \ P}
  OBVIOUS
<1>4. \A n \in L : after[n] \subseteq L /\ IsFiniteSet(after[n]) /\ Cardinality(after[n]) \in Nat
  <2>1. ASSUME NEW n \in L
        PROVE  after[n] \subseteq L /\ IsFiniteSet(after[n]) /\ Cardinality(after[n]) \in Nat
    <3>1. after[n] \subseteq L
      BY <1>2
    <3>2. IsFiniteSet(after[n])
      BY <1>1, <3>1, FS_Subset
    <3>. QED
      BY <3>1, <3>2, FS_CardinalityType
  <2>. QED
    BY <2>1
<1>5. Sizes \subseteq Nat /\ Sizes # {}
  BY <1>3, <1>4
<1>6. PICK n \in L \ P : \A m \in L \ P : Cardinality(after[n]) <= Cardinality(after[m])
  <2>1. Min(Sizes) \in Sizes /\ \A x \in Sizes : Min(Sizes) <= x
    BY <1>5, MinIsLeast
  <2>2. PICK n \in L \ P : Min(Sizes) = Cardinality(after[n])
    BY <1>3, <2>1
  <2>. QED
    BY <1>3, <2>1, <2>2
<1>7. PICK x : x = Following(T, n)
  OBVIOUS
<1>8. x \in L \ P /\ T.heap[n].key < T.heap[x].key
  <2>1. Follower(T, L, n, x) /\ x \notin P
    BY <1>6, <1>7, FollowingIs
  <2>. QED
    BY <2>1 DEF Follower
<1>9. after[x] \subseteq after[n] /\ x \in after[n] /\ x \notin after[x]
  BY <1>1, <1>2, <1>8
<1>10. Cardinality(after[x]) < Cardinality(after[n])
  <2>1. IsFiniteSet(after[n]) /\ after[x] # after[n]
        /\ Cardinality(after[n]) \in Nat /\ Cardinality(after[x]) \in Nat
    BY <1>4, <1>8, <1>9
  <2>2. /\ Cardinality(after[x]) <= Cardinality(after[n])
        /\ Cardinality(after[x]) = Cardinality(after[n]) => after[x] = after[n]
    BY <1>9, <2>1, FS_Subset
  <2>. QED
    BY <2>1, <2>2
<1>. QED
  BY <1>4, <1>6, <1>8, <1>10

\* A function computed along a loop, from its end on.
Loops(f, T, L, V, b, step) ==
    /\ f \in [L \cup {Null} -> V] /\ f[Null] = b
    /\ \A n \in L : f[n] = step[<<n, f[Following(T, n)]>>]

\* The pairs of a node and what is computed there, as the least such relation.
LoopClosed(T, L, V, b, step, R) ==
    /\ R \subseteq (L \cup {Null}) \X V
    /\ <<Null, b>> \in R
    /\ \A n \in L : \A v \in V :
          <<Following(T, n), v>> \in R => <<n, step[<<n, v>>]>> \in R

LEMMA LoopRecursion ==
    ASSUME NEW T, NEW L, NEW K, Tree(T, L, K),
           NEW V, NEW b \in V, NEW step \in [L \X V -> V]
    PROVE  \E f : Loops(f, T, L, V, b, step)
<1>1. Null \notin L
  BY TreeFields
<1>2. PICK next : next = [n \in L |-> Following(T, n)]
  OBVIOUS
<1>3. \A n \in L : next[n] \in L \cup {Null}
  <2>1. \A n \in L : Follower(T, L, n, next[n])
    BY <1>2, FollowingIs
  <2>. QED
    BY <2>1 DEF Follower
<1>4. PICK N : N = L \cup {Null}
  OBVIOUS
<1>5. \A R : LoopClosed(T, L, V, b, step, R) <=>
                /\ R \subseteq N \X V /\ <<Null, b>> \in R
                /\ \A n \in L : \A v \in V : <<next[n], v>> \in R => <<n, step[<<n, v>>]>> \in R
  BY <1>2, <1>4 DEF LoopClosed
<1>6. PICK R : R = {x \in N \X V : \A S : LoopClosed(T, L, V, b, step, S) => x \in S}
  OBVIOUS
<1>7. \A n \in N, v \in V : <<n, v>> \in R <=>
         \A S : LoopClosed(T, L, V, b, step, S) => <<n, v>> \in S
  BY <1>6
<1>8. \A n \in L, v \in V : step[<<n, v>>] \in V
  OBVIOUS
<1>9. <<Null, b>> \in R
  BY <1>4, <1>5, <1>7
<1>10. ASSUME NEW n \in L, NEW v \in V, <<next[n], v>> \in R PROVE <<n, step[<<n, v>>]>> \in R
  <2>1. ASSUME NEW S, LoopClosed(T, L, V, b, step, S) PROVE <<n, step[<<n, v>>]>> \in S
    <3>1. <<next[n], v>> \in S
      BY <1>3, <1>4, <1>7, <1>10, <2>1
    <3>. QED
      BY <1>5, <2>1, <3>1
  <2>. QED
    BY <1>4, <1>7, <1>8, <2>1
<1>11. ASSUME NEW n \in N, NEW v \in V, <<n, v>> \in R
       PROVE  IF n = Null THEN v = b
              ELSE \E u \in V : <<next[n], u>> \in R /\ v = step[<<n, u>>]
  <2>1. PICK S : S = {x \in R : IF x[1] = Null THEN x[2] = b
                                ELSE \E u \in V : <<next[x[1]], u>> \in R /\ x[2] = step[<<x[1], u>>]}
    OBVIOUS
  <2>2. \A m \in N, w \in V : <<m, w>> \in S <=>
           /\ <<m, w>> \in R
           /\ IF m = Null THEN w = b ELSE \E u \in V : <<next[m], u>> \in R /\ w = step[<<m, u>>]
    BY <2>1
  <2>3. S \subseteq N \X V /\ S \subseteq R
    BY <1>6, <2>1
  <2>4. <<Null, b>> \in S
    BY <1>4, <1>9, <2>2
  <2>5. ASSUME NEW m \in L, NEW u \in V, <<next[m], u>> \in S PROVE <<m, step[<<m, u>>]>> \in S
    <3>1. <<next[m], u>> \in R
      BY <2>3, <2>5
    <3>2. <<m, step[<<m, u>>]>> \in R /\ step[<<m, u>>] \in V /\ m \in N /\ m # Null
      BY <1>1, <1>4, <1>8, <1>10, <3>1
    <3>. QED
      BY <2>2, <3>1, <3>2
  <2>6. LoopClosed(T, L, V, b, step, S)
    BY <1>5, <2>3, <2>4, <2>5
  <2>7. <<n, v>> \in S
    BY <1>7, <1>11, <2>6
  <2>. QED
    BY <2>2, <2>7
<1>12. PICK P : P = {n \in N : \E v \in V : <<n, v>> \in R /\ \A u \in V : <<n, u>> \in R => u = v}
  OBVIOUS
<1>13. L \subseteq P /\ Null \in P
  <2>1. Null \in P
    BY <1>4, <1>9, <1>11, <1>12
  <2>2. ASSUME NEW n \in L, Following(T, n) \in P PROVE n \in P
    <3>1. next[n] \in P
      BY <1>2, <2>2
    <3>2. PICK v \in V : <<next[n], v>> \in R /\ \A u \in V : <<next[n], u>> \in R => u = v
      BY <1>12, <3>1
    <3>3. <<n, step[<<n, v>>]>> \in R /\ step[<<n, v>>] \in V /\ n \in N /\ n # Null
      BY <1>1, <1>4, <1>8, <1>10, <3>2
    <3>4. \A w \in V : <<n, w>> \in R => w = step[<<n, v>>]
      BY <1>11, <3>2, <3>3
    <3>. QED
      BY <1>12, <3>3, <3>4
  <2>. QED
    BY <2>1, <2>2, LoopInduction
<1>14. PICK f : f = [n \in N |-> CHOOSE v \in V : <<n, v>> \in R]
  OBVIOUS
<1>15. ASSUME NEW n \in N
       PROVE  f[n] \in V /\ <<n, f[n]>> \in R /\ \A u \in V : <<n, u>> \in R => u = f[n]
  <2>1. PICK v \in V : <<n, v>> \in R /\ \A u \in V : <<n, u>> \in R => u = v
    BY <1>4, <1>12, <1>13
  <2>2. f[n] = CHOOSE u \in V : <<n, u>> \in R
    BY <1>14
  <2>3. f[n] \in V /\ <<n, f[n]>> \in R
    BY <2>1, <2>2
  <2>. QED
    BY <2>1, <2>3
<1>16. f \in [N -> V]
  BY <1>14, <1>15
<1>17. f[Null] = b
  BY <1>4, <1>9, <1>15
<1>18. ASSUME NEW n \in L PROVE f[n] = step[<<n, f[Following(T, n)]>>]
  <2>1. PICK x : x = next[n]
    OBVIOUS
  <2>2. x \in N /\ x = Following(T, n) /\ n \in N
    BY <1>2, <1>3, <1>4, <2>1
  <2>3. f[x] \in V /\ <<x, f[x]>> \in R
    BY <1>15, <2>2
  <2>4. <<n, step[<<n, f[x]>>]>> \in R /\ step[<<n, f[x]>>] \in V
    BY <1>8, <1>10, <2>1, <2>3
  <2>5. step[<<n, f[x]>>] = f[n]
    BY <1>15, <2>2, <2>4
  <2>. QED
    BY <2>2, <2>5
<1>19. Loops(f, T, L, V, b, step)
  BY <1>4, <1>16, <1>17, <1>18 DEF Loops
<1>. QED
  BY <1>19

\* The keys from n on, in order.
Listed(T, L, n, s) ==
    /\ s \in Seq(Int)
    /\ \A k : (\E i \in 1 .. Len(s) : s[i] = k) <=>
              \E y \in L : k = T.heap[y].key /\ n # Null /\ T.heap[n].key <= k
    /\ \A i, j \in 1 .. Len(s) : i < j => s[i] < s[j]

LEMMA ListedNext ==
    ASSUME NEW T, NEW L, NEW K, Tree(T, L, K), NEW n \in L, NEW x, Follower(T, L, n, x),
           NEW s, Listed(T, L, x, s), NEW t, t = <<T.heap[n].key>> \o s
    PROVE  Listed(T, L, n, t)
<1>1. Null \notin L /\ \A y \in L : T.heap[y].key \in Int
  BY TreeFields
<1>2. PICK k \in Int : k = T.heap[n].key
  BY <1>1
<1>3. /\ s \in Seq(Int)
      /\ \A m : (\E i \in 1 .. Len(s) : s[i] = m) <=>
                \E y \in L : m = T.heap[y].key /\ x # Null /\ T.heap[x].key <= m
      /\ \A i, j \in 1 .. Len(s) : i < j => s[i] < s[j]
  BY DEF Listed
<1>4. PICK a : a = <<k>>
  OBVIOUS
<1>5. a \in Seq(Int) /\ Len(a) = 1 /\ a[1] = k
  BY <1>4
<1>6. /\ t \in Seq(Int) /\ Len(t) = 1 + Len(s)
      /\ (\A j \in 1 .. 1 : t[j] = a[j]) /\ \A j \in 1 .. Len(s) : t[1 + j] = s[j]
  BY <1>2, <1>3, <1>4, <1>5, Concat
<1>7. t[1] = k /\ Len(s) \in Nat
  BY <1>3, <1>5, <1>6
<1>8. \A i \in 1 .. Len(t) : i = 1 \/ (i - 1 \in 1 .. Len(s) /\ t[i] = s[i - 1])
  <2>1. ASSUME NEW i \in 1 .. Len(t), i # 1 PROVE i - 1 \in 1 .. Len(s) /\ t[i] = s[i - 1]
    <3>1. i - 1 \in 1 .. Len(s) /\ 1 + (i - 1) = i
      BY <1>6, <1>7, <2>1
    <3>2. t[1 + (i - 1)] = s[i - 1]
      BY <1>6, <3>1
    <3>. QED
      BY <3>1, <3>2
  <2>. QED
    BY <2>1
<1>9. \A y \in L : k < T.heap[y].key <=> x # Null /\ T.heap[x].key <= T.heap[y].key
  BY <1>1, <1>2 DEF Follower
<1>10. \A j \in 1 .. Len(s) : s[j] \in Int /\ k < s[j]
  <2>1. ASSUME NEW j \in 1 .. Len(s) PROVE s[j] \in Int /\ k < s[j]
    <3>1. PICK y \in L : s[j] = T.heap[y].key /\ x # Null /\ T.heap[x].key <= s[j]
      BY <1>3
    <3>. QED
      BY <1>1, <1>9, <3>1
  <2>. QED
    BY <2>1
<1>11. ASSUME NEW i \in 1 .. Len(t), NEW j \in 1 .. Len(t), i < j PROVE t[i] < t[j]
  <2>1. j # 1
    BY <1>11
  <2>2. j - 1 \in 1 .. Len(s) /\ t[j] = s[j - 1]
    BY <1>8, <2>1
  <2>3. CASE i = 1
    BY <1>7, <1>10, <2>2, <2>3
  <2>4. CASE i # 1
    <3>1. i - 1 \in 1 .. Len(s) /\ t[i] = s[i - 1]
      BY <1>8, <2>4
    <3>2. i - 1 < j - 1
      BY <1>11
    <3>. QED
      BY <1>3, <2>2, <3>1, <3>2
  <2>. QED
    BY <2>3, <2>4
<1>12. ASSUME NEW m, NEW i \in 1 .. Len(t), t[i] = m
       PROVE  \E y \in L : m = T.heap[y].key /\ n # Null /\ T.heap[n].key <= m
  <2>1. CASE i = 1
    BY <1>1, <1>2, <1>7, <1>12, <2>1
  <2>2. CASE i # 1
    <3>1. i - 1 \in 1 .. Len(s) /\ m = s[i - 1]
      BY <1>8, <1>12, <2>2
    <3>2. PICK y \in L : m = T.heap[y].key
      BY <1>3, <3>1
    <3>3. k < m /\ m \in Int
      BY <1>10, <3>1
    <3>. QED
      BY <1>1, <1>2, <3>2, <3>3
  <2>. QED
    BY <2>1, <2>2
<1>13. ASSUME NEW m, NEW y \in L, m = T.heap[y].key, T.heap[n].key <= m
       PROVE  \E i \in 1 .. Len(t) : t[i] = m
  <2>1. CASE m = k
    <3>1. 1 \in 1 .. Len(t)
      BY <1>6, <1>7
    <3>. QED
      BY <1>7, <2>1, <3>1
  <2>2. CASE m # k
    <3>1. k < T.heap[y].key
      BY <1>1, <1>2, <1>13, <2>2
    <3>2. x # Null /\ T.heap[x].key <= m
      BY <1>9, <1>13, <3>1
    <3>3. PICK i \in 1 .. Len(s) : s[i] = m
      BY <1>3, <1>13, <3>2
    <3>4. 1 + i \in 1 .. Len(t) /\ t[1 + i] = m
      BY <1>6, <1>7, <3>3
    <3>. QED
      BY <3>4
  <2>. QED
    BY <2>1, <2>2
<1>14. \A m : (\E i \in 1 .. Len(t) : t[i] = m) <=>
              \E y \in L : m = T.heap[y].key /\ n # Null /\ T.heap[n].key <= m
  BY <1>12, <1>13
<1>. QED
  BY <1>6, <1>11, <1>14 DEF Listed

LEMMA VisitedIs ==
    ASSUME NEW T, NEW L, NEW K, Tree(T, L, K)
    PROVE  Listed(T, L, Begin(T), Visited(T))
<1>1. Null \notin L /\ DOMAIN T.heap = L /\ \A y \in L : T.heap[y].key \in Int
  BY TreeFields, HeapDomain
<1>2. PICK V, step : /\ V = Seq(Int)
                     /\ step = [x \in L \X V |-> <<T.heap[x[1]].key>> \o x[2]]
  OBVIOUS
<1>3. \A n \in L, v \in V : step[<<n, v>>] = <<T.heap[n].key>> \o v /\ step[<<n, v>>] \in V
  <2>1. ASSUME NEW n \in L, NEW v \in V
        PROVE  step[<<n, v>>] = <<T.heap[n].key>> \o v /\ step[<<n, v>>] \in V
    <3>1. step[<<n, v>>] = <<T.heap[n].key>> \o v
      BY <1>2
    <3>2. PICK k \in Int : k = T.heap[n].key
      BY <1>1
    <3>3. <<k>> \o v \in Seq(Int)
      BY <1>2
    <3>. QED
      BY <1>2, <3>1, <3>2, <3>3
  <2>. QED
    BY <2>1
<1>4. step \in [L \X V -> V]
  <2>1. \A x \in L \X V : step[x] \in V
    <3>1. ASSUME NEW x \in L \X V PROVE step[x] \in V
      <4>1. PICK n \in L, v \in V : x = <<n, v>>
        OBVIOUS
      <4>. QED
        BY <1>3, <4>1
    <3>. QED
      BY <3>1
  <2>. QED
    BY <1>2, <2>1
<1>5. PICK b : b = << >>
  OBVIOUS
<1>6. b \in V
  BY <1>2, <1>5
<1>7. PICK w : Loops(w, T, L, V, b, step)
  BY <1>4, <1>6, LoopRecursion
<1>. DEFINE Goes(f) == f = [n \in DOMAIN T.heap \cup {Null} |->
                              IF n = Null THEN << >> ELSE <<T.heap[n].key>> \o f[Following(T, n)]]
<1>8. \A n \in L : Following(T, n) \in L \cup {Null}
  <2>1. \A n \in L : Follower(T, L, n, Following(T, n))
    BY FollowingIs
  <2>. QED
    BY <2>1 DEF Follower
<1>9. Goes(w)
  <2>1. w \in [L \cup {Null} -> V] /\ w[Null] = << >>
        /\ \A n \in L : w[n] = step[<<n, w[Following(T, n)]>>]
    BY <1>5, <1>7 DEF Loops
  <2>2. ASSUME NEW n \in L PROVE w[n] = <<T.heap[n].key>> \o w[Following(T, n)]
    <3>1. w[Following(T, n)] \in V
      BY <1>8, <2>1
    <3>. QED
      BY <1>3, <2>1, <3>1
  <2>3. \A n \in L \cup {Null} :
           w[n] = IF n = Null THEN << >> ELSE <<T.heap[n].key>> \o w[Following(T, n)]
    BY <1>1, <2>1, <2>2
  <2>4. w = [n \in L \cup {Null} |-> w[n]]
    BY <2>1
  <2>5. w = [n \in L \cup {Null} |->
               IF n = Null THEN << >> ELSE <<T.heap[n].key>> \o w[Following(T, n)]]
    BY <2>3, <2>4
  <2>. QED
    BY <1>1, <2>5
<1>10. PICK f : f = CHOOSE g : Goes(g)
  OBVIOUS
<1>11. Visited(T) = f[Begin(T)]
  BY <1>10 DEF Visited
<1>12. Goes(f)
  <2>. HIDE DEF Goes
  <2>. QED
    BY <1>9, <1>10
<1>13. \A n \in L \cup {Null} :
          f[n] = IF n = Null THEN << >> ELSE <<T.heap[n].key>> \o f[Following(T, n)]
  BY <1>1, <1>12
<1>. HIDE DEF Goes
<1>14. PICK P : P = {n \in L \cup {Null} : Listed(T, L, n, f[n])}
  OBVIOUS
<1>15. Null \in P
  <2>1. f[Null] = << >>
    BY <1>13
  <2>2. Listed(T, L, Null, << >>)
    BY DEF Listed
  <2>. QED
    BY <1>14, <2>1, <2>2
<1>16. ASSUME NEW n \in L, Following(T, n) \in P PROVE n \in P
  <2>1. PICK x : x = Following(T, n)
    OBVIOUS
  <2>2. Listed(T, L, x, f[x]) /\ Follower(T, L, n, x)
    BY <1>14, <1>16, <2>1, FollowingIs
  <2>3. f[n] = <<T.heap[n].key>> \o f[x]
    BY <1>1, <1>13, <2>1
  <2>4. Listed(T, L, n, f[n])
    BY <2>2, <2>3, ListedNext
  <2>. QED
    BY <1>14, <2>4
<1>17. L \subseteq P
  BY <1>15, <1>16, LoopInduction
<1>18. Begin(T) \in L \cup {Null}
  BY BeginIs DEF Least
<1>. QED
  BY <1>11, <1>14, <1>15, <1>17, <1>18

LEMMA LoopHolds == IInv => LoopsMeetAll
<1>1. SUFFICES ASSUME IInv
               PROVE  LET met == Visited(tree) IN
                      /\ ToSet(met) = {tree.heap[n].key : n \in Live}
                      /\ \A i, j \in DOMAIN met : i < j => met[i] < met[j]
  BY DEF LoopsMeetAll
<1>2. PICK L, K : L = Live /\ Tree(tree, L, K)
  BY <1>1 DEF IInv, Sound
<1>3. PICK s, x : s = Visited(tree) /\ x = Begin(tree)
  OBVIOUS
<1>4. /\ s \in Seq(Int) /\ DOMAIN s = 1 .. Len(s)
      /\ \A k : (\E i \in 1 .. Len(s) : s[i] = k) <=>
                \E y \in L : k = tree.heap[y].key /\ x # Null /\ tree.heap[x].key <= k
      /\ \A i, j \in 1 .. Len(s) : i < j => s[i] < s[j]
  <2>1. Listed(tree, L, x, s)
    BY <1>2, <1>3, VisitedIs
  <2>2. s \in Seq(Int)
    BY <2>1 DEF Listed
  <2>3. DOMAIN s = 1 .. Len(s)
    BY <2>2
  <2>. QED
    BY <2>1, <2>2, <2>3 DEF Listed
<1>5. Least(tree, L, x)
  BY <1>2, <1>3, BeginIs
<1>6. \A y \in L : x # Null /\ tree.heap[x].key <= tree.heap[y].key
  BY <1>5 DEF Least
<1>7. ToSet(s) = {s[i] : i \in 1 .. Len(s)}
  BY <1>4 DEF ToSet
<1>8. ToSet(s) = {tree.heap[n].key : n \in L}
  BY <1>4, <1>6, <1>7
<1>. QED
  BY <1>2, <1>3, <1>4, <1>8

\* A loop over the map meets every key once and in ascending order, whatever
\* shape insertions and erasures have left the tree in.
THEOREM EveryLoopMeetsAll == Spec => []LoopsMeetAll
<1>1. Spec => []IInv
  BY TreeStaysSound
<1>2. IInv => LoopsMeetAll
  BY LoopHolds
<1>. QED
  BY <1>1, <1>2, PTL

=============================================================================
