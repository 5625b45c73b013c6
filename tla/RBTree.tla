------------------------------- MODULE RBTree -------------------------------
(***************************************************************************)
(* The red-black tree of mtl (mtl/RBTree.h, through mtl/Map.h), which      *)
(* holds the records of every table and the maps of alarms: its nodes and  *)
(* their links, rotations, and the loops that repair it after an insertion *)
(* and an erasure, one round at a time.  One thread uses a tree.           *)
(*                                                                         *)
(* The code has the two halves of each repair side by side, mirrored; here *)
(* a side is an argument.  The members for multimaps (multi_insert, ...)   *)
(* are left out, mtl.h takes std::multimap; so is the copying of a tree,   *)
(* which nothing does.                                                     *)
(***************************************************************************)
EXTENDS Integers, SequencesExt

CONSTANTS
    Key, Value,
    ValuesOf,     \* per key, the values it is stored with
    Node,         \* addresses
    Null,
    MaxMoved      \* a bound: so many nodes are not at the address of their key

ASSUME KeyAssumption == Key \subseteq Int /\ ValuesOf \in [Key -> SUBSET Value]
ASSUME NodeAssumption == Node \subseteq Nat /\ Null \notin Node

VARIABLES
    tree,      \* its root, and what is at the addresses in use
    at,        \* "idle", or the loop that is running
    cur, up    \* the arguments of fix_insert and fix_erase

vars == <<tree, at, cur, up>>

RED == "red"
BLACK == "black"
Side == {"left", "right"}
Opposite(side) == IF side = "left" THEN "right" ELSE "left"

-----------------------------------------------------------------------------
(* Reading a tree. *)

Color(T, n) == IF n = Null THEN BLACK ELSE T.heap[n].color

\* Which child of p the node n is.
SideOf(T, p, n) == IF T.heap[p].left = n THEN "left" ELSE "right"

\* Where an insertion of k goes down from a node that has another key.
Toward(T, n, k) == IF k < T.heap[n].key THEN "left" ELSE "right"

Find(T, k) ==
    LET down[n \in DOMAIN T.heap \cup {Null}] ==
            IF n = Null \/ T.heap[n].key = k THEN n ELSE down[T.heap[n][Toward(T, n, k)]]
    IN  down[T.root]

\* The node an absent k is put under.
ParentFor(T, k) ==
    LET down[n \in DOMAIN T.heap] ==
            LET next == T.heap[n][Toward(T, n, k)]
            IN  IF next = Null THEN n ELSE down[next]
    IN  IF T.root = Null THEN Null ELSE down[T.root]

Leftmost(T, n) ==
    LET down[m \in DOMAIN T.heap] ==
            IF T.heap[m].left = Null THEN m ELSE down[T.heap[m].left]
    IN  down[n]

\* begin() and ++ of an iterator, which is at a node or at Null, its end().
Begin(T) == IF T.root = Null THEN Null ELSE Leftmost(T, T.root)

Following(T, n) ==
    LET climb[m \in DOMAIN T.heap] ==
            LET p == T.heap[m].parent
            IN  IF p # Null /\ T.heap[p].right = m THEN climb[p] ELSE p
    IN  IF T.heap[n].right # Null THEN Leftmost(T, T.heap[n].right) ELSE climb[n]

-----------------------------------------------------------------------------
(* Changing one. *)

Paint(T, n, color) == [T EXCEPT !.heap[n].color = color]

\* Mutant of Adopt: the way up is forgotten.
NotAdopted(T, child, p) == T

Adopt(T, child, p) == IF child = Null THEN T ELSE [T EXCEPT !.heap[child].parent = p]

\* Mutant of Link: every child is taken for a left one.
LinkLeft(T, p, old, new) ==
    IF p = Null THEN [T EXCEPT !.root = new] ELSE [T EXCEPT !.heap[p].left = new]

\* The link of p, or of the tree, that led to old leads to new.
Link(T, p, old, new) ==
    IF p = Null THEN [T EXCEPT !.root = new]
    ELSE [T EXCEPT !.heap[p][SideOf(T, p, old)] = new]

\* left_rotate and right_rotate.
Rotate(T, n, side) ==
    LET temp  == T.heap[n][Opposite(side)]
        inner == T.heap[temp][side]
        p     == T.heap[n].parent
        handed == Adopt([T EXCEPT !.heap[n][Opposite(side)] = inner], inner, n)
        raised == Link(Adopt(handed, temp, p), p, n, temp)
    IN  Adopt([raised EXCEPT !.heap[temp][side] = n], n, temp)

\* A node that is below no other one yet.
NewNode(k, v) == [key |-> k, value |-> v, parent |-> Null, left |-> Null, right |-> Null,
                  color |-> RED]

\* The address operator new returns makes no difference.  The free number
\* nearest to the key makes few different trees, and the bound makes fewer: only
\* an erasure that moves data to another node leads away from that address.
Fresh(T, k) ==
    LET free == Node \ DOMAIN T.heap
        far(n) == IF n < k THEN k - n ELSE n - k
    IN  CHOOSE n \in free : \A m \in free : far(n) <= far(m)

MovedInBound(T) == Cardinality({n \in DOMAIN T.heap : T.heap[n].key # n}) <= MaxMoved

Placed(T, n, k, v) ==
    LET p     == ParentFor(T, k)
        heap  == [m \in DOMAIN T.heap \cup {n} |-> IF m = n THEN NewNode(k, v) ELSE T.heap[m]]
        below == Adopt([T EXCEPT !.heap = heap], n, p)
    IN  IF p = Null THEN [below EXCEPT !.root = n]
        ELSE [below EXCEPT !.heap[p][Toward(T, p, k)] = n]

\* Mutant of Victim: the previous node.
Before(T, n) ==
    LET down[m \in DOMAIN T.heap] ==
            IF T.heap[m].right = Null THEN m ELSE down[T.heap[m].right]
    IN  IF T.heap[n].left = Null \/ T.heap[n].right = Null THEN n
        ELSE down[T.heap[n].left]

\* The node erase takes out of the tree for node n: n itself, or the next one,
\* which has no left child, when n has two.
Victim(T, n) ==
    IF T.heap[n].left = Null \/ T.heap[n].right = Null THEN n
    ELSE Leftmost(T, T.heap[n].right)

OnlyChild(T, n) == IF T.heap[n].left = Null THEN T.heap[n].right ELSE T.heap[n].left

\* Mutant of MoveData: the value is left behind.
MoveKey(T, from, to) == [T EXCEPT !.heap[to].key = T.heap[from].key]

MoveData(T, from, to) ==
    [T EXCEPT !.heap[to].key = T.heap[from].key, !.heap[to].value = T.heap[from].value]

\* The victim gives its data to n and its place to its child, and is deleted;
\* the code deletes it after the repair, which does not reach it any more.
Removed(T, n) ==
    LET victim == Victim(T, n)
        child  == OnlyChild(T, victim)
        p      == T.heap[victim].parent
        cut    == Adopt(Link(MoveData(T, victim, n), p, victim, child), child, p)
    IN  [cut EXCEPT !.heap = [m \in DOMAIN cut.heap \ {victim} |-> cut.heap[m]]]

-----------------------------------------------------------------------------
(* The members of Map that change it. *)

Empty == [root |-> Null, heap |-> << >>]

Init == tree = Empty /\ at = "idle" /\ cur = Null /\ up = Null

Insert(k, v) ==
    /\ at = "idle"
    /\ Find(tree, k) = Null
    /\ Node # DOMAIN tree.heap
    /\ LET n == Fresh(tree, k) IN
          /\ tree' = Placed(tree, n, k, v)
          /\ MovedInBound(tree')
          /\ cur' = n
    /\ at' = "fixInsert"
    /\ UNCHANGED up

\* operator[] of a key that is there; of another one it inserts.
Assign(k, v) ==
    /\ at = "idle"
    /\ Find(tree, k) # Null
    /\ tree' = [tree EXCEPT !.heap[Find(tree, k)].value = v]
    /\ UNCHANGED <<at, cur, up>>

Erase(k) ==
    LET n == Find(tree, k) IN
    /\ at = "idle"
    /\ n # Null
    /\ tree' = Removed(tree, n)
    /\ MovedInBound(tree')
    /\ \/ /\ Color(tree, Victim(tree, n)) = BLACK
          /\ at' = "fixErase"
          /\ cur' = OnlyChild(tree, Victim(tree, n))
          /\ up' = tree.heap[Victim(tree, n)].parent
       \/ /\ Color(tree, Victim(tree, n)) = RED
          /\ UNCHANGED <<at, cur, up>>

Clear ==
    /\ at = "idle"
    /\ tree' = Empty
    /\ UNCHANGED <<at, cur, up>>

Finish(T) == tree' = T /\ at' = "idle" /\ cur' = Null /\ up' = Null

-----------------------------------------------------------------------------
(* fix_insert: a red node below a red one. *)

Parent(T, n) == T.heap[n].parent

\* Mutant of InsertDone: the root is left as it is.
RootAsIs(T) == T

InsertDone(T) == Paint(T, T.root, BLACK)

FixInsertEnds ==
    /\ at = "fixInsert"
    /\ Color(tree, Parent(tree, cur)) = BLACK
    /\ Finish(InsertDone(tree))

FixInsert ==
    LET p     == Parent(tree, cur)
        g     == Parent(tree, p)
        side  == SideOf(tree, g, p)
        uncle == tree.heap[g][Opposite(side)]
        bent  == cur = tree.heap[p][Opposite(side)]
        n     == IF bent THEN p ELSE cur
        T     == IF bent THEN Rotate(tree, p, side) ELSE tree
        q     == Parent(T, n)
    IN
    /\ at = "fixInsert"
    /\ Color(tree, p) = RED
    /\ \/ /\ Color(tree, uncle) = RED
          /\ tree' = Paint(Paint(Paint(tree, p, BLACK), uncle, BLACK), g, RED)
          /\ cur' = g
       \/ /\ Color(tree, uncle) = BLACK
          /\ tree' = Rotate(Paint(Paint(T, q, BLACK), Parent(T, q), RED),
                            Parent(T, q), Opposite(side))
          /\ cur' = n
    /\ UNCHANGED <<at, up>>

-----------------------------------------------------------------------------
(* fix_erase: below up, on the side of cur, a black node is missing. *)

FixEraseEnds ==
    /\ at = "fixErase"
    /\ cur = tree.root \/ Color(tree, cur) = RED
    /\ Finish(IF cur = Null THEN tree ELSE Paint(tree, cur, BLACK))

\* A red sibling is rotated over the parent.
BlackSibling(T, side) ==
    LET sibling == T.heap[up][Opposite(side)]
    IN  IF Color(T, sibling) = RED
        THEN Rotate(Paint(Paint(T, sibling, BLACK), up, RED), up, side)
        ELSE T

\* The far child of the black sibling is red, rotated there if need be.
RedNephew(T, side) ==
    LET sibling == T.heap[up][Opposite(side)]
        near    == T.heap[sibling][side]
    IN  IF Color(T, T.heap[sibling][Opposite(side)]) = BLACK
        THEN Rotate(Paint(Paint(T, near, BLACK), sibling, RED), sibling, Opposite(side))
        ELSE T

\* Mutant of MovedUp: the branch does nothing.
NotMoved(T, sibling) == [tree |-> T, cur |-> cur, up |-> up]

\* No red nephew: the black node is missing on both sides of up, below its parent.
MovedUp(T, sibling) ==
    [tree |-> Paint(T, sibling, RED), cur |-> up, up |-> Parent(T, up)]

FixErase ==
    LET side    == SideOf(tree, up, cur)
        T       == BlackSibling(tree, side)
        sibling == T.heap[up][Opposite(side)]
        poor    == \A s \in Side : Color(T, T.heap[sibling][s]) = BLACK
        U       == RedNephew(T, side)
        brother == U.heap[up][Opposite(side)]
        painted == Paint(Paint(Paint(U, brother, Color(U, up)), up, BLACK),
                         U.heap[brother][Opposite(side)], BLACK)
    IN
    /\ at = "fixErase"
    /\ cur # tree.root /\ Color(tree, cur) = BLACK
    /\ \/ /\ poor
          /\ tree' = MovedUp(T, sibling).tree
          /\ cur' = MovedUp(T, sibling).cur
          /\ up' = MovedUp(T, sibling).up
       \/ /\ ~poor
          /\ tree' = Rotate(painted, up, side)
          /\ cur' = tree'.root
          /\ UNCHANGED up
    /\ UNCHANGED at

Repair == FixInsert \/ FixInsertEnds \/ FixErase \/ FixEraseEnds

Next ==
    \/ \E k \in Key : \E v \in ValuesOf[k] : Insert(k, v) \/ Assign(k, v)
    \/ \E k \in Key : Erase(k)
    \/ Clear
    \/ Repair

Spec == Init /\ [][Next]_vars
FairSpec == Spec /\ WF_vars(Repair)

-----------------------------------------------------------------------------
(* Properties. *)

Live == DOMAIN tree.heap

\* The variables keep their types: no link leads to an address not in use.
TypeOK ==
    /\ tree.root \in Live \cup {Null}
    /\ Live \subseteq Node
    /\ tree.heap \in [Live -> [key : Key, value : Value, parent : Live \cup {Null},
                               left : Live \cup {Null}, right : Live \cup {Null},
                               color : {RED, BLACK}]]
    /\ at \in {"idle", "fixInsert", "fixErase"}
    /\ cur \in Live \cup {Null} /\ up \in Live \cup {Null}

\* What find answers, within a repair as well as between calls.
Found == {k \in Key : Find(tree, k) # Null}
Content == [k \in Found |-> tree.heap[Find(tree, k)].value]

Map == INSTANCE OrderedMap WITH content <- Content

\* Through all rotations and moves of data from node to node find answers as
\* if the tree were a plain map; the repairs change nothing of it.
ImplementsMap == Map!Spec

\* The keys from n on, as a loop with ++ meets them.
Visited(T) ==
    LET from[n \in DOMAIN T.heap \cup {Null}] ==
            IF n = Null THEN << >> ELSE <<T.heap[n].key>> \o from[Following(T, n)]
    IN  from[Begin(T)]

\* A loop over the map, at rest, meets every key once and in ascending order;
\* so does SaveTable, and each CalcIndex.
LoopsMeetAll ==
    at = "idle" =>
        LET met == Visited(tree) IN
        /\ ToSet(met) = {tree.heap[n].key : n \in Live}
        /\ \A i, j \in DOMAIN met : i < j => met[i] < met[j]

\* The black nodes on every way down from n are as many, or -1.
BlackHeight(T) ==
    LET below[n \in DOMAIN T.heap \cup {Null}] ==
            IF n = Null THEN 0
            ELSE LET l == below[T.heap[n].left]
                     r == below[T.heap[n].right]
                 IN  IF l # r \/ l = -1 THEN -1
                     ELSE l + IF T.heap[n].color = BLACK THEN 1 ELSE 0
    IN  below[T.root]

\* At rest the tree is balanced: the root is black, no red node is below a
\* red one, and all ways down have as many black nodes.
Balanced ==
    at = "idle" =>
        /\ Color(tree, tree.root) = BLACK
        /\ \A n \in Live : tree.heap[n].color = RED =>
              Color(tree, tree.heap[n].parent) = BLACK
        /\ BlackHeight(tree) # -1

\* An erasure takes no iterator away from its key but those on the erased key
\* and on the next one: a loop that erases what it has passed goes on safely.
NextKey(k) ==
    {j \in Found : j > k /\ \A i \in Found : i > k => j <= i}
IteratorsStay ==
    [][LET gone == Found \ Found' IN
       \A k \in gone :
          gone = {k} =>
              \A j \in Found \ ({k} \cup NextKey(k)) :
                  LET n == Find(tree, j)
                  IN  n \in Live' /\ tree'.heap[n].key = j]_vars

\* Every call returns: neither repair goes round for ever.
CallsReturn == at # "idle" ~> at = "idle"
=============================================================================
