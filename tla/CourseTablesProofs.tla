------------------------- MODULE CourseTablesProofs -------------------------
(***************************************************************************)
(* Proofs of the invariants of CourseTables, for any uids, records, files, *)
(* users and bound.  Walking a table is recursive; what it builds is shown *)
(* by induction on the number of uids walked, with MinIsLeast giving the   *)
(* least number for which a claim would fail.                              *)
(***************************************************************************)
EXTENDS CourseTables, SequenceFacts

-----------------------------------------------------------------------------
(* One index, whatever it lists. *)

\* An entry more is an entry more, in or out of order.
LEMMA AddTyped ==
    ASSUME NEW idx \in Seq(Entry), NEW uid \in Nat, NEW k \in Nat
    PROVE  AddIndex(idx, uid, k) \in Seq(Entry)
<1>. DEFINE S == {q \in 1 .. Len(idx) + 1 : q = Len(idx) + 1 \/ idx[q].key > k}
<1>1. PICK p : p = UpperBound(idx, k)
  OBVIOUS
<1>2. p \in 1 .. Len(idx) + 1
  <2>1. S \subseteq Nat /\ Len(idx) + 1 \in S
    OBVIOUS
  <2>2. p = Min(S)
    BY <1>1 DEF UpperBound
  <2>3. p \in S
    <3>. HIDE DEF S
    <3>. QED
      BY <2>1, <2>2, MinIsLeast
  <2>. QED
    BY <2>3
<1>3. [key |-> k, uid |-> uid] \in Entry
  BY DEF Entry
<1>. QED
  BY <1>1, <1>2, <1>3, InsertAtElements DEF AddIndex

\* An entry less is an entry less; without one of the uid nothing changes.
LEMMA RemoveTyped ==
    ASSUME NEW idx \in Seq(Entry), NEW uid
    PROVE  /\ RemoveIndex(idx, uid) \in Seq(Entry)
           /\ uid \notin Listed(idx) => RemoveIndex(idx, uid) = idx
<1>1. CASE uid \notin Listed(idx)
  <2>1. ~ \E i \in 1 .. Len(idx) : idx[i].uid = uid
    BY <1>1 DEF Listed
  <2>2. RemoveIndex(idx, uid) = idx
    BY <2>1 DEF RemoveIndex, RemoveFirstMatch
  <2>. QED
    BY <2>2
<1>2. CASE uid \in Listed(idx)
  <2>. DEFINE S == {q \in 1 .. Len(idx) : idx[q].uid = uid}
  <2>1. S \subseteq Nat /\ S # {}
    BY <1>2 DEF Listed
  <2>2. RemoveIndex(idx, uid) = RemoveAt(idx, Min(S))
    BY <2>1 DEF RemoveIndex, RemoveFirstMatch, SelectInSeq
  <2>3. Min(S) \in 1 .. Len(idx)
    <3>1. Min(S) \in S
      <4>. HIDE DEF S
      <4>. QED
        BY <2>1, MinIsLeast
    <3>. QED
      BY <3>1
  <2>4. PICK p \in 1 .. Len(idx) : p = Min(S)
    BY <2>3
  <2>5. RemoveAt(idx, p) \in Seq(Entry)
    BY RemoveAtElements
  <2>. QED
    BY <2>2, <2>4, <2>5, <1>2
<1>. QED
  BY <1>1, <1>2

\* So it is of an update.
LEMMA MoveTyped ==
    ASSUME NEW idx \in Seq(Entry), NEW uid \in Nat, NEW k \in Nat
    PROVE  MoveEntry(idx, uid, k) \in Seq(Entry)
BY RemoveTyped, AddTyped DEF MoveEntry

-----------------------------------------------------------------------------
(* One index that lists some of the records. *)

\* The records an index lists.
Part(idx, recs) == [u \in Listed(idx) |-> recs[u]]

\* The uids of a coherent index are those of the records it is coherent with.
LEMMA ListedIsDomain ==
    ASSUME NEW idx \in Seq(Entry), NEW recs, NEW c, Coherent(idx, recs, c)
    PROVE  Listed(idx) = DOMAIN recs
<1>1. ASSUME NEW u \in DOMAIN recs PROVE u \in Listed(idx)
  <2>1. PICK p \in DOMAIN idx : idx[p].uid = u
    BY DEF Coherent, EntriesComplete
  <2>. QED
    BY <2>1 DEF Listed
<1>2. ASSUME NEW u \in Listed(idx) PROVE u \in DOMAIN recs
  BY DEF Coherent, EntriesMatch, Listed
<1>. QED
  BY <1>1, <1>2

\* An index that lists all the records is coherent with them, and no other is.
LEMMA ListsAll ==
    ASSUME NEW idx \in Seq(Entry), NEW recs, recs = [u \in DOMAIN recs |-> recs[u]], NEW c
    PROVE  Coherent(idx, recs, c) <=> ListsSome(idx, recs, c) /\ Listed(idx) = DOMAIN recs
<1>1. ASSUME Listed(idx) = DOMAIN recs PROVE Part(idx, recs) = recs
  BY <1>1 DEF Part
<1>2. ListsSome(idx, recs, c) <=>
          Listed(idx) \subseteq DOMAIN recs /\ Coherent(idx, Part(idx, recs), c)
  BY DEF ListsSome, Part
<1>. QED
  BY <1>1, <1>2, ListedIsDomain

\* The index lists the given uids, each under its value.
Lists(idx, recs, c, listed) ==
    idx \in Seq(Entry) /\ ListsSome(idx, recs, c) /\ Listed(idx) = listed

\* A record that was not listed gets an entry.
LEMMA AddSome ==
    ASSUME NEW idx \in Seq(Entry), NEW recs, NEW c, ListsSome(idx, recs, c),
           NEW uid \in Nat, uid \notin Listed(idx),
           NEW more, DOMAIN more = DOMAIN recs \cup {uid},
           \A v \in DOMAIN recs \ {uid} : more[v] = recs[v],
           more[uid][c] \in Nat,
           NEW new, new = AddIndex(idx, uid, more[uid][c])
    PROVE  Lists(new, more, c, Listed(idx) \cup {uid})
<1>1. PICK old : old = Part(idx, recs)
  OBVIOUS
<1>2. DOMAIN old = Listed(idx) /\ Listed(idx) \subseteq DOMAIN recs /\ Coherent(idx, old, c)
  BY <1>1 DEF ListsSome, Part
<1>3. PICK all : all = [u \in Listed(idx) \cup {uid} |-> more[u]]
  OBVIOUS
<1>4. /\ DOMAIN all = DOMAIN old \cup {uid}
      /\ \A u \in DOMAIN old : all[u] = old[u]
      /\ all[uid] = more[uid]
  BY <1>1, <1>2, <1>3 DEF Part
<1>5. new \in Seq(Entry) /\ Coherent(new, all, c)
  <2>1. new = AddIndex(idx, uid, all[uid][c]) /\ all[uid][c] \in Nat
    BY <1>4
  <2>2. uid \notin DOMAIN old
    BY <1>2
  <2>. QED
    BY <2>1, <2>2, <1>2, <1>4, AddKeepsCoherent
<1>6. Listed(new) = Listed(idx) \cup {uid}
  BY <1>3, <1>5, ListedIsDomain
<1>7. all = [u \in Listed(new) |-> more[u]]
  BY <1>3, <1>6
<1>. QED
  BY <1>2, <1>5, <1>6, <1>7 DEF Lists, ListsSome

\* A record loses its entry, if it has one; it may itself go or change.
LEMMA RemoveSome ==
    ASSUME NEW idx \in Seq(Entry), NEW recs, NEW c, ListsSome(idx, recs, c),
           NEW uid \in Nat,
           NEW less, DOMAIN recs \ {uid} \subseteq DOMAIN less,
           \A v \in DOMAIN recs \ {uid} : less[v] = recs[v],
           NEW new, new = RemoveIndex(idx, uid)
    PROVE  Lists(new, less, c, Listed(idx) \ {uid})
<1>1. PICK old : old = Part(idx, recs)
  OBVIOUS
<1>2. DOMAIN old = Listed(idx) /\ Listed(idx) \subseteq DOMAIN recs /\ Coherent(idx, old, c)
  BY <1>1 DEF ListsSome, Part
<1>3. PICK rest : rest = [u \in Listed(idx) \ {uid} |-> less[u]]
  OBVIOUS
<1>4. /\ DOMAIN rest = DOMAIN old \ {uid}
      /\ \A u \in DOMAIN rest : rest[u] = old[u]
  BY <1>1, <1>2, <1>3 DEF Part
<1>5. new \in Seq(Entry) /\ Coherent(new, rest, c)
  <2>1. CASE uid \in Listed(idx)
    BY <2>1, <1>2, <1>4, RemoveKeepsCoherent
  <2>2. CASE uid \notin Listed(idx)
    <3>1. new = idx
      BY <2>2, RemoveTyped
    <3>2. rest = old
      BY <2>2, <1>1, <1>2, <1>3 DEF Part
    <3>. QED
      BY <3>1, <3>2, <1>2
  <2>. QED
    BY <2>1, <2>2
<1>6. Listed(new) = Listed(idx) \ {uid}
  BY <1>3, <1>5, ListedIsDomain
<1>7. rest = [u \in Listed(new) |-> less[u]]
  BY <1>3, <1>6
<1>8. Listed(new) \subseteq DOMAIN less
  BY <1>2, <1>6
<1>. QED
  BY <1>5, <1>6, <1>7, <1>8 DEF Lists, ListsSome

\* A handler adds a record.
LEMMA PutAdded ==
    ASSUME NEW idx \in Seq(Entry), NEW recs, NEW c, ListsSome(idx, recs, c),
           NEW uid \in Nat, uid \notin DOMAIN recs, NEW r, r[c] \in Nat,
           NEW new, new = AddIndex(idx, uid, r[c])
    PROVE  Lists(new, Put(recs, uid, r), c, Listed(idx) \cup {uid})
<1>1. PICK more : more = Put(recs, uid, r)
  OBVIOUS
<1>2. /\ DOMAIN more = DOMAIN recs \cup {uid}
      /\ more[uid] = r
      /\ \A v \in DOMAIN recs \ {uid} : more[v] = recs[v]
  BY <1>1 DEF Put
<1>3. uid \notin Listed(idx)
  BY DEF ListsSome
<1>4. new = AddIndex(idx, uid, more[uid][c]) /\ more[uid][c] \in Nat
  BY <1>2
<1>. QED
  BY <1>1, <1>2, <1>3, <1>4, AddSome

\* A handler deletes a record.
LEMMA DropRemoved ==
    ASSUME NEW idx \in Seq(Entry), NEW recs, NEW c, ListsSome(idx, recs, c),
           NEW uid \in Nat, NEW new, new = RemoveIndex(idx, uid)
    PROVE  Lists(new, Drop(recs, uid), c, Listed(idx) \ {uid})
<1>1. PICK less : less = Drop(recs, uid)
  OBVIOUS
<1>2. /\ DOMAIN recs \ {uid} \subseteq DOMAIN less
      /\ \A v \in DOMAIN recs \ {uid} : less[v] = recs[v]
  BY <1>1 DEF Drop
<1>. QED
  BY <1>1, <1>2, RemoveSome

\* A handler updates a record, which is listed from then on.
LEMMA PutMoved ==
    ASSUME NEW idx \in Seq(Entry), NEW recs, NEW c, ListsSome(idx, recs, c),
           NEW uid \in Nat, uid \in DOMAIN recs, NEW r, r[c] \in Nat,
           NEW new, new = MoveEntry(idx, uid, r[c])
    PROVE  Lists(new, Put(recs, uid, r), c, Listed(idx) \cup {uid})
<1>1. PICK more : more = Put(recs, uid, r)
  OBVIOUS
<1>2. /\ DOMAIN more = DOMAIN recs \cup {uid}
      /\ more[uid] = r
      /\ \A v \in DOMAIN recs \ {uid} : more[v] = recs[v]
  BY <1>1 DEF Put
<1>3. PICK left \in Seq(Entry) : left = RemoveIndex(idx, uid)
  BY RemoveTyped
<1>4. PICK less : less = Drop(recs, uid)
  OBVIOUS
<1>5. Lists(left, less, c, Listed(idx) \ {uid})
  BY <1>3, <1>4, DropRemoved
<1>6. /\ DOMAIN more = DOMAIN less \cup {uid}
      /\ \A v \in DOMAIN less \ {uid} : more[v] = less[v]
  BY <1>2, <1>4 DEF Drop
<1>7. new = AddIndex(left, uid, more[uid][c]) /\ more[uid][c] \in Nat
  BY <1>2, <1>3 DEF MoveEntry
<1>8. /\ ListsSome(left, less, c) /\ uid \notin Listed(left)
      /\ Listed(left) \cup {uid} = Listed(idx) \cup {uid}
  BY <1>5 DEF Lists
<1>9. Lists(new, more, c, Listed(left) \cup {uid})
  BY <1>6, <1>7, <1>8, AddSome
<1>. QED
  BY <1>1, <1>8, <1>9

-----------------------------------------------------------------------------
(* The indices as a whole. *)

\* What a walk leaves once it has taken S, when it left f[T] of each lesser T.
Taken(f, recs, c, S) ==
    IF S = {} THEN << >>
    ELSE AddIndex(f[S \ {Max(S)}], Max(S), recs[Max(S)][c])

IsWalk(f, recs, c, uids) == f = [S \in SUBSET uids |-> Taken(f, recs, c, S)]

\* The sets of up to n of the uids.
UpTo(uids, n) == {S \in SUBSET uids : Cardinality(S) <= n}

\* Taking the greatest uid out of a set leaves a lesser set.
LEMMA LesserSet ==
    ASSUME NEW uids, uids \subseteq Nat, IsFiniteSet(uids),
           NEW S \in SUBSET uids, S # {}
    PROVE  /\ IsFiniteSet(S) /\ Cardinality(S) \in Nat
           /\ Max(S) \in S
           /\ S \ {Max(S)} \in SUBSET uids
           /\ Cardinality(S \ {Max(S)}) = Cardinality(S) - 1
           /\ Cardinality(S) - 1 \in Nat
<1>1. IsFiniteSet(S) /\ Cardinality(S) \in Nat
  BY FS_Subset, FS_CardinalityType
<1>2. Max(S) \in S
  BY <1>1, MaxIsGreatest
<1>3. PICK m : m = Max(S)
  OBVIOUS
<1>4. IsFiniteSet(S \ {m}) /\ Cardinality(S \ {m}) = Cardinality(S) - 1
  BY <1>1, <1>2, <1>3, FS_RemoveElement
<1>5. Cardinality(S \ {m}) \in Nat
  BY <1>4, FS_CardinalityType
<1>. QED
  BY <1>1, <1>2, <1>3, <1>4, <1>5

\* A walk exists: it is built for sets of up to n uids, for one n after the other.
LEMMA WalkExists ==
    ASSUME NEW recs, NEW c, NEW uids, uids \subseteq Nat, IsFiniteSet(uids)
    PROVE  \E f : IsWalk(f, recs, c, uids)
<1>. DEFINE Walks(n) == \E f : f = [S \in UpTo(uids, n) |-> Taken(f, recs, c, S)]
            Bad == {n \in Nat : ~Walks(n)}
<1>1. Walks(0)
  <2>1. PICK f : f = [S \in UpTo(uids, 0) |-> << >>]
    OBVIOUS
  <2>2. ASSUME NEW S \in UpTo(uids, 0) PROVE Taken(f, recs, c, S) = << >>
    <3>1. S \in SUBSET uids /\ Cardinality(S) <= 0
      BY DEF UpTo
    <3>2. S = {}
      <4>. SUFFICES ASSUME S # {} PROVE FALSE
        OBVIOUS
      <4>1. Cardinality(S) \in Nat /\ Cardinality(S) - 1 \in Nat
        BY <3>1, LesserSet
      <4>. QED
        BY <3>1, <4>1
    <3>. QED
      BY <3>2 DEF Taken
  <2>3. f = [S \in UpTo(uids, 0) |-> Taken(f, recs, c, S)]
    BY <2>1, <2>2
  <2>. QED
    BY <2>3
<1>2. ASSUME NEW n \in Nat, Walks(n) PROVE Walks(n + 1)
  <2>1. PICK f : f = [S \in UpTo(uids, n) |-> Taken(f, recs, c, S)]
    BY <1>2
  <2>2. PICK g : g = [S \in UpTo(uids, n + 1) |-> Taken(f, recs, c, S)]
    OBVIOUS
  <2>3. ASSUME NEW S \in UpTo(uids, n) PROVE g[S] = f[S]
    <3>1. S \in UpTo(uids, n + 1)
      <4>1. Cardinality(S) \in Nat
        BY FS_Subset, FS_CardinalityType DEF UpTo
      <4>. QED
        BY <4>1 DEF UpTo
    <3>2. f[S] = Taken(f, recs, c, S)
      BY <2>1
    <3>. QED
      BY <2>2, <3>1, <3>2
  <2>4. ASSUME NEW S \in UpTo(uids, n + 1)
        PROVE  Taken(f, recs, c, S) = Taken(g, recs, c, S)
    <3>1. CASE S = {}
      BY <3>1 DEF Taken
    <3>2. CASE S # {}
      <4>1. S \ {Max(S)} \in SUBSET uids /\ Cardinality(S \ {Max(S)}) <= n
        <5>1. S \in SUBSET uids /\ Cardinality(S) <= n + 1
          BY DEF UpTo
        <5>2. /\ S \ {Max(S)} \in SUBSET uids
              /\ Cardinality(S \ {Max(S)}) = Cardinality(S) - 1
              /\ Cardinality(S) \in Nat
          BY <3>2, <5>1, LesserSet
        <5>. QED
          BY <5>1, <5>2
      <4>2. g[S \ {Max(S)}] = f[S \ {Max(S)}]
        BY <4>1, <2>3 DEF UpTo
      <4>. QED
        BY <4>2 DEF Taken
    <3>. QED
      BY <3>1, <3>2
  <2>5. g = [S \in UpTo(uids, n + 1) |-> Taken(g, recs, c, S)]
    BY <2>2, <2>4
  <2>. QED
    BY <2>5
<1>3. Bad = {}
  <2>. SUFFICES ASSUME Bad # {} PROVE FALSE
    OBVIOUS
  <2>1. PICK n \in Bad : \A k \in Bad : n <= k
    <3>1. Bad \subseteq Nat
      OBVIOUS
    <3>. HIDE DEF Bad
    <3>. QED
      BY <3>1, MinIsLeast
  <2>2. n \in Nat /\ ~Walks(n) /\ \A k \in Nat : ~Walks(k) => n <= k
    BY <2>1
  <2>. HIDE DEF Walks, Bad
  <2>3. n # 0
    BY <1>1, <2>2
  <2>4. n - 1 \in Nat /\ ~(n <= n - 1)
    BY <2>2, <2>3
  <2>5. Walks(n - 1)
    BY <2>2, <2>4
  <2>6. Walks((n - 1) + 1)
    BY <1>2, <2>4, <2>5
  <2>7. (n - 1) + 1 = n
    BY <2>2
  <2>. QED
    BY <2>2, <2>6, <2>7
<1>4. Cardinality(uids) \in Nat
  BY FS_CardinalityType
<1>5. UpTo(uids, Cardinality(uids)) = SUBSET uids
  BY FS_Subset DEF UpTo
<1>6. Walks(Cardinality(uids))
  BY <1>3, <1>4
<1>7. PICK f : f = [S \in UpTo(uids, Cardinality(uids)) |-> Taken(f, recs, c, S)]
  BY <1>6
<1>. QED
  BY <1>5, <1>7 DEF IsWalk

\* Whatever a walk has taken is listed, each once and under its own value.
LEMMA WalkCoherent ==
    ASSUME NEW recs, NEW c, NEW uids, uids \subseteq Nat, IsFiniteSet(uids),
           \A u \in uids : recs[u][c] \in Nat,
           NEW f, IsWalk(f, recs, c, uids),
           NEW S \in SUBSET uids
    PROVE  f[S] \in Seq(Entry) /\ Coherent(f[S], [u \in S |-> recs[u]], c)
<1>. DEFINE Good(T) == f[T] \in Seq(Entry) /\ Coherent(f[T], [u \in T |-> recs[u]], c)
            Bad == {n \in Nat : \E T \in SUBSET uids : Cardinality(T) = n /\ ~Good(T)}
<1>1. Good({})
  <2>1. f[{}] = << >>
    BY DEF Taken, IsWalk
  <2>2. PICK none : none = [u \in {} |-> recs[u]]
    OBVIOUS
  <2>3. DOMAIN none = {} /\ << >> \in Seq(Entry) /\ DOMAIN << >> = {}
    BY <2>2
  <2>4. Coherent(<< >>, none, c)
    BY <2>3 DEF Coherent, Sorted, EntriesMatch, EntriesComplete
  <2>. QED
    BY <2>1, <2>2, <2>3, <2>4
<1>2. ASSUME NEW T \in SUBSET uids, T # {}, Good(T \ {Max(T)}) PROVE Good(T)
  <2>1. PICK m : m = Max(T)
    OBVIOUS
  <2>2. m \in T /\ m \in Nat /\ recs[m][c] \in Nat
    BY <1>2, <2>1, LesserSet
  <2>3. PICK idx : idx = f[T \ {m}]
    OBVIOUS
  <2>4. PICK less : less = [u \in T \ {m} |-> recs[u]]
    OBVIOUS
  <2>5. PICK more : more = [u \in T |-> recs[u]]
    OBVIOUS
  <2>6. idx \in Seq(Entry) /\ Coherent(idx, less, c)
    BY <1>2, <2>1, <2>3, <2>4
  <2>7. /\ m \notin DOMAIN less
        /\ DOMAIN more = DOMAIN less \cup {m}
        /\ \A u \in DOMAIN less : more[u] = less[u]
        /\ more[m][c] \in Nat
    BY <2>2, <2>4, <2>5
  <2>8. f[T] = AddIndex(idx, m, more[m][c])
    <3>1. f[T] = Taken(f, recs, c, T)
      BY DEF IsWalk
    <3>2. more[m] = recs[m]
      BY <2>2, <2>5
    <3>. QED
      BY <1>2, <2>1, <2>3, <3>1, <3>2 DEF Taken
  <2>9. PICK new : new = f[T]
    OBVIOUS
  <2>10. new \in Seq(Entry) /\ Coherent(new, more, c)
    <3>1. new = AddIndex(idx, m, more[m][c])
      BY <2>8, <2>9
    <3>2. new \in Seq(Entry)
      BY <2>2, <2>6, <2>7, <3>1, AddTyped
    <3>3. Coherent(new, more, c)
      BY <2>2, <2>6, <2>7, <3>1, AddKeepsCoherent
    <3>. QED
      BY <3>2, <3>3
  <2>. QED
    BY <2>5, <2>9, <2>10
<1>3. Bad = {}
  <2>. SUFFICES ASSUME Bad # {} PROVE FALSE
    OBVIOUS
  <2>1. PICK n \in Bad : \A k \in Bad : n <= k
    <3>1. Bad \subseteq Nat
      OBVIOUS
    <3>. HIDE DEF Bad
    <3>. QED
      BY <3>1, MinIsLeast
  <2>2. PICK T \in SUBSET uids : Cardinality(T) = n /\ ~Good(T)
    BY <2>1
  <2>3. \A k \in Nat, U \in SUBSET uids : Cardinality(U) = k /\ ~Good(U) => n <= k
    BY <2>1
  <2>. HIDE DEF Good, Bad
  <2>4. T # {}
    BY <1>1, <2>2
  <2>5. PICK U \in SUBSET uids : U = T \ {Max(T)}
    BY <2>4, LesserSet
  <2>6. Cardinality(U) = n - 1 /\ n \in Nat /\ n - 1 \in Nat
    BY <2>2, <2>4, <2>5, LesserSet
  <2>7. Good(U)
    BY <2>3, <2>6
  <2>. QED
    BY <1>2, <2>2, <2>4, <2>5, <2>7
<1>4. Cardinality(S) \in Nat
  BY FS_Subset, FS_CardinalityType
<1>5. Good(S)
  BY <1>3, <1>4
<1>. QED
  BY <1>5

\* The index of a set of records lists exactly these.
LEMMA IndexOfLists ==
    ASSUME NEW recs, NEW c, NEW uids, uids \subseteq Nat, IsFiniteSet(uids),
           uids \subseteq DOMAIN recs, \A u \in uids : recs[u][c] \in Nat,
           NEW idx, idx = IndexOf(recs, uids, c)
    PROVE  Lists(idx, recs, c, uids)
<1>1. PICK f : IsWalk(f, recs, c, uids) /\ idx = f[uids]
  <2>1. PICK f : f = CHOOSE g : IsWalk(g, recs, c, uids)
    OBVIOUS
  <2>2. \E g : IsWalk(g, recs, c, uids)
    BY WalkExists
  <2>3. IsWalk(f, recs, c, uids)
    BY <2>1, <2>2
  <2>4. idx = f[uids]
    BY <2>1 DEF IndexOf, Taken, IsWalk
  <2>. QED
    BY <2>3, <2>4
<1>2. PICK all : all = [u \in uids |-> recs[u]]
  OBVIOUS
<1>3. idx \in Seq(Entry) /\ Coherent(idx, all, c)
  <2>1. IsWalk(f, recs, c, uids) /\ uids \in SUBSET uids
    BY <1>1
  <2>2. f[uids] \in Seq(Entry) /\ Coherent(f[uids], [u \in uids |-> recs[u]], c)
    BY <2>1, WalkCoherent, Zenon
  <2>. QED
    BY <1>1, <1>2, <2>2
<1>4. Listed(idx) = uids
  BY <1>2, <1>3, ListedIsDomain
<1>. QED
  BY <1>2, <1>3, <1>4 DEF Lists, ListsSome

-----------------------------------------------------------------------------
(* The tables. *)

IsTable(recs, uids, R) == \E D \in SUBSET uids : recs \in [D -> R]

LEMMA TableFields ==
    ASSUME NEW recs, NEW uids, NEW R, IsTable(recs, uids, R)
    PROVE  /\ DOMAIN recs \subseteq uids
           /\ recs = [u \in DOMAIN recs |-> recs[u]]
           /\ \A u \in DOMAIN recs : recs[u] \in R
BY DEF IsTable

LEMMA EmptyTable ==
    ASSUME NEW uids, NEW R
    PROVE  IsTable(<< >>, uids, R) /\ << >> \in Seq(Entry) /\ DOMAIN << >> = {}
<1>1. << >> \in [{} -> R] /\ {} \in SUBSET uids
  OBVIOUS
<1>2. << >> \in Seq(Entry) /\ DOMAIN << >> = {}
  OBVIOUS
<1>. QED
  BY <1>1, <1>2 DEF IsTable

LEMMA PutTable ==
    ASSUME NEW uids, NEW R, NEW recs, IsTable(recs, uids, R), NEW uid \in uids, NEW r \in R
    PROVE  IsTable(Put(recs, uid, r), uids, R)
<1>1. PICK D \in SUBSET uids : recs \in [D -> R]
  BY DEF IsTable
<1>2. D \cup {uid} \in SUBSET uids /\ Put(recs, uid, r) \in [D \cup {uid} -> R]
  BY <1>1 DEF Put
<1>. QED
  BY <1>2 DEF IsTable

LEMMA DropTable ==
    ASSUME NEW uids, NEW R, NEW recs, IsTable(recs, uids, R), NEW uid
    PROVE  IsTable(Drop(recs, uid), uids, R)
<1>1. PICK D \in SUBSET uids : recs \in [D -> R]
  BY DEF IsTable
<1>2. D \ {uid} \in SUBSET uids /\ Drop(recs, uid) \in [D \ {uid} -> R]
  BY <1>1 DEF Drop
<1>. QED
  BY <1>2 DEF IsTable

\* The index of a column of numbers, for some of the records of a table.
LEMMA TableIndexed ==
    ASSUME NEW uids, uids \subseteq Nat, IsFiniteSet(uids), NEW R, NEW c,
           \A r \in R : r[c] \in Nat,
           NEW recs, IsTable(recs, uids, R), NEW listed \in SUBSET DOMAIN recs,
           NEW idx, idx = IndexOf(recs, listed, c)
    PROVE  Lists(idx, recs, c, listed)
<1>1. DOMAIN recs \subseteq uids /\ \A u \in DOMAIN recs : recs[u] \in R
  BY TableFields
<1>2. listed \subseteq Nat /\ IsFiniteSet(listed) /\ \A u \in listed : recs[u][c] \in Nat
  <2>1. listed \in SUBSET uids
    BY <1>1
  <2>2. IsFiniteSet(listed)
    BY <2>1, FS_Subset
  <2>. QED
    BY <1>1, <2>1, <2>2
<1>. QED
  BY <1>2, IndexOfLists

\* The columns hold numbers.
LEMMA ColumnsAreNumbers ==
    /\ \A r \in Course : r["name"] \in Nat
    /\ \A r \in Class : r["course"] \in Nat /\ r["start"] \in Nat
    /\ \A r \in Exam : r["course"] \in Nat
BY DEF Course, Class, Exam

-----------------------------------------------------------------------------
(* The inductive invariant, table by table. *)

CourseInv ==
    /\ IsTable(courses, CourseUid, Course)
    /\ nameIndex \in Seq(Entry)
    /\ ListsSome(nameIndex, courses, "name")
    /\ Listed(nameIndex) = DOMAIN courses

ClassTyped ==
    /\ IsTable(classes, ClassUid, Class)
    /\ courseIndex \in Seq(Entry) /\ startTimeIndex \in Seq(Entry)

ClassTakenListed ==
    \A u \in DOMAIN classes : classes[u].course \in taking => u \in Listed(courseIndex)

ClassInv ==
    /\ ClassTyped
    /\ ClassListsSound
    /\ "classes" \notin stale => ClassTakenListed

ExamTyped == IsTable(exams, ExamUid, Exam) /\ examIndex \in Seq(Entry)

ExamTakenListed ==
    \A u \in DOMAIN exams : exams[u].course \in taking => u \in Listed(examIndex)

ExamInv ==
    /\ ExamTyped
    /\ ExamListSound
    /\ "exams" \notin stale => ExamTakenListed

SessionInv ==
    /\ IsTable(file.classes, ClassUid, Class)
    /\ IsTable(file.exams, ExamUid, Exam)
    /\ stale \subseteq Tables
    /\ taking \in Enrolment \cup {{}}
    /\ named \in BOOLEAN

IInv == CourseInv /\ ClassInv /\ ExamInv /\ SessionInv

\* What SetClasses leaves: the given records, and the given uids in both lists.
LEMMA ClassesSet ==
    ASSUME NEW recs, IsTable(recs, ClassUid, Class), NEW listed \in SUBSET DOMAIN recs,
           SetClasses(recs, listed)
    PROVE  /\ classes' = recs
           /\ Lists(courseIndex', recs, "course", listed)
           /\ Lists(startTimeIndex', recs, "start", listed)
<1>1. ClassUid \subseteq Nat /\ IsFiniteSet(ClassUid)
  BY UidAssumption
<1>2. PICK byCourse : byCourse = IndexOf(recs, listed, "course")
  OBVIOUS
<1>3. PICK byStart : byStart = IndexOf(recs, listed, "start")
  OBVIOUS
<1>4. Lists(byCourse, recs, "course", listed)
  BY <1>1, <1>2, ColumnsAreNumbers, TableIndexed
<1>5. Lists(byStart, recs, "start", listed)
  BY <1>1, <1>3, ColumnsAreNumbers, TableIndexed
<1>6. classes' = recs /\ courseIndex' = byCourse /\ startTimeIndex' = byStart
  BY <1>2, <1>3 DEF SetClasses
<1>. QED
  BY <1>4, <1>5, <1>6

\* The same of the exams.
LEMMA ExamsSet ==
    ASSUME NEW recs, IsTable(recs, ExamUid, Exam), NEW listed \in SUBSET DOMAIN recs,
           SetExams(recs, listed)
    PROVE  exams' = recs /\ Lists(examIndex', recs, "course", listed)
<1>1. ExamUid \subseteq Nat /\ IsFiniteSet(ExamUid)
  BY UidAssumption
<1>2. PICK idx : idx = IndexOf(recs, listed, "course")
  OBVIOUS
<1>3. Lists(idx, recs, "course", listed)
  BY <1>1, <1>2, ColumnsAreNumbers, TableIndexed
<1>4. exams' = recs /\ examIndex' = idx
  BY <1>2 DEF SetExams
<1>. QED
  BY <1>3, <1>4

\* An index without entries lists a table without records.
LEMMA NothingListed ==
    ASSUME NEW c
    PROVE  ListsSome(<< >>, << >>, c) /\ Listed(<< >>) = {}
<1>1. Listed(<< >>) = {}
  BY DEF Listed
<1>2. PICK none : none = [u \in {} |-> << >>[u]]
  OBVIOUS
<1>3. DOMAIN none = {} /\ DOMAIN << >> = {}
  BY <1>2
<1>4. Coherent(<< >>, none, c)
  BY <1>3 DEF Coherent, Sorted, EntriesMatch, EntriesComplete
<1>. QED
  BY <1>1, <1>2, <1>4 DEF ListsSome

\* A step that leaves a table, or that makes its indices stale, keeps what is said of it.
LEMMA CourseKept == CourseInv /\ UNCHANGED courseVars => CourseInv'
BY DEF CourseInv, courseVars

LEMMA ClassKept == ClassInv /\ UNCHANGED <<classVars, stale, taking>> => ClassInv'
BY DEF ClassInv, ClassTyped, ClassListsSound, ClassTakenListed, classVars

LEMMA ClassLeft == ClassTyped' /\ "classes" \in stale' => ClassInv'
BY DEF ClassInv, ClassListsSound

LEMMA ExamKept == ExamInv /\ UNCHANGED <<examVars, stale, taking>> => ExamInv'
BY DEF ExamInv, ExamTyped, ExamListSound, ExamTakenListed, examVars

LEMMA ExamLeft == ExamTyped' /\ "exams" \in stale' => ExamInv'
BY DEF ExamInv, ExamListSound

LEMMA SessionKept == SessionInv /\ UNCHANGED sessionVars => SessionInv'
BY DEF SessionInv, sessionVars

\* A list of every class leaves none of the user's out.
LEMMA AllClassesListed ==
    ASSUME NEW recs, IsTable(recs, ClassUid, Class), SetClasses(recs, DOMAIN recs)
    PROVE  ClassInv'
<1>1. /\ classes' = recs
      /\ Lists(courseIndex', recs, "course", DOMAIN recs)
      /\ Lists(startTimeIndex', recs, "start", DOMAIN recs)
  BY ClassesSet
<1>2. ClassTyped' /\ ClassListsSound'
  BY <1>1 DEF Lists, ClassTyped, ClassListsSound
<1>3. ClassTakenListed'
  BY <1>1 DEF Lists, ClassTakenListed
<1>. QED
  BY <1>2, <1>3 DEF ClassInv

\* Nothing is left out of no exams.
LEMMA NoExams ==
    exams = << >> /\ examIndex = << >> => ExamInv
<1>. SUFFICES ASSUME exams = << >>, examIndex = << >> PROVE ExamInv
  OBVIOUS
<1>1. ExamTyped /\ DOMAIN exams = {}
  BY EmptyTable DEF ExamTyped
<1>2. ListsSome(examIndex, exams, "course")
  BY NothingListed
<1>. QED
  BY <1>1, <1>2 DEF ExamInv, ExamListSound, ExamTakenListed

LEMMA InitIInv == Init => IInv
<1>. SUFFICES ASSUME Init PROVE IInv
  OBVIOUS
<1>1. IsTable(FirstClassFile, ClassUid, Class) /\ IsTable(FirstExamFile, ExamUid, Exam)
  BY FileAssumption DEF IsTable
<1>2. CourseInv
  BY EmptyTable, NothingListed DEF Init, CourseInv
<1>3. ClassInv
  <2>1. ClassUid \subseteq Nat /\ IsFiniteSet(ClassUid)
    BY UidAssumption
  <2>2. IsTable(classes, ClassUid, Class)
    BY <1>1, EmptyTable DEF Init
  <2>3. Lists(courseIndex, classes, "course", DOMAIN classes)
    BY <2>1, <2>2, ColumnsAreNumbers, TableIndexed DEF Init
  <2>4. Lists(startTimeIndex, classes, "start", DOMAIN classes)
    BY <2>1, <2>2, ColumnsAreNumbers, TableIndexed DEF Init
  <2>. QED
    BY <2>2, <2>3, <2>4 DEF Lists, ClassInv, ClassTyped, ClassListsSound, ClassTakenListed
<1>4. ExamInv
  BY NoExams DEF Init
<1>5. SessionInv
  BY <1>1 DEF Init, SessionInv
<1>. QED
  BY <1>2, <1>3, <1>4, <1>5 DEF IInv

-----------------------------------------------------------------------------
(* The handlers. *)

LEMMA CourseHandlers ==
    ASSUME CourseInv, NEW uid \in CourseUid, NEW r \in CourseInput,
           AddCourse(uid, r) \/ UpdateCourse(uid, r)
    PROVE  CourseInv'
<1>1. uid \in Nat /\ r \in Course /\ r["name"] \in Nat
  BY UidAssumption, InputAssumption, ColumnsAreNumbers
<1>2. CASE AddCourse(uid, r)
  <2>1. /\ uid \notin DOMAIN courses
        /\ courses' = Put(courses, uid, r)
        /\ nameIndex' = AddIndex(nameIndex, uid, r["name"])
    BY <1>2 DEF AddCourse
  <2>2. Lists(nameIndex', courses', "name", Listed(nameIndex) \cup {uid})
    BY <1>1, <2>1, PutAdded DEF CourseInv
  <2>3. DOMAIN courses' = DOMAIN courses \cup {uid}
    BY <2>1 DEF Put
  <2>4. IsTable(courses', CourseUid, Course)
    BY <1>1, <2>1, PutTable DEF CourseInv
  <2>. QED
    BY <2>2, <2>3, <2>4 DEF Lists, CourseInv
<1>3. CASE UpdateCourse(uid, r)
  <2>1. /\ uid \in DOMAIN courses
        /\ courses' = Put(courses, uid, r)
        /\ nameIndex' = MoveEntry(nameIndex, uid, r["name"])
    BY <1>3 DEF UpdateCourse
  <2>2. Lists(nameIndex', courses', "name", Listed(nameIndex) \cup {uid})
    BY <1>1, <2>1, PutMoved DEF CourseInv
  <2>3. DOMAIN courses' = DOMAIN courses \cup {uid}
    BY <2>1 DEF Put
  <2>4. IsTable(courses', CourseUid, Course)
    BY <1>1, <2>1, PutTable DEF CourseInv
  <2>. QED
    BY <2>2, <2>3, <2>4 DEF Lists, CourseInv
<1>. QED
  BY <1>2, <1>3

LEMMA CourseDeleted ==
    ASSUME CourseInv, NEW uid \in CourseUid, DeleteCourse(uid)
    PROVE  CourseInv'
<1>1. uid \in Nat
  BY UidAssumption
<1>2. courses' = Drop(courses, uid) /\ nameIndex' = RemoveIndex(nameIndex, uid)
  BY DEF DeleteCourse
<1>3. Lists(nameIndex', courses', "name", Listed(nameIndex) \ {uid})
  BY <1>1, <1>2, DropRemoved DEF CourseInv
<1>4. DOMAIN courses' = DOMAIN courses \ {uid}
  BY <1>2 DEF Drop
<1>5. IsTable(courses', CourseUid, Course)
  BY <1>2, DropTable DEF CourseInv
<1>. QED
  BY <1>3, <1>4, <1>5 DEF Lists, CourseInv

\* A class handler keeps both lists sound and, between login and logout, lists
\* the class it adds or changes.
LEMMA ClassHandlers ==
    ASSUME ClassInv, NEW uid \in ClassUid, NEW r \in ClassInput,
           AddClass(uid, r) \/ UpdateClass(uid, r)
    PROVE  ClassInv'
<1>1. uid \in Nat /\ r \in Class /\ r["course"] \in Nat /\ r["start"] \in Nat
  BY UidAssumption, InputAssumption, ColumnsAreNumbers
<1>2. stale' = stale /\ taking' = taking
  BY DEF AddClass, UpdateClass, sessionVars
<1>3. ClassTyped
  BY DEF ClassInv
<1>4. "classes" \notin stale => /\ ListsSome(courseIndex, classes, "course")
                         /\ ListsSome(startTimeIndex, classes, "start")
                         /\ Listed(courseIndex) = Listed(startTimeIndex)
  BY DEF ClassInv, ClassListsSound
<1>5. CASE AddClass(uid, r)
  <2>1. /\ uid \notin DOMAIN classes
        /\ classes' = Put(classes, uid, r)
        /\ courseIndex' = AddIndex(courseIndex, uid, r["course"])
        /\ startTimeIndex' = AddIndex(startTimeIndex, uid, r["start"])
    BY <1>5 DEF AddClass
  <2>2. ClassTyped'
    BY <1>1, <1>3, <2>1, AddTyped, PutTable DEF ClassTyped
  <2>3. CASE "classes" \in stale
    BY <1>2, <2>2, <2>3, ClassLeft
  <2>4. CASE "classes" \notin stale
    <3>1. Lists(courseIndex', classes', "course", Listed(courseIndex) \cup {uid})
      BY <1>1, <1>3, <1>4, <2>1, <2>4, PutAdded DEF ClassTyped
    <3>2. Lists(startTimeIndex', classes', "start", Listed(startTimeIndex) \cup {uid})
      BY <1>1, <1>3, <1>4, <2>1, <2>4, PutAdded DEF ClassTyped
    <3>3. "classes" \notin stale => ClassTakenListed'
      BY <1>2, <2>1, <3>1 DEF Lists, ClassInv, ClassTakenListed, Put
    <3>. QED
      BY <1>2, <1>4, <2>2, <2>4, <3>1, <3>2, <3>3 DEF Lists, ClassInv, ClassListsSound
  <2>. QED
    BY <2>3, <2>4
<1>6. CASE UpdateClass(uid, r)
  <2>1. /\ uid \in DOMAIN classes
        /\ classes' = Put(classes, uid, r)
        /\ courseIndex' = MoveEntry(courseIndex, uid, r["course"])
        /\ startTimeIndex' = MoveEntry(startTimeIndex, uid, r["start"])
    BY <1>6 DEF UpdateClass
  <2>2. ClassTyped'
    BY <1>1, <1>3, <2>1, MoveTyped, PutTable DEF ClassTyped
  <2>3. CASE "classes" \in stale
    BY <1>2, <2>2, <2>3, ClassLeft
  <2>4. CASE "classes" \notin stale
    <3>1. Lists(courseIndex', classes', "course", Listed(courseIndex) \cup {uid})
      BY <1>1, <1>3, <1>4, <2>1, <2>4, PutMoved DEF ClassTyped
    <3>2. Lists(startTimeIndex', classes', "start", Listed(startTimeIndex) \cup {uid})
      BY <1>1, <1>3, <1>4, <2>1, <2>4, PutMoved DEF ClassTyped
    <3>3. "classes" \notin stale => ClassTakenListed'
      BY <1>2, <2>1, <3>1 DEF Lists, ClassInv, ClassTakenListed, Put
    <3>. QED
      BY <1>2, <1>4, <2>2, <2>4, <3>1, <3>2, <3>3 DEF Lists, ClassInv, ClassListsSound
  <2>. QED
    BY <2>3, <2>4
<1>. QED
  BY <1>5, <1>6

LEMMA ClassDeleted ==
    ASSUME ClassInv, NEW uid \in ClassUid, DeleteClass(uid)
    PROVE  ClassInv'
<1>1. uid \in Nat
  BY UidAssumption
<1>2. stale' = stale /\ taking' = taking
  BY DEF DeleteClass, sessionVars
<1>3. ClassTyped
  BY DEF ClassInv
<1>4. "classes" \notin stale => /\ ListsSome(courseIndex, classes, "course")
                         /\ ListsSome(startTimeIndex, classes, "start")
                         /\ Listed(courseIndex) = Listed(startTimeIndex)
  BY DEF ClassInv, ClassListsSound
<1>5. /\ classes' = Drop(classes, uid)
      /\ courseIndex' = RemoveIndex(courseIndex, uid)
      /\ startTimeIndex' = RemoveIndex(startTimeIndex, uid)
  BY DEF DeleteClass, RemoveClassEntry
<1>6. ClassTyped'
  BY <1>3, <1>5, RemoveTyped, DropTable DEF ClassTyped
<1>7. CASE "classes" \in stale
  BY <1>2, <1>6, <1>7, ClassLeft
<1>8. CASE "classes" \notin stale
  <2>1. Lists(courseIndex', classes', "course", Listed(courseIndex) \ {uid})
    BY <1>1, <1>3, <1>4, <1>5, <1>8, DropRemoved DEF ClassTyped
  <2>2. Lists(startTimeIndex', classes', "start", Listed(startTimeIndex) \ {uid})
    BY <1>1, <1>3, <1>4, <1>5, <1>8, DropRemoved DEF ClassTyped
  <2>3. "classes" \notin stale => ClassTakenListed'
    BY <1>2, <1>5, <2>1 DEF Lists, ClassInv, ClassTakenListed, Drop
  <2>. QED
    BY <1>2, <1>4, <1>6, <1>8, <2>1, <2>2, <2>3 DEF Lists, ClassInv, ClassListsSound
<1>. QED
  BY <1>7, <1>8

\* The same of the exam handlers.
LEMMA ExamHandlers ==
    ASSUME ExamInv, NEW uid \in ExamUid, NEW r \in ExamInput,
           AddExam(uid, r) \/ UpdateExam(uid, r)
    PROVE  ExamInv'
<1>1. uid \in Nat /\ r \in Exam /\ r["course"] \in Nat
  BY UidAssumption, InputAssumption, ColumnsAreNumbers
<1>2. stale' = stale /\ taking' = taking
  BY DEF AddExam, UpdateExam, sessionVars
<1>3. ExamTyped
  BY DEF ExamInv
<1>4. "exams" \notin stale => ListsSome(examIndex, exams, "course")
  BY DEF ExamInv, ExamListSound
<1>5. CASE AddExam(uid, r)
  <2>1. /\ uid \notin DOMAIN exams
        /\ exams' = Put(exams, uid, r)
        /\ examIndex' = AddIndex(examIndex, uid, r["course"])
    BY <1>5 DEF AddExam
  <2>2. ExamTyped'
    BY <1>1, <1>3, <2>1, AddTyped, PutTable DEF ExamTyped
  <2>3. CASE "exams" \in stale
    BY <1>2, <2>2, <2>3, ExamLeft
  <2>4. CASE "exams" \notin stale
    <3>1. Lists(examIndex', exams', "course", Listed(examIndex) \cup {uid})
      BY <1>1, <1>3, <1>4, <2>1, <2>4, PutAdded DEF ExamTyped
    <3>2. "exams" \notin stale => ExamTakenListed'
      BY <1>2, <2>1, <3>1 DEF Lists, ExamInv, ExamTakenListed, Put
    <3>. QED
      BY <1>2, <2>2, <3>1, <3>2 DEF Lists, ExamInv, ExamListSound
  <2>. QED
    BY <2>3, <2>4
<1>6. CASE UpdateExam(uid, r)
  <2>1. /\ uid \in DOMAIN exams
        /\ exams' = Put(exams, uid, r)
        /\ examIndex' = MoveEntry(examIndex, uid, r["course"])
    BY <1>6 DEF UpdateExam
  <2>2. ExamTyped'
    BY <1>1, <1>3, <2>1, MoveTyped, PutTable DEF ExamTyped
  <2>3. CASE "exams" \in stale
    BY <1>2, <2>2, <2>3, ExamLeft
  <2>4. CASE "exams" \notin stale
    <3>1. Lists(examIndex', exams', "course", Listed(examIndex) \cup {uid})
      BY <1>1, <1>3, <1>4, <2>1, <2>4, PutMoved DEF ExamTyped
    <3>2. "exams" \notin stale => ExamTakenListed'
      BY <1>2, <2>1, <3>1 DEF Lists, ExamInv, ExamTakenListed, Put
    <3>. QED
      BY <1>2, <2>2, <3>1, <3>2 DEF Lists, ExamInv, ExamListSound
  <2>. QED
    BY <2>3, <2>4
<1>. QED
  BY <1>5, <1>6

LEMMA ExamDeleted ==
    ASSUME ExamInv, NEW uid \in ExamUid, DeleteExam(uid)
    PROVE  ExamInv'
<1>1. uid \in Nat
  BY UidAssumption
<1>2. stale' = stale /\ taking' = taking
  BY DEF DeleteExam, sessionVars
<1>3. ExamTyped
  BY DEF ExamInv
<1>4. "exams" \notin stale => ListsSome(examIndex, exams, "course")
  BY DEF ExamInv, ExamListSound
<1>5. exams' = Drop(exams, uid) /\ examIndex' = RemoveIndex(examIndex, uid)
  BY DEF DeleteExam
<1>6. ExamTyped'
  BY <1>3, <1>5, RemoveTyped, DropTable DEF ExamTyped
<1>7. CASE "exams" \in stale
  BY <1>2, <1>6, <1>7, ExamLeft
<1>8. CASE "exams" \notin stale
  <2>1. Lists(examIndex', exams', "course", Listed(examIndex) \ {uid})
    BY <1>1, <1>3, <1>4, <1>5, <1>8, DropRemoved DEF ExamTyped
  <2>2. "exams" \notin stale => ExamTakenListed'
    BY <1>2, <1>5, <2>1 DEF Lists, ExamInv, ExamTakenListed, Drop
  <2>. QED
    BY <1>2, <1>6, <2>1, <2>2 DEF Lists, ExamInv, ExamListSound
<1>. QED
  BY <1>7, <1>8

-----------------------------------------------------------------------------
(* Start, login and logout. *)

LEMMA CoursesLoaded == LoadCourses => CourseInv'
<1>. SUFFICES ASSUME LoadCourses PROVE CourseInv'
  OBVIOUS
<1>1. CourseUid \subseteq Nat /\ IsFiniteSet(CourseUid)
  BY UidAssumption
<1>2. IsTable(CourseFile, CourseUid, Course)
  BY FileAssumption DEF IsTable
<1>3. PICK idx : idx = IndexOf(CourseFile, DOMAIN CourseFile, "name")
  OBVIOUS
<1>4. Lists(idx, CourseFile, "name", DOMAIN CourseFile)
  BY <1>1, <1>2, <1>3, ColumnsAreNumbers, TableIndexed
<1>5. courses' = CourseFile /\ nameIndex' = idx
  BY <1>3 DEF LoadCourses
<1>. QED
  BY <1>2, <1>4, <1>5 DEF Lists, CourseInv

LEMMA StepReload == IInv /\ Reload => IInv'
<1>. SUFFICES ASSUME IInv, Reload PROVE IInv'
  OBVIOUS
<1>1. IsTable(file.classes, ClassUid, Class)
  BY DEF IInv, SessionInv
<1>2. ClassInv'
  BY <1>1, AllClassesListed DEF Reload
<1>3. CourseInv'
  BY CourseKept DEF IInv, Reload
<1>4. ExamInv'
  <2>1. "exams" \in stale' <=> "exams" \in stale
    BY DEF Reload
  <2>. QED
    BY <2>1 DEF IInv, ExamInv, ExamTyped, ExamListSound, ExamTakenListed, Reload, examVars
<1>5. SessionInv'
  BY DEF IInv, SessionInv, Reload
<1>. QED
  BY <1>2, <1>3, <1>4, <1>5 DEF IInv

LEMMA StepReloadFails == IInv /\ ReloadFails => IInv'
<1>. SUFFICES ASSUME IInv, ReloadFails PROVE IInv'
  OBVIOUS
<1>1. ClassInv'
  BY EmptyTable, ClassLeft DEF IInv, ClassInv, ClassTyped, ReloadFails
<1>2. CourseInv'
  BY CourseKept DEF IInv, ReloadFails
<1>3. ExamInv'
  <2>1. "exams" \in stale' <=> "exams" \in stale
    BY DEF ReloadFails
  <2>. QED
    BY <2>1 DEF IInv, ExamInv, ExamTyped, ExamListSound, ExamTakenListed, ReloadFails, examVars
<1>4. SessionInv'
  BY DEF IInv, SessionInv, ReloadFails, Tables
<1>. QED
  BY <1>1, <1>2, <1>3, <1>4 DEF IInv

LEMMA StepRestart == IInv /\ Restart => IInv'
<1>. SUFFICES ASSUME IInv, Restart PROVE IInv'
  OBVIOUS
<1>1. IsTable(file.classes, ClassUid, Class)
  BY DEF IInv, SessionInv
<1>2. ClassInv'
  <2>1. PICK loaded \in {file.classes, << >>} : SetClasses(loaded, DOMAIN loaded)
    BY DEF Restart
  <2>2. IsTable(loaded, ClassUid, Class)
    BY <1>1, EmptyTable
  <2>. QED
    BY <2>1, <2>2, AllClassesListed
<1>3. CourseInv'
  BY EmptyTable, NothingListed DEF Restart, CourseInv
<1>4. ExamInv'
  <2>1. exams' = << >> /\ examIndex' = << >>
    BY DEF Restart
  <2>2. ExamTyped' /\ DOMAIN exams' = {}
    BY <2>1, EmptyTable DEF ExamTyped
  <2>3. ListsSome(examIndex', exams', "course")
    BY <2>1, NothingListed
  <2>. QED
    BY <2>2, <2>3 DEF ExamInv, ExamListSound, ExamTakenListed
<1>5. SessionInv'
  BY DEF IInv, SessionInv, Restart
<1>. QED
  BY <1>2, <1>3, <1>4, <1>5 DEF IInv

LEMMA StepLogin ==
    ASSUME IInv, NEW taken \in Enrolment, Login(taken)
    PROVE  IInv'
<1>1. IsTable(file.classes, ClassUid, Class) /\ IsTable(file.exams, ExamUid, Exam)
  BY DEF IInv, SessionInv
<1>2. stale' = {} /\ taking' = taken
  BY DEF Login
<1>3. ClassInv'
  <2>1. PICK listed \in SUBSET DOMAIN file.classes : listed = OfCourses(file.classes, taken)
    BY DEF OfCourses
  <2>2. SetClasses(file.classes, listed)
    BY <2>1 DEF Login
  <2>3. /\ classes' = file.classes
        /\ Lists(courseIndex', file.classes, "course", listed)
        /\ Lists(startTimeIndex', file.classes, "start", listed)
    BY <1>1, <2>2, ClassesSet
  <2>4. ClassTakenListed'
    BY <1>2, <2>1, <2>3 DEF Lists, ClassTakenListed, OfCourses
  <2>. QED
    BY <1>1, <2>3, <2>4 DEF Lists, ClassInv, ClassTyped, ClassListsSound
<1>4. ExamInv'
  <2>1. PICK listed \in SUBSET DOMAIN file.exams : listed = OfCourses(file.exams, taken)
    BY DEF OfCourses
  <2>2. SetExams(file.exams, listed)
    BY <2>1 DEF Login
  <2>3. /\ exams' = file.exams
        /\ Lists(examIndex', file.exams, "course", listed)
    BY <1>1, <2>2, ExamsSet
  <2>4. ExamTakenListed'
    BY <1>2, <2>1, <2>3 DEF Lists, ExamTakenListed, OfCourses
  <2>. QED
    BY <1>1, <2>3, <2>4 DEF Lists, ExamInv, ExamTyped, ExamListSound
<1>5. CourseInv'
  BY CoursesLoaded DEF Login
<1>6. SessionInv'
  BY DEF IInv, SessionInv, Login
<1>. QED
  BY <1>3, <1>4, <1>5, <1>6 DEF IInv

LEMMA StepLoginFailsAtClasses == IInv /\ LoginFailsAtClasses => IInv'
<1>. SUFFICES ASSUME IInv, LoginFailsAtClasses PROVE IInv'
  OBVIOUS
<1>1. CourseInv'
  BY CoursesLoaded DEF LoginFailsAtClasses
<1>2. ClassInv' /\ ExamInv' /\ SessionInv'
  BY ClassKept, ExamKept, SessionKept DEF IInv, LoginFailsAtClasses, sessionVars
<1>. QED
  BY <1>1, <1>2 DEF IInv

LEMMA StepLoginFailsAtExams == IInv /\ LoginFailsAtExams => IInv'
<1>. SUFFICES ASSUME IInv, LoginFailsAtExams PROVE IInv'
  OBVIOUS
<1>1. CourseInv'
  BY CoursesLoaded DEF LoginFailsAtExams
<1>2. ClassInv'
  BY ClassLeft DEF IInv, ClassInv, ClassTyped, SessionInv, LoginFailsAtExams
<1>3. ExamInv'
  <2>1. "exams" \in stale' <=> "exams" \in stale
    BY DEF LoginFailsAtExams
  <2>. QED
    BY <2>1 DEF IInv, ExamInv, ExamTyped, ExamListSound, ExamTakenListed,
                LoginFailsAtExams, examVars
<1>4. SessionInv'
  BY DEF IInv, SessionInv, LoginFailsAtExams, Tables
<1>. QED
  BY <1>1, <1>2, <1>3, <1>4 DEF IInv

LEMMA StepLogout == IInv /\ Logout => IInv'
<1>. SUFFICES ASSUME IInv, Logout PROVE IInv'
  OBVIOUS
<1>1. CourseInv'
  BY CourseKept DEF IInv, Logout
<1>2. ClassInv'
  BY EmptyTable, ClassLeft DEF IInv, ClassInv, ClassTyped, Logout, Tables
<1>3. ExamInv'
  BY EmptyTable, ExamLeft DEF IInv, ExamInv, ExamTyped, Logout, Tables
<1>4. SessionInv'
  <2>1. PICK opened \in SUBSET Tables : file' = Saved(opened)
    BY DEF Logout
  <2>2. IsTable(file'.classes, ClassUid, Class)
    BY <2>1 DEF Saved, IInv, ClassInv, ClassTyped, SessionInv
  <2>3. IsTable(file'.exams, ExamUid, Exam)
    BY <2>1 DEF Saved, IInv, ExamInv, ExamTyped, SessionInv
  <2>. QED
    BY <2>2, <2>3 DEF IInv, SessionInv, Logout
<1>. QED
  BY <1>1, <1>2, <1>3, <1>4 DEF IInv

-----------------------------------------------------------------------------
(* Every step, and the theorems. *)

LEMMA StepIInv == IInv /\ [Next]_vars => IInv'
<1>. SUFFICES ASSUME IInv, [Next]_vars PROVE IInv'
  OBVIOUS
<1>1. CASE Reload
  BY <1>1, StepReload
<1>2. CASE Restart
  BY <1>2, StepRestart
<1>3. ASSUME NEW taken \in Enrolment, Login(taken) PROVE IInv'
  BY <1>3, StepLogin
<1>4. CASE LoginFailsAtClasses
  BY <1>4, StepLoginFailsAtClasses
<1>5. CASE LoginFailsAtExams
  BY <1>5, StepLoginFailsAtExams
<1>6. CASE Logout
  BY <1>6, StepLogout
<1>7. ASSUME UNCHANGED <<classVars, examVars, sessionVars>>, CourseInv'
      PROVE  IInv'
  BY <1>7, ClassKept, ExamKept, SessionKept DEF IInv, sessionVars
<1>8. ASSUME UNCHANGED <<courseVars, examVars, sessionVars>>, ClassInv'
      PROVE  IInv'
  BY <1>8, CourseKept, ExamKept, SessionKept DEF IInv, sessionVars
<1>9. ASSUME UNCHANGED <<courseVars, classVars, sessionVars>>, ExamInv'
      PROVE  IInv'
  BY <1>9, CourseKept, ClassKept, SessionKept DEF IInv, sessionVars
<1>10. ASSUME NEW u \in CourseUid, NEW r \in CourseInput, AddCourse(u, r) \/ UpdateCourse(u, r)
       PROVE  IInv'
  <2>1. CourseInv'
    BY <1>10, CourseHandlers DEF IInv
  <2>. QED
    BY <1>7, <1>10, <2>1 DEF AddCourse, UpdateCourse
<1>11. ASSUME NEW u \in CourseUid, DeleteCourse(u) PROVE IInv'
  <2>1. CourseInv'
    BY <1>11, CourseDeleted DEF IInv
  <2>. QED
    BY <1>7, <1>11, <2>1 DEF DeleteCourse
<1>12. ASSUME NEW u \in ClassUid, NEW r \in ClassInput, AddClass(u, r) \/ UpdateClass(u, r)
       PROVE  IInv'
  <2>1. ClassInv'
    BY <1>12, ClassHandlers DEF IInv
  <2>. QED
    BY <1>8, <1>12, <2>1 DEF AddClass, UpdateClass
<1>13. ASSUME NEW u \in ClassUid, DeleteClass(u) PROVE IInv'
  <2>1. ClassInv'
    BY <1>13, ClassDeleted DEF IInv
  <2>. QED
    BY <1>8, <1>13, <2>1 DEF DeleteClass
<1>14. ASSUME NEW u \in ExamUid, NEW r \in ExamInput, AddExam(u, r) \/ UpdateExam(u, r)
       PROVE  IInv'
  <2>1. ExamInv'
    BY <1>14, ExamHandlers DEF IInv
  <2>. QED
    BY <1>9, <1>14, <2>1 DEF AddExam, UpdateExam
<1>15. ASSUME NEW u \in ExamUid, DeleteExam(u) PROVE IInv'
  <2>1. ExamInv'
    BY <1>15, ExamDeleted DEF IInv
  <2>. QED
    BY <1>9, <1>15, <2>1 DEF DeleteExam
<1>16. CASE ReloadFails
  BY <1>16, StepReloadFails
<1>17. CASE UNCHANGED vars
  BY <1>17, CourseKept, ClassKept, ExamKept, SessionKept DEF IInv, vars, sessionVars
<1>. QED
  BY <1>1, <1>2, <1>3, <1>4, <1>5, <1>6, <1>10, <1>11, <1>12, <1>13, <1>14, <1>15, <1>16, <1>17
  DEF Next

LEMMA Invariant == Spec => []IInv
BY InitIInv, StepIInv, PTL DEF Spec

\* The three tables, their indices and their files keep their types, whatever
\* a logout or a login that failed half way leaves in them.
THEOREM TypeCorrect == Spec => []TypeOK
<1>1. IInv => TypeOK
  BY DEF IInv, CourseInv, ClassInv, ClassTyped, ExamInv, ExamTyped, SessionInv, TypeOK, IsTable
<1>. QED
  BY <1>1, Invariant, PTL

\* Whatever is added, edited, loaded, reloaded or fails to load, every entry of
\* the two lists of classes has its record, under the value it is listed for,
\* and once, so that GetList and ImportClass dereference nothing that is not
\* there; but for the time from a step that replaces the classes alone (logout,
\* a reload or a login that fails half way) to the next that indexes them.
THEOREM ClassListsAreSound == Spec => []ClassListsSound
<1>1. IInv => ClassListsSound
  BY DEF IInv, ClassInv
<1>. QED
  BY <1>1, Invariant, PTL

\* The same of the list of exams, but for the time from a logout to the next login.
THEOREM ExamListIsSound == Spec => []ExamListSound
<1>1. IInv => ExamListSound
  BY DEF IInv, ExamInv
<1>. QED
  BY <1>1, Invariant, PTL

\* No class and no exam of a course the user takes is left out of the lists,
\* whatever was added, moved or deleted since the login.
THEOREM TakenAreListed == Spec => []TakenIsListed
<1>1. IInv => TakenIsListed
  BY DEF IInv, ClassInv, ClassTakenListed, ExamInv, ExamTakenListed, TakenIsListed
<1>. QED
  BY <1>1, Invariant, PTL

\* The index of names lists all the courses, logged in or not.
THEOREM CourseNamesAreCoherent == Spec => []CourseNamesCoherent
<1>1. IInv => CourseNamesCoherent
  BY ListsAll, TableFields DEF IInv, CourseInv, CourseNamesCoherent
<1>. QED
  BY <1>1, Invariant, PTL
=============================================================================
