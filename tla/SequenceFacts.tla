---------------------------- MODULE SequenceFacts ----------------------------
(***************************************************************************)
(* Facts for the proofs in the other modules: about least and greatest     *)
(* elements, about inserting into and removing from a sequence, and about  *)
(* the multimaps of TableIndex, which are sequences of entries: one alone, *)
(* and one as the index of a table beside its records.                     *)
(***************************************************************************)
EXTENDS TableIndex, Integers, SequencesExt, FiniteSetTheorems, WellFoundedInduction,
        SequenceTheorems, TLAPS

\* The less-than relation on the naturals, as a set of pairs, is well-founded.
LEMMA LessThanRelation ==
    \E R : /\ IsWellFoundedOn(R, Nat)
           /\ \A x, y \in Nat : x < y => <<x, y>> \in R
<1>1. IsWellFoundedOn(OpToRel(<, Nat), Nat)
  BY NatLessThanWellFounded
<1>2. \A x, y \in Nat : x < y => <<x, y>> \in OpToRel(<, Nat)
  BY Zenon DEF OpToRel
<1>. QED
  BY <1>1, <1>2, Zenon

\* A non-empty set of naturals has a least element, which Min returns.
LEMMA MinIsLeast ==
    ASSUME NEW S, S \subseteq Nat, S # {}
    PROVE  Min(S) \in S /\ \A x \in S : Min(S) <= x
<1>1. PICK R : /\ IsWellFoundedOn(R, Nat)
               /\ \A x, y \in Nat : x < y => <<x, y>> \in R
  BY LessThanRelation
<1>2. PICK m \in S : \A x \in S : ~(<<x, m>> \in R)
  <2>1. IsWellFoundedOn(R, Nat)
    BY <1>1
  <2>. QED
    BY <2>1, WFMin
<1>3. ASSUME NEW x \in S PROVE m <= x
  <2>1. x \in Nat /\ m \in Nat
    OBVIOUS
  <2>2. ~(x < m)
    BY <1>1, <1>2, <2>1
  <2>. QED
    BY <2>1, <2>2
<1>. QED
  BY <1>3 DEF Min

\* A set with 0, and with each of its naturals the next one, has them all.
LEMMA AllNaturals ==
    ASSUME NEW S, 0 \in S, \A k \in S : k + 1 \in S
    PROVE  \A n \in Nat : n \in S
<1>. DEFINE Bad == {n \in Nat : n \notin S}
<1>. SUFFICES ASSUME Bad # {} PROVE FALSE
  OBVIOUS
<1>1. PICK n \in Bad : \A k \in Bad : n <= k
  <2>1. Bad \subseteq Nat
    OBVIOUS
  <2>. HIDE DEF Bad
  <2>. QED
    BY <2>1, MinIsLeast
<1>2. n \in Nat /\ n # 0
  BY <1>1
<1>3. n - 1 \in Nat /\ (n - 1) + 1 = n /\ ~(n <= n - 1)
  BY <1>2
<1>4. n - 1 \in S
  BY <1>1, <1>3
<1>. QED
  BY <1>1, <1>3, <1>4

\* A function that is computed in n steps, from b on, within D.
Iterates(f, n, D, b, step) ==
    /\ f \in [0 .. n -> D]
    /\ f[0] = b
    /\ \A i \in 1 .. n : f[i] = step[<<i, f[i - 1]>>]

StepsWithin(step, n, D) == step \in [(1 .. n) \X D -> D]

\* There is one.
LEMMA Iteration ==
    ASSUME NEW D, NEW b \in D, NEW n \in Nat, NEW step, StepsWithin(step, n, D)
    PROVE  \E f : Iterates(f, n, D, b, step)
<1>. DEFINE Run(f, k) == /\ f \in [0 .. k -> D] /\ f[0] = b
                         /\ \A i \in 1 .. k : f[i] = step[<<i, f[i - 1]>>]
            Runs == {k \in Nat : k <= n => \E f : Run(f, k)}
<1>1. \E f : Run(f, 0)
  <2>1. Run([i \in 0 .. 0 |-> b], 0)
    OBVIOUS
  <2>. QED
    BY <2>1
<1>2. ASSUME NEW k \in Nat, k + 1 <= n, NEW f, Run(f, k)
      PROVE  \E g : Run(g, k + 1)
  <2>1. f[k] \in D /\ k + 1 \in 1 .. n
    BY <1>2
  <2>2. PICK d : d = step[<<k + 1, f[k]>>]
    OBVIOUS
  <2>3. d \in D
    BY <2>1, <2>2 DEF StepsWithin
  <2>4. PICK g : g = [i \in 0 .. k + 1 |-> IF i = k + 1 THEN d ELSE f[i]]
    OBVIOUS
  <2>5. \A i \in 0 .. k : g[i] = f[i] /\ f[i] \in D
    BY <1>2, <2>4
  <2>6. g \in [0 .. k + 1 -> D]
    <3>1. \A i \in 0 .. k + 1 : i = k + 1 \/ i \in 0 .. k
      OBVIOUS
    <3>. QED
      BY <2>3, <2>4, <2>5, <3>1
  <2>7. ASSUME NEW i \in 1 .. k + 1 PROVE g[i] = step[<<i, g[i - 1]>>]
    <3>1. CASE i = k + 1
      <4>1. g[i] = d /\ g[i - 1] = f[k]
        BY <2>4, <3>1
      <4>. QED
        BY <2>2, <3>1, <4>1
    <3>2. CASE i # k + 1
      <4>1. i \in 1 .. k /\ i \in 0 .. k /\ i - 1 \in 0 .. k
        BY <3>2
      <4>2. f[i] = step[<<i, f[i - 1]>>]
        BY <1>2, <4>1
      <4>. QED
        BY <2>5, <4>1, <4>2
    <3>. QED
      BY <3>1, <3>2
  <2>8. g[0] = b
    BY <1>2, <2>5
  <2>. QED
    BY <2>6, <2>7, <2>8
<1>3. 0 \in Runs /\ \A k \in Runs : k + 1 \in Runs
  <2>. HIDE DEF Run
  <2>1. 0 \in Runs
    BY <1>1
  <2>2. ASSUME NEW k \in Runs, k + 1 <= n PROVE \E f : Run(f, k + 1)
    BY <1>2, <2>2
  <2>. QED
    BY <2>1, <2>2
<1>4. n \in Runs
  <2>. HIDE DEF Runs
  <2>. QED
    BY <1>3, AllNaturals
<1>. QED
  BY <1>4 DEF Iterates

\* What a function that keeps within D a step at a time has.
LEMMA IterationStays ==
    ASSUME NEW D, NEW n \in Nat, NEW g, g[0] \in D,
           \A i \in 1 .. n : g[i - 1] \in D => g[i] \in D
    PROVE  \A i \in 0 .. n : g[i] \in D
<1>. DEFINE Runs == {k \in Nat : k <= n => g[k] \in D}
<1>1. 0 \in Runs /\ \A k \in Runs : k + 1 \in Runs
  <2>1. ASSUME NEW k \in Runs, k + 1 <= n PROVE g[k + 1] \in D
    <3>1. k + 1 \in 1 .. n /\ (k + 1) - 1 = k /\ g[k] \in D
      BY <2>1
    <3>. QED
      BY <3>1
  <2>. QED
    BY <2>1
<1>2. ASSUME NEW i \in 0 .. n PROVE i \in Runs
  <2>. HIDE DEF Runs
  <2>. QED
    BY <1>1, AllNaturals
<1>. QED
  BY <1>2

\* A finite non-empty set of naturals has a greatest element, which Max returns.
LEMMA MaxIsGreatest ==
    ASSUME NEW S, S \subseteq Nat, IsFiniteSet(S), S # {}
    PROVE  Max(S) \in S /\ \A x \in S : Max(S) >= x
<1>. DEFINE HasMax(T) == \E m \in T : \A x \in T : m >= x
            Bad == {n \in Nat : \E T \in SUBSET S : /\ T # {} /\ Cardinality(T) = n
                                                    /\ ~HasMax(T)}
<1>1. Bad = {}
  <2>. SUFFICES ASSUME Bad # {} PROVE FALSE
    OBVIOUS
  <2>1. PICK n \in Bad : \A k \in Bad : n <= k
    <3>1. Bad \subseteq Nat
      OBVIOUS
    <3>. HIDE DEF Bad
    <3>. QED
      BY <3>1, MinIsLeast
  <2>2. PICK T \in SUBSET S : T # {} /\ Cardinality(T) = n /\ ~HasMax(T)
    BY <2>1
  <2>3. PICK x \in T : TRUE
    BY <2>2
  <2>4. IsFiniteSet(T)
    BY FS_Subset
  <2>5. Cardinality(T \ {x}) = n - 1
    BY <2>2, <2>3, <2>4, FS_RemoveElement
  <2>6. Cardinality(T \ {x}) \in Nat /\ n \in Nat
    BY <2>1, <2>4, FS_RemoveElement, FS_CardinalityType
  <2>7. n - 1 \notin Bad
    BY <2>1, <2>6
  <2>8. CASE T \ {x} = {}
    <3>1. T = {x} /\ x \in Nat
      BY <2>3, <2>8
    <3>. QED
      BY <2>2, <3>1
  <2>9. CASE T \ {x} # {}
    <3>1. HasMax(T \ {x})
      BY <2>5, <2>6, <2>7, <2>9
    <3>2. PICK m \in T \ {x} : \A y \in T \ {x} : m >= y
      BY <3>1
    <3>3. T \subseteq Nat
      OBVIOUS
    <3>4. CASE m >= x
      BY <3>2, <3>4, <2>2
    <3>5. CASE ~(m >= x)
      <4>1. \A y \in T : x >= y
        BY <3>2, <3>3, <3>5, <2>3
      <4>. QED
        BY <4>1, <2>2, <2>3
    <3>. QED
      BY <3>4, <3>5
  <2>. QED
    BY <2>8, <2>9
<1>2. HasMax(S)
  <2>1. Cardinality(S) \in Nat
    BY FS_CardinalityType
  <2>. QED
    BY <1>1, <2>1
<1>. QED
  BY <1>2 DEF Max

\* What the integer division of naturals computes.
LEMMA DivMod ==
    ASSUME NEW n \in Nat \ {0}, NEW d \in Nat
    PROVE  /\ d \div n \in Nat /\ d % n \in Nat /\ d % n < n
           /\ d = (d \div n) * n + (d % n)
<1>1. d \div n \in Nat
  OBVIOUS
<1>2. d % n \in Nat /\ d % n < n
  OBVIOUS
<1>3. d = (d \div n) * n + (d % n)
  OBVIOUS
<1>. QED
  BY <1>1, <1>2, <1>3

\* The multiples of n lie n apart.
LEMMA ProductGrows ==
    ASSUME NEW n \in Nat, NEW a \in Nat, NEW b \in Nat, a < b
    PROVE  /\ a * n \in Nat /\ b * n \in Nat /\ a * n + n <= b * n
<1>1. PICK c \in Nat : b = a + 1 + c
  <2>1. b - a - 1 \in Nat /\ b = a + 1 + (b - a - 1)
    OBVIOUS
  <2>. QED
    BY <2>1
<1>2. b * n = a * n + n + c * n
  BY <1>1
<1>3. a * n \in Nat /\ b * n \in Nat /\ c * n \in Nat
  OBVIOUS
<1>. QED
  BY <1>2, <1>3

\* The elements of a concatenation, range by range.
LEMMA Concat ==
    ASSUME NEW T, NEW a \in Seq(T), NEW b \in Seq(T), NEW c, c = a \o b
    PROVE  /\ c \in Seq(T) /\ Len(c) = Len(a) + Len(b)
           /\ \A j \in 1 .. Len(a) : c[j] = a[j] 
           /\ \A j \in 1 .. Len(b) : c[Len(a) + j] = b[j] 
<1>1. c \in Seq(T) /\ Len(c) = Len(a) + Len(b)
  OBVIOUS
<1>2. ASSUME NEW j \in 1 .. Len(a) PROVE c[j] = a[j]
  OBVIOUS
<1>3. ASSUME NEW j \in 1 .. Len(b) PROVE c[Len(a) + j] = b[j]
  OBVIOUS
<1>. QED
  BY <1>1, <1>2, <1>3

\* The elements of a subsequence.
LEMMA Slice ==
    ASSUME NEW T, NEW s \in Seq(T), NEW m \in 1 .. Len(s) + 1,
           NEW n \in m - 1 .. Len(s), NEW c, c = SubSeq(s, m, n)
    PROVE  /\ c \in Seq(T) /\ Len(c) = n - m + 1
           /\ \A j \in 1 .. n - m + 1 : c[j] = s[m + j - 1]
<1>1. c \in Seq(T) /\ Len(c) = n - m + 1
  OBVIOUS
<1>2. ASSUME NEW j \in 1 .. n - m + 1 PROVE c[j] = s[m + j - 1]
  OBVIOUS
<1>. QED
  BY <1>1, <1>2

\* InsertAt shifts the elements from position i on by one.
LEMMA InsertAtElements ==
    ASSUME NEW T, NEW s \in Seq(T), NEW i \in 1 .. Len(s) + 1, NEW e \in T,
           NEW c, c = InsertAt(s, i, e)
    PROVE  /\ c \in Seq(T) /\ Len(c) = Len(s) + 1
           /\ c[i] = e
           /\ \A j \in 1 .. i - 1 : c[j] = s[j]
           /\ \A j \in i .. Len(s) : c[j + 1] = s[j]
<1>1. PICK pre : pre = SubSeq(s, 1, i - 1)
  OBVIOUS
<1>2. PICK one : one = <<e>>
  OBVIOUS
<1>3. PICK front : front = pre \o one
  OBVIOUS
<1>4. PICK post : post = SubSeq(s, i, Len(s))
  OBVIOUS
<1>5. c = front \o post
  BY <1>1, <1>2, <1>3, <1>4 DEF InsertAt
<1>6. /\ pre \in Seq(T) /\ Len(pre) = i - 1
      /\ \A j \in 1 .. i - 1 : pre[j] = s[j]
  <2>1. 1 \in 1 .. Len(s) + 1 /\ i - 1 \in 1 - 1 .. Len(s)
     OBVIOUS
  <2>2. /\ pre \in Seq(T) /\ Len(pre) = (i - 1) - 1 + 1
        /\ \A j \in 1 .. (i - 1) - 1 + 1 : pre[j] = s[1 + j - 1]
     BY ONLY <1>1, <2>1, Slice, s \in Seq(T)
  <2>. QED BY <2>2
<1>7. /\ post \in Seq(T) /\ Len(post) = Len(s) - i + 1
      /\ \A j \in 1 .. Len(s) - i + 1 : post[j] = s[i + j - 1]
  BY <1>4, Slice
<1>8. one \in Seq(T) /\ Len(one) = 1 /\ one[1] = e
  BY <1>2
<1>9. /\ front \in Seq(T) /\ Len(front) = i
      /\ \A j \in 1 .. i - 1 : front[j] = s[j]
      /\ front[i] = e
  <2>1. /\ front \in Seq(T) /\ Len(front) = Len(pre) + Len(one)
        /\ \A j \in 1 .. Len(pre) : front[j] = pre[j] 
        /\ \A j \in 1 .. Len(one) : front[Len(pre) + j] = one[j] 
    <3>1. pre \in Seq(T) /\ one \in Seq(T)
      BY <1>6, <1>8
    <3>. QED
      BY <1>3, <3>1, Concat
  <2>2. front[Len(pre) + 1] = one[1]
    BY <2>1, <1>8
  <2>3. ASSUME NEW j \in 1 .. i - 1 PROVE front[j] = s[j]
    BY <2>1, <1>6
  <2>. QED BY <2>1, <2>2, <2>3, <1>6, <1>8
<1>10. /\ c \in Seq(T) /\ Len(c) = Len(front) + Len(post)
       /\ \A j \in 1 .. Len(front) : c[j] = front[j] 
       /\ \A j \in 1 .. Len(post) : c[Len(front) + j] = post[j] 
  BY <1>5, <1>7, <1>9, Concat
<1>11. ASSUME NEW j \in 1 .. i - 1 PROVE c[j] = s[j]
  BY <1>9, <1>10
<1>12. c[i] = e
  BY <1>9, <1>10
<1>13. ASSUME NEW j \in i .. Len(s) PROVE c[j + 1] = s[j]
  <2>1. j + 1 - i \in 1 .. Len(post)
    BY <1>7
  <2>2. c[i + (j + 1 - i)] = post[j + 1 - i]
    BY <2>1, <1>9, <1>10
  <2>3. post[j + 1 - i] = s[i + (j + 1 - i) - 1]
    BY <2>1, <1>7
  <2>. QED BY <2>2, <2>3
<1>. QED
  BY <1>7, <1>9, <1>10, <1>11, <1>12, <1>13

\* RemoveAt shifts the elements behind position i back by one.
LEMMA RemoveAtElements ==
    ASSUME NEW T, NEW s \in Seq(T), NEW i \in 1 .. Len(s),
           NEW c, c = RemoveAt(s, i)
    PROVE  /\ c \in Seq(T) /\ Len(c) = Len(s) - 1
           /\ \A j \in 1 .. i - 1 : c[j] = s[j]
           /\ \A j \in i .. Len(s) - 1 : c[j] = s[j + 1]
<1>1. PICK pre : pre = SubSeq(s, 1, i - 1)
  OBVIOUS
<1>2. PICK post : post = SubSeq(s, i + 1, Len(s))
  OBVIOUS
<1>3. c = pre \o post
  BY <1>1, <1>2 DEF RemoveAt
<1>4. /\ pre \in Seq(T) /\ Len(pre) = i - 1
      /\ \A j \in 1 .. i - 1 : pre[j] = s[j]
  BY <1>1, Slice
<1>5. /\ post \in Seq(T) /\ Len(post) = Len(s) - i
      /\ \A j \in 1 .. Len(s) - i : post[j] = s[i + j]
  <2>1. /\ post \in Seq(T) /\ Len(post) = Len(s) - (i + 1) + 1
        /\ \A j \in 1 .. Len(s) - (i + 1) + 1 : post[j] = s[(i + 1) + j - 1]
    BY <1>2, Slice
  <2>. QED
    BY <2>1
<1>6. /\ c \in Seq(T) /\ Len(c) = Len(pre) + Len(post)
      /\ \A j \in 1 .. Len(pre) : c[j] = pre[j]
      /\ \A j \in 1 .. Len(post) : c[Len(pre) + j] = post[j]
  <2>1. pre \in Seq(T) /\ post \in Seq(T)
    BY <1>4, <1>5
  <2>. QED
    BY <1>3, <2>1, Concat
<1>7. ASSUME NEW j \in 1 .. i - 1 PROVE c[j] = s[j]
  BY <1>4, <1>6
<1>8. ASSUME NEW j \in i .. Len(s) - 1 PROVE c[j] = s[j + 1]
  <2>1. j - i + 1 \in 1 .. Len(post)
    BY <1>5
  <2>2. c[(i - 1) + (j - i + 1)] = post[j - i + 1]
    BY <2>1, <1>4, <1>6
  <2>3. post[j - i + 1] = s[i + (j - i + 1)]
    BY <2>1, <1>5
  <2>. QED
    BY <2>2, <2>3
<1>. QED
  BY <1>4, <1>5, <1>6, <1>7, <1>8

\* All elements but the removed one are still there.
LEMMA RemoveAtKeeps ==
    ASSUME NEW T, NEW s \in Seq(T), NEW i \in 1 .. Len(s)
    PROVE  \A k \in 1 .. Len(s) : k = i \/ s[k] \in Range(RemoveAt(s, i))
<1>1. PICK c, L : c = RemoveAt(s, i) /\ L = Len(s)
  OBVIOUS
<1>2. /\ c \in Seq(T) /\ Len(c) = Len(s) - 1
      /\ \A j \in 1 .. i - 1 : c[j] = s[j]
      /\ \A j \in i .. Len(s) - 1 : c[j] = s[j + 1]
  BY <1>1, RemoveAtElements
<1>3. DOMAIN c = 1 .. L - 1 /\ L \in Nat
  BY <1>1, <1>2
<1>4. ASSUME NEW k \in 1 .. L, k # i PROVE \E j \in 1 .. L - 1 : c[j] = s[k]
  <2>1. CASE k < i
    <3>1. k \in 1 .. i - 1 /\ k \in 1 .. L - 1
      BY <1>1, <1>3, <2>1
    <3>. QED
      BY <1>2, <3>1
  <2>2. CASE k > i
    <3>1. PICK j : j = k - 1
      OBVIOUS
    <3>2. j \in i .. Len(s) - 1 /\ j \in 1 .. L - 1 /\ j + 1 = k
      BY <1>1, <1>3, <2>2, <3>1
    <3>. QED
      BY <1>2, <3>2
  <2>. QED
    BY <1>3, <1>4, <2>1, <2>2
<1>. QED
  BY <1>1, <1>3, <1>4 DEF Range

\* And nothing else is.
LEMMA RemoveAtWithin ==
    ASSUME NEW T, NEW s \in Seq(T), NEW i \in 1 .. Len(s)
    PROVE  Range(RemoveAt(s, i)) \subseteq Range(s)
<1>1. PICK c, L : c = RemoveAt(s, i) /\ L = Len(s)
  OBVIOUS
<1>2. /\ c \in Seq(T) /\ Len(c) = Len(s) - 1
      /\ \A j \in 1 .. i - 1 : c[j] = s[j]
      /\ \A j \in i .. Len(s) - 1 : c[j] = s[j + 1]
  BY <1>1, RemoveAtElements
<1>3. DOMAIN c = 1 .. L - 1 /\ DOMAIN s = 1 .. L /\ L \in Nat
  BY <1>1, <1>2
<1>4. ASSUME NEW j \in 1 .. L - 1 PROVE \E k \in 1 .. L : c[j] = s[k]
  <2>1. CASE j < i
    <3>1. j \in 1 .. i - 1 /\ j \in 1 .. L
      BY <1>1, <1>3, <2>1
    <3>. QED
      BY <1>2, <3>1
  <2>2. CASE j >= i
    <3>1. j \in i .. Len(s) - 1 /\ j + 1 \in 1 .. L
      BY <1>1, <1>3, <2>2
    <3>. QED
      BY <1>2, <3>1
  <2>. QED
    BY <1>3, <1>4, <2>1, <2>2
<1>5. ASSUME NEW x \in Range(c) PROVE x \in Range(s)
  <2>1. PICK j \in 1 .. L - 1 : x = c[j]
    BY <1>3, <1>5 DEF Range
  <2>2. PICK k \in 1 .. L : c[j] = s[k]
    BY <1>4
  <2>. QED
    BY <1>3, <2>1, <2>2 DEF Range
<1>. QED
  BY <1>1, <1>5

-----------------------------------------------------------------------------
(* One multimap. *)

\* The fields of an entry.
LEMMA EntryFields ==
    ASSUME NEW idx \in Seq(Entry), NEW i \in 1 .. Len(idx)
    PROVE  idx[i].key \in Nat /\ idx[i].uid \in Nat
<1>1. idx[i] \in Entry
  BY ElementOfSeq
<1>. QED
  BY <1>1 DEF Entry

\* upper_bound splits a sorted multimap into keys up to k and keys after k.
LEMMA UpperBoundSplits ==
    ASSUME NEW idx \in Seq(Entry), Sorted(idx), NEW k \in Nat,
           NEW p, p = UpperBound(idx, k)
    PROVE  /\ p \in 1 .. Len(idx) + 1
           /\ \A i \in 1 .. p - 1 : idx[i].key <= k
           /\ \A i \in p .. Len(idx) : idx[i].key > k
<1>. DEFINE S == {q \in 1 .. Len(idx) + 1 : q = Len(idx) + 1 \/ idx[q].key > k}
<1>1. S \subseteq Nat /\ S # {}
  <2>1. Len(idx) + 1 \in S
    OBVIOUS
  <2>. QED
    BY <2>1
<1>2. p \in S /\ \A x \in S : p <= x
  <2>1. p = Min(S)
    BY DEF UpperBound
  <2>. HIDE DEF S
  <2>. QED
    BY <1>1, <2>1, MinIsLeast
<1>3. ASSUME NEW i \in 1 .. p - 1 PROVE idx[i].key <= k
  <2>1. i \in 1 .. Len(idx) /\ i < p
    BY <1>2
  <2>2. ~(idx[i].key > k)
    BY <1>2, <2>1
  <2>3. idx[i].key \in Nat
    BY <2>1, EntryFields
  <2>. QED
    BY <2>2, <2>3
<1>4. ASSUME NEW i \in p .. Len(idx) PROVE idx[i].key > k
  <2>1. p \in 1 .. Len(idx) /\ i \in 1 .. Len(idx) /\ idx[p].key > k
    BY <1>2
  <2>2. idx[p].key \in Nat /\ idx[i].key \in Nat
    BY <2>1, EntryFields
  <2>3. idx[p].key <= idx[i].key
    <3>1. CASE p = i
      BY <3>1, <2>2
    <3>2. CASE p < i
      BY <3>2, <2>1 DEF Sorted
    <3>. QED
      BY <3>1, <3>2, <2>1
  <2>. QED
    BY <2>1, <2>2, <2>3
<1>. QED
  BY <1>2, <1>3, <1>4

\* lower_bound splits a sorted multimap into keys before k and keys from k.
LEMMA LowerBoundSplits ==
    ASSUME NEW idx \in Seq(Entry), Sorted(idx), NEW k \in Nat,
           NEW p, p = LowerBound(idx, k)
    PROVE  /\ p \in 1 .. Len(idx) + 1
           /\ \A i \in 1 .. p - 1 : idx[i].key < k
           /\ \A i \in p .. Len(idx) : idx[i].key >= k
<1>. DEFINE S == {q \in 1 .. Len(idx) + 1 : q = Len(idx) + 1 \/ idx[q].key >= k}
<1>1. S \subseteq Nat /\ S # {}
  <2>1. Len(idx) + 1 \in S
    OBVIOUS
  <2>. QED
    BY <2>1
<1>2. p \in S /\ \A x \in S : p <= x
  <2>1. p = Min(S)
    BY DEF LowerBound
  <2>. HIDE DEF S
  <2>. QED
    BY <1>1, <2>1, MinIsLeast
<1>3. ASSUME NEW i \in 1 .. p - 1 PROVE idx[i].key < k
  <2>1. i \in 1 .. Len(idx) /\ i < p
    BY <1>2
  <2>2. ~(idx[i].key >= k)
    BY <1>2, <2>1
  <2>3. idx[i].key \in Nat
    BY <2>1, EntryFields
  <2>. QED
    BY <2>2, <2>3
<1>4. ASSUME NEW i \in p .. Len(idx) PROVE idx[i].key >= k
  <2>1. p \in 1 .. Len(idx) /\ i \in 1 .. Len(idx) /\ idx[p].key >= k
    BY <1>2
  <2>2. idx[p].key \in Nat /\ idx[i].key \in Nat
    BY <2>1, EntryFields
  <2>3. idx[p].key <= idx[i].key
    <3>1. CASE p = i
      BY <3>1, <2>2
    <3>2. CASE p < i
      BY <3>2, <2>1 DEF Sorted
    <3>. QED
      BY <3>1, <3>2, <2>1
  <2>. QED
    BY <2>1, <2>2, <2>3
<1>. QED
  BY <1>2, <1>3, <1>4

\* new is idx with the entry e at position p.
AddedAt(idx, new, p, e) ==
    /\ Len(new) = Len(idx) + 1
    /\ new[p] = e
    /\ \A j \in 1 .. p - 1 : new[j] = idx[j]
    /\ \A j \in p .. Len(idx) : new[j + 1] = idx[j]

\* new is idx without its entry at position p, one of the uid.
RemovedAt(idx, new, p, uid) ==
    /\ idx[p].uid = uid
    /\ Len(new) = Len(idx) - 1
    /\ \A j \in 1 .. p - 1 : new[j] = idx[j]
    /\ \A j \in p .. Len(idx) - 1 : new[j] = idx[j + 1]

\* What AddIndex does to the positions of a sorted multimap: the new entry
\* stands at a position of its own, the others keep their order.
LEMMA AddIndexShape ==
    ASSUME NEW idx \in Seq(Entry), Sorted(idx), NEW uid \in Nat, NEW k \in Nat,
           NEW new, new = AddIndex(idx, uid, k)
    PROVE  /\ new \in Seq(Entry) /\ Sorted(new)
           /\ \E p \in 1 .. Len(idx) + 1 :
                 AddedAt(idx, new, p, [key |-> k, uid |-> uid])
<1>1. PICK p : p = UpperBound(idx, k)
  OBVIOUS
<1>2. PICK e : e = [key |-> k, uid |-> uid]
  OBVIOUS
<1>3. /\ p \in 1 .. Len(idx) + 1
      /\ \A i \in 1 .. p - 1 : idx[i].key <= k
      /\ \A i \in p .. Len(idx) : idx[i].key > k
  BY <1>1, UpperBoundSplits
<1>4. e \in Entry /\ e.key = k
  BY <1>2 DEF Entry
<1>5. new = InsertAt(idx, p, e)
  BY <1>1, <1>2 DEF AddIndex
<1>6. /\ new \in Seq(Entry) /\ Len(new) = Len(idx) + 1
      /\ new[p] = e
      /\ \A j \in 1 .. p - 1 : new[j] = idx[j]
      /\ \A j \in p .. Len(idx) : new[j + 1] = idx[j]
  <2>1. p \in 1 .. Len(idx) + 1
    BY <1>3
  <2>. QED
    BY <2>1, <1>4, <1>5, InsertAtElements
<1>7. Sorted(new)
  <2>. SUFFICES ASSUME NEW i \in DOMAIN new, NEW j \in DOMAIN new, i < j
                PROVE  new[i].key <= new[j].key
    BY DEF Sorted
  <2>0. i \in 1 .. Len(idx) + 1 /\ j \in 1 .. Len(idx) + 1
    BY <1>6
  <2>1. CASE j < p
    <3>1. /\ i \in 1 .. Len(idx) /\ j \in 1 .. Len(idx)
          /\ new[i] = idx[i] /\ new[j] = idx[j]
      BY <2>0, <2>1, <1>3, <1>6
    <3>. QED
      BY <3>1 DEF Sorted
  <2>2. CASE j = p
    <3>1. new[i] = idx[i] /\ idx[i].key <= k
      BY <2>0, <2>2, <1>3, <1>6
    <3>. QED
      BY <3>1, <2>2, <1>4, <1>6
  <2>3. CASE j > p /\ i < p
    <3>1. /\ i \in 1 .. Len(idx) /\ j - 1 \in p .. Len(idx)
          /\ j - 1 \in 1 .. Len(idx) /\ new[i] = idx[i]
      BY <2>0, <2>3, <1>3, <1>6
    <3>2. new[(j - 1) + 1] = idx[j - 1]
      BY <3>1, <1>6
    <3>3. i \in 1 .. p - 1
      BY <1>3, <2>0, <2>3
    <3>4. idx[i].key <= k /\ idx[j - 1].key > k
      BY <1>3, <3>1, <3>3
    <3>5. idx[i].key \in Nat /\ idx[j - 1].key \in Nat
      BY <3>1, <1>3, EntryFields
    <3>6. (j - 1) + 1 = j
      BY <2>0
    <3>. QED
      BY <3>1, <3>2, <3>4, <3>5, <3>6
  <2>4. CASE j > p /\ i = p
    <3>1. j - 1 \in p .. Len(idx) /\ j - 1 \in 1 .. Len(idx)
      BY <2>0, <2>4, <1>3
    <3>2. new[(j - 1) + 1] = idx[j - 1] /\ idx[j - 1].key > k
      BY <3>1, <1>3, <1>6
    <3>3. idx[j - 1].key \in Nat
      BY <3>1, EntryFields
    <3>. QED
      BY <3>1, <3>2, <3>3, <2>0, <2>4, <1>4, <1>6
  <2>5. CASE j > p /\ i > p
    <3>1. /\ j - 1 \in p .. Len(idx) /\ j - 1 \in 1 .. Len(idx)
          /\ i - 1 \in p .. Len(idx) /\ i - 1 \in 1 .. Len(idx)
          /\ i - 1 < j - 1
      BY <2>0, <2>5, <1>3
    <3>2. new[(j - 1) + 1] = idx[j - 1] /\ new[(i - 1) + 1] = idx[i - 1]
      BY <3>1, <1>6
    <3>3. idx[i - 1].key <= idx[j - 1].key
      BY <3>1 DEF Sorted
    <3>. QED
      BY <3>2, <3>3, <2>0
  <2>. QED
    BY <2>0, <2>1, <2>2, <2>3, <2>4, <2>5, <1>3
<1>8. AddedAt(idx, new, p, e)
  BY <1>6 DEF AddedAt
<1>. QED
  BY <1>2, <1>3, <1>6, <1>7, <1>8

\* What RemoveIndex does to the positions: nothing without an entry of the
\* uid, otherwise one entry of the uid goes and the others keep their order.
LEMMA RemoveIndexShape ==
    ASSUME NEW idx \in Seq(Entry), Sorted(idx), NEW uid \in Nat,
           \E q \in DOMAIN idx : idx[q].uid = uid,
           NEW new, new = RemoveIndex(idx, uid)
    PROVE  /\ new \in Seq(Entry) /\ Sorted(new)
           /\ \E p \in 1 .. Len(idx) : RemovedAt(idx, new, p, uid)
<1>. DEFINE S == {q \in 1 .. Len(idx) : idx[q].uid = uid}
<1>1. S \subseteq Nat /\ S # {}
  OBVIOUS
<1>2. PICK p : p = Min(S)
  OBVIOUS
<1>3. p \in 1 .. Len(idx) /\ idx[p].uid = uid
  <2>1. p \in S
    <3>. HIDE DEF S
    <3>. QED
      BY <1>1, <1>2, MinIsLeast
  <2>. QED
    BY <2>1
<1>4. new = RemoveAt(idx, p)
  BY <1>1, <1>2 DEF RemoveIndex, RemoveFirstMatch, SelectInSeq
<1>5. /\ new \in Seq(Entry) /\ Len(new) = Len(idx) - 1
      /\ \A j \in 1 .. p - 1 : new[j] = idx[j]
      /\ \A j \in p .. Len(idx) - 1 : new[j] = idx[j + 1]
  <2>1. p \in 1 .. Len(idx)
    BY <1>3
  <2>2. PICK T : T = Entry
    OBVIOUS
  <2>3. idx \in Seq(T)
    BY <2>2
  <2>4. /\ new \in Seq(T) /\ Len(new) = Len(idx) - 1
        /\ \A j \in 1 .. p - 1 : new[j] = idx[j]
        /\ \A j \in p .. Len(idx) - 1 : new[j] = idx[j + 1]
    BY ONLY <1>4, <2>1, <2>3, RemoveAtElements
  <2>. QED
    BY ONLY <2>2, <2>4
<1>6. Sorted(new)
  <2>. SUFFICES ASSUME NEW i \in DOMAIN new, NEW j \in DOMAIN new, i < j
                PROVE  new[i].key <= new[j].key
    BY DEF Sorted
  <2>1. i \in 1 .. Len(idx) - 1 /\ j \in 1 .. Len(idx) - 1
    BY <1>5
  <2>2. CASE j < p
    <3>1. new[i] = idx[i] /\ new[j] = idx[j]
      BY <2>1, <2>2, <1>3, <1>5
    <3>. QED
      BY <3>1, <2>1 DEF Sorted
  <2>3. CASE i < p /\ j >= p
    <3>1. /\ new[i] = idx[i] /\ new[j] = idx[j + 1]
          /\ i \in 1 .. Len(idx) /\ j + 1 \in 1 .. Len(idx) /\ i < j + 1
      BY <2>1, <2>3, <1>3, <1>5
    <3>. QED
      BY <3>1 DEF Sorted
  <2>4. CASE i >= p
    <3>1. /\ new[i] = idx[i + 1] /\ new[j] = idx[j + 1]
          /\ i + 1 \in 1 .. Len(idx) /\ j + 1 \in 1 .. Len(idx) /\ i + 1 < j + 1
      BY <2>1, <2>4, <1>3, <1>5
    <3>. QED
      BY <3>1 DEF Sorted
  <2>. QED
    BY <2>1, <2>2, <2>3, <2>4, <1>3
<1>7. RemovedAt(idx, new, p, uid)
  BY <1>3, <1>5 DEF RemovedAt
<1>. QED
  BY <1>3, <1>5, <1>6, <1>7

-----------------------------------------------------------------------------
(* One index of a table. *)

\* Adding a record and its entry keeps an index coherent.
LEMMA AddKeepsCoherent ==
    ASSUME NEW idx \in Seq(Entry), NEW recs, NEW c, Coherent(idx, recs, c),
           NEW uid \in Nat, uid \notin DOMAIN recs,
           NEW more, DOMAIN more = DOMAIN recs \cup {uid},
           \A u \in DOMAIN recs : more[u] = recs[u],
           more[uid][c] \in Nat,
           NEW new, new = AddIndex(idx, uid, more[uid][c])
    PROVE  new \in Seq(Entry) /\ Coherent(new, more, c)
<1>1. PICK k \in Nat : k = more[uid][c]
  OBVIOUS
<1>2. Sorted(idx) /\ EntriesMatch(idx, recs, c) /\ EntriesComplete(idx, recs)
  BY DEF Coherent
<1>3. /\ new \in Seq(Entry) /\ Sorted(new)
      /\ \E p \in 1 .. Len(idx) + 1 :
            AddedAt(idx, new, p, [key |-> k, uid |-> uid])
  BY <1>1, <1>2, AddIndexShape
<1>4. PICK p \in 1 .. Len(idx) + 1 :
         /\ Len(new) = Len(idx) + 1
         /\ new[p] = [key |-> k, uid |-> uid]
         /\ \A j \in 1 .. p - 1 : new[j] = idx[j]
         /\ \A j \in p .. Len(idx) : new[j + 1] = idx[j]
  BY <1>3 DEF AddedAt
<1>5. \A i \in 1 .. Len(idx) :
         idx[i].uid \in DOMAIN recs /\ idx[i].key = more[idx[i].uid][c]
  BY <1>2 DEF EntriesMatch
<1>6. ASSUME NEW i \in DOMAIN new, i # p
      PROVE  \E r \in 1 .. Len(idx) : /\ new[i] = idx[r]
                                      /\ r = IF i < p THEN i ELSE i - 1
  <2>1. i \in 1 .. Len(idx) + 1
    BY <1>3, <1>4
  <2>2. CASE i < p
    BY <2>1, <2>2, <1>4
  <2>3. CASE i > p
    <3>1. i - 1 \in p .. Len(idx) /\ i - 1 \in 1 .. Len(idx)
      BY <2>1, <2>3
    <3>2. new[(i - 1) + 1] = idx[i - 1]
      BY <3>1, <1>4
    <3>. QED
      BY <3>1, <3>2, <2>1, <2>3
  <2>. QED
    BY <2>1, <2>2, <2>3, <1>6
<1>7. EntriesMatch(new, more, c)
  <2>. SUFFICES ASSUME NEW i \in DOMAIN new
                PROVE  new[i].uid \in DOMAIN more /\ new[i].key = more[new[i].uid][c]
    BY DEF EntriesMatch
  <2>1. CASE i = p
    BY <2>1, <1>1, <1>4
  <2>2. CASE i # p
    BY <2>2, <1>5, <1>6
  <2>. QED
    BY <2>1, <2>2
<1>8. ASSUME NEW u \in DOMAIN more
      PROVE  \E i \in DOMAIN new : new[i].uid = u
  <2>1. CASE u = uid
    BY <2>1, <1>3, <1>4
  <2>2. CASE u \in DOMAIN recs
    <3>1. PICK j \in 1 .. Len(idx) : idx[j].uid = u
      BY <2>2, <1>2 DEF EntriesComplete
    <3>2. CASE j < p
      <4>1. j \in DOMAIN new /\ new[j] = idx[j]
        BY <3>2, <1>3, <1>4
      <4>. QED
        BY <3>1, <4>1
    <3>3. CASE j >= p
      <4>1. j + 1 \in DOMAIN new /\ new[j + 1] = idx[j]
        BY <3>3, <1>3, <1>4
      <4>. QED
        BY <3>1, <4>1
    <3>. QED
      BY <3>2, <3>3
  <2>. QED
    BY <2>1, <2>2
<1>9. ASSUME NEW i \in DOMAIN new, NEW j \in DOMAIN new, new[i].uid = new[j].uid
      PROVE  i = j
  <2>1. \A a, b \in 1 .. Len(idx) : idx[a].uid = idx[b].uid => a = b
    BY <1>2 DEF EntriesComplete
  <2>2. \A a \in 1 .. Len(idx) : idx[a].uid # uid
    BY <1>5
  <2>3. i \in 1 .. Len(idx) + 1 /\ j \in 1 .. Len(idx) + 1 /\ new[p].uid = uid
    BY <1>3, <1>4
  <2>4. CASE i = p \/ j = p
    BY <2>2, <2>3, <2>4, <1>6, <1>9
  <2>5. CASE i # p /\ j # p
    BY <2>1, <2>3, <2>5, <1>6, <1>9
  <2>. QED
    BY <2>4, <2>5
<1>. QED
  BY <1>3, <1>7, <1>8, <1>9 DEF Coherent, EntriesComplete

\* Removing a record and its entry keeps an index coherent.
LEMMA RemoveKeepsCoherent ==
    ASSUME NEW idx \in Seq(Entry), NEW recs, NEW c, Coherent(idx, recs, c),
           NEW uid \in Nat, uid \in DOMAIN recs,
           NEW less, DOMAIN less = DOMAIN recs \ {uid},
           \A u \in DOMAIN less : less[u] = recs[u],
           NEW new, new = RemoveIndex(idx, uid)
    PROVE  new \in Seq(Entry) /\ Coherent(new, less, c)
<1>1. Sorted(idx) /\ EntriesMatch(idx, recs, c) /\ EntriesComplete(idx, recs)
  BY DEF Coherent
<1>2. \E q \in DOMAIN idx : idx[q].uid = uid
  BY <1>1 DEF EntriesComplete
<1>3. /\ new \in Seq(Entry) /\ Sorted(new)
      /\ \E p \in 1 .. Len(idx) : RemovedAt(idx, new, p, uid)
  BY <1>1, <1>2, RemoveIndexShape
<1>4. PICK p \in 1 .. Len(idx) :
         /\ idx[p].uid = uid
         /\ Len(new) = Len(idx) - 1
         /\ \A j \in 1 .. p - 1 : new[j] = idx[j]
         /\ \A j \in p .. Len(idx) - 1 : new[j] = idx[j + 1]
  BY <1>3 DEF RemovedAt
<1>5. \A a, b \in 1 .. Len(idx) : idx[a].uid = idx[b].uid => a = b
  BY <1>1 DEF EntriesComplete
<1>6. ASSUME NEW i \in DOMAIN new
      PROVE  \E r \in 1 .. Len(idx) : /\ new[i] = idx[r] /\ r # p
                                      /\ r = IF i < p THEN i ELSE i + 1
  <2>1. i \in 1 .. Len(idx) - 1
    BY <1>3, <1>4
  <2>2. CASE i < p
    BY <2>1, <2>2, <1>4
  <2>3. CASE i >= p
    BY <2>1, <2>3, <1>4
  <2>. QED
    BY <2>1, <2>2, <2>3
<1>7. EntriesMatch(new, less, c)
  <2>. SUFFICES ASSUME NEW i \in DOMAIN new
                PROVE  new[i].uid \in DOMAIN less /\ new[i].key = less[new[i].uid][c]
    BY DEF EntriesMatch
  <2>1. PICK r \in 1 .. Len(idx) : new[i] = idx[r] /\ r # p
    BY <1>6
  <2>2. idx[r].uid # uid
    BY <2>1, <1>4, <1>5
  <2>3. idx[r].uid \in DOMAIN recs /\ idx[r].key = recs[idx[r].uid][c]
    BY <1>1 DEF EntriesMatch
  <2>. QED
    BY <2>1, <2>2, <2>3
<1>8. ASSUME NEW u \in DOMAIN less
      PROVE  \E i \in DOMAIN new : new[i].uid = u
  <2>1. u \in DOMAIN recs /\ u # uid
    OBVIOUS
  <2>2. PICK j \in 1 .. Len(idx) : idx[j].uid = u
    BY <2>1, <1>1 DEF EntriesComplete
  <2>3. CASE j < p
    <3>1. j \in DOMAIN new /\ new[j] = idx[j]
      BY <2>3, <1>3, <1>4
    <3>. QED
      BY <2>2, <3>1
  <2>4. CASE j > p
    <3>1. j - 1 \in DOMAIN new /\ j - 1 \in p .. Len(idx) - 1
      BY <2>4, <1>3, <1>4
    <3>2. new[j - 1] = idx[(j - 1) + 1]
      BY <3>1, <1>4
    <3>. QED
      BY <2>2, <3>1, <3>2
  <2>. QED
    BY <2>1, <2>2, <2>3, <2>4, <1>4
<1>9. ASSUME NEW i \in DOMAIN new, NEW j \in DOMAIN new, new[i].uid = new[j].uid
      PROVE  i = j
  <2>1. PICK a \in 1 .. Len(idx) : /\ new[i] = idx[a]
                                   /\ a = IF i < p THEN i ELSE i + 1
    BY <1>6
  <2>2. PICK b \in 1 .. Len(idx) : /\ new[j] = idx[b]
                                   /\ b = IF j < p THEN j ELSE j + 1
    BY <1>6
  <2>3. a = b
    BY <2>1, <2>2, <1>5, <1>9
  <2>4. i \in 1 .. Len(idx) - 1 /\ j \in 1 .. Len(idx) - 1
    BY <1>3, <1>4
  <2>. QED
    BY <2>1, <2>2, <2>3, <2>4
<1>. QED
  BY <1>3, <1>7, <1>8, <1>9 DEF Coherent, EntriesComplete

=============================================================================
