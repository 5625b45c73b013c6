------------------------------ MODULE NavProofs ------------------------------
(***************************************************************************)
(* Proofs about Nav for every map, every list of destinations and every    *)
(* capacity.                                                               *)
(***************************************************************************)
EXTENDS Nav, SequenceFacts

-----------------------------------------------------------------------------
(* Types. *)

Line == Nat \X Nat \X (Nat \ {0})
Neighbour == Vertex \X (Nat \ {0})
Place == Vertex \cup {Garbage}

\* The map, read as far as it is.
Graph ==
    /\ IsFiniteSet(Vertex) /\ Vertex \subseteq Nat
    /\ adjacency \in [Vertex -> Seq(Neighbour)]

\* The locals of a search.
Dists == [Vertex -> 0 .. Infinity]
Prevs == [Vertex -> Vertex \cup {None}]
Queues == SUBSET (Nat \X Vertex)
Locals ==
    [from : Vertex, to : Vertex, dist : Dists, prev : Prevs, visited : SUBSET Vertex,
     queue : Queues, vertex : Vertex \cup {None}]

\* The locals of a trip, with destinations left.
OnTrip ==
    /\ trip \in [here : Vertex, goals : Seq(Vertex), distances : Seq(Nat \cup {Garbage}),
                 route : Seq(Place)]
    /\ trip.goals # << >>
    /\ Len(trip.distances) <= Len(trip.goals)

Typed ==
    /\ file \in Seq(Line)
    /\ Graph
    /\ at \in {"loading", "idle", "search", "trace", "answer", "broken"}
    /\ path \in Seq(Place)
    /\ at \in {"search", "trace"} =>
          search \in Locals /\ (call.name = "GetShortestTrip" => OnTrip)

LEMMA Numbers == Infinity \in Nat /\ 0 < Infinity /\ None \notin Nat /\ Garbage \notin Nat
BY DEF Infinity, None, Garbage

\* An element of a list of neighbours.
LEMMA NeighbourFields ==
    ASSUME Graph, NEW v \in Vertex, NEW n \in 1 .. Len(adjacency[v])
    PROVE  /\ Len(adjacency[v]) \in Nat /\ DOMAIN adjacency[v] = 1 .. Len(adjacency[v])
           /\ adjacency[v][n] \in Neighbour
           /\ adjacency[v][n][1] \in Vertex /\ adjacency[v][n][2] \in Nat \ {0}
<1>1. adjacency[v] \in Seq(Neighbour)
  BY DEF Graph
<1>2. adjacency[v][n] \in Neighbour
  BY <1>1, ElementOfSeq
<1>. QED
  BY <1>1, <1>2 DEF Neighbour

\* The same of the set of its elements.
LEMMA EdgeFields ==
    ASSUME Graph, NEW v \in Vertex, NEW e \in Range(adjacency[v])
    PROVE  /\ e \in Neighbour /\ e[1] \in Vertex /\ e[2] \in Nat \ {0}
           /\ \E n \in 1 .. Len(adjacency[v]) : e = adjacency[v][n]
<1>1. adjacency[v] \in Seq(Neighbour)
  BY DEF Graph
<1>2. PICK n \in 1 .. Len(adjacency[v]) : e = adjacency[v][n]
  BY <1>1 DEF Range
<1>. QED
  BY <1>2, NeighbourFields

-----------------------------------------------------------------------------
(* Distances. *)

\* getDistance answers with a length, or Infinity.
LEMMA DistanceIsLength ==
    ASSUME Graph, NEW v \in Vertex, NEW w
    PROVE  Distance(v, w) \in Nat
<1>. DEFINE I == {i \in 1 .. Len(adjacency[v]) : adjacency[v][i][1] = w}
            first == IF I # {} THEN Min(I) ELSE 0
<1>1. Distance(v, w) = IF first = 0 THEN Infinity ELSE adjacency[v][first][2]
  BY DEF Distance, SelectInSeq
<1>2. CASE I = {}
  BY <1>1, <1>2, Numbers
<1>3. CASE I # {}
  <2>1. I \subseteq Nat
    OBVIOUS
  <2>2. Min(I) \in I
    <3>. HIDE DEF I
    <3>. QED
      BY <1>3, <2>1, MinIsLeast
  <2>3. first \in 1 .. Len(adjacency[v])
    BY <1>3, <2>2
  <2>. QED
    BY <1>1, <2>3, NeighbourFields, Numbers
<1>. QED
  BY <1>2, <1>3

\* A sum over the edges of a walk.
Sums(f, n, h) == f = [i \in 0 .. n |-> IF i <= 1 THEN 0 ELSE f[i - 1] + h[i]]

LEMMA SumsExist ==
    ASSUME NEW n \in Nat, NEW h, \A i \in 2 .. n : h[i] \in Nat
    PROVE  \E f : Sums(f, n, h)
<1>1. PICK step : step = [x \in (1 .. n) \X Nat |-> IF x[1] <= 1 THEN 0 ELSE x[2] + h[x[1]]]
  OBVIOUS
<1>2. StepsWithin(step, n, Nat)
  BY <1>1 DEF StepsWithin
<1>3. PICK f : Iterates(f, n, Nat, 0, step)
  <2>1. 0 \in Nat
    OBVIOUS
  <2>. QED
    BY <1>2, <2>1, Iteration
<1>4. ASSUME NEW i \in 0 .. n PROVE f[i] = IF i <= 1 THEN 0 ELSE f[i - 1] + h[i]
  <2>1. CASE i = 0
    BY <1>3, <2>1 DEF Iterates
  <2>2. CASE i # 0
    <3>1. i \in 1 .. n /\ i - 1 \in 0 .. n
      BY <2>2
    <3>2. f[i - 1] \in Nat /\ f[i] = step[<<i, f[i - 1]>>]
      BY <1>3, <3>1 DEF Iterates
    <3>. QED
      BY <1>1, <3>1, <3>2
  <2>. QED
    BY <2>1, <2>2
<1>5. Sums(f, n, h)
  BY <1>3, <1>4 DEF Iterates, Sums
<1>. QED
  BY <1>5

LEMMA SumIsLength ==
    ASSUME NEW n \in Nat, NEW h, \A i \in 2 .. n : h[i] \in Nat,
           NEW f, Sums(f, n, h)
    PROVE  \A i \in 0 .. n : f[i] \in Nat
<1>1. f[0] \in Nat
  BY DEF Sums
<1>2. ASSUME NEW i \in 1 .. n, f[i - 1] \in Nat PROVE f[i] \in Nat
  <2>1. i \in 0 .. n /\ f[i] = IF i <= 1 THEN 0 ELSE f[i - 1] + h[i]
    BY DEF Sums
  <2>. QED
    BY <1>2, <2>1
<1>. QED
  BY <1>1, <1>2, IterationStays

\* The length getShortestDistance answers with, for a path on the map.
LEMMA AlongIsLength ==
    ASSUME Graph, NEW p \in Seq(Place), Range(p) \subseteq Vertex
    PROVE  Along(p) \in Nat
<1>1. PICK n \in Nat : n = Len(p)
  OBVIOUS
<1>2. PICK h : h = [i \in 2 .. n |-> Distance(p[i - 1], p[i])]
  OBVIOUS
<1>3. \A i \in 2 .. n : h[i] \in Nat
  <2>1. ASSUME NEW i \in 2 .. n PROVE p[i - 1] \in Vertex
    <3>1. i - 1 \in DOMAIN p
      BY <1>1, <2>1
    <3>. QED
      BY <3>1 DEF Range
  <2>. QED
    BY <1>2, <2>1, DistanceIsLength
<1>4. PICK f : Sums(f, n, h) /\ Along(p) = f[n]
  <2>. DEFINE Walked(g) ==
         g = [i \in 0 .. n |-> IF i <= 1 THEN 0 ELSE g[i - 1] + Distance(p[i - 1], p[i])]
  <2>1. \A g : Walked(g) <=> Sums(g, n, h)
    <3>1. \A i \in 0 .. n : ~(i <= 1) => h[i] = Distance(p[i - 1], p[i])
      BY <1>2
    <3>. QED
      BY <3>1 DEF Sums
  <2>2. PICK f : f = CHOOSE g : Walked(g)
    OBVIOUS
  <2>3. Along(p) = f[n]
    BY <1>1, <2>2 DEF Along
  <2>4. Walked(f)
    <3>1. \E g : Walked(g)
      <4>. HIDE DEF Walked
      <4>. QED
        BY <1>3, <2>1, SumsExist
    <3>. HIDE DEF Walked
    <3>. QED
      BY <2>2, <3>1
  <2>. HIDE DEF Walked
  <2>. QED
    BY <2>1, <2>3, <2>4
<1>. QED
  BY <1>1, <1>3, <1>4, SumIsLength

LEMMA PathLengthTyped ==
    ASSUME Graph, path \in Seq(Place)
    PROVE  PathLength \in Nat \cup {Garbage}
BY AlongIsLength DEF PathLength

\* There is a nearest goal, and NearestGoal finds it.
LEMMA NearestGoalIs ==
    ASSUME NEW d \in Seq(Nat \cup {Garbage}), d # << >>
    PROVE  NearestGoal(d) \in 1 .. Len(d)
<1>. DEFINE I == {i \in 1 .. Len(d) : \A j \in DOMAIN d : d[i] <= d[j]}
<1>1. NearestGoal(d) = IF I # {} THEN Min(I) ELSE 0
  BY DEF NearestGoal, SelectInSeq
<1>2. PICK n \in Nat : n = Len(d) /\ n # 0 /\ DOMAIN d = 1 .. n
  OBVIOUS
<1>3. \A i \in 1 .. n : d[i] \in Int /\ d[i] + 2 \in Nat
  <2>1. \A i \in 1 .. n : d[i] \in Nat \cup {Garbage}
    BY <1>2
  <2>. QED
    BY <2>1 DEF Garbage
<1>4. I # {}
  <2>. DEFINE Shifted == {d[i] + 2 : i \in 1 .. n}
  <2>1. Shifted \subseteq Nat /\ Shifted # {}
    <3>1. 1 \in 1 .. n
      BY <1>2
    <3>. QED
      BY <1>3, <3>1
  <2>2. PICK m \in Shifted : \A x \in Shifted : m <= x
    <3>. HIDE DEF Shifted
    <3>. QED
      BY <2>1, MinIsLeast
  <2>3. PICK i \in 1 .. n : m = d[i] + 2
    BY <2>2
  <2>4. \A j \in 1 .. n : d[i] <= d[j]
    <3>1. \A j \in 1 .. n : d[i] + 2 <= d[j] + 2
      BY <2>2, <2>3
    <3>. QED
      BY <1>3, <3>1
  <2>. QED
    BY <1>2, <2>3, <2>4
<1>5. I \subseteq Nat
  OBVIOUS
<1>6. Min(I) \in I
  <2>. HIDE DEF I
  <2>. QED
    BY <1>4, <1>5, MinIsLeast
<1>. QED
  BY <1>1, <1>4, <1>6

-----------------------------------------------------------------------------
(* The loop over the neighbours. *)

\* One round.
Round(s, u, k) ==
    IF Improves(s, u, adjacency[u][k])
    THEN Lowered(s, u, adjacency[u][k][1], s.dist[u] + adjacency[u][k][2]) ELSE s

Rounds(f, s, u) ==
    f = [k \in 0 .. Len(adjacency[u]) |-> IF k = 0 THEN s ELSE Round(f[k - 1], u, k)]

\* What a search has.
LEMMA LocalFields ==
    ASSUME NEW s \in Locals
    PROVE  /\ s.from \in Vertex /\ s.to \in Vertex
           /\ s.dist \in [Vertex -> 0 .. Infinity]
           /\ s.prev \in [Vertex -> Vertex \cup {None}]
           /\ s.visited \subseteq Vertex /\ s.queue \subseteq Nat \X Vertex
           /\ s.vertex \in Vertex \cup {None}
           /\ \A v \in Vertex : s.dist[v] \in Nat /\ s.dist[v] <= Infinity
<1>1. s.dist \in [Vertex -> 0 .. Infinity]
  BY DEF Locals, Dists
<1>2. \A v \in Vertex : s.dist[v] \in 0 .. Infinity
  BY <1>1
<1>. QED
  BY <1>1, <1>2, Numbers DEF Locals, Prevs, Queues

LEMMA RoundFields ==
    ASSUME Graph, NEW s \in Locals, NEW u \in Vertex, NEW k \in 1 .. Len(adjacency[u]),
           NEW v, v = adjacency[u][k][1], NEW d, d = s.dist[u] + adjacency[u][k][2],
           NEW r, r = Round(s, u, k)
    PROVE  /\ r \in Locals
           /\ r.from = s.from /\ r.to = s.to /\ r.visited = s.visited /\ r.vertex = s.vertex
           /\ v \in Vertex /\ d \in Nat
           /\ \/ /\ v \notin s.visited /\ d < s.dist[v]
                 /\ r.dist = [s.dist EXCEPT ![v] = d]
                 /\ r.prev = [s.prev EXCEPT ![v] = u]
                 /\ r.queue = s.queue \cup {<<d, v>>}
              \/ /\ v \in s.visited \/ d >= s.dist[v]
                 /\ r = s
<1>1. v \in Vertex /\ adjacency[u][k][2] \in Nat \ {0}
  BY NeighbourFields
<1>2. s.dist[u] \in Nat /\ s.dist[v] \in Nat /\ s.dist[v] <= Infinity
  BY <1>1, LocalFields
<1>3. d \in Nat
  BY <1>1, <1>2
<1>4. CASE v \notin s.visited /\ d < s.dist[v]
  <2>1. r = Lowered(s, u, v, d)
    BY <1>4 DEF Round, Improves
  <2>2. r = [s EXCEPT !.dist = [s.dist EXCEPT ![v] = d], !.prev = [s.prev EXCEPT ![v] = u],
                      !.queue = s.queue \cup {<<d, v>>}]
    BY <2>1 DEF Lowered, Locals
  <2>3. d \in 0 .. Infinity
    BY <1>2, <1>3, <1>4, Numbers
  <2>4. /\ [s.dist EXCEPT ![v] = d] \in [Vertex -> 0 .. Infinity]
        /\ [s.prev EXCEPT ![v] = u] \in [Vertex -> Vertex \cup {None}]
        /\ s.queue \cup {<<d, v>>} \subseteq Nat \X Vertex
    BY <1>1, <1>3, <2>3, LocalFields
  <2>5. /\ r \in Locals
        /\ r.from = s.from /\ r.to = s.to /\ r.visited = s.visited /\ r.vertex = s.vertex
        /\ r.dist = [s.dist EXCEPT ![v] = d] /\ r.prev = [s.prev EXCEPT ![v] = u]
        /\ r.queue = s.queue \cup {<<d, v>>}
    <3>1. PICK dist, prev, queue :
              /\ dist = [s.dist EXCEPT ![v] = d] /\ prev = [s.prev EXCEPT ![v] = u]
              /\ queue = s.queue \cup {<<d, v>>}
      OBVIOUS
    <3>2. dist \in Dists /\ prev \in Prevs /\ queue \in Queues
      BY <2>4, <3>1 DEF Dists, Prevs, Queues
    <3>3. r = [s EXCEPT !.dist = dist, !.prev = prev, !.queue = queue]
      BY <2>2, <3>1
    <3>4. /\ r \in Locals
          /\ r.from = s.from /\ r.to = s.to /\ r.visited = s.visited /\ r.vertex = s.vertex
          /\ r.dist = dist /\ r.prev = prev /\ r.queue = queue
      BY <3>2, <3>3 DEF Locals
    <3>. QED
      BY <3>1, <3>4
  <2>. QED
    BY <1>1, <1>3, <1>4, <2>5
<1>5. CASE ~(v \notin s.visited /\ d < s.dist[v])
  <2>1. r = s
    BY <1>5 DEF Round, Improves
  <2>. QED
    BY <1>1, <1>2, <1>3, <1>5, <2>1
<1>. QED
  BY <1>4, <1>5

\* The loop runs, and ends with Relaxed.
LEMMA RoundsRun ==
    ASSUME Graph, NEW s \in Locals, NEW u \in Vertex
    PROVE  \E f : Rounds(f, s, u) /\ Relaxed(s, u) = f[Len(adjacency[u])]
<1>1. PICK n \in Nat : n = Len(adjacency[u])
  BY DEF Graph
<1>2. PICK step : step = [x \in (1 .. n) \X Locals |-> Round(x[2], u, x[1])]
  OBVIOUS
<1>3. StepsWithin(step, n, Locals)
  <2>1. ASSUME NEW k \in 1 .. n, NEW r \in Locals PROVE Round(r, u, k) \in Locals
    BY <1>1, RoundFields
  <2>. QED
    BY <1>2, <2>1 DEF StepsWithin
<1>4. PICK f : Iterates(f, n, Locals, s, step)
  BY <1>3, Iteration
<1>5. ASSUME NEW k \in 0 .. n PROVE f[k] = IF k = 0 THEN s ELSE Round(f[k - 1], u, k)
  <2>1. CASE k = 0
    BY <1>4, <2>1 DEF Iterates
  <2>2. CASE k # 0
    <3>1. k \in 1 .. n /\ k - 1 \in 0 .. n
      BY <2>2
    <3>2. f[k - 1] \in Locals /\ f[k] = step[<<k, f[k - 1]>>]
      BY <1>4, <3>1 DEF Iterates
    <3>. QED
      BY <1>2, <3>1, <3>2
  <2>. QED
    BY <2>1, <2>2
<1>6. Rounds(f, s, u)
  <2>1. DOMAIN f = 0 .. n
    BY <1>4 DEF Iterates
  <2>2. f = [k \in 0 .. n |-> f[k]]
    BY <1>4 DEF Iterates
  <2>3. f = [k \in 0 .. n |-> IF k = 0 THEN s ELSE Round(f[k - 1], u, k)]
    BY <1>5, <2>2
  <2>. QED
    BY <1>1, <2>3 DEF Rounds
<1>7. PICK g : g = CHOOSE h : Rounds(h, s, u)
  OBVIOUS
<1>8. Relaxed(s, u) = g[Len(adjacency[u])]
  BY <1>7 DEF Relaxed, Rounds, Round
<1>9. Rounds(g, s, u)
  BY <1>6, <1>7
<1>. QED
  BY <1>8, <1>9

\* A vertex the loop has not touched, and one it has given a shorter distance by
\* way of u.
Untouched(s, r, v) == r.dist[v] = s.dist[v] /\ r.prev[v] = s.prev[v]

Shortened(s, r, u, k, v) ==
    /\ v \notin s.visited /\ r.dist[v] < s.dist[v]
    /\ r.prev[v] = u /\ <<r.dist[v], v>> \in r.queue
    /\ \E i \in 1 .. k : adjacency[u][i][1] = v /\ r.dist[v] = s.dist[u] + adjacency[u][i][2]

\* An entry of the queue that is new.
Pushed(s, r, u, k, x) ==
    /\ r.dist[x[2]] <= x[1] /\ x[1] < s.dist[x[2]] /\ x[2] \notin s.visited
    /\ \E i \in 1 .. k : x = <<s.dist[u] + adjacency[u][i][2], adjacency[u][i][1]>>

\* What r has of the search s when the loop has seen k neighbours of u.
Seen(s, u, k, r) ==
    /\ r \in Locals
    /\ r.from = s.from /\ r.to = s.to /\ r.visited = s.visited /\ r.vertex = s.vertex
    /\ \A v \in Vertex : Untouched(s, r, v) \/ Shortened(s, r, u, k, v)
    /\ \A i \in 1 .. k : adjacency[u][i][1] \notin s.visited =>
          r.dist[adjacency[u][i][1]] <= s.dist[u] + adjacency[u][i][2]
    /\ s.queue \subseteq r.queue
    /\ \A x \in r.queue : x \in s.queue \/ Pushed(s, r, u, k, x)

LEMMA RoundSees ==
    ASSUME Graph, NEW s \in Locals, NEW u \in s.visited, NEW k \in Nat,
           k + 1 <= Len(adjacency[u]), NEW r, Seen(s, u, k, r),
           NEW new, new = Round(r, u, k + 1)
    PROVE  Seen(s, u, k + 1, new)
<1>1. u \in Vertex /\ r \in Locals /\ k + 1 \in 1 .. Len(adjacency[u])
  <2>1. u \in Vertex
    BY LocalFields
  <2>2. Len(adjacency[u]) \in Nat
    BY <2>1 DEF Graph
  <2>. QED
    BY <2>1, <2>2 DEF Seen
<1>2. PICK v, w, d : /\ v = adjacency[u][k + 1][1] /\ w = adjacency[u][k + 1][2]
                     /\ d = r.dist[u] + w
  OBVIOUS
<1>3. v \in Vertex /\ w \in Nat \ {0}
  BY <1>1, <1>2, NeighbourFields
<1>4. r.dist[u] = s.dist[u] /\ s.dist[u] \in Nat
  <2>1. ~Shortened(s, r, u, k, u)
    BY DEF Shortened
  <2>. QED
    BY <1>1, <2>1, LocalFields DEF Seen, Untouched
<1>5. d \in Nat /\ d = s.dist[u] + w
  BY <1>2, <1>3, <1>4
<1>6. /\ new \in Locals
      /\ new.from = r.from /\ new.to = r.to /\ new.visited = r.visited
      /\ new.vertex = r.vertex
      /\ \/ /\ v \notin r.visited /\ d < r.dist[v]
            /\ new.dist = [r.dist EXCEPT ![v] = d]
            /\ new.prev = [r.prev EXCEPT ![v] = u]
            /\ new.queue = r.queue \cup {<<d, v>>}
         \/ /\ v \in r.visited \/ d >= r.dist[v]
            /\ new = r
  BY <1>1, <1>2, RoundFields
<1>7. \A i \in 1 .. k + 1 : i \in 1 .. k \/ i = k + 1
  OBVIOUS
<1>8. \A i \in 1 .. k : i \in 1 .. k + 1
  OBVIOUS
<1>9. \A x \in Vertex : /\ r.dist[x] \in Nat /\ s.dist[x] \in Nat /\ new.dist[x] \in Nat
                        /\ r.dist[x] <= s.dist[x]
  <2>1. \A x \in Vertex : r.dist[x] \in Nat /\ s.dist[x] \in Nat /\ new.dist[x] \in Nat
    BY <1>1, <1>6, LocalFields
  <2>2. ASSUME NEW x \in Vertex PROVE r.dist[x] <= s.dist[x]
    <3>1. Untouched(s, r, x) \/ Shortened(s, r, u, k, x)
      BY <2>2 DEF Seen
    <3>2. r.dist[x] = s.dist[x] \/ r.dist[x] < s.dist[x]
      BY <3>1 DEF Untouched, Shortened
    <3>. QED
      BY <2>1, <3>2
  <2>. QED
    BY <2>1, <2>2
<1>10. CASE new = r /\ (v \in r.visited \/ d >= r.dist[v])
  <2>1. ASSUME NEW i \in 1 .. k + 1, adjacency[u][i][1] \notin s.visited
        PROVE  new.dist[adjacency[u][i][1]] <= s.dist[u] + adjacency[u][i][2]
    <3>1. CASE i \in 1 .. k
      BY <1>10, <2>1, <3>1 DEF Seen
    <3>2. CASE i = k + 1
      <4>1. r.visited = s.visited
        BY DEF Seen
      <4>2. r.dist[v] <= d
        BY <1>2, <1>3, <1>5, <1>9, <1>10, <2>1, <3>2, <4>1
      <4>. QED
        BY <1>2, <1>5, <1>10, <3>2, <4>2
    <3>. QED
      BY <1>7, <3>1, <3>2
  <2>2. \A x \in Vertex : Untouched(s, new, x) \/ Shortened(s, new, u, k + 1, x)
    BY <1>8, <1>10 DEF Seen, Shortened
  <2>3. \A x \in new.queue : x \in s.queue \/ Pushed(s, new, u, k + 1, x)
    BY <1>8, <1>10 DEF Seen, Pushed
  <2>. QED
    BY <1>10, <2>1, <2>2, <2>3 DEF Seen
<1>11. CASE /\ v \notin r.visited /\ d < r.dist[v]
            /\ new.dist = [r.dist EXCEPT ![v] = d]
            /\ new.prev = [r.prev EXCEPT ![v] = u]
            /\ new.queue = r.queue \cup {<<d, v>>}
  <2>1. r.visited = s.visited /\ s.queue \subseteq r.queue
    BY DEF Seen
  <2>2. /\ new.dist[v] = d /\ new.prev[v] = u
        /\ \A x \in Vertex \ {v} : new.dist[x] = r.dist[x] /\ new.prev[x] = r.prev[x]
    BY <1>1, <1>3, <1>11, LocalFields
  <2>3. \A x \in Vertex : new.dist[x] <= r.dist[x]
    BY <1>9, <1>11, <2>2
  <2>4. ASSUME NEW i \in 1 .. k + 1, adjacency[u][i][1] \notin s.visited
        PROVE  new.dist[adjacency[u][i][1]] <= s.dist[u] + adjacency[u][i][2]
    <3>1. CASE i \in 1 .. k
      <4>1. PICK y : y = adjacency[u][i][1]
        OBVIOUS
      <4>2. i \in 1 .. Len(adjacency[u])
        BY <1>1, <3>1
      <4>3. y \in Vertex /\ adjacency[u][i][2] \in Nat
        BY <1>1, <4>1, <4>2, NeighbourFields
      <4>4. r.dist[y] <= s.dist[u] + adjacency[u][i][2]
        BY <2>4, <3>1, <4>1 DEF Seen
      <4>5. PICK a, b, c : a = new.dist[y] /\ b = r.dist[y] /\ c = s.dist[u] + adjacency[u][i][2]
        OBVIOUS
      <4>6. a \in Nat /\ b \in Nat /\ c \in Nat /\ a <= b /\ b <= c
        BY <1>4, <1>9, <2>3, <4>3, <4>4, <4>5
      <4>. QED
        BY <4>1, <4>5, <4>6
    <3>2. CASE i = k + 1
      BY <1>2, <1>5, <2>2, <3>2
    <3>. QED
      BY <1>7, <3>1, <3>2
  <2>5. ASSUME NEW x \in Vertex
        PROVE  Untouched(s, new, x) \/ Shortened(s, new, u, k + 1, x)
    <3>1. CASE x = v
      <4>1. d < s.dist[v] /\ <<d, v>> \in new.queue
        BY <1>3, <1>5, <1>9, <1>11
      <4>2. k + 1 \in 1 .. k + 1
        OBVIOUS
      <4>. QED
        BY <1>2, <1>5, <1>11, <2>1, <2>2, <3>1, <4>1, <4>2 DEF Shortened
    <3>2. CASE x # v
      BY <1>8, <1>11, <2>2, <3>2 DEF Seen, Untouched, Shortened
    <3>. QED
      BY <3>1, <3>2
  <2>6. ASSUME NEW x \in new.queue
        PROVE  x \in s.queue \/ Pushed(s, new, u, k + 1, x)
    <3>1. CASE x = <<d, v>>
      <4>1. new.dist[v] <= d /\ d < s.dist[v]
        BY <1>3, <1>5, <1>9, <1>11, <2>2
      <4>2. x = <<s.dist[u] + adjacency[u][k + 1][2], adjacency[u][k + 1][1]>>
        BY <1>2, <1>5, <3>1
      <4>3. x[1] = d /\ x[2] = v /\ k + 1 \in 1 .. k + 1
        BY <3>1
      <4>. QED
        BY <1>11, <2>1, <4>1, <4>2, <4>3 DEF Pushed
    <3>2. CASE x # <<d, v>>
      <4>1. x \in r.queue /\ (x \in s.queue \/ Pushed(s, r, u, k, x))
        BY <1>11, <3>2 DEF Seen
      <4>2. x \in Nat \X Vertex
        BY <1>1, <4>1, LocalFields
      <4>3. x[1] \in Nat /\ x[2] \in Vertex
        BY <4>2
      <4>4. new.dist[x[2]] <= r.dist[x[2]] /\ new.dist[x[2]] \in Nat /\ r.dist[x[2]] \in Nat
        BY <1>9, <2>3, <4>3
      <4>. QED
        BY <1>8, <4>1, <4>3, <4>4 DEF Pushed
    <3>. QED
      BY <3>1, <3>2
  <2>7. s.queue \subseteq new.queue
    BY <1>11, <2>1
  <2>8. /\ new.from = s.from /\ new.to = s.to /\ new.visited = s.visited
        /\ new.vertex = s.vertex
    BY <1>6 DEF Seen
  <2>. QED
    BY <1>6, <2>4, <2>5, <2>6, <2>7, <2>8 DEF Seen
<1>. QED
  BY <1>6, <1>10, <1>11

\* The loop as a whole.
LEMMA RelaxedSees ==
    ASSUME Graph, NEW s \in Locals, NEW u \in s.visited
    PROVE  Seen(s, u, Len(adjacency[u]), Relaxed(s, u))
<1>1. u \in Vertex
  BY LocalFields
<1>2. PICK n \in Nat : n = Len(adjacency[u])
  BY <1>1 DEF Graph
<1>3. PICK f : Rounds(f, s, u) /\ Relaxed(s, u) = f[n]
  BY <1>1, <1>2, RoundsRun
<1>. DEFINE Runs == {k \in Nat : k <= n => Seen(s, u, k, f[k])}
<1>4. 0 \in Runs
  <2>1. f[0] = s
    BY <1>2, <1>3 DEF Rounds
  <2>2. Seen(s, u, 0, s)
    BY DEF Seen, Untouched
  <2>. QED
    BY <2>1, <2>2
<1>5. ASSUME NEW k \in Runs PROVE k + 1 \in Runs
  <2>. SUFFICES ASSUME k + 1 <= n PROVE Seen(s, u, k + 1, f[k + 1])
    BY <1>5
  <2>1. k \in Nat /\ Seen(s, u, k, f[k]) /\ k + 1 \in 0 .. n /\ (k + 1) - 1 = k
    BY <1>5
  <2>2. f[k + 1] = Round(f[k], u, k + 1)
    BY <1>2, <1>3, <2>1 DEF Rounds
  <2>. QED
    BY <1>2, <2>1, <2>2, RoundSees
<1>6. n \in Runs
  <2>. HIDE DEF Runs
  <2>. QED
    BY <1>4, <1>5, AllNaturals
<1>. QED
  BY <1>2, <1>3, <1>6

-----------------------------------------------------------------------------
(* Walks. *)

Longer(W) ==
    W \cup UNION {{<<e[1], x[2] + e[2]>> : e \in Range(adjacency[x[1]])} : x \in W}

WalksFrom(f, from) ==
    f = [n \in 0 .. Cardinality(Vertex) |-> IF n = 0 THEN {<<from, 0>>} ELSE Longer(f[n - 1])]

\* Those from a vertex with at most n edges, and Walks as one of these sets.
Upto(from) == CHOOSE f : WalksFrom(f, from)

LEMMA LongerIs ==
    ASSUME Graph, NEW W, W \subseteq Vertex \X Nat
    PROVE  /\ Longer(W) \subseteq Vertex \X Nat
           /\ W \subseteq Longer(W)
           /\ \A y \in Longer(W) : y \in W \/ \E x \in W : \E e \in Range(adjacency[x[1]]) :
                                                y = <<e[1], x[2] + e[2]>>
           /\ \A x \in W : \A e \in Range(adjacency[x[1]]) : <<e[1], x[2] + e[2]>> \in Longer(W)
<1>1. \A y \in Longer(W) : y \in W \/ \E x \in W : \E e \in Range(adjacency[x[1]]) :
                                           y = <<e[1], x[2] + e[2]>>
  BY DEF Longer
<1>2. \A x \in W : \A e \in Range(adjacency[x[1]]) : <<e[1], x[2] + e[2]>> \in Longer(W)
  BY DEF Longer
<1>3. ASSUME NEW x \in W, NEW e \in Range(adjacency[x[1]])
      PROVE  <<e[1], x[2] + e[2]>> \in Vertex \X Nat
  <2>1. x[1] \in Vertex /\ x[2] \in Nat
    OBVIOUS
  <2>2. e[1] \in Vertex /\ e[2] \in Nat
    BY <2>1, EdgeFields
  <2>. QED
    BY <2>1, <2>2
<1>4. Longer(W) \subseteq Vertex \X Nat
  BY <1>1, <1>3
<1>5. W \subseteq Longer(W)
  BY DEF Longer
<1>. QED
  BY <1>1, <1>2, <1>4, <1>5

LEMMA WalksExist ==
    ASSUME Graph, NEW from \in Vertex
    PROVE  /\ WalksFrom(Upto(from), from)
           /\ Walks(from) = Upto(from)[Cardinality(Vertex) - 1]
<1>. DEFINE D == SUBSET (Vertex \X Nat)
<1>1. PICK n \in Nat : n = Cardinality(Vertex)
  BY FS_CardinalityType DEF Graph
<1>2. PICK step : step = [x \in (1 .. n) \X D |-> Longer(x[2])]
  OBVIOUS
<1>3. StepsWithin(step, n, D)
  <2>1. ASSUME NEW W \in D PROVE Longer(W) \in D
    BY LongerIs
  <2>. HIDE DEF D
  <2>. QED
    BY <1>2, <2>1 DEF StepsWithin
<1>4. PICK f : Iterates(f, n, D, {<<from, 0>>}, step)
  <2>1. {<<from, 0>>} \in D
    OBVIOUS
  <2>. HIDE DEF D
  <2>. QED
    BY <1>3, <2>1, Iteration
<1>5. ASSUME NEW k \in 0 .. n PROVE f[k] = IF k = 0 THEN {<<from, 0>>} ELSE Longer(f[k - 1])
  <2>. HIDE DEF D
  <2>1. CASE k = 0
    BY <1>4, <2>1 DEF Iterates
  <2>2. CASE k # 0
    <3>1. k \in 1 .. n /\ k - 1 \in 0 .. n
      BY <2>2
    <3>2. f[k - 1] \in D /\ f[k] = step[<<k, f[k - 1]>>]
      BY <1>4, <3>1 DEF Iterates
    <3>. QED
      BY <1>2, <3>1, <3>2
  <2>. QED
    BY <2>1, <2>2
<1>6. f = [k \in 0 .. n |-> IF k = 0 THEN {<<from, 0>>} ELSE Longer(f[k - 1])]
  <2>1. f = [k \in 0 .. n |-> f[k]]
    <3>. HIDE DEF D
    <3>. QED
      BY <1>4 DEF Iterates
  <2>. QED
    BY <1>5, <2>1
<1>7. WalksFrom(f, from)
  BY <1>1, <1>6 DEF WalksFrom
<1>8. WalksFrom(Upto(from), from)
  BY <1>7 DEF Upto
<1>9. Walks(from) = Upto(from)[Cardinality(Vertex) - 1]
  BY DEF Walks, Upto, WalksFrom, Longer
<1>. QED
  BY <1>8, <1>9

\* A walk of at most n + 1 edges is one of at most n or one edge longer.
LEMMA UptoIs ==
    ASSUME Graph, NEW from \in Vertex, NEW N \in Nat, N = Cardinality(Vertex),
           NEW U, U = Upto(from)
    PROVE  /\ U[0] = {<<from, 0>>}
           /\ \A n \in 0 .. N : U[n] \subseteq Vertex \X Nat
           /\ \A n \in Nat : n + 1 <= N => U[n + 1] = Longer(U[n])
<1>1. WalksFrom(U, from)
  BY WalksExist
<1>2. U[0] = {<<from, 0>>}
  BY <1>1 DEF WalksFrom
<1>3. ASSUME NEW n \in Nat, n + 1 <= N PROVE U[n + 1] = Longer(U[n])
  <2>1. n + 1 \in 0 .. N /\ n + 1 # 0 /\ (n + 1) - 1 = n
    BY <1>3
  <2>. QED
    BY <1>1, <2>1 DEF WalksFrom
<1>. DEFINE D == SUBSET (Vertex \X Nat)
<1>4. U[0] \in D
  BY <1>2
<1>5. ASSUME NEW i \in 1 .. N, U[i - 1] \in D PROVE U[i] \in D
  <2>1. i - 1 \in Nat /\ (i - 1) + 1 = i /\ i <= N
    OBVIOUS
  <2>2. U[i] = Longer(U[i - 1])
    BY <1>3, <2>1
  <2>. QED
    BY <1>5, <2>2, LongerIs
<1>6. \A n \in 0 .. N : U[n] \in D
  <2>. HIDE DEF D
  <2>. QED
    BY <1>4, <1>5, IterationStays
<1>. QED
  BY <1>2, <1>3, <1>6

LEMMA UptoGrows ==
    ASSUME Graph, NEW from \in Vertex, NEW N \in Nat, N = Cardinality(Vertex),
           NEW U, U = Upto(from), NEW m \in Nat, NEW n \in Nat, m <= n, n <= N
    PROVE  U[m] \subseteq U[n]
<1>. DEFINE Runs == {k \in Nat : m + k <= N => U[m] \subseteq U[m + k]}
<1>1. 0 \in Runs
  OBVIOUS
<1>2. ASSUME NEW k \in Runs PROVE k + 1 \in Runs
  <2>. SUFFICES ASSUME m + (k + 1) <= N PROVE U[m] \subseteq U[m + (k + 1)]
    BY <1>2
  <2>1. /\ m + k \in Nat /\ m + k \in 0 .. N /\ (m + k) + 1 <= N
        /\ (m + k) + 1 = m + (k + 1)
    BY <1>2
  <2>2. U[m] \subseteq U[m + k]
    BY <1>2, <2>1
  <2>3. U[m + (k + 1)] = Longer(U[m + k]) /\ U[m + k] \subseteq Vertex \X Nat
    BY <2>1, UptoIs
  <2>. QED
    BY <2>2, <2>3, LongerIs
<1>3. n - m \in Nat /\ m + (n - m) = n
  OBVIOUS
<1>4. n - m \in Runs
  <2>. HIDE DEF Runs
  <2>. QED
    BY <1>1, <1>2, <1>3, AllNaturals
<1>. QED
  BY <1>3, <1>4

\* One edge more.
LEMMA OneMore ==
    ASSUME Graph, NEW from \in Vertex, NEW c \in Nat, c >= 1, c <= Cardinality(Vertex),
           NEW v \in Vertex, NEW d, <<v, d>> \in Upto(from)[c - 1],
           NEW e \in Range(adjacency[v])
    PROVE  <<e[1], d + e[2]>> \in Upto(from)[c]
<1>1. PICK N \in Nat : N = Cardinality(Vertex)
  BY FS_CardinalityType DEF Graph
<1>2. PICK b \in Nat : b = c - 1 /\ b + 1 = c
  BY SMT
<1>3. PICK U, W, x : U = Upto(from) /\ W = U[b] /\ x = <<v, d>>
  OBVIOUS
<1>4. U[c] = Longer(W) /\ W \subseteq Vertex \X Nat
  <2>1. b + 1 <= N /\ b \in 0 .. N
    BY <1>1, <1>2
  <2>. QED
    BY <1>1, <1>2, <1>3, <2>1, UptoIs
<1>5. x \in W /\ x[1] = v /\ x[2] = d
  BY <1>2, <1>3
<1>6. <<e[1], x[2] + e[2]>> \in Longer(W)
  BY <1>4, <1>5, LongerIs
<1>. QED
  BY <1>3, <1>4, <1>5, <1>6

-----------------------------------------------------------------------------
(* The search. *)

\* Distances come from walks.  A visited vertex is reached by fewer edges than
\* there are visited ones, any other by no more than these.
Hops(s) ==
    \A v \in Vertex : s.dist[v] < Infinity =>
        <<v, s.dist[v]>> \in Upto(s.from)[IF v \in s.visited THEN Cardinality(s.visited) - 1
                                         ELSE Cardinality(s.visited)]

\* All vertices with a distance but the first have a predecessor among those
\* whose neighbours were looked at, and have the distance by way of it.
Back(s, done) ==
    \A v \in Vertex :
        IF v = s.from \/ s.dist[v] = Infinity THEN s.prev[v] = None
        ELSE /\ s.prev[v] \in done
             /\ \E e \in Range(adjacency[s.prev[v]]) :
                   e[1] = v /\ s.dist[v] = s.dist[s.prev[v]] + e[2]

\* No visited vertex is farther than one that is not.
Nearer(s) ==
    \A u \in s.visited :
        s.dist[u] < Infinity /\ \A v \in Vertex \ s.visited : s.dist[u] <= s.dist[v]

\* No edge from these vertices makes a distance shorter.
Explored(s, done) ==
    \A u \in done : \A e \in Range(adjacency[u]) : s.dist[e[1]] <= s.dist[u] + e[2]

\* What is in the queue.
Queued(s) ==
    /\ \A v \in Vertex \ s.visited : s.dist[v] < Infinity => <<s.dist[v], v>> \in s.queue
    /\ \A x \in s.queue : /\ s.dist[x[2]] <= x[1] /\ x[1] < Infinity
                          /\ \A u \in s.visited : s.dist[u] <= x[1]

Searching(s, done) ==
    /\ s \in Locals /\ done \subseteq s.visited
    /\ s.dist[s.from] = 0
    /\ Hops(s) /\ Back(s, done) /\ Nearer(s) /\ Explored(s, done) /\ Queued(s)

\* A search begins with the start in the queue and nothing visited.
LEMMA SearchBegins ==
    ASSUME Graph, NEW from \in Vertex, NEW to \in Vertex
    PROVE  Searching(NewSearch(from, to), {})
<1>1. PICK s : s = NewSearch(from, to)
  OBVIOUS
<1>2. PICK dist, prev : /\ dist = [v \in Vertex |-> IF v = from THEN 0 ELSE Infinity]
                        /\ prev = [v \in Vertex |-> None]
  OBVIOUS
<1>3. s = [from |-> from, to |-> to, dist |-> dist, prev |-> prev, visited |-> {},
           queue |-> {<<0, from>>}, vertex |-> None]
  BY <1>1, <1>2 DEF NewSearch
<1>4. dist \in Dists /\ prev \in Prevs /\ {<<0, from>>} \in Queues
  BY <1>2, Numbers DEF Dists, Prevs, Queues
<1>5. s \in Locals
  BY <1>3, <1>4 DEF Locals
<1>6. Hops(s)
  <2>1. PICK N \in Nat : N = Cardinality(Vertex)
    BY FS_CardinalityType DEF Graph
  <2>2. Upto(from)[0] = {<<from, 0>>}
    BY <2>1, UptoIs
  <2>3. Cardinality({}) = 0
    BY FS_EmptySet
  <2>4. ASSUME NEW v \in Vertex, dist[v] < Infinity PROVE v = from /\ dist[v] = 0
    BY <1>2, <2>4, Numbers
  <2>. QED
    BY <1>3, <2>2, <2>3, <2>4 DEF Hops
<1>7. Back(s, {})
  BY <1>2, <1>3 DEF Back
<1>8. Nearer(s) /\ Explored(s, {})
  BY <1>3 DEF Nearer, Explored
<1>9. Queued(s)
  <2>1. \A v \in Vertex : dist[v] < Infinity => v = from /\ dist[v] = 0
    BY <1>2, Numbers
  <2>2. dist[from] = 0 /\ 0 < Infinity
    BY <1>2, Numbers
  <2>. QED
    BY <1>3, <2>1, <2>2 DEF Queued
<1>10. s.dist[s.from] = 0
  BY <1>2, <1>3
<1>. QED
  BY <1>1, <1>5, <1>6, <1>7, <1>8, <1>9, <1>10 DEF Searching

\* There is a foremost entry.
LEMMA ForemostIs ==
    ASSUME NEW Q \in Queues, Q # {}, Vertex \subseteq Nat, NEW x, x = Foremost(Q)
    PROVE  /\ x \in Q /\ x = <<x[1], x[2]>> /\ x[1] \in Nat /\ x[2] \in Vertex
           /\ \A y \in Q : x[1] <= y[1]
<1>. DEFINE First == {y[1] : y \in Q}
<1>1. \A y \in Q : y[1] \in Nat /\ y[2] \in Vertex /\ y = <<y[1], y[2]>>
  BY DEF Queues
<1>2. PICK a \in First : \A b \in First : a <= b
  <2>1. First \subseteq Nat /\ First # {}
    BY <1>1
  <2>. HIDE DEF First
  <2>. QED
    BY <2>1, MinIsLeast
<1>. DEFINE Second == {y[2] : y \in {z \in Q : z[1] = a}}
<1>3. PICK c \in Second : \A b \in Second : c <= b
  <2>1. Second \subseteq Nat
    BY <1>1
  <2>2. Second # {}
    BY <1>2
  <2>. HIDE DEF Second
  <2>. QED
    BY <2>1, <2>2, MinIsLeast
<1>4. PICK z \in Q : z[1] = a /\ z[2] = c
  BY <1>3
<1>5. \A y \in Q : z[1] < y[1] \/ (z[1] = y[1] /\ z[2] <= y[2])
  <2>1. ASSUME NEW y \in Q PROVE z[1] < y[1] \/ (z[1] = y[1] /\ z[2] <= y[2])
    <3>1. z[1] <= y[1] /\ y[1] \in Nat /\ z[1] \in Nat
      BY <1>1, <1>2, <1>4
    <3>2. CASE z[1] = y[1]
      <4>1. y[2] \in Second
        BY <1>4, <3>2
      <4>. QED
        BY <1>3, <1>4, <3>2, <4>1
    <3>. QED
      BY <3>1, <3>2
  <2>. QED
    BY <2>1
<1>6. x \in Q /\ \A y \in Q : x[1] < y[1] \/ (x[1] = y[1] /\ x[2] <= y[2])
  BY <1>5 DEF Foremost
<1>7. \A y \in Q : x[1] <= y[1]
  BY <1>1, <1>6
<1>. QED
  BY <1>1, <1>6, <1>7

\* The foremost entry is taken from the queue and its vertex is visited.  Unless
\* it was before, none of the visited ones is farther.
Marked(s, x) ==
    [s EXCEPT !.queue = Popped(s.queue, x), !.visited = s.visited \cup {x[2]}]

LEMMA MarkedFields ==
    ASSUME Graph, NEW s \in Locals, s.queue # {}, NEW x, x = Foremost(s.queue),
           NEW r, r = Marked(s, x)
    PROVE  /\ r \in Locals
           /\ r.from = s.from /\ r.to = s.to /\ r.dist = s.dist /\ r.prev = s.prev
           /\ r.visited = s.visited \cup {x[2]} /\ r.queue = s.queue \ {x}
           /\ r.vertex = s.vertex
           /\ x \in s.queue /\ x = <<x[1], x[2]>> /\ x[1] \in Nat /\ x[2] \in Vertex
           /\ \A y \in s.queue : x[1] <= y[1]
<1>1. /\ x \in s.queue /\ x = <<x[1], x[2]>> /\ x[1] \in Nat /\ x[2] \in Vertex
      /\ \A y \in s.queue : x[1] <= y[1]
  <2>1. s.queue \in Queues /\ Vertex \subseteq Nat
    BY DEF Locals, Graph
  <2>. QED
    BY <2>1, ForemostIs
<1>2. PICK queue, visited : queue = s.queue \ {x} /\ visited = s.visited \cup {x[2]}
  OBVIOUS
<1>3. queue \in Queues
  BY <1>2 DEF Locals, Queues
<1>4. visited \in SUBSET Vertex
  BY <1>1, <1>2, LocalFields
<1>5. r = [s EXCEPT !.queue = queue, !.visited = visited]
  BY <1>2 DEF Marked, Popped
<1>6. /\ r \in Locals
      /\ r.from = s.from /\ r.to = s.to /\ r.dist = s.dist /\ r.prev = s.prev
      /\ r.visited = visited /\ r.queue = queue /\ r.vertex = s.vertex
  BY <1>3, <1>4, <1>5 DEF Locals
<1>. QED
  BY <1>1, <1>2, <1>6

\* How many vertices are visited.
LEMMA VisitedCount ==
    ASSUME Graph, NEW s \in Locals, NEW N \in Nat, N = Cardinality(Vertex)
    PROVE  /\ Cardinality(s.visited) \in Nat /\ Cardinality(s.visited) <= N
           /\ \A v \in s.visited : Cardinality(s.visited) >= 1
           /\ \A v \in Vertex \ s.visited :
                 /\ Cardinality(s.visited \cup {v}) = Cardinality(s.visited) + 1
                 /\ Cardinality(s.visited) + 1 <= N
<1>1. s.visited \subseteq Vertex /\ IsFiniteSet(Vertex)
  BY LocalFields DEF Graph
<1>2. IsFiniteSet(s.visited) /\ Cardinality(s.visited) <= N
  BY <1>1, FS_Subset
<1>3. Cardinality(s.visited) \in Nat
  BY <1>2, FS_CardinalityType
<1>4. ASSUME NEW v \in s.visited PROVE Cardinality(s.visited) >= 1
  <2>1. Cardinality(s.visited) # 0
    BY <1>2, <1>4, FS_EmptySet
  <2>. QED
    BY <1>3, <2>1
<1>5. ASSUME NEW v \in Vertex \ s.visited
      PROVE  /\ Cardinality(s.visited \cup {v}) = Cardinality(s.visited) + 1
             /\ Cardinality(s.visited) + 1 <= N
  <2>1. Cardinality(s.visited \cup {v}) = Cardinality(s.visited) + 1
    BY <1>2, FS_AddElement
  <2>2. s.visited \cup {v} \subseteq Vertex
    BY <1>1
  <2>3. Cardinality(s.visited \cup {v}) <= N
    BY <1>1, <2>2, FS_Subset
  <2>. QED
    BY <2>1, <2>3
<1>. QED
  BY <1>2, <1>3, <1>4, <1>5

LEMMA MarkingKeeps ==
    ASSUME Graph, NEW s, Searching(s, s.visited), s.queue # {},
           NEW x, x = Foremost(s.queue), NEW r, r = Marked(s, x)
    PROVE  /\ Searching(r, s.visited)
           /\ \/ x[2] \in s.visited
              \/ \A v \in r.visited : r.dist[v] <= r.dist[x[2]]
<1>1. s \in Locals
  BY DEF Searching
<1>2. /\ r \in Locals
      /\ r.from = s.from /\ r.to = s.to /\ r.dist = s.dist /\ r.prev = s.prev
      /\ r.visited = s.visited \cup {x[2]} /\ r.queue = s.queue \ {x}
      /\ x \in s.queue /\ x = <<x[1], x[2]>> /\ x[1] \in Nat /\ x[2] \in Vertex
      /\ \A y \in s.queue : x[1] <= y[1]
  BY <1>1, MarkedFields
<1>3. /\ s.from \in Vertex
      /\ \A v \in Vertex : s.dist[v] \in Nat /\ s.dist[v] <= Infinity
      /\ \A y \in s.queue : y[1] \in Nat /\ y[2] \in Vertex
  BY <1>1, LocalFields
<1>4. s.dist[x[2]] <= x[1] /\ x[1] < Infinity /\ \A u \in s.visited : s.dist[u] <= x[1]
  BY <1>2 DEF Searching, Queued
<1>5. Infinity \in Nat
  BY Numbers
<1>. HIDE DEF Infinity
<1>6. s.dist[x[2]] < Infinity
  BY <1>2, <1>3, <1>4, <1>5
<1>7. ASSUME x[2] \notin s.visited PROVE s.dist[x[2]] = x[1]
  <2>1. <<s.dist[x[2]], x[2]>> \in s.queue
    BY <1>2, <1>6, <1>7 DEF Searching, Queued
  <2>2. x[1] <= s.dist[x[2]]
    BY <1>2, <2>1
  <2>. QED
    BY <1>2, <1>3, <1>4, <2>2
<1>8. ASSUME x[2] \notin s.visited, NEW w \in Vertex \ s.visited PROVE x[1] <= s.dist[w]
  <2>1. CASE s.dist[w] < Infinity
    <3>1. <<s.dist[w], w>> \in s.queue
      BY <1>8, <2>1 DEF Searching, Queued
    <3>. QED
      BY <1>2, <3>1
  <2>2. CASE ~(s.dist[w] < Infinity)
    BY <1>2, <1>3, <1>4, <1>5, <2>2
  <2>. QED
    BY <2>1, <2>2
<1>9. Hops(r)
  <2>1. PICK N, c : /\ N \in Nat /\ N = Cardinality(Vertex)
                    /\ c \in Nat /\ c = Cardinality(s.visited) /\ c <= N
    <3>1. Cardinality(Vertex) \in Nat
      BY FS_CardinalityType DEF Graph
    <3>. QED
      BY <1>1, <3>1, VisitedCount
  <2>2. PICK U : U = Upto(s.from)
    OBVIOUS
  <2>3. CASE x[2] \in s.visited
    <3>1. r.visited = s.visited
      BY <1>2, <2>3
    <3>. QED
      BY <1>2, <3>1 DEF Searching, Hops
  <2>4. CASE x[2] \notin s.visited
    <3>1. Cardinality(r.visited) = c + 1 /\ c + 1 <= N
      BY <1>1, <1>2, <2>1, <2>4, VisitedCount
    <3>2. U[c] \subseteq U[c + 1]
      BY <1>3, <2>1, <2>2, <3>1, UptoGrows
    <3>3. ASSUME NEW v \in s.visited PROVE c - 1 \in Nat /\ U[c - 1] \subseteq U[c]
      <4>1. c - 1 \in Nat /\ c - 1 <= c
        BY <1>1, <2>1, VisitedCount
      <4>. QED
        BY <1>3, <2>1, <2>2, <4>1, UptoGrows
    <3>4. (c + 1) - 1 = c
      BY <2>1
    <3>5. ASSUME NEW v \in Vertex, s.dist[v] < Infinity
          PROVE  <<v, s.dist[v]>> \in U[IF v \in r.visited THEN (c + 1) - 1 ELSE c + 1]
      <4>1. <<v, s.dist[v]>> \in U[IF v \in s.visited THEN c - 1 ELSE c]
        BY <2>1, <2>2, <3>5 DEF Searching, Hops
      <4>2. CASE v \in s.visited
        BY <1>2, <3>3, <3>4, <4>1, <4>2
      <4>3. CASE v \notin s.visited
        BY <3>2, <3>4, <4>1, <4>3
      <4>. QED
        BY <4>2, <4>3
    <3>. QED
      BY <1>2, <2>2, <3>1, <3>5 DEF Hops
  <2>. QED
    BY <2>3, <2>4
<1>10. Back(r, s.visited)
  BY <1>2 DEF Searching, Back
<1>11. Explored(r, s.visited)
  BY <1>2 DEF Searching, Explored
<1>12. Nearer(r)
  <2>1. ASSUME NEW u \in r.visited PROVE r.dist[u] < Infinity
    <3>1. u \in s.visited \/ u = x[2]
      BY <1>2, <2>1
    <3>. QED
      BY <1>2, <1>6, <3>1 DEF Searching, Nearer
  <2>2. ASSUME NEW u \in r.visited, NEW v \in Vertex \ r.visited PROVE r.dist[u] <= r.dist[v]
    <3>1. v \in Vertex \ s.visited
      BY <1>2, <2>2
    <3>2. CASE u \in s.visited
      BY <1>2, <3>1, <3>2 DEF Searching, Nearer
    <3>3. CASE u \notin s.visited
      <4>1. u = x[2]
        BY <1>2, <2>2, <3>3
      <4>. QED
        BY <1>2, <1>7, <1>8, <3>1, <3>3, <4>1
    <3>. QED
      BY <3>2, <3>3
  <2>. QED
    BY <2>1, <2>2 DEF Nearer
<1>13. Queued(r)
  <2>1. ASSUME NEW v \in Vertex \ r.visited, r.dist[v] < Infinity
        PROVE  <<r.dist[v], v>> \in r.queue
    <3>1. v \in Vertex \ s.visited /\ v # x[2]
      BY <1>2, <2>1
    <3>2. <<s.dist[v], v>> \in s.queue
      BY <1>2, <2>1, <3>1 DEF Searching, Queued
    <3>3. <<s.dist[v], v>> # x
      BY <3>1
    <3>. QED
      BY <1>2, <3>2, <3>3
  <2>2. ASSUME NEW y \in r.queue
        PROVE  /\ r.dist[y[2]] <= y[1] /\ y[1] < Infinity
               /\ \A u \in r.visited : r.dist[u] <= y[1]
    <3>1. y \in s.queue
      BY <1>2, <2>2
    <3>2. /\ s.dist[y[2]] <= y[1] /\ y[1] < Infinity
          /\ \A u \in s.visited : s.dist[u] <= y[1]
      BY <3>1 DEF Searching, Queued
    <3>3. s.dist[x[2]] <= y[1]
      <4>1. x[1] <= y[1]
        BY <1>2, <3>1
      <4>. QED
        BY <1>2, <1>3, <1>4, <3>1, <4>1
    <3>. QED
      BY <1>2, <3>2, <3>3
  <2>. QED
    BY <2>1, <2>2 DEF Queued
<1>14. ASSUME x[2] \notin s.visited, NEW v \in r.visited PROVE r.dist[v] <= r.dist[x[2]]
  <2>1. CASE v \in s.visited
    BY <1>2, <1>4, <1>7, <1>14, <2>1
  <2>2. CASE v \notin s.visited
    <3>1. v = x[2]
      BY <1>2, <1>14, <2>2
    <3>. QED
      BY <1>2, <1>3, <3>1
  <2>. QED
    BY <2>1, <2>2
<1>15. s.visited \subseteq r.visited /\ r.dist[r.from] = 0
  BY <1>2 DEF Searching
<1>. QED
  BY <1>2, <1>9, <1>10, <1>11, <1>12, <1>13, <1>14, <1>15 DEF Searching

\* The neighbours of a vertex that was visited are relaxed.
LEMMA RelaxingKeeps ==
    ASSUME Graph, NEW s, NEW done, NEW u \in s.visited, Searching(s, done),
           s.visited = done \cup {u},
           u \in done \/ \A v \in s.visited : s.dist[v] <= s.dist[u],
           NEW r, r = Relaxed(s, u)
    PROVE  /\ Searching(r, r.visited)
           /\ r.from = s.from /\ r.to = s.to /\ r.visited = s.visited
<1>1. s \in Locals
  BY DEF Searching
<1>2. u \in Vertex /\ s.from \in Vertex
  BY <1>1, LocalFields
<1>3. PICK n \in Nat : n = Len(adjacency[u])
  BY <1>2 DEF Graph
<1>4. Seen(s, u, n, r)
  BY <1>1, <1>3, RelaxedSees
<1>5. /\ r \in Locals
      /\ r.from = s.from /\ r.to = s.to /\ r.visited = s.visited
  BY <1>4 DEF Seen
<1>6. Infinity \in Nat
  BY Numbers
<1>. HIDE DEF Infinity
<1>7. \A v \in Vertex : /\ s.dist[v] \in Nat /\ s.dist[v] <= Infinity
                        /\ r.dist[v] \in Nat /\ r.dist[v] <= Infinity
  BY <1>1, <1>5, LocalFields
<1>8. \A v \in s.visited : r.dist[v] = s.dist[v] /\ r.prev[v] = s.prev[v] /\ v \in Vertex
  <2>1. ASSUME NEW v \in s.visited PROVE v \in Vertex /\ ~Shortened(s, r, u, n, v)
    BY <1>1, <2>1, LocalFields DEF Shortened
  <2>. QED
    BY <1>4, <2>1 DEF Seen, Untouched
<1>9. ASSUME NEW i \in 1 .. n
      PROVE  /\ adjacency[u][i] \in Range(adjacency[u])
             /\ adjacency[u][i][1] \in Vertex /\ adjacency[u][i][2] \in Nat \ {0}
  <2>1. i \in DOMAIN adjacency[u]
    BY <1>2, <1>3, <1>9 DEF Graph
  <2>. QED
    BY <1>2, <1>3, <2>1, NeighbourFields DEF Range
\* Only a vertex that was not explored before makes a distance shorter.
<1>10. ASSUME NEW i \in 1 .. n,
              s.dist[u] + adjacency[u][i][2] < s.dist[adjacency[u][i][1]]
       PROVE  /\ u \notin done /\ \A v \in s.visited : s.dist[v] <= s.dist[u]
              /\ \A v \in s.visited : s.dist[v] <= s.dist[u] + adjacency[u][i][2]
  <2>1. u \notin done
    <3>1. u \in done => s.dist[adjacency[u][i][1]] <= s.dist[u] + adjacency[u][i][2]
      BY <1>9 DEF Searching, Explored
    <3>. QED
      BY <1>2, <1>7, <1>9, <1>10, <3>1
  <2>2. \A v \in s.visited : s.dist[v] <= s.dist[u]
    BY <2>1
  <2>. QED
    BY <1>2, <1>7, <1>8, <1>9, <2>1, <2>2
<1>11. \A v \in Vertex : r.dist[v] <= s.dist[v]
  <2>1. ASSUME NEW v \in Vertex PROVE r.dist[v] = s.dist[v] \/ r.dist[v] < s.dist[v]
    BY <1>4 DEF Seen, Untouched, Shortened
  <2>. QED
    BY <1>7, <2>1
<1>12. ASSUME NEW v \in Vertex, Shortened(s, r, u, n, v)
       PROVE  /\ v \notin s.visited /\ r.prev[v] = u /\ <<r.dist[v], v>> \in r.queue
              /\ r.dist[v] < Infinity /\ v # s.from
              /\ \E i \in 1 .. n : /\ adjacency[u][i][1] = v
                                  /\ r.dist[v] = s.dist[u] + adjacency[u][i][2]
              /\ \A w \in s.visited : s.dist[w] <= r.dist[v]
  <2>1. /\ v \notin s.visited /\ r.prev[v] = u /\ <<r.dist[v], v>> \in r.queue
        /\ r.dist[v] < s.dist[v]
    BY <1>12 DEF Shortened
  <2>2. PICK i \in 1 .. n : /\ adjacency[u][i][1] = v
                            /\ r.dist[v] = s.dist[u] + adjacency[u][i][2]
    BY <1>12 DEF Shortened
  <2>3. \A w \in s.visited : s.dist[w] <= r.dist[v]
    BY <1>10, <2>1, <2>2
  <2>4. r.dist[v] < Infinity
    BY <1>6, <1>7, <2>1
  <2>5. v # s.from
    <3>1. s.dist[s.from] = 0
      BY DEF Searching
    <3>. QED
      BY <1>7, <2>1, <3>1
  <2>. QED
    BY <2>1, <2>2, <2>3, <2>4, <2>5
<1>13. r.dist[r.from] = 0
  <2>1. Untouched(s, r, s.from)
    BY <1>2, <1>4, <1>12 DEF Seen
  <2>. QED
    BY <1>5, <2>1 DEF Untouched, Searching
<1>14. Hops(r)
  <2>1. PICK N, c : /\ N \in Nat /\ N = Cardinality(Vertex)
                    /\ c \in Nat /\ c = Cardinality(s.visited) /\ c <= N /\ c >= 1
    <3>1. Cardinality(Vertex) \in Nat
      BY FS_CardinalityType DEF Graph
    <3>. QED
      BY <1>1, <3>1, VisitedCount
  <2>2. PICK U : U = Upto(s.from)
    OBVIOUS
  <2>3. ASSUME NEW v \in Vertex, r.dist[v] < Infinity
        PROVE  <<v, r.dist[v]>> \in U[IF v \in s.visited THEN c - 1 ELSE c]
    <3>1. CASE Untouched(s, r, v)
      BY <2>1, <2>2, <2>3, <3>1 DEF Searching, Hops, Untouched
    <3>2. CASE Shortened(s, r, u, n, v)
      <4>1. PICK i \in 1 .. n : /\ adjacency[u][i][1] = v
                                /\ r.dist[v] = s.dist[u] + adjacency[u][i][2]
        BY <1>12, <3>2
      <4>2. s.dist[u] < Infinity
        BY DEF Searching, Nearer
      <4>3. <<u, s.dist[u]>> \in U[c - 1]
        BY <1>2, <2>1, <2>2, <4>2 DEF Searching, Hops
      <4>4. <<adjacency[u][i][1], s.dist[u] + adjacency[u][i][2]>> \in U[c]
        BY <1>2, <1>9, <2>1, <2>2, <4>3, OneMore
      <4>. QED
        BY <1>12, <3>2, <4>1, <4>4
    <3>. QED
      BY <1>4, <3>1, <3>2 DEF Seen
  <2>. QED
    BY <1>5, <2>1, <2>2, <2>3 DEF Hops
<1>15. Back(r, r.visited)
  <2>1. ASSUME NEW v \in Vertex
        PROVE  IF v = s.from \/ r.dist[v] = Infinity THEN r.prev[v] = None
               ELSE /\ r.prev[v] \in s.visited
                    /\ \E e \in Range(adjacency[r.prev[v]]) :
                          e[1] = v /\ r.dist[v] = r.dist[r.prev[v]] + e[2]
    <3>1. CASE Untouched(s, r, v)
      <4>1. IF v = s.from \/ s.dist[v] = Infinity THEN s.prev[v] = None
            ELSE /\ s.prev[v] \in done
                 /\ \E e \in Range(adjacency[s.prev[v]]) :
                       e[1] = v /\ s.dist[v] = s.dist[s.prev[v]] + e[2]
        BY DEF Searching, Back
      <4>. QED
        BY <1>8, <3>1, <4>1 DEF Untouched
    <3>2. CASE Shortened(s, r, u, n, v)
      <4>1. PICK i \in 1 .. n : /\ adjacency[u][i][1] = v
                                /\ r.dist[v] = s.dist[u] + adjacency[u][i][2]
        BY <1>12, <3>2
      <4>2. v # s.from /\ r.dist[v] < Infinity /\ r.prev[v] = u
        BY <1>12, <3>2
      <4>3. r.dist[v] # Infinity
        BY <1>6, <1>7, <4>2
      <4>. QED
        BY <1>8, <1>9, <4>1, <4>2, <4>3
    <3>. QED
      BY <1>4, <3>1, <3>2 DEF Seen
  <2>. QED
    BY <1>5, <2>1 DEF Back
<1>16. Nearer(r)
  <2>1. ASSUME NEW w \in s.visited PROVE r.dist[w] < Infinity
    BY <1>8, <2>1 DEF Searching, Nearer
  <2>2. ASSUME NEW w \in s.visited, NEW v \in Vertex \ s.visited PROVE r.dist[w] <= r.dist[v]
    <3>1. CASE Untouched(s, r, v)
      BY <1>8, <2>2, <3>1 DEF Searching, Nearer, Untouched
    <3>2. CASE Shortened(s, r, u, n, v)
      BY <1>8, <1>12, <2>2, <3>2
    <3>. QED
      BY <1>4, <3>1, <3>2 DEF Seen
  <2>. QED
    BY <1>5, <2>1, <2>2 DEF Nearer
<1>17. Explored(r, r.visited)
  <2>1. ASSUME NEW w \in s.visited, NEW e \in Range(adjacency[w])
        PROVE  r.dist[e[1]] <= r.dist[w] + e[2]
    <3>1. w \in Vertex
      BY <1>8, <2>1
    <3>2. e[1] \in Vertex /\ e[2] \in Nat
      BY <2>1, <3>1, EdgeFields
    <3>3. CASE w \in done
      <4>1. s.dist[e[1]] <= s.dist[w] + e[2]
        BY <2>1, <3>3 DEF Searching, Explored
      <4>2. r.dist[e[1]] <= s.dist[e[1]]
        BY <1>11, <3>2
      <4>3. r.dist[e[1]] \in Nat /\ s.dist[e[1]] \in Nat /\ s.dist[w] \in Nat
        BY <1>7, <3>1, <3>2
      <4>4. r.dist[w] = s.dist[w]
        BY <1>8, <2>1
      <4>. QED
        BY <3>2, <4>1, <4>2, <4>3, <4>4
    <3>4. CASE w \notin done
      <4>1. w = u
        BY <2>1, <3>4
      <4>2. PICK i \in 1 .. n : e = adjacency[u][i]
        BY <1>2, <1>3, <2>1, <4>1, EdgeFields
      <4>3. CASE e[1] \in s.visited
        <5>1. s.dist[e[1]] <= s.dist[u]
          BY <3>4, <4>1, <4>3
        <5>2. r.dist[e[1]] = s.dist[e[1]] /\ r.dist[w] = s.dist[u]
          BY <1>8, <4>1, <4>3
        <5>3. s.dist[e[1]] \in Nat /\ s.dist[u] \in Nat
          BY <1>2, <1>7, <3>2
        <5>. QED
          BY <3>2, <5>1, <5>2, <5>3
      <4>4. CASE e[1] \notin s.visited
        <5>1. r.dist[e[1]] <= s.dist[u] + e[2]
          BY <1>4, <4>2, <4>4 DEF Seen
        <5>. QED
          BY <1>8, <4>1, <5>1
      <4>. QED
        BY <4>3, <4>4
    <3>. QED
      BY <3>3, <3>4
  <2>. QED
    BY <1>5, <2>1 DEF Explored
<1>18. Queued(r)
  <2>1. ASSUME NEW v \in Vertex \ s.visited, r.dist[v] < Infinity
        PROVE  <<r.dist[v], v>> \in r.queue
    <3>1. CASE Untouched(s, r, v)
      <4>1. <<s.dist[v], v>> \in s.queue
        BY <2>1, <3>1 DEF Searching, Queued, Untouched
      <4>. QED
        BY <1>4, <3>1, <4>1 DEF Seen, Untouched
    <3>2. CASE Shortened(s, r, u, n, v)
      BY <1>12, <3>2
    <3>. QED
      BY <1>4, <3>1, <3>2 DEF Seen
  <2>2. ASSUME NEW x \in r.queue
        PROVE  /\ r.dist[x[2]] <= x[1] /\ x[1] < Infinity
               /\ \A w \in s.visited : r.dist[w] <= x[1]
    <3>1. x[1] \in Nat /\ x[2] \in Vertex
      BY <1>5, <2>2, LocalFields
    <3>2. CASE x \in s.queue
      <4>1. /\ s.dist[x[2]] <= x[1] /\ x[1] < Infinity
            /\ \A w \in s.visited : s.dist[w] <= x[1]
        BY <3>2 DEF Searching, Queued
      <4>2. r.dist[x[2]] <= s.dist[x[2]] /\ r.dist[x[2]] \in Nat /\ s.dist[x[2]] \in Nat
        BY <1>7, <1>11, <3>1
      <4>. QED
        BY <1>8, <3>1, <4>1, <4>2
    <3>3. CASE Pushed(s, r, u, n, x)
      <4>1. PICK i \in 1 .. n :
                x = <<s.dist[u] + adjacency[u][i][2], adjacency[u][i][1]>>
        BY <3>3 DEF Pushed
      <4>2. x[1] = s.dist[u] + adjacency[u][i][2] /\ x[2] = adjacency[u][i][1]
        BY <4>1
      <4>3. r.dist[x[2]] <= x[1] /\ x[1] < s.dist[x[2]]
        BY <3>3 DEF Pushed
      <4>4. \A w \in s.visited : s.dist[w] <= x[1]
        BY <1>10, <4>2, <4>3
      <4>5. x[1] < Infinity
        BY <1>6, <1>7, <3>1, <4>3
      <4>. QED
        BY <1>8, <4>3, <4>4, <4>5
    <3>. QED
      BY <1>4, <2>2, <3>2, <3>3 DEF Seen
  <2>. QED
    BY <1>5, <2>1, <2>2 DEF Queued
<1>. QED
  BY <1>5, <1>13, <1>14, <1>15, <1>16, <1>17, <1>18 DEF Searching

\* What has not been explored yet of the visited vertices is the farthest.
Newest(s, done) == \A u \in s.visited \ done : \A v \in s.visited : s.dist[v] <= s.dist[u]

\* A walk is as long as the distance of its end, or as that of any visited vertex.
AsFar(s, y) == y[2] >= s.dist[y[1]] \/ \A v \in s.visited : y[2] >= s.dist[v]

LEMMA WalksAreFar ==
    ASSUME Graph, NEW s, NEW done, Searching(s, done), Newest(s, done),
           NEW N \in Nat, N = Cardinality(Vertex), NEW U, U = Upto(s.from)
    PROVE  \A n \in 0 .. N : \A y \in U[n] : AsFar(s, y)
<1>1. /\ s \in Locals /\ s.from \in Vertex
      /\ \A v \in Vertex : s.dist[v] \in Nat
      /\ s.visited \subseteq Vertex /\ done \subseteq s.visited
  BY LocalFields DEF Searching
<1>. DEFINE Far == {W \in SUBSET (Vertex \X Nat) : \A y \in W : AsFar(s, y)}
<1>2. U[0] \in Far
  <2>1. U[0] = {<<s.from, 0>>}
    BY <1>1, UptoIs
  <2>2. s.dist[s.from] = 0
    BY DEF Searching
  <2>3. PICK y : y = <<s.from, 0>>
    OBVIOUS
  <2>4. y[2] >= s.dist[y[1]]
    BY <2>2, <2>3
  <2>. QED
    BY <1>1, <2>1, <2>3, <2>4 DEF AsFar
<1>3. ASSUME NEW i \in 1 .. N, U[i - 1] \in Far PROVE U[i] \in Far
  <2>1. PICK W : W = U[i - 1]
    OBVIOUS
  <2>2. U[i] = Longer(W) /\ W \subseteq Vertex \X Nat
    <3>1. PICK b \in Nat : b = i - 1 /\ b + 1 = i /\ b + 1 <= N /\ b \in 0 .. N
      BY SMT
    <3>. QED
      BY <1>1, <2>1, <3>1, UptoIs
  <2>3. ASSUME NEW y \in U[i] PROVE AsFar(s, y)
    <3>1. CASE y \in W
      BY <1>3, <2>1, <3>1
    <3>2. CASE y \notin W
      <4>1. PICK x \in W : \E e \in Range(adjacency[x[1]]) : y = <<e[1], x[2] + e[2]>>
        BY <2>2, <2>3, <3>2, LongerIs
      <4>2. PICK e \in Range(adjacency[x[1]]) : y = <<e[1], x[2] + e[2]>>
        BY <4>1
      <4>3. AsFar(s, x) /\ x[1] \in Vertex /\ x[2] \in Nat
        BY <1>3, <2>1, <2>2
      <4>4. e[1] \in Vertex /\ e[2] \in Nat
        BY <4>3, EdgeFields
      <4>5. y[1] = e[1] /\ y[2] = x[2] + e[2]
        BY <4>2
      <4>6. CASE \A v \in s.visited : x[2] >= s.dist[v]
        BY <1>1, <4>3, <4>4, <4>5, <4>6 DEF AsFar
      <4>7. CASE x[2] >= s.dist[x[1]] /\ x[1] \in done
        <5>1. s.dist[e[1]] <= s.dist[x[1]] + e[2]
          BY <4>7 DEF Searching, Explored
        <5>2. s.dist[e[1]] \in Nat /\ s.dist[x[1]] \in Nat
          BY <1>1, <4>3, <4>4
        <5>3. y[2] >= s.dist[y[1]]
          BY <4>3, <4>4, <4>5, <4>7, <5>1, <5>2
        <5>. QED
          BY <5>3 DEF AsFar
      <4>8. CASE x[2] >= s.dist[x[1]] /\ x[1] \notin done
        <5>1. \A v \in s.visited : s.dist[v] <= s.dist[x[1]]
          BY <4>3, <4>8 DEF Searching, Nearer, Newest
        <5>2. \A v \in s.visited : y[2] >= s.dist[v]
          <6>1. s.dist[x[1]] \in Nat
            BY <1>1, <4>3
          <6>. QED
            BY <1>1, <4>3, <4>4, <4>5, <4>8, <5>1, <6>1
        <5>. QED
          BY <5>2 DEF AsFar
      <4>. QED
        BY <4>3, <4>6, <4>7, <4>8 DEF AsFar
    <3>. QED
      BY <3>1, <3>2
  <2>4. U[i] \subseteq Vertex \X Nat
    BY <2>2, LongerIs
  <2>. QED
    BY <2>3, <2>4
<1>4. \A n \in 0 .. N : U[n] \in Far
  <2>. HIDE DEF Far
  <2>. QED
    BY <1>2, <1>3, IterationStays
<1>. QED
  BY <1>4

\* All walks that Walks has are of at most N - 1 edges.
LEMMA WalksAre ==
    ASSUME Graph, NEW from \in Vertex
    PROVE  \E N \in Nat : /\ N = Cardinality(Vertex) /\ N - 1 \in 0 .. N
                         /\ Walks(from) = Upto(from)[N - 1]
                         /\ Walks(from) \subseteq Vertex \X Nat
<1>1. PICK N \in Nat : N = Cardinality(Vertex)
  BY FS_CardinalityType DEF Graph
<1>2. N # 0
  BY <1>1, FS_EmptySet DEF Graph
<1>3. N - 1 \in 0 .. N
  BY <1>2
<1>4. Walks(from) = Upto(from)[N - 1]
  BY <1>1, WalksExist
<1>5. \A n \in 0 .. N : Upto(from)[n] \subseteq Vertex \X Nat
  BY <1>1, UptoIs
<1>. QED
  BY <1>1, <1>3, <1>4, <1>5

\* A distance that a walk has and no walk is below is the shortest.
LEMMA ShortestIs ==
    ASSUME Graph, NEW from \in Vertex, NEW v, NEW d, <<v, d>> \in Walks(from),
           \A y \in Walks(from) : y[1] = v => y[2] >= d
    PROVE  Shortest(from, v) = d
<1>. DEFINE S == {x[2] : x \in {y \in Walks(from) : y[1] = v}}
<1>1. Walks(from) \subseteq Vertex \X Nat
  BY WalksAre
<1>2. S \subseteq Nat
  BY <1>1
<1>3. d \in S
  <2>1. PICK x : x = <<v, d>>
    OBVIOUS
  <2>2. x \in Walks(from) /\ x[1] = v /\ x[2] = d
    BY <2>1
  <2>. QED
    BY <2>2
<1>4. \A x \in S : x >= d
  OBVIOUS
<1>5. Shortest(from, v) = Min(S)
  BY DEF Shortest
<1>6. Min(S) \in S /\ \A x \in S : Min(S) <= x
  <2>. HIDE DEF S
  <2>. QED
    BY <1>2, <1>3, MinIsLeast
<1>7. PICK m : m = Min(S)
  OBVIOUS
<1>8. m \in Nat /\ d \in Nat /\ m <= d /\ m >= d
  <2>. HIDE DEF S
  <2>. QED
    BY <1>2, <1>3, <1>4, <1>6, <1>7
<1>. QED
  BY <1>5, <1>7, <1>8

\* A visited vertex has the shortest distance.
LEMMA VisitedIsFinal ==
    ASSUME Graph, NEW s, NEW done, Searching(s, done), Newest(s, done), NEW v \in s.visited
    PROVE  <<v, s.dist[v]>> \in Walks(s.from) /\ s.dist[v] = Shortest(s.from, v)
<1>1. /\ s \in Locals /\ s.from \in Vertex /\ v \in Vertex
  BY LocalFields DEF Searching
<1>2. PICK N \in Nat : /\ N = Cardinality(Vertex) /\ N - 1 \in 0 .. N
                       /\ Walks(s.from) = Upto(s.from)[N - 1]
                       /\ Walks(s.from) \subseteq Vertex \X Nat
  BY <1>1, WalksAre
<1>3. <<v, s.dist[v]>> \in Walks(s.from)
  <2>1. PICK c \in Nat : c = Cardinality(s.visited) /\ c <= N /\ c >= 1
    BY <1>1, <1>2, VisitedCount
  <2>2. s.dist[v] < Infinity
    BY DEF Searching, Nearer
  <2>3. <<v, s.dist[v]>> \in Upto(s.from)[c - 1]
    BY <1>1, <2>1, <2>2 DEF Searching, Hops
  <2>4. Upto(s.from)[c - 1] \subseteq Upto(s.from)[N - 1]
    <3>1. c - 1 \in Nat /\ N - 1 \in Nat /\ c - 1 <= N - 1 /\ N - 1 <= N
      BY <1>2, <2>1
    <3>. QED
      BY <1>1, <1>2, <3>1, UptoGrows
  <2>. QED
    BY <1>2, <2>3, <2>4
<1>4. \A y \in Walks(s.from) : y[1] = v => y[2] >= s.dist[v]
  <2>1. ASSUME NEW y \in Walks(s.from) PROVE AsFar(s, y)
    <3>1. \A n \in 0 .. N : \A z \in Upto(s.from)[n] : AsFar(s, z)
      BY <1>2, WalksAreFar
    <3>. QED
      BY <1>2, <2>1, <3>1
  <2>. QED
    BY <2>1 DEF AsFar
<1>. QED
  BY <1>1, <1>3, <1>4, ShortestIs

-----------------------------------------------------------------------------
(* Steps and types. *)

LEMMA InitTyped == Init => Typed
<1>. SUFFICES ASSUME Init PROVE Typed
  OBVIOUS
<1>1. file \in Seq(Line)
  BY FilesAssumption DEF Init, Line
<1>2. DOMAIN adjacency = {}
  BY DEF Init
<1>3. Graph
  <2>1. adjacency \in [{} -> Seq(Neighbour)]
    BY DEF Init
  <2>. QED
    BY <1>2, <2>1, FS_EmptySet DEF Graph, Vertex
<1>. QED
  BY <1>1, <1>3 DEF Init, Typed

\* An element is appended to one of some sequences.
Appended(f, a, x) == [f EXCEPT ![a] = Append(@, x)]

OneMoreAt(V, f, g, a, x) ==
    /\ \A v \in V : v # a => Range(g[v]) = Range(f[v])
    /\ Range(g[a]) = Range(f[a]) \cup {x}

LEMMA AppendedIs ==
    ASSUME NEW V, NEW L, NEW f \in [V -> Seq(L)], NEW a \in V, NEW x \in L,
           NEW g, g = Appended(f, a, x)
    PROVE  g \in [V -> Seq(L)] /\ OneMoreAt(V, f, g, a, x)
<1>1. PICK s, t : s = f[a] /\ t = Append(s, x)
  OBVIOUS
<1>2. s \in Seq(L) /\ t \in Seq(L)
  BY <1>1
<1>3. g = [f EXCEPT ![a] = t]
  BY <1>1 DEF Appended
<1>4. g \in [V -> Seq(L)] /\ \A v \in V : g[v] = IF v = a THEN t ELSE f[v]
  <2>1. PICK S : S = Seq(L)
    OBVIOUS
  <2>2. f \in [V -> S] /\ t \in S
    BY <1>2, <2>1
  <2>3. g \in [V -> S] /\ \A v \in V : g[v] = IF v = a THEN t ELSE f[v]
    BY <1>3, <2>2
  <2>. QED
    BY <2>1, <2>3
<1>5. Range(t) = Range(s) \cup {x}
  <2>1. PICK n \in Nat : n = Len(s) /\ DOMAIN s = 1 .. n
    BY <1>2
  <2>2. DOMAIN t = 1 .. n + 1 /\ t[n + 1] = x /\ \A i \in 1 .. n : t[i] = s[i]
    BY <1>1, <1>2, <2>1
  <2>3. \A i \in 1 .. n : i \in 1 .. n + 1
    OBVIOUS
  <2>4. \A i \in 1 .. n + 1 : i \in 1 .. n \/ i = n + 1
    OBVIOUS
  <2>5. n + 1 \in 1 .. n + 1
    OBVIOUS
  <2>. QED
    BY <2>1, <2>2, <2>3, <2>4, <2>5, Zenon DEF Range
<1>. QED
  BY <1>1, <1>4, <1>5 DEF OneMoreAt

\* A line adds two neighbours, and the places they need.
Reads(V, L, a, b, x, y, grown) ==
    /\ Vertex' = V /\ Vertex \subseteq V /\ V \subseteq Nat /\ IsFiniteSet(V)
    /\ L = V \X (Nat \ {0}) /\ a \in V /\ b \in V
    /\ x \in L /\ y \in L /\ x[1] = b /\ y[1] = a
    /\ grown = [v \in V |-> IF v \in Vertex THEN adjacency[v] ELSE << >>]
    /\ grown \in [V -> Seq(L)]
    /\ Appended(grown, a, x) \in [V -> Seq(L)]
    /\ adjacency' = Appended(Appended(grown, a, x), b, y)
    /\ adjacency' \in [V -> Seq(L)]

LEMMA ReadLineIs ==
    ASSUME Typed, ReadLine
    PROVE  \E V, L, a, b, x, y, grown : Reads(V, L, a, b, x, y, grown)
<1>1. Head(file) \in Line /\ Tail(file) \in Seq(Line)
  <2>1. file \in Seq(Line) /\ file # << >>
    BY DEF Typed, ReadLine
  <2>. QED
    BY <2>1
<1>2. PICK a, b, d, m : /\ a = Head(file)[1] /\ b = Head(file)[2] /\ d = Head(file)[3]
                        /\ m = IF a < b THEN b ELSE a
  OBVIOUS
<1>3. /\ a \in Nat /\ b \in Nat /\ d \in Nat \ {0} /\ m \in Nat
      /\ a \in 0 .. m /\ b \in 0 .. m
  <2>1. a \in Nat /\ b \in Nat /\ d \in Nat \ {0}
    BY <1>1, <1>2 DEF Line
  <2>. QED
    BY <1>2, <2>1
<1>4. PICK V, L : V = Vertex \cup 0 .. m /\ L = V \X (Nat \ {0})
  OBVIOUS
<1>5. V \subseteq Nat /\ IsFiniteSet(V) /\ a \in V /\ b \in V
  <2>1. IsFiniteSet(0 .. m)
    BY <1>3, FS_Interval
  <2>2. Vertex \subseteq Nat /\ IsFiniteSet(Vertex)
    BY DEF Typed, Graph
  <2>3. IsFiniteSet(V)
    BY <1>4, <2>1, <2>2, FS_Union, Zenon
  <2>. QED
    BY <1>3, <1>4, <2>2, <2>3
<1>6. PICK grown : grown = Grown(m)
  OBVIOUS
<1>7. /\ grown = [v \in V |-> IF v \in Vertex THEN adjacency[v] ELSE << >>]
      /\ grown \in [V -> Seq(L)]
  <2>1. ASSUME NEW v \in Vertex PROVE adjacency[v] \in Seq(L)
    <3>1. adjacency[v] \in Seq(Neighbour)
      BY DEF Typed, Graph
    <3>2. Neighbour \subseteq L
      BY <1>4 DEF Neighbour
    <3>. QED
      BY <3>1, <3>2
  <2>2. << >> \in Seq(L)
    OBVIOUS
  <2>3. grown = [v \in V |-> IF v \in Vertex THEN adjacency[v] ELSE << >>]
    BY <1>4, <1>6 DEF Grown
  <2>. QED
    BY <2>1, <2>2, <2>3
<1>8. PICK x, y : x = <<b, d>> /\ y = <<a, d>>
  OBVIOUS
<1>9. x \in L /\ y \in L /\ x[1] = b /\ y[1] = a
  BY <1>3, <1>4, <1>5, <1>8
<1>10. PICK there : there = Appended(grown, a, x)
  OBVIOUS
<1>11. there \in [V -> Seq(L)]
  BY <1>5, <1>7, <1>9, <1>10, AppendedIs
<1>12. adjacency' = Appended(there, b, y)
  <2>1. there = [Grown(m) EXCEPT ![a] = Append(@, <<b, d>>)]
    BY <1>6, <1>8, <1>10 DEF Appended
  <2>2. adjacency' = [there EXCEPT ![b] = Append(@, <<a, d>>)]
    BY <1>2, <2>1 DEF ReadLine
  <2>. QED
    BY <1>8, <2>2 DEF Appended
<1>13. adjacency' \in [V -> Seq(L)]
  BY <1>5, <1>9, <1>11, <1>12, AppendedIs
<1>14. Vertex' = V
  BY <1>13 DEF Vertex
<1>15. Vertex \subseteq V
  BY <1>4
<1>16. Reads(V, L, a, b, x, y, grown)
  BY <1>4, <1>5, <1>7, <1>9, <1>10, <1>11, <1>12, <1>13, <1>14, <1>15 DEF Reads
<1>. QED
  BY <1>16

LEMMA ReadLineTyped == Typed /\ ReadLine => Typed'
<1>. SUFFICES ASSUME Typed, ReadLine PROVE Typed'
  OBVIOUS
<1>1. PICK V, L, a, b, x, y, grown : Reads(V, L, a, b, x, y, grown)
  BY ReadLineIs
<1>2. Graph'
  BY <1>1 DEF Graph, Neighbour, Reads
<1>3. path' \in Seq(Place')
  <2>1. Place \subseteq Place'
    BY <1>1 DEF Place, Reads
  <2>2. path \in Seq(Place) /\ path' = path
    BY DEF Typed, ReadLine
  <2>. QED
    BY <2>1, <2>2
<1>4. file' \in Seq(Line)
  <2>1. file \in Seq(Line)
    BY DEF Typed
  <2>2. file # << >> /\ file' = Tail(file)
    BY Zenon DEF ReadLine
  <2>. QED
    BY <2>1, <2>2
<1>5. at' = "loading"
  <2>1. at = "loading" /\ UNCHANGED <<at, call, search, path, trip, answer>>
    BY Zenon DEF ReadLine
  <2>. QED
    BY <2>1
<1>. QED
  BY <1>2, <1>3, <1>4, <1>5 DEF Typed

\* Whatever else happens the map stays as it is.
LEMMA MapStays ==
    ASSUME Typed, UNCHANGED <<file, adjacency>>
    PROVE  file' \in Seq(Line) /\ Graph' /\ Place' = Place /\ Vertex' = Vertex /\ Locals' = Locals
<1>1. Vertex' = Vertex
  BY DEF Vertex
<1>2. Neighbour' = Neighbour /\ Place' = Place
  BY <1>1 DEF Neighbour, Place
<1>3. Graph' /\ file' \in Seq(Line)
  BY <1>1, <1>2 DEF Typed, Graph
<1>4. Locals' = Locals
  BY <1>1 DEF Locals, Dists, Prevs, Queues
<1>. QED
  BY <1>1, <1>2, <1>3, <1>4

\* A search of a typed call begins.
LEMMA SearchTyped ==
    ASSUME Typed, UNCHANGED <<file, adjacency>>, NEW from \in Vertex, NEW to \in Vertex,
           Search(from, to), call'.name = "GetShortestTrip" => OnTrip'
    PROVE  Typed'
<1>1. Graph
  BY DEF Typed
<1>2. search' = NewSearch(from, to) /\ search' \in Locals
  BY <1>1, SearchBegins DEF Search, Searching
<1>3. at' = "search" /\ path' = << >>
  BY DEF Search
<1>. QED
  BY <1>2, <1>3, MapStays DEF Typed

\* The search goes on, or is over, with its vertex set to the end.
LEMMA LocalsTraced ==
    ASSUME NEW s \in Locals, NEW v \in Vertex \cup {None}
    PROVE  /\ [s EXCEPT !.vertex = v] \in Locals
           /\ [s EXCEPT !.vertex = v].from = s.from /\ [s EXCEPT !.vertex = v].to = s.to
           /\ [s EXCEPT !.vertex = v].dist = s.dist /\ [s EXCEPT !.vertex = v].prev = s.prev
           /\ [s EXCEPT !.vertex = v].visited = s.visited
           /\ [s EXCEPT !.vertex = v].queue = s.queue /\ [s EXCEPT !.vertex = v].vertex = v
BY DEF Locals

LEMMA VisitIs ==
    ASSUME Typed, Visit
    PROVE  \E x, s : /\ at = "search" /\ search \in Locals /\ search.queue # {}
                     /\ x = Foremost(search.queue) /\ s = Marked(search, x)
                     /\ IF x[2] = search.to
                        THEN at' = "trace" /\ search' = [s EXCEPT !.vertex = s.to]
                        ELSE at' = at /\ search' = Relaxed(s, x[2])
                     /\ UNCHANGED <<file, adjacency, call, path, trip, answer>>
<1>1. PICK x, s : x = Foremost(search.queue) /\ s = Marked(search, x)
  OBVIOUS
<1>2. s = [search EXCEPT !.queue = Popped(@, x), !.visited = @ \cup {x[2]}]
  BY <1>1 DEF Marked, Typed, Visit, Locals
<1>3. at = "search" /\ search \in Locals /\ search.queue # {}
  BY DEF Typed, Visit
<1>4. IF x[2] = search.to
      THEN at' = "trace" /\ search' = [s EXCEPT !.vertex = s.to]
      ELSE at' = at /\ search' = Relaxed(s, x[2])
  BY <1>1, <1>2 DEF Visit, Trace
<1>5. UNCHANGED <<file, adjacency, call, path, trip, answer>>
  BY DEF Visit
<1>. QED
  BY <1>1, <1>3, <1>4, <1>5

LEMMA VisitTyped == Typed /\ Visit => Typed'
<1>. SUFFICES ASSUME Typed, Visit PROVE Typed'
  OBVIOUS
<1>1. PICK x, s : /\ at = "search" /\ search \in Locals /\ search.queue # {}
                  /\ x = Foremost(search.queue) /\ s = Marked(search, x)
                  /\ IF x[2] = search.to
                     THEN at' = "trace" /\ search' = [s EXCEPT !.vertex = s.to]
                     ELSE at' = at /\ search' = Relaxed(s, x[2])
                  /\ UNCHANGED <<file, adjacency, call, path, trip, answer>>
  BY VisitIs
<1>2. Graph
  BY DEF Typed
<1>3. s \in Locals /\ x[2] \in s.visited /\ s.to \in Vertex
  <2>1. s \in Locals /\ x[2] \in s.visited
    BY <1>1, <1>2, MarkedFields
  <2>. QED
    BY <2>1, LocalFields
<1>4. at' \in {"search", "trace"} /\ search' \in Locals
  <2>1. CASE x[2] = search.to
    BY <1>1, <1>3, <2>1, LocalsTraced
  <2>2. CASE x[2] # search.to
    BY <1>1, <1>2, <1>3, <2>2, RelaxedSees DEF Seen
  <2>. QED
    BY <2>1, <2>2
<1>5. call'.name = "GetShortestTrip" => OnTrip'
  BY <1>1, MapStays DEF Typed, OnTrip
<1>. QED
  BY <1>1, <1>4, <1>5, MapStays DEF Typed

LEMMA QueueEmptyTyped == Typed /\ QueueEmpty => Typed'
<1>. SUFFICES ASSUME Typed, QueueEmpty PROVE Typed'
  OBVIOUS
<1>1. /\ at = "search" /\ search \in Locals /\ at' = "trace"
      /\ search' = [search EXCEPT !.vertex = search.to]
      /\ UNCHANGED <<file, adjacency, call, path, trip, answer>>
  BY DEF Typed, QueueEmpty, Trace
<1>2. search.to \in Vertex
  BY <1>1, LocalFields
<1>3. search' \in Locals
  BY <1>1, <1>2, LocalsTraced
<1>4. call'.name = "GetShortestTrip" => OnTrip'
  BY <1>1, MapStays DEF Typed, OnTrip
<1>. QED
  BY <1>1, <1>3, <1>4, MapStays DEF Typed

LEMMA InsertVertexTyped == Typed /\ InsertVertex => Typed'
<1>. SUFFICES ASSUME Typed, InsertVertex PROVE Typed'
  OBVIOUS
<1>1. /\ at = "trace" /\ search \in Locals /\ search.vertex # None /\ path \in Seq(Place)
      /\ UNCHANGED <<file, adjacency, call, trip, answer>>
  BY DEF Typed, InsertVertex
<1>2. search.vertex \in Vertex
  BY <1>1, LocalFields
<1>3. search' = [search EXCEPT !.vertex = search.prev[search.vertex]]
  BY <1>1 DEF InsertVertex, Locals
<1>4. search.prev[search.vertex] \in Vertex \cup {None}
  BY <1>1, <1>2, LocalFields
<1>5. search' \in Locals
  BY <1>1, <1>3, <1>4, LocalsTraced
<1>6. path' \in Seq(Place)
  <2>1. search.vertex \in Place /\ Garbage \in Place
    BY <1>2 DEF Place
  <2>2. /\ Append(path, Garbage) \in Seq(Place) /\ <<Garbage>> \o path \in Seq(Place)
        /\ <<search.vertex>> \o path \in Seq(Place)
    BY <1>1, <2>1
  <2>3. path' \in {<<search.vertex>> \o path, Append(path, Garbage), <<Garbage>> \o path}
    BY DEF InsertVertex
  <2>. QED
    BY <2>2, <2>3
<1>7. at' \in {"trace", "broken"}
  BY <1>1 DEF InsertVertex
<1>8. call'.name = "GetShortestTrip" => OnTrip'
  BY <1>1, MapStays DEF Typed, OnTrip
<1>. QED
  BY <1>1, <1>5, <1>6, <1>7, <1>8, MapStays DEF Typed

\* A distance is known: those that are make the list one longer.
LEMMA GoalMeasuredIs ==
    ASSUME Typed, GoalMeasured
    PROVE  /\ OnTrip /\ OnTrip' /\ trip'.here = trip.here /\ trip'.goals = trip.goals
           /\ trip'.route = trip.route /\ trip'.distances = Append(trip.distances, PathLength)
           /\ at = "trace" /\ call.name = "GetShortestTrip" /\ search.vertex = None
           /\ \E next \in 1 .. Len(trip.goals) :
                 /\ Search(trip.here, trip.goals[next])
                 /\ ~Measuring' => next = NearestGoal(trip'.distances)
           /\ UNCHANGED <<file, adjacency, call, answer>>
<1>1. /\ at = "trace" /\ call.name = "GetShortestTrip" /\ search.vertex = None /\ OnTrip
      /\ Len(trip.distances) < Len(trip.goals)
      /\ UNCHANGED <<file, adjacency, call, answer>>
  BY DEF Typed, GoalMeasured, Traced, Measuring
<1>2. PICK distances : distances = Append(trip.distances, PathLength)
  OBVIOUS
<1>3. /\ trip.distances \in Seq(Nat \cup {Garbage}) /\ trip.goals \in Seq(Vertex)
      /\ trip.here \in Vertex
  BY <1>1 DEF OnTrip
<1>4. PathLength \in Nat \cup {Garbage}
  BY PathLengthTyped DEF Typed
<1>5. PICK n \in Nat, m \in Nat : n = Len(trip.distances) /\ m = Len(trip.goals) /\ n < m
  BY <1>1, <1>3
<1>6. /\ distances \in Seq(Nat \cup {Garbage}) /\ Len(distances) = n + 1
      /\ distances # << >>
  BY <1>2, <1>3, <1>4, <1>5
<1>7. trip' = [trip EXCEPT !.distances = distances]
  BY <1>2 DEF GoalMeasured
<1>8. /\ trip' \in [here : Vertex, goals : Seq(Vertex), distances : Seq(Nat \cup {Garbage}),
                    route : Seq(Place)]
      /\ trip'.here = trip.here /\ trip'.goals = trip.goals /\ trip'.route = trip.route
      /\ trip'.distances = distances
  <2>1. PICK G, D, R : G = Seq(Vertex) /\ D = Seq(Nat \cup {Garbage}) /\ R = Seq(Place)
    OBVIOUS
  <2>2. trip \in [here : Vertex, goals : G, distances : D, route : R] /\ distances \in D
    BY <1>1, <1>6, <2>1 DEF OnTrip
  <2>3. /\ trip' \in [here : Vertex, goals : G, distances : D, route : R]
        /\ trip'.here = trip.here /\ trip'.goals = trip.goals /\ trip'.route = trip.route
        /\ trip'.distances = distances
    BY <1>7, <2>2
  <2>. QED
    BY <2>1, <2>3
<1>9. OnTrip'
  <2>1. Len(trip'.distances) <= Len(trip'.goals) /\ trip'.goals # << >>
    BY <1>1, <1>5, <1>6, <1>8 DEF OnTrip
  <2>. QED
    BY <1>1, <1>8, <2>1, MapStays DEF OnTrip
<1>10. PICK next : next = IF n + 1 < m THEN n + 2 ELSE NearestGoal(distances)
  OBVIOUS
<1>11. next \in 1 .. m
  <2>1. NearestGoal(distances) \in 1 .. n + 1
    BY <1>6, NearestGoalIs
  <2>. QED
    BY <1>5, <1>10, <2>1
<1>12. Search(trip.here, trip.goals[next])
  <2>1. next = IF Len(distances) < Len(trip.goals) THEN Len(distances) + 1
               ELSE NearestGoal(distances)
    BY <1>5, <1>6, <1>10
  <2>. QED
    BY <1>2, <2>1 DEF GoalMeasured
<1>13. ~Measuring' => next = NearestGoal(trip'.distances)
  BY <1>5, <1>6, <1>8, <1>10 DEF Measuring
<1>. QED
  BY <1>1, <1>2, <1>5, <1>8, <1>9, <1>11, <1>12, <1>13

LEMMA GoalMeasuredTyped == Typed /\ GoalMeasured => Typed'
<1>. SUFFICES ASSUME Typed, GoalMeasured PROVE Typed'
  OBVIOUS
<1>1. PICK next \in 1 .. Len(trip.goals) : Search(trip.here, trip.goals[next])
  BY GoalMeasuredIs
<1>2. trip.here \in Vertex /\ trip.goals[next] \in Vertex
  <2>1. trip.here \in Vertex /\ trip.goals \in Seq(Vertex)
    BY GoalMeasuredIs DEF OnTrip
  <2>. QED
    BY <2>1, ElementOfSeq
<1>. QED
  BY <1>1, <1>2, GoalMeasuredIs, SearchTyped

\* A leg is done: one goal less.
LEMMA LegFoundIs ==
    ASSUME Typed, LegFound
    PROVE  /\ OnTrip /\ at = "trace" /\ call.name = "GetShortestTrip" /\ search.vertex = None
           /\ trip'.route = trip.route \o path /\ trip'.route \in Seq(Place)
           /\ trip'.goals \in Seq(Vertex)
           /\ ~Measuring
           /\ \E g \in 1 .. Len(trip.goals) :
                 /\ g = NearestGoal(trip.distances)
                 /\ trip'.here = trip.goals[g] /\ trip'.goals = RemoveAt(trip.goals, g)
           /\ \/ /\ trip'.goals = << >> /\ at' = "answer" /\ answer' = trip'.route
                 /\ UNCHANGED <<search, path>>
              \/ /\ trip'.goals # << >> /\ OnTrip' /\ trip'.distances = << >>
                 /\ Search(trip'.here, trip'.goals[1]) /\ UNCHANGED answer
           /\ UNCHANGED <<file, adjacency, call>>
<1>1. /\ at = "trace" /\ call.name = "GetShortestTrip" /\ search.vertex = None /\ OnTrip
      /\ ~Measuring /\ ~(Len(trip.distances) < Len(trip.goals))
      /\ UNCHANGED <<file, adjacency, call>>
  BY DEF Typed, LegFound, Traced, Measuring
<1>2. /\ trip.distances \in Seq(Nat \cup {Garbage}) /\ trip.goals \in Seq(Vertex)
      /\ trip.here \in Vertex /\ trip.goals # << >> /\ trip.route \in Seq(Place)
      /\ Len(trip.distances) <= Len(trip.goals) /\ path \in Seq(Place)
  BY <1>1 DEF OnTrip, Typed
<1>3. PICK g : g = NearestGoal(trip.distances)
  OBVIOUS
<1>4. g \in 1 .. Len(trip.goals)
  <2>1. Len(trip.distances) = Len(trip.goals) /\ trip.distances # << >>
    BY <1>1, <1>2
  <2>. QED
    BY <1>2, <1>3, <2>1, NearestGoalIs
<1>5. trip' = [here |-> trip.goals[g], distances |-> << >>, route |-> trip.route \o path,
               goals |-> RemoveAt(trip.goals, g)]
  BY <1>3 DEF LegFound, Arrived
<1>6. /\ trip'.here = trip.goals[g] /\ trip'.distances = << >>
      /\ trip'.route = trip.route \o path /\ trip'.goals = RemoveAt(trip.goals, g)
  BY <1>5
<1>7. /\ trip.goals[g] \in Vertex /\ RemoveAt(trip.goals, g) \in Seq(Vertex)
      /\ trip.route \o path \in Seq(Place)
  BY <1>2, <1>4, ElementOfSeq, RemoveAtElements
<1>8. \/ /\ trip'.goals = << >> /\ at' = "answer" /\ answer' = trip'.route
         /\ UNCHANGED <<search, path>>
      \/ /\ trip'.goals # << >>
         /\ Search(trip'.here, trip'.goals[1]) /\ UNCHANGED answer
  BY <1>3 DEF LegFound, Answered
<1>9. trip'.goals # << >> => OnTrip'
  <2>1. PICK G, D, R : G = Seq(Vertex) /\ D = Seq(Nat \cup {Garbage}) /\ R = Seq(Place)
    OBVIOUS
  <2>2. trip' \in [here : Vertex, goals : G, distances : D, route : R]
    <3>1. << >> \in Seq(Nat \cup {Garbage})
      OBVIOUS
    <3>. QED
      BY <1>5, <1>7, <2>1, <3>1
  <2>3. Len(trip'.distances) <= Len(trip'.goals)
    <3>1. Len(trip'.goals) \in Nat /\ Len(trip'.distances) = 0
      BY <1>6, <1>7
    <3>. QED
      BY <3>1
  <2>. QED
    BY <1>1, <2>1, <2>2, <2>3, MapStays DEF OnTrip
<1>. QED
  BY <1>1, <1>3, <1>4, <1>6, <1>7, <1>8, <1>9

LEMMA LegFoundTyped == Typed /\ LegFound => Typed'
<1>. SUFFICES ASSUME Typed, LegFound PROVE Typed'
  OBVIOUS
<1>1. PICK g \in 1 .. Len(trip.goals) :
          trip'.here = trip.goals[g] /\ trip'.goals = RemoveAt(trip.goals, g)
  BY LegFoundIs
<1>2. CASE trip'.goals = << >>
  <2>1. at' = "answer" /\ UNCHANGED path
    BY <1>2, LegFoundIs
  <2>. QED
    BY <2>1, LegFoundIs, MapStays DEF Typed
<1>3. CASE trip'.goals # << >>
  <2>1. OnTrip' /\ Search(trip'.here, trip'.goals[1])
    BY <1>3, LegFoundIs
  <2>2. trip'.goals \in Seq(Vertex) /\ trip'.here \in Vertex
    BY <2>1, LegFoundIs, MapStays DEF OnTrip
  <2>3. trip'.goals[1] \in Vertex
    <3>1. 1 \in 1 .. Len(trip'.goals)
      BY <1>3, <2>2
    <3>. QED
      BY <2>2, <3>1, ElementOfSeq
  <2>. QED
    BY <2>1, <2>2, <2>3, LegFoundIs, SearchTyped
<1>. QED
  BY <1>2, <1>3

LEMMA FileEndsTyped == Typed /\ FileEnds => Typed'
<1>. SUFFICES ASSUME Typed, FileEnds PROVE Typed'
  OBVIOUS
<1>. QED
  BY MapStays DEF Typed, FileEnds

\* The other calls and replies, which leave no search.
LEMMA AnswerTyped ==
    ASSUME Typed, UNCHANGED <<file, adjacency>>, at' \in {"idle", "answer"},
           path' = path \/ path' = << >>
    PROVE  Typed'
<1>1. path' \in Seq(Place)
  <2>1. path \in Seq(Place) /\ << >> \in Seq(Place)
    BY DEF Typed
  <2>. QED
    BY <2>1
<1>. QED
  BY <1>1, MapStays DEF Typed

\* A list of destinations that are on the map.
LEMMA GoalsOnMap ==
    ASSUME NEW goals \in Trips, Range(goals) \subseteq Vertex
    PROVE  goals \in Seq(Vertex)
<1>1. goals \in Seq(Nat)
  BY TripsAssumption
<1>2. \A i \in 1 .. Len(goals) : goals[i] \in Vertex
  BY <1>1 DEF Range
<1>. QED
  BY <1>1, <1>2

\* A trip begins: nothing to do, or a search for the first of the destinations.
LEMMA GetShortestTripIs ==
    ASSUME Typed, NEW v \in Vertex, NEW goals \in Trips, Range(goals) \subseteq Vertex,
           GetShortestTrip(v, goals)
    PROVE  /\ UNCHANGED <<file, adjacency>>
           /\ \/ at' = "answer" /\ answer' = << >> /\ path' = path
              \/ /\ OnTrip' /\ goals # << >> /\ goals[1] \in Vertex
                 /\ trip' = [here |-> v, goals |-> goals, distances |-> << >>, route |-> << >>]
                 /\ Search(v, goals[1]) /\ UNCHANGED answer
<1>1. goals \in Seq(Vertex)
  BY GoalsOnMap
<1>2. /\ UNCHANGED <<file, adjacency>>
      /\ trip' = [here |-> v, goals |-> goals, distances |-> << >>, route |-> << >>]
  BY DEF GetShortestTrip, NoTrip
<1>3. CASE goals = << >>
  BY <1>2, <1>3 DEF GetShortestTrip
<1>4. CASE goals # << >>
  <2>1. Search(v, goals[1]) /\ UNCHANGED answer
    BY <1>4 DEF GetShortestTrip
  <2>2. goals[1] \in Vertex
    <3>1. 1 \in 1 .. Len(goals)
      BY <1>1, <1>4
    <3>. QED
      BY <1>1, <3>1, ElementOfSeq
  <2>3. PICK G, D, R : G = Seq(Vertex) /\ D = Seq(Nat \cup {Garbage}) /\ R = Seq(Place)
    OBVIOUS
  <2>4. << >> \in D /\ << >> \in R
    BY <2>3
  <2>5. trip' \in [here : Vertex, goals : G, distances : D, route : R]
    BY <1>1, <1>2, <2>3, <2>4
  <2>6. Len(trip'.distances) <= Len(trip'.goals) /\ trip'.goals # << >>
    BY <1>1, <1>2, <1>4
  <2>7. OnTrip'
    BY <1>2, <2>3, <2>5, <2>6, MapStays DEF OnTrip
  <2>. QED
    BY <1>2, <1>4, <2>1, <2>2, <2>7
<1>. QED
  BY <1>3, <1>4

LEMMA GetShortestTripTyped ==
    ASSUME Typed, NEW v \in Vertex, NEW goals \in Trips, Range(goals) \subseteq Vertex,
           GetShortestTrip(v, goals)
    PROVE  Typed'
<1>1. CASE at' = "answer" /\ path' = path
  BY <1>1, GetShortestTripIs, AnswerTyped
<1>2. CASE OnTrip' /\ goals[1] \in Vertex /\ Search(v, goals[1])
  BY <1>2, GetShortestTripIs, SearchTyped
<1>. QED
  BY <1>1, <1>2, GetShortestTripIs

\* The two calls that search once.
SearchingCall(v, w) == GetShortestDistance(v, w) \/ GetShortestPath(v, w)

LEMMA SearchingCallIs ==
    ASSUME NEW v \in Vertex, NEW w \in Vertex, SearchingCall(v, w)
    PROVE  /\ Search(v, w) /\ UNCHANGED <<file, adjacency, trip, answer>>
           /\ call'.from = v /\ call'.to = w
           /\ call'.name \in {"GetShortestDistance", "GetShortestPath"}
BY DEF SearchingCall, GetShortestDistance, GetShortestPath

LEMMA TypedNext == Typed /\ [Next]_vars => Typed'
<1>. SUFFICES ASSUME Typed, [Next]_vars PROVE Typed'
  OBVIOUS
<1>1. CASE ReadLine
  BY <1>1, ReadLineTyped
<1>2. CASE FileEnds
  BY <1>2, FileEndsTyped
<1>3. CASE Visit
  BY <1>3, VisitTyped
<1>4. CASE QueueEmpty
  BY <1>4, QueueEmptyTyped
<1>5. CASE InsertVertex
  BY <1>5, InsertVertexTyped
<1>6. CASE PathFound \/ DistanceFound \/ Reply
  BY <1>6, AnswerTyped DEF PathFound, DistanceFound, Reply, Answered
<1>7. CASE GoalMeasured
  BY <1>7, GoalMeasuredTyped
<1>8. CASE LegFound
  BY <1>8, LegFoundTyped
<1>9. ASSUME NEW v \in Vertex, NEW w \in Vertex, GetDistance(v, w) PROVE Typed'
  BY <1>9, AnswerTyped DEF GetDistance
<1>10. ASSUME NEW v \in Vertex, NEW w \in Vertex, SearchingCall(v, w) PROVE Typed'
  <2>1. /\ Search(v, w) /\ UNCHANGED <<file, adjacency>>
        /\ call'.name # "GetShortestTrip"
    BY <1>10, SearchingCallIs
  <2>. QED
    BY <2>1, SearchTyped
<1>11. ASSUME NEW v \in Vertex, NEW goals \in Trips, Range(goals) \subseteq Vertex,
              GetShortestTrip(v, goals)
       PROVE  Typed'
  BY <1>11, GetShortestTripTyped
<1>12. CASE UNCHANGED vars
  <2>1. /\ UNCHANGED <<file, adjacency, at, call, search, path, trip>>
    BY <1>12 DEF vars
  <2>2. OnTrip => OnTrip'
    BY <2>1, MapStays DEF OnTrip
  <2>. QED
    BY <2>1, <2>2, MapStays DEF Typed
<1>. QED
  BY <1>1, <1>2, <1>3, <1>4, <1>5, <1>6, <1>7, <1>8, <1>9, <1>10, <1>11, <1>12
     DEF Next, Work, SearchingCall

\* The types the runs check.
LEMMA TypedIsTypeOK == Typed => TypeOK
<1>. SUFFICES ASSUME Typed PROVE TypeOK
  OBVIOUS
<1>1. \A v \in Vertex : Range(adjacency[v]) \subseteq Vertex \X Nat
  <2>. SUFFICES ASSUME NEW v \in Vertex, NEW e \in Range(adjacency[v])
                PROVE  e \in Vertex \X Nat
    OBVIOUS
  <2>1. e \in Neighbour
    BY EdgeFields DEF Typed
  <2>. QED
    BY <2>1 DEF Neighbour
<1>2. at = "search" =>
         /\ search.dist \in [Vertex -> 0..Infinity]
         /\ search.prev \in [Vertex -> Vertex \cup {None}]
         /\ search.visited \subseteq Vertex
         /\ search.queue \subseteq Nat \X Vertex
  BY DEF Typed, Locals, Dists, Prevs, Queues
<1>3. Range(path) \subseteq Vertex \cup {Garbage}
  BY DEF Typed, Place, Range
<1>. QED
  BY <1>1, <1>2, <1>3 DEF Typed, TypeOK

\* No list of neighbours leads off the map, whatever lines are read, and a
\* search never takes a vertex from anywhere else (nav.cpp, addEdge and
\* getShortestPath).
THEOREM TypeCorrect == Spec => []TypeOK
<1>1. Spec => []Typed
  BY InitTyped, TypedNext, PTL DEF Spec
<1>. QED
  BY <1>1, TypedIsTypeOK, PTL

-----------------------------------------------------------------------------
(* The search through its steps. *)

SearchInv == at = "search" => Searching(search, search.visited)

\* Whenever a search begins it begins as it should.
LEMMA SearchStarts ==
    ASSUME Typed, UNCHANGED <<file, adjacency>>, NEW from \in Vertex, NEW to \in Vertex,
           Search(from, to)
    PROVE  SearchInv'
<1>1. Searching(search', {}) /\ search'.visited = {}
  BY SearchBegins DEF Typed, Search, NewSearch
<1>2. UNCHANGED <<adjacency, Vertex, Locals>>
  BY MapStays
<1>. QED
  BY <1>1, <1>2 DEF SearchInv, Searching, Hops, Back, Nearer, Explored, Queued, Upto, WalksFrom, Longer

\* One more vertex is visited.
LEMMA VisitSearches ==
    ASSUME Typed, SearchInv, Visit, at' = "search"
    PROVE  Searching(search', search'.visited)
<1>1. PICK x, s : /\ at = "search" /\ search \in Locals /\ search.queue # {}
                  /\ x = Foremost(search.queue) /\ s = Marked(search, x)
                  /\ IF x[2] = search.to
                     THEN at' = "trace" /\ search' = [s EXCEPT !.vertex = s.to]
                     ELSE at' = at /\ search' = Relaxed(s, x[2])
                  /\ UNCHANGED <<file, adjacency, call, path, trip, answer>>
  BY VisitIs
<1>2. Graph /\ Searching(search, search.visited) /\ search' = Relaxed(s, x[2])
  BY <1>1 DEF Typed, SearchInv
<1>3. PICK done : done = search.visited
  OBVIOUS
<1>4. /\ Searching(s, done)
      /\ x[2] \in done \/ \A v \in s.visited : s.dist[v] <= s.dist[x[2]]
  BY <1>1, <1>2, <1>3, MarkingKeeps
<1>5. s.visited = done \cup {x[2]}
  BY <1>1, <1>2, <1>3, MarkedFields
<1>. QED
  BY <1>2, <1>4, <1>5, RelaxingKeeps

\* A search is over when the end is visited, or when nothing is left to visit.
Ended(s, done) ==
    /\ Searching(s, done) /\ Newest(s, done)
    /\ s.to \in s.visited \/ (s.queue = {} /\ done = s.visited)

EndedInv == at = "trace" => \E done : Ended(search, done)

LEMMA EndedTraced ==
    ASSUME NEW s, NEW done, Ended(s, done), NEW v \in Vertex \cup {None}
    PROVE  Ended([s EXCEPT !.vertex = v], done)
<1>1. s \in Locals
  BY DEF Ended, Searching
<1>2. PICK r : r = [s EXCEPT !.vertex = v]
  OBVIOUS
<1>3. /\ r \in Locals /\ r.from = s.from /\ r.to = s.to /\ r.dist = s.dist /\ r.prev = s.prev
      /\ r.visited = s.visited /\ r.queue = s.queue
  BY <1>1, <1>2, LocalsTraced
<1>4. Hops(r) /\ Back(r, done) /\ Nearer(r) /\ Explored(r, done) /\ Queued(r)
  <2>1. Hops(s) /\ Back(s, done) /\ Nearer(s) /\ Explored(s, done) /\ Queued(s)
    BY DEF Ended, Searching
  <2>2. Hops(r)
    BY <1>3, <2>1 DEF Hops
  <2>3. Back(r, done)
    BY <1>3, <2>1 DEF Back
  <2>4. Nearer(r) /\ Explored(r, done)
    BY <1>3, <2>1 DEF Nearer, Explored
  <2>5. Queued(r)
    BY <1>3, <2>1 DEF Queued
  <2>. QED
    BY <2>2, <2>3, <2>4, <2>5
<1>5. Searching(r, done)
  BY <1>3, <1>4 DEF Ended, Searching
<1>6. Newest(r, done)
  BY <1>3 DEF Ended, Newest
<1>. QED
  BY <1>2, <1>3, <1>5, <1>6 DEF Ended

\* While the map stays a search stays one.
LEMMA SearchingStays ==
    ASSUME UNCHANGED adjacency, NEW s, NEW done, Searching(s, done)
    PROVE  Searching(s, done)'
<1>1. UNCHANGED <<Vertex, Locals>>
  BY DEF Vertex, Locals, Dists, Prevs, Queues
<1>2. UNCHANGED Upto(s.from)
  BY <1>1 DEF Upto, WalksFrom, Longer
<1>3. Hops(s)'
  BY <1>1, <1>2 DEF Searching, Hops
<1>4. Back(s, done)'
  BY <1>1 DEF Searching, Back
<1>5. Nearer(s)' /\ Explored(s, done)'
  BY <1>1 DEF Searching, Nearer, Explored
<1>6. Queued(s)'
  BY <1>1 DEF Searching, Queued
<1>. QED
  BY <1>1, <1>3, <1>4, <1>5, <1>6 DEF Searching

LEMMA EndedStays ==
    ASSUME UNCHANGED adjacency, NEW s, NEW done, Ended(s, done)
    PROVE  Ended(s, done)'
BY SearchingStays DEF Ended, Newest

LEMMA VisitEnds ==
    ASSUME Typed, SearchInv, Visit, at' # "search"
    PROVE  EndedInv'
<1>1. PICK x, s : /\ at = "search" /\ search \in Locals /\ search.queue # {}
                  /\ x = Foremost(search.queue) /\ s = Marked(search, x)
                  /\ IF x[2] = search.to
                     THEN at' = "trace" /\ search' = [s EXCEPT !.vertex = s.to]
                     ELSE at' = at /\ search' = Relaxed(s, x[2])
                  /\ UNCHANGED <<file, adjacency, call, path, trip, answer>>
  BY VisitIs
<1>2. Graph /\ Searching(search, search.visited)
  BY <1>1 DEF Typed, SearchInv
<1>3. x[2] = search.to /\ search' = [s EXCEPT !.vertex = s.to]
  BY <1>1
<1>4. PICK old : old = search.visited
  OBVIOUS
<1>5. /\ Searching(s, old)
      /\ x[2] \in old \/ \A v \in s.visited : s.dist[v] <= s.dist[x[2]]
  BY <1>1, <1>2, <1>4, MarkingKeeps
<1>6. /\ s \in Locals /\ s.visited = old \cup {x[2]} /\ s.to = search.to
      /\ x[2] \in Vertex
  BY <1>1, <1>2, <1>4, MarkedFields
<1>7. Newest(s, old)
  BY <1>5, <1>6 DEF Newest
<1>8. Ended(s, old)
  BY <1>3, <1>5, <1>6, <1>7 DEF Ended
<1>9. Ended(search', old)
  BY <1>3, <1>6, <1>8, EndedTraced
<1>10. Ended(search, old)'
  BY <1>1, <1>9, EndedStays
<1>. QED
  BY <1>10 DEF EndedInv

LEMMA QueueEmptyEnds ==
    ASSUME Typed, SearchInv, QueueEmpty
    PROVE  EndedInv'
<1>1. /\ at = "search" /\ search \in Locals /\ search.queue = {}
      /\ search' = [search EXCEPT !.vertex = search.to] /\ UNCHANGED adjacency
  BY DEF Typed, QueueEmpty, Trace
<1>2. PICK done : done = search.visited
  OBVIOUS
<1>3. Ended(search, done)
  BY <1>1, <1>2 DEF SearchInv, Ended, Newest
<1>4. search.to \in Vertex
  BY <1>1, LocalFields
<1>5. Ended(search', done)
  BY <1>1, <1>3, <1>4, EndedTraced
<1>6. Ended(search, done)'
  BY <1>1, <1>5, EndedStays
<1>. QED
  BY <1>6 DEF EndedInv

LEMMA InsertVertexEnds ==
    ASSUME Typed, EndedInv, InsertVertex
    PROVE  EndedInv'
<1>1. /\ at = "trace" /\ search \in Locals /\ search.vertex # None /\ UNCHANGED adjacency
      /\ search' = [search EXCEPT !.vertex = search.prev[search.vertex]]
  BY DEF Typed, InsertVertex, Locals
<1>2. search.prev[search.vertex] \in Vertex \cup {None}
  <2>1. search.vertex \in Vertex
    BY <1>1, LocalFields
  <2>. QED
    BY <1>1, <2>1, LocalFields
<1>3. PICK done : Ended(search, done)
  BY <1>1 DEF EndedInv
<1>4. Ended(search', done)
  BY <1>1, <1>2, <1>3, EndedTraced
<1>5. Ended(search, done)'
  BY <1>1, <1>4, EndedStays
<1>. QED
  BY <1>5 DEF EndedInv

SearchInvs == Typed /\ SearchInv /\ EndedInv

LEMMA SearchInvsHold == Spec => []SearchInvs
<1>1. Init => SearchInvs
  BY InitTyped DEF Init, SearchInvs, SearchInv, EndedInv
<1>2. SearchInvs /\ [Next]_vars => SearchInvs'
  <2>. SUFFICES ASSUME SearchInvs, [Next]_vars PROVE SearchInvs'
    OBVIOUS
  <2>1. Typed /\ SearchInv /\ EndedInv /\ Typed'
    BY TypedNext DEF SearchInvs
  <2>2. SUFFICES SearchInv' /\ EndedInv'
    BY <2>1 DEF SearchInvs
  \* Where a search begins.
  <2>3. ASSUME UNCHANGED <<file, adjacency>>, NEW v \in Vertex, NEW w \in Vertex, Search(v, w)
        PROVE  SearchInv' /\ EndedInv'
    <3>1. SearchInv'
      BY <2>1, <2>3, SearchStarts
    <3>. QED
      BY <2>3, <3>1 DEF Search, EndedInv
  \* Where there is none.
  <2>4. ASSUME at' \in {"loading", "idle", "answer"} PROVE SearchInv' /\ EndedInv'
    BY <2>4 DEF SearchInv, EndedInv
  <2>5. CASE ReadLine \/ FileEnds
    <3>1. ASSUME ReadLine PROVE at' = "loading"
      <4>1. at = "loading"
        BY <3>1, Zenon DEF ReadLine
      <4>2. UNCHANGED <<at, call, search, path, trip, answer>>
        BY <3>1 DEF ReadLine
      <4>. QED
        BY <4>1, <4>2
    <3>2. FileEnds => at' = "idle"
      BY DEF FileEnds
    <3>. QED
      BY <2>4, <2>5, <3>1, <3>2
  <2>6. CASE Visit
    <3>1. at = "search" /\ at' \in {"search", "trace"} /\ UNCHANGED <<file, adjacency>>
      BY <2>6 DEF Visit, Trace
    <3>2. CASE at' = "search"
      <4>1. Searching(search', search'.visited)
        BY <2>1, <2>6, <3>2, VisitSearches
      <4>2. SearchInv'
        BY <2>1, <3>1, <4>1, SearchingStays DEF SearchInv
      <4>. QED
        BY <3>2, <4>2 DEF EndedInv
    <3>3. CASE at' # "search"
      BY <2>1, <2>6, <3>3, VisitEnds DEF SearchInv
    <3>. QED
      BY <3>2, <3>3
  <2>7. CASE QueueEmpty
    BY <2>1, <2>7, QueueEmptyEnds DEF QueueEmpty, Trace, SearchInv
  <2>8. CASE InsertVertex
    <3>1. EndedInv' /\ at = "trace" /\ at' \in {"trace", "broken"}
      BY <2>1, <2>8, InsertVertexEnds DEF InsertVertex
    <3>. QED
      BY <3>1 DEF SearchInv
  <2>9. CASE PathFound \/ DistanceFound \/ Reply
    BY <2>4, <2>9 DEF PathFound, DistanceFound, Reply, Answered
  <2>10. CASE GoalMeasured
    <3>1. PICK n \in 1 .. Len(trip.goals) : Search(trip.here, trip.goals[n])
      BY <2>1, <2>10, GoalMeasuredIs
    <3>2. UNCHANGED <<file, adjacency>> /\ trip.here \in Vertex /\ trip.goals[n] \in Vertex
      <4>1. trip.here \in Vertex /\ trip.goals \in Seq(Vertex)
        BY <2>1, <2>10, GoalMeasuredIs DEF OnTrip
      <4>. QED
        BY <2>1, <2>10, <4>1, GoalMeasuredIs, ElementOfSeq
    <3>. QED
      BY <2>3, <3>1, <3>2
  <2>11. CASE LegFound
    <3>1. CASE at' = "answer"
      BY <2>4, <3>1
    <3>2. CASE at' # "answer"
      <4>1. /\ OnTrip' /\ trip'.goals # << >> /\ Search(trip'.here, trip'.goals[1])
            /\ UNCHANGED <<file, adjacency>>
        BY <2>1, <2>11, <3>2, LegFoundIs
      <4>2. trip'.here \in Vertex /\ trip'.goals \in Seq(Vertex)
        BY <2>1, <4>1, MapStays DEF OnTrip
      <4>3. 1 \in 1 .. Len(trip'.goals)
        BY <4>1, <4>2
      <4>4. trip'.goals[1] \in Vertex
        BY <4>2, <4>3, ElementOfSeq
      <4>. QED
        BY <2>3, <4>1, <4>2, <4>4
    <3>. QED
      BY <3>1, <3>2
  <2>12. ASSUME NEW v \in Vertex, NEW w \in Vertex,
                GetDistance(v, w) \/ SearchingCall(v, w)
         PROVE  SearchInv' /\ EndedInv'
    <3>1. CASE GetDistance(v, w)
      BY <2>4, <3>1 DEF GetDistance
    <3>2. CASE SearchingCall(v, w)
      BY <2>3, <3>2, SearchingCallIs
    <3>. QED
      BY <2>12, <3>1, <3>2
  <2>13. ASSUME NEW v \in Vertex, NEW goals \in Trips, Range(goals) \subseteq Vertex,
                GetShortestTrip(v, goals)
         PROVE  SearchInv' /\ EndedInv'
    <3>1. CASE at' = "answer"
      BY <2>4, <3>1
    <3>2. CASE at' # "answer"
      BY <2>1, <2>3, <2>13, <3>2, GetShortestTripIs
    <3>. QED
      BY <3>1, <3>2
  <2>14. CASE UNCHANGED vars
    <3>1. UNCHANGED <<adjacency, at, search>>
      BY <2>14 DEF vars
    <3>2. SearchInv'
      BY <2>1, <3>1, SearchingStays DEF SearchInv
    <3>3. EndedInv'
      BY <2>1, <3>1, EndedStays DEF EndedInv
    <3>. QED
      BY <3>2, <3>3
  <2>. QED
    BY <2>5, <2>6, <2>7, <2>8, <2>9, <2>10, <2>11, <2>12, <2>13, <2>14
       DEF Next, Work, SearchingCall
<1>. QED
  BY <1>1, <1>2, PTL DEF Spec

\* A vertex that was visited has its final distance, the least of all walks
\* there: the loop of getShortestPath may leave it alone when a neighbour of it
\* is visited and may stop when the end is (nav.cpp, getShortestPath).
THEOREM SettledStayFinal == Spec => []SettledAreFinal
<1>1. SearchInvs => SettledAreFinal
  <2>. SUFFICES ASSUME Typed, SearchInv, at = "search", NEW v \in search.visited
                PROVE  search.dist[v] = Shortest(search.from, v)
    BY DEF SearchInvs, SettledAreFinal
  <2>1. Searching(search, search.visited) /\ Graph
    BY DEF SearchInv, Typed
  <2>2. Newest(search, search.visited)
    BY DEF Newest
  <2>. QED
    BY <2>1, <2>2, VisitedIsFinal
<1>. QED
  BY <1>1, SearchInvsHold, PTL

-----------------------------------------------------------------------------
(* What an ended search knows. *)

\* The vector of a path keeps its first capacity, and no length overflows.
Fits ==
    /\ Cardinality(Vertex) <= Capacity
    /\ \A v \in Vertex : \A x \in Walks(v) : x[2] < Infinity

\* No edge leads out of the set.
Closed(C) == C \subseteq Vertex /\ \A u \in C : \A e \in Range(adjacency[u]) : e[1] \in C

LEMMA WalksStay ==
    ASSUME Graph, NEW C, Closed(C), NEW from \in C
    PROVE  Reachable(from) \subseteq C
<1>1. from \in Vertex
  BY DEF Closed
<1>2. PICK N \in Nat : /\ N = Cardinality(Vertex) /\ N - 1 \in 0 .. N
                       /\ Walks(from) = Upto(from)[N - 1]
  BY <1>1, WalksAre
<1>3. PICK U : U = Upto(from)
  OBVIOUS
<1>. DEFINE D == {W \in SUBSET (Vertex \X Nat) : \A y \in W : y[1] \in C}
<1>4. U[0] \in D
  <2>1. U[0] = {<<from, 0>>}
    BY <1>1, <1>2, <1>3, UptoIs
  <2>. QED
    BY <1>1, <2>1
<1>5. ASSUME NEW i \in 1 .. N, U[i - 1] \in D PROVE U[i] \in D
  <2>1. PICK W : W = U[i - 1]
    OBVIOUS
  <2>2. U[i] = Longer(W) /\ W \subseteq Vertex \X Nat
    <3>1. PICK b \in Nat : b = i - 1 /\ b + 1 = i /\ b + 1 <= N /\ b \in 0 .. N
      BY SMT
    <3>. QED
      BY <1>1, <1>2, <1>3, <2>1, <3>1, UptoIs
  <2>3. ASSUME NEW y \in U[i] PROVE y[1] \in C
    <3>1. CASE y \in W
      BY <1>5, <2>1, <3>1
    <3>2. CASE y \notin W
      <4>1. PICK x \in W : \E e \in Range(adjacency[x[1]]) : y = <<e[1], x[2] + e[2]>>
        BY <2>2, <2>3, <3>2, LongerIs
      <4>2. PICK e \in Range(adjacency[x[1]]) : y = <<e[1], x[2] + e[2]>>
        BY <4>1
      <4>3. x[1] \in C
        BY <1>5, <2>1
      <4>4. e[1] \in C
        BY <4>3 DEF Closed
      <4>. QED
        BY <4>2, <4>4
    <3>. QED
      BY <3>1, <3>2
  <2>4. U[i] \subseteq Vertex \X Nat
    BY <2>2, LongerIs
  <2>. QED
    BY <2>3, <2>4
<1>6. U[N - 1] \in D
  <2>. HIDE DEF D
  <2>. QED
    BY <1>2, <1>4, <1>5, IterationStays
<1>. QED
  BY <1>2, <1>3, <1>6 DEF Reachable

\* A search that found no more to visit has visited all it can reach.
LEMMA VisitedIsClosed ==
    ASSUME Graph, Fits, NEW s, Searching(s, s.visited), s.queue = {},
           NEW w \in Vertex \ s.visited
    PROVE  Closed(s.visited) /\ s.from \in s.visited
<1>1. /\ s \in Locals /\ s.from \in Vertex /\ s.visited \subseteq Vertex
      /\ \A v \in Vertex : s.dist[v] \in Nat /\ s.dist[v] <= Infinity
  BY LocalFields DEF Searching
<1>2. PICK N \in Nat : /\ N = Cardinality(Vertex) /\ N - 1 \in 0 .. N
                       /\ Walks(s.from) = Upto(s.from)[N - 1]
  BY <1>1, WalksAre
<1>3. PICK c \in Nat : c = Cardinality(s.visited) /\ c + 1 <= N
  BY <1>1, <1>2, VisitedCount
<1>4. \A v \in Vertex : s.dist[v] < Infinity => v \in s.visited
  BY DEF Searching, Queued
<1>5. s.from \in s.visited
  BY <1>1, <1>4, Numbers DEF Searching
<1>6. ASSUME NEW u \in s.visited, NEW e \in Range(adjacency[u]) PROVE e[1] \in s.visited
  <2>1. u \in Vertex /\ s.dist[u] < Infinity
    BY <1>1 DEF Searching, Nearer
  <2>2. e[1] \in Vertex /\ e[2] \in Nat
    BY <2>1, EdgeFields
  <2>3. c >= 1 /\ c <= N
    BY <1>1, <1>2, <1>3, VisitedCount
  <2>4. <<u, s.dist[u]>> \in Upto(s.from)[c - 1]
    BY <1>3, <2>1 DEF Searching, Hops
  <2>5. <<e[1], s.dist[u] + e[2]>> \in Upto(s.from)[c]
    BY <1>1, <1>2, <2>1, <2>3, <2>4, OneMore
  <2>6. Upto(s.from)[c] \subseteq Upto(s.from)[N - 1]
    <3>1. N - 1 \in Nat /\ c <= N - 1 /\ N - 1 <= N
      BY <1>2, <1>3
    <3>. QED
      BY <1>1, <1>2, <1>3, <3>1, UptoGrows
  <2>7. PICK y : y = <<e[1], s.dist[u] + e[2]>>
    OBVIOUS
  <2>8. y \in Walks(s.from) /\ y[2] = s.dist[u] + e[2]
    BY <1>2, <2>5, <2>6, <2>7
  <2>9. s.dist[u] + e[2] < Infinity
    BY <1>1, <2>8 DEF Fits
  <2>10. s.dist[e[1]] <= s.dist[u] + e[2]
    BY DEF Searching, Explored
  <2>11. s.dist[e[1]] < Infinity
    BY <1>1, <2>1, <2>2, <2>9, <2>10, Numbers
  <2>. QED
    BY <1>4, <2>2, <2>11
<1>. QED
  BY <1>1, <1>5, <1>6 DEF Closed

\* The end was reached and has its distance, or it cannot be reached.
LEMMA EndedIs ==
    ASSUME Graph, Fits, NEW s, NEW done, Ended(s, done)
    PROVE  IF s.to \in Reachable(s.from)
           THEN s.to \in s.visited /\ s.dist[s.to] = Shortest(s.from, s.to)
           ELSE s.to \notin s.visited /\ s.dist[s.to] = Infinity
<1>1. /\ Searching(s, done) /\ Newest(s, done)
      /\ s.to \in s.visited \/ (s.queue = {} /\ done = s.visited)
  BY DEF Ended
<1>2. /\ s \in Locals /\ s.to \in Vertex
      /\ \A v \in Vertex : s.dist[v] \in Nat /\ s.dist[v] <= Infinity
  BY <1>1, LocalFields DEF Searching
<1>3. CASE s.to \in s.visited
  <2>1. PICK y : y = <<s.to, s.dist[s.to]>>
    OBVIOUS
  <2>2. y \in Walks(s.from) /\ s.dist[s.to] = Shortest(s.from, s.to)
    BY <1>1, <1>3, <2>1, VisitedIsFinal
  <2>3. y[1] = s.to
    BY <2>1
  <2>4. s.to \in Reachable(s.from)
    BY <2>2, <2>3 DEF Reachable
  <2>. QED
    BY <1>3, <2>2, <2>4
<1>4. CASE s.to \notin s.visited
  <2>1. s.queue = {} /\ Searching(s, s.visited)
    BY <1>1, <1>4
  <2>2. Closed(s.visited) /\ s.from \in s.visited
    BY <1>2, <1>4, <2>1, VisitedIsClosed
  <2>3. s.to \notin Reachable(s.from)
    BY <1>4, <2>2, WalksStay
  <2>4. ~(s.dist[s.to] < Infinity)
    BY <1>2, <1>4, <2>1 DEF Searching, Queued
  <2>. QED
    BY <1>2, <1>4, <2>3, <2>4, Numbers
<1>. QED
  BY <1>3, <1>4

-----------------------------------------------------------------------------
(* The path. *)

\* Every vertex of it is the predecessor of the next one.
Chain(s, p) ==
    /\ p \in Seq(Vertex)
    /\ \A i \in 1 .. Len(p) : i + 1 <= Len(p) => p[i] = s.prev[p[i + 1]]

\* The end of the path is put together.
PathSoFar(s, p) ==
    /\ Chain(s, p)
    /\ IF p = << >> THEN s.vertex = s.to
       ELSE p[Len(p)] = s.to /\ s.vertex = s.prev[p[1]]

PathInv ==
    /\ at = "search" => path = << >>
    /\ at = "trace" => PathSoFar(search, path)

\* A vertex and its predecessor.
LEMMA PrevIs ==
    ASSUME Graph, NEW s, NEW done, Searching(s, done), NEW v \in Vertex, NEW u, u = s.prev[v]
    PROVE  \/ u = None /\ (v = s.from \/ s.dist[v] = Infinity)
           \/ /\ u \in done /\ u \in Vertex /\ s.dist[u] < s.dist[v]
              /\ s.dist[u] < Infinity /\ s.dist[v] < Infinity
              /\ \E e \in Range(adjacency[u]) : e[1] = v /\ s.dist[v] = s.dist[u] + e[2]
<1>1. /\ s \in Locals /\ done \subseteq s.visited /\ s.visited \subseteq Vertex
      /\ \A w \in Vertex : s.dist[w] \in Nat /\ s.dist[w] <= Infinity
  BY LocalFields DEF Searching
<1>2. CASE v = s.from \/ s.dist[v] = Infinity
  BY <1>2 DEF Searching, Back
<1>3. CASE ~(v = s.from \/ s.dist[v] = Infinity)
  <2>1. /\ u \in done
        /\ \E e \in Range(adjacency[u]) : e[1] = v /\ s.dist[v] = s.dist[u] + e[2]
    BY <1>3 DEF Searching, Back
  <2>2. u \in Vertex /\ u \in s.visited
    BY <1>1, <2>1
  <2>3. PICK e \in Range(adjacency[u]) : e[1] = v /\ s.dist[v] = s.dist[u] + e[2]
    BY <2>1
  <2>4. e[2] \in Nat \ {0}
    BY <2>2, EdgeFields
  <2>5. s.dist[u] < Infinity
    BY <2>2 DEF Searching, Nearer
  <2>6. s.dist[u] < s.dist[v] /\ s.dist[v] < Infinity
    BY <1>1, <1>3, <2>2, <2>3, <2>4, Numbers
  <2>. QED
    BY <2>1, <2>2, <2>5, <2>6
<1>. QED
  BY <1>2, <1>3

\* Distances rise along the chain.
LEMMA ChainRises ==
    ASSUME Graph, NEW s, NEW done, Searching(s, done), NEW p, Chain(s, p)
    PROVE  \A i, j \in 1 .. Len(p) : i < j => s.dist[p[i]] < s.dist[p[j]]
<1>. SUFFICES ASSUME NEW i \in 1 .. Len(p), NEW j \in 1 .. Len(p), i < j
              PROVE  s.dist[p[i]] < s.dist[p[j]]
  OBVIOUS
<1>1. PICK n \in Nat : n = Len(p)
  BY DEF Chain
<1>2. \A k \in 1 .. n : p[k] \in Vertex /\ s.dist[p[k]] \in Nat
  <2>1. \A k \in 1 .. n : p[k] \in Vertex
    BY <1>1, ElementOfSeq DEF Chain
  <2>. QED
    BY <2>1, LocalFields DEF Searching
<1>3. \A k \in 1 .. n : k + 1 <= n => s.dist[p[k]] < s.dist[p[k + 1]]
  <2>1. ASSUME NEW k \in 1 .. n, k + 1 <= n PROVE s.dist[p[k]] < s.dist[p[k + 1]]
    <3>1. k + 1 \in 1 .. n
      BY <2>1
    <3>2. p[k] = s.prev[p[k + 1]] /\ p[k] \in Vertex /\ p[k + 1] \in Vertex
      BY <1>1, <1>2, <2>1, <3>1 DEF Chain
    <3>3. p[k] # None
      BY <3>2, Numbers DEF Graph
    <3>. QED
      BY <3>2, <3>3, PrevIs
  <2>. QED
    BY <2>1
<1>4. PICK h : h = [k \in 1 .. n |-> s.dist[p[k]]]
  OBVIOUS
<1>5. /\ \A k \in 1 .. n : h[k] \in Nat
      /\ \A k \in 1 .. n : k + 1 <= n => h[k] < h[k + 1]
  <2>1. \A k \in 1 .. n : k + 1 <= n => k + 1 \in 1 .. n
    OBVIOUS
  <2>. QED
    BY <1>2, <1>3, <1>4, <2>1
<1>. DEFINE Above == {d \in Nat : d > h[i]}
<1>6. PICK m \in Nat : m = j - (i + 1) /\ i + 1 + m = j
  BY SMT
<1>7. PICK g : g = [k \in 0 .. m |-> h[i + 1 + k]]
  OBVIOUS
<1>8. g[0] \in Above
  <2>1. i + 1 + 0 = i + 1 /\ i + 1 \in 1 .. n /\ i + 1 <= n /\ i \in 1 .. n
    BY <1>1, <1>6
  <2>2. g[0] = h[i + 1]
    BY <1>7, <2>1
  <2>3. h[i + 1] \in Nat /\ h[i] \in Nat /\ h[i] < h[i + 1]
    BY <1>5, <2>1
  <2>. QED
    BY <2>2, <2>3
<1>9. ASSUME NEW k \in 1 .. m, g[k - 1] \in Above PROVE g[k] \in Above
  <2>1. PICK b \in 1 .. n : b = i + 1 + (k - 1) /\ b + 1 = i + 1 + k /\ b + 1 \in 1 .. n /\ b + 1 <= n
    BY <1>1, <1>6
  <2>2. k - 1 \in 0 .. m /\ k \in 0 .. m
    OBVIOUS
  <2>3. g[k - 1] = h[b]
    BY <1>7, <2>1, <2>2
  <2>4. g[k] = h[b + 1]
    BY <1>7, <2>1, <2>2
  <2>5. h[b] \in Nat /\ h[b + 1] \in Nat /\ h[i] \in Nat /\ h[b] < h[b + 1] /\ h[b] > h[i]
    BY <1>1, <1>5, <1>9, <2>1, <2>3
  <2>. QED
    BY <2>4, <2>5
<1>10. g[m] \in Above
  <2>1. m \in 0 .. m
    BY <1>6
  <2>. HIDE DEF Above
  <2>. QED
    BY <1>6, <1>8, <1>9, <2>1, IterationStays
<1>11. g[m] = h[j] /\ h[j] = s.dist[p[j]] /\ h[i] = s.dist[p[i]]
  BY <1>1, <1>4, <1>6, <1>7
<1>. QED
  BY <1>10, <1>11

\* No vertex is twice on the path.
LEMMA ChainIsShort ==
    ASSUME Graph, NEW s, NEW done, Searching(s, done), NEW p, Chain(s, p)
    PROVE  Len(p) <= Cardinality(Vertex)
<1>1. PICK n \in Nat : n = Len(p) /\ p \in [1 .. n -> Vertex]
  BY DEF Chain
<1>2. \A k \in 1 .. n : s.dist[p[k]] \in Nat
  BY <1>1, LocalFields DEF Searching
<1>3. \A i, j \in 1 .. n : p[i] = p[j] => i = j
  BY <1>1, <1>2, ChainRises
<1>4. p \in Injection(1 .. n, Vertex)
  BY <1>1, <1>3 DEF Injection, IsInjective
<1>5. Cardinality(1 .. n) <= Cardinality(Vertex)
  BY <1>4, FS_Injection DEF Graph
<1>6. Cardinality(1 .. n) = n
  BY FS_Interval
<1>. QED
  BY <1>1, <1>5, <1>6

\* A vector is not full below its first capacity.
LEMMA FullIs ==
    ASSUME NEW n \in Nat, n < Capacity
    PROVE  ~Full(n)
<1>1. PICK step : step = [x \in (1 .. n) \X Nat |-> 2 * x[2]]
  OBVIOUS
<1>2. StepsWithin(step, n, Nat)
  BY <1>1 DEF StepsWithin
<1>3. Capacity \in Nat
  BY CapacityAssumption
<1>4. PICK f : Iterates(f, n, Nat, Capacity, step)
  BY <1>2, <1>3, Iteration
<1>. DEFINE Sizes(g) == g = [k \in 0 .. n |-> IF k = 0 THEN Capacity ELSE 2 * g[k - 1]]
<1>5. Sizes(f)
  <2>1. ASSUME NEW k \in 0 .. n PROVE f[k] = IF k = 0 THEN Capacity ELSE 2 * f[k - 1]
    <3>1. CASE k = 0
      BY <1>4, <3>1 DEF Iterates
    <3>2. CASE k # 0
      <4>1. k \in 1 .. n /\ k - 1 \in 0 .. n
        BY <3>2
      <4>2. f[k - 1] \in Nat /\ f[k] = step[<<k, f[k - 1]>>]
        BY <1>4, <4>1 DEF Iterates
      <4>. QED
        BY <1>1, <3>2, <4>1, <4>2
    <3>. QED
      BY <3>1, <3>2
  <2>. QED
    BY <1>4, <2>1 DEF Iterates
<1>6. PICK g : g = CHOOSE h : Sizes(h)
  OBVIOUS
<1>7. Full(n) <=> \E k \in 0 .. n : n = g[k]
  BY <1>6 DEF Full
<1>8. Sizes(g)
  <2>. HIDE DEF Sizes
  <2>. QED
    BY <1>5, <1>6
<1>. DEFINE Above == {c \in Nat : c >= Capacity}
<1>9. \A k \in 0 .. n : g[k] \in Above
  <2>1. g[0] \in Above
    BY <1>3, <1>8
  <2>2. ASSUME NEW i \in 1 .. n, g[i - 1] \in Above PROVE g[i] \in Above
    <3>1. g[i] = 2 * g[i - 1]
      BY <1>8, <2>2
    <3>. QED
      BY <1>3, <2>2, <3>1
  <2>. HIDE DEF Above, Sizes
  <2>. QED
    BY <2>1, <2>2, IterationStays
<1>. QED
  BY <1>3, <1>7, <1>9

LEMMA PathSoFarStays ==
    ASSUME UNCHANGED adjacency, NEW s, NEW p, PathSoFar(s, p)
    PROVE  PathSoFar(s, p)'
<1>1. Vertex' = Vertex
  BY DEF Vertex
<1>. QED
  BY <1>1 DEF PathSoFar, Chain

\* One vertex more at the front.
LEMMA ChainGrows ==
    ASSUME Graph, NEW s \in Locals, NEW p, PathSoFar(s, p), s.vertex \in Vertex,
           NEW q, q = <<s.vertex>> \o p, NEW r, r = [s EXCEPT !.vertex = s.prev[s.vertex]]
    PROVE  Chain(s, q) /\ PathSoFar(r, q) /\ Len(q) = Len(p) + 1
<1>1. PICK v, n : v = s.vertex /\ n = Len(p)
  OBVIOUS
<1>2. p \in Seq(Vertex) /\ n \in Nat /\ v \in Vertex /\ <<v>> \in Seq(Vertex) /\ Len(<<v>>) = 1
  BY <1>1 DEF PathSoFar, Chain
<1>3. /\ q \in Seq(Vertex) /\ Len(q) = n + 1
      /\ q[1] = v /\ \A j \in 1 .. n : q[j + 1] = p[j]
  <2>1. /\ q \in Seq(Vertex) /\ Len(q) = 1 + n
        /\ \A j \in 1 .. 1 : q[j] = <<v>>[j]
        /\ \A j \in 1 .. n : q[1 + j] = p[j]
    BY <1>1, <1>2, Concat
  <2>2. q[1] = v
    BY <2>1
  <2>3. \A j \in 1 .. n : 1 + j = j + 1
    OBVIOUS
  <2>. QED
    BY <1>2, <2>1, <2>2, <2>3
<1>4. ASSUME NEW i \in 1 .. n + 1, i + 1 <= n + 1 PROVE q[i] = s.prev[q[i + 1]]
  <2>1. i \in 1 .. n /\ q[i + 1] = p[i]
    BY <1>2, <1>3, <1>4
  <2>2. CASE i = 1
    <3>1. p # << >>
      BY <1>1, <1>2, <2>1
    <3>2. v = s.prev[p[1]]
      BY <1>1, <3>1 DEF PathSoFar
    <3>. QED
      BY <1>3, <2>1, <2>2, <3>2
  <2>3. CASE i # 1
    <3>1. PICK b : b = i - 1
      OBVIOUS
    <3>2. b \in 1 .. n /\ b + 1 = i /\ b + 1 <= n
      <4>1. n \in Nat /\ i \in 1 .. n
        BY <1>2, <2>1
      <4>. QED
        BY <2>3, <3>1, <4>1
    <3>3. p[b] = s.prev[p[b + 1]]
      BY <1>1, <3>2 DEF PathSoFar, Chain
    <3>4. q[b + 1] = p[b]
      BY <1>3, <3>2
    <3>. QED
      BY <2>1, <3>2, <3>3, <3>4
  <2>. QED
    BY <2>2, <2>3
<1>5. Chain(s, q)
  BY <1>3, <1>4 DEF Chain
<1>6. r.vertex = s.prev[v] /\ r.prev = s.prev /\ r.to = s.to
  BY <1>1, <1>2 DEF Locals
<1>7. q[Len(q)] = s.to
  <2>1. CASE p = << >>
    <3>1. n = 0 /\ v = s.to
      BY <1>1, <2>1 DEF PathSoFar
    <3>. QED
      BY <1>3, <3>1
  <2>2. CASE p # << >>
    <3>1. n \in 1 .. n
      BY <1>1, <1>2, <2>2
    <3>2. p[n] = s.to
      BY <1>1, <2>2 DEF PathSoFar
    <3>. QED
      BY <1>3, <3>1, <3>2
  <2>. QED
    BY <2>1, <2>2
<1>8. q # << >>
  BY <1>2, <1>3
<1>9. PathSoFar(r, q)
  BY <1>3, <1>5, <1>6, <1>7, <1>8 DEF PathSoFar, Chain
<1>. QED
  BY <1>1, <1>3, <1>5, <1>9

\* On a map that fits no insert finds the vector full.
LEMMA InsertVertexPaths ==
    ASSUME Typed, Fits, EndedInv, PathInv, InsertVertex
    PROVE  PathInv' /\ at' = "trace"
<1>1. /\ at = "trace" /\ search \in Locals /\ search.vertex # None /\ UNCHANGED adjacency
      /\ search' = [search EXCEPT !.vertex = search.prev[search.vertex]]
  BY DEF Typed, InsertVertex, Locals
<1>2. PathSoFar(search, path) /\ Graph /\ search.vertex \in Vertex
  BY <1>1, LocalFields DEF PathInv, Typed
<1>3. PICK q : q = <<search.vertex>> \o path
  OBVIOUS
<1>4. Chain(search, q) /\ PathSoFar(search', q) /\ Len(q) = Len(path) + 1
  BY <1>1, <1>2, <1>3, ChainGrows
<1>5. PICK done : Searching(search, done)
  BY <1>1 DEF EndedInv, Ended
<1>6. Len(q) <= Cardinality(Vertex)
  BY <1>2, <1>4, <1>5, ChainIsShort
<1>7. PICK n \in Nat : n = Len(path)
  BY <1>2 DEF PathSoFar, Chain
<1>8. n < Capacity
  <2>1. Cardinality(Vertex) \in Nat /\ Capacity \in Nat
    BY <1>2, FS_CardinalityType, CapacityAssumption DEF Graph
  <2>. QED
    BY <1>4, <1>6, <1>7, <2>1 DEF Fits
<1>9. ~Full(Len(path))
  BY <1>7, <1>8, FullIs
<1>10. path' = q /\ at' = "trace"
  BY <1>1, <1>3, <1>9 DEF InsertVertex
<1>11. PathSoFar(search, path)'
  BY <1>1, <1>4, <1>10, PathSoFarStays
<1>. QED
  BY <1>10, <1>11 DEF PathInv

\* Sums along p of what h is for each edge.
LEMMA AlongIs ==
    ASSUME NEW p, NEW n \in Nat, n = Len(p), NEW h,
           \A i \in 2 .. n : h[i] \in Nat /\ h[i] = Distance(p[i - 1], p[i])
    PROVE  \E f : Sums(f, n, h) /\ Along(p) = f[n]
<1>. DEFINE Walked(g) ==
         g = [i \in 0 .. n |-> IF i <= 1 THEN 0 ELSE g[i - 1] + Distance(p[i - 1], p[i])]
<1>1. \A g : Walked(g) <=> Sums(g, n, h)
  BY DEF Sums
<1>2. PICK f : f = CHOOSE g : Walked(g)
  OBVIOUS
<1>3. Along(p) = f[n]
  BY <1>2 DEF Along
<1>4. Walked(f)
  <2>1. \E g : Walked(g)
    <3>. HIDE DEF Walked
    <3>. QED
      BY <1>1, SumsExist
  <2>. HIDE DEF Walked
  <2>. QED
    BY <1>2, <2>1
<1>. HIDE DEF Walked
<1>. QED
  BY <1>1, <1>3, <1>4

LEMMA LengthIs ==
    ASSUME NEW p, NEW n \in Nat, n = Len(p), NEW h,
           \A i \in 2 .. n :
              h[i] \in Nat /\ h[i] = Min({e[2] : e \in {d \in Range(adjacency[p[i - 1]]) : d[1] = p[i]}})
    PROVE  \E f : Sums(f, n, h) /\ LengthOf(p) = f[n]
<1>. DEFINE Least(i) == Min({e[2] : e \in {d \in Range(adjacency[p[i - 1]]) : d[1] = p[i]}})
            Walked(g) == g = [i \in 0 .. n |-> IF i <= 1 THEN 0 ELSE g[i - 1] + Least(i)]
<1>1. \A g : Walked(g) <=> Sums(g, n, h)
  <2>1. \A i \in 2 .. n : h[i] = Least(i)
    OBVIOUS
  <2>. HIDE DEF Least
  <2>. QED
    BY <2>1 DEF Sums
<1>2. PICK f : f = CHOOSE g : Walked(g)
  OBVIOUS
<1>3. LengthOf(p) = f[n]
  BY <1>2 DEF LengthOf
<1>4. Walked(f)
  <2>1. \E g : Walked(g)
    <3>. HIDE DEF Walked
    <3>. QED
      BY <1>1, SumsExist
  <2>. HIDE DEF Walked
  <2>. QED
    BY <1>2, <2>1
<1>. HIDE DEF Walked
<1>. QED
  BY <1>1, <1>3, <1>4

\* When each edge adds what the distance grows by, the sum is the last distance.
LEMMA SumIsDistance ==
    ASSUME NEW n \in Nat \ {0}, NEW h, NEW f, Sums(f, n, h),
           NEW d, \A i \in 1 .. n : d[i] \in Nat, d[1] = 0,
           \A i \in 2 .. n : h[i] \in Nat /\ d[i] = d[i - 1] + h[i]
    PROVE  f[n] = d[n]
<1>1. PICK g : g = [i \in 0 .. n |-> IF i = 0 THEN 0 ELSE f[i] - d[i]]
  OBVIOUS
<1>2. g[0] \in {0}
  BY <1>1
<1>3. \A i \in 0 .. n : f[i] = IF i <= 1 THEN 0 ELSE f[i - 1] + h[i]
  BY DEF Sums
<1>4. ASSUME NEW i \in 1 .. n, g[i - 1] \in {0} PROVE g[i] \in {0}
  <2>1. CASE i = 1
    <3>1. f[1] = 0 /\ g[1] = f[1] - d[1]
      BY <1>1, <1>3, <2>1
    <3>. QED
      BY <2>1, <3>1
  <2>2. CASE i # 1
    <3>1. PICK b \in 1 .. n : b = i - 1 /\ b # 0 /\ b \in 0 .. n /\ i \in 2 .. n /\ i \in 0 .. n /\ i # 0
      BY <2>2
    <3>2. g[b] = f[b] - d[b] /\ g[b] = 0 /\ g[i] = f[i] - d[i]
      BY <1>1, <1>4, <3>1
    <3>3. f[i] = f[b] + h[i] /\ d[i] = d[b] + h[i] /\ d[b] \in Nat /\ h[i] \in Nat
      BY <1>3, <3>1
    <3>4. f[b] \in Nat
      BY <3>1, SumIsLength
    <3>. QED
      BY <3>2, <3>3, <3>4
  <2>. QED
    BY <2>1, <2>2
<1>5. g[n] \in {0}
  <2>1. n \in Nat /\ n \in 0 .. n
    OBVIOUS
  <2>2. PICK D : D = {0}
    OBVIOUS
  <2>3. g[0] \in D /\ \A i \in 1 .. n : g[i - 1] \in D => g[i] \in D
    BY <1>2, <1>4, <2>2
  <2>4. \A i \in 0 .. n : g[i] \in D
    BY <2>1, <2>3, IterationStays
  <2>. QED
    BY <2>1, <2>2, <2>4
<1>6. f[n] \in Nat /\ d[n] \in Nat /\ g[n] = f[n] - d[n]
  <2>1. f[n] \in Nat
    BY SumIsLength
  <2>. QED
    BY <1>1, <2>1
<1>. QED
  BY <1>5, <1>6

\* getDistance takes the only edge there is.
NoSecondEdge ==
    \A v \in Vertex : IsInjective([i \in DOMAIN adjacency[v] |-> adjacency[v][i][1]])

LEMMA OnlyEdge ==
    ASSUME Graph, NoSecondEdge, NEW v \in Vertex, NEW e \in Range(adjacency[v])
    PROVE  Distance(v, e[1]) = e[2]
<1>1. PICK n \in 1 .. Len(adjacency[v]) : e = adjacency[v][n]
  BY EdgeFields
<1>2. PICK L \in Nat : L = Len(adjacency[v]) /\ DOMAIN adjacency[v] = 1 .. L
  BY DEF Graph
<1>3. \A i \in 1 .. L : adjacency[v][i][1] = e[1] => i = n
  <2>1. PICK f : f = [i \in DOMAIN adjacency[v] |-> adjacency[v][i][1]]
    OBVIOUS
  <2>2. IsInjective(f) /\ DOMAIN f = 1 .. L /\ \A i \in 1 .. L : f[i] = adjacency[v][i][1]
    BY <1>2, <2>1 DEF NoSecondEdge
  <2>. QED
    BY <1>1, <1>2, <2>2 DEF IsInjective
<1>. DEFINE I == {i \in 1 .. Len(adjacency[v]) : adjacency[v][i][1] = e[1]}
            first == IF I # {} THEN Min(I) ELSE 0
<1>4. Distance(v, e[1]) = IF first = 0 THEN Infinity ELSE adjacency[v][first][2]
  BY DEF Distance, SelectInSeq
<1>5. I = {n}
  BY <1>1, <1>2, <1>3
<1>6. Min(I) \in I
  <2>1. I \subseteq Nat /\ I # {}
    BY <1>5
  <2>. HIDE DEF I
  <2>. QED
    BY <2>1, MinIsLeast
<1>7. first = n /\ n # 0
  <2>. HIDE DEF I
  <2>. QED
    BY <1>1, <1>5, <1>6
<1>. HIDE DEF first
<1>. QED
  BY <1>1, <1>4, <1>7

\* The edge a chain takes is the shortest between the two vertices.
LEMMA ChainEdge ==
    ASSUME Graph, NEW s, NEW done, Searching(s, done), NEW v \in Vertex, NEW u \in Vertex,
           u = s.prev[v], NEW least,
           least = Min({e[2] : e \in {d \in Range(adjacency[u]) : d[1] = v}})
    PROVE  /\ least \in Nat /\ s.dist[v] = s.dist[u] + least
           /\ Edge(u, v)
           /\ NoSecondEdge => Distance(u, v) = least
<1>1. /\ u \in done
      /\ \E e \in Range(adjacency[u]) : e[1] = v /\ s.dist[v] = s.dist[u] + e[2]
  <2>1. u # None
    BY Numbers DEF Graph
  <2>. QED
    BY <2>1, PrevIs
<1>2. PICK e \in Range(adjacency[u]) : e[1] = v /\ s.dist[v] = s.dist[u] + e[2]
  BY <1>1
<1>3. s.dist[u] \in Nat /\ s.dist[v] \in Nat /\ e[2] \in Nat
  BY EdgeFields, LocalFields DEF Searching
<1>. DEFINE S == {d[2] : d \in {f \in Range(adjacency[u]) : f[1] = v}}
<1>4. S \subseteq Nat /\ e[2] \in S
  BY <1>2, EdgeFields
<1>5. \A x \in S : e[2] <= x
  <2>1. ASSUME NEW f \in Range(adjacency[u]), f[1] = v PROVE e[2] <= f[2]
    <3>1. s.dist[v] <= s.dist[u] + f[2]
      BY <1>1, <2>1 DEF Searching, Explored
    <3>. QED
      BY <1>2, <1>3, <3>1, EdgeFields
  <2>. QED
    BY <2>1
<1>6. least \in S /\ \A x \in S : least <= x
  <2>1. least = Min(S)
    OBVIOUS
  <2>. HIDE DEF S
  <2>. QED
    BY <1>4, <2>1, MinIsLeast
<1>7. least = e[2]
  <2>1. least \in Nat /\ least <= e[2] /\ e[2] <= least
    <3>. HIDE DEF S
    <3>. QED
      BY <1>4, <1>5, <1>6
  <2>. QED
    BY <1>3, <2>1
<1>8. NoSecondEdge => Distance(u, v) = e[2]
  BY <1>2, OnlyEdge
<1>. QED
  BY <1>2, <1>3, <1>7, <1>8 DEF Edge

\* The path of an ended search is put together.
LEMMA FoundIs ==
    ASSUME Graph, Fits, NEW s, NEW done, Ended(s, done), NEW p, PathSoFar(s, p),
           s.vertex = None
    PROVE  /\ p \in Seq(Vertex) /\ p # << >> /\ p[Len(p)] = s.to
           /\ IF s.to \in Reachable(s.from)
              THEN /\ p[1] = s.from /\ IsWalk(p)
                   /\ LengthOf(p) = Shortest(s.from, s.to)
                   /\ NoSecondEdge => Along(p) = Shortest(s.from, s.to)
              ELSE p = <<s.to>> /\ Along(p) = 0
<1>1. /\ Searching(s, done) /\ s \in Locals /\ s.to \in Vertex /\ s.from \in Vertex
      /\ \A v \in Vertex : s.dist[v] \in Nat /\ s.dist[v] <= Infinity
  BY LocalFields DEF Ended, Searching
<1>2. None \notin Vertex
  BY Numbers DEF Graph
<1>3. /\ p \in Seq(Vertex) /\ p # << >> /\ p[Len(p)] = s.to /\ s.prev[p[1]] = None
  <2>1. p # << >>
    BY <1>1, <1>2 DEF PathSoFar
  <2>. QED
    BY <2>1 DEF PathSoFar, Chain
<1>4. PICK n \in Nat \ {0} : n = Len(p) /\ DOMAIN p = 1 .. n
  BY <1>3
<1>5. \A i \in 1 .. n : p[i] \in Vertex
  BY <1>3, <1>4
<1>6. p[n] = s.to
  BY <1>3, <1>4
<1>7. ASSUME NEW i \in 2 .. n
      PROVE  /\ i - 1 \in 1 .. n /\ i \in 1 .. n
             /\ p[i - 1] = s.prev[p[i]] /\ s.dist[p[i - 1]] < s.dist[p[i]]
             /\ s.dist[p[i]] < Infinity
  <2>1. PICK b \in 1 .. n : b = i - 1 /\ b + 1 = i /\ b + 1 <= n /\ i \in 1 .. n
    OBVIOUS
  <2>2. p[b] = s.prev[p[b + 1]]
    BY <1>4, <2>1 DEF PathSoFar, Chain
  <2>3. p[b] # None
    BY <1>2, <1>5, <2>1
  <2>4. p[b] = s.prev[p[i]] /\ p[i] \in Vertex
    BY <1>5, <2>1, <2>2
  <2>5. s.dist[p[b]] < s.dist[p[i]] /\ s.dist[p[i]] < Infinity
    BY <1>1, <2>3, <2>4, PrevIs
  <2>. QED
    BY <2>1, <2>4, <2>5
<1>8. CASE s.to \in Reachable(s.from)
  <2>1. s.to \in s.visited /\ s.dist[s.to] = Shortest(s.from, s.to)
    BY <1>8, EndedIs
  <2>2. s.dist[s.to] < Infinity
    BY <1>1, <2>1 DEF Searching, Nearer
  <2>3. s.dist[p[1]] < Infinity
    <3>1. CASE n = 1
      BY <1>6, <2>2, <3>1
    <3>2. CASE n # 1
      <4>1. 2 \in 2 .. n /\ 2 - 1 = 1
        BY <3>2
      <4>2. s.dist[p[1]] < s.dist[p[2]] /\ s.dist[p[2]] < Infinity /\ p[1] \in Vertex /\ p[2] \in Vertex
        BY <1>5, <1>7, <4>1
      <4>. QED
        BY <1>1, <4>2, Numbers
    <3>. QED
      BY <3>1, <3>2
  <2>4. p[1] = s.from
    <3>1. p[1] \in Vertex
      BY <1>5
    <3>2. p[1] = s.from \/ s.dist[p[1]] = Infinity
      <4>1. PICK u, v : u = s.prev[v] /\ v = p[1]
        OBVIOUS
      <4>2. u = None /\ u \notin Vertex /\ v \in Vertex
        BY <1>2, <1>3, <3>1, <4>1
      <4>3. v = s.from \/ s.dist[v] = Infinity
        BY <1>1, <4>1, <4>2, PrevIs
      <4>. QED
        BY <4>1, <4>3
    <3>. QED
      BY <1>1, <2>3, <3>1, <3>2, Numbers
  <2>5. PICK h, d : /\ h = [i \in 2 .. n |-> Min({e[2] : e \in {f \in Range(adjacency[p[i - 1]]) :
                                                                 f[1] = p[i]}})]
                    /\ d = [i \in 1 .. n |-> s.dist[p[i]]]
    OBVIOUS
  <2>6. ASSUME NEW i \in 2 .. n
        PROVE  /\ h[i] = Min({e[2] : e \in {f \in Range(adjacency[p[i - 1]]) : f[1] = p[i]}})
               /\ h[i] \in Nat /\ d[i] = d[i - 1] + h[i] /\ Edge(p[i - 1], p[i])
               /\ NoSecondEdge => h[i] = Distance(p[i - 1], p[i])
    <3>1. PICK u, v : u = p[i - 1] /\ v = p[i]
      OBVIOUS
    <3>2. u \in Vertex /\ v \in Vertex /\ u = s.prev[v]
      BY <1>5, <1>7, <3>1
    <3>3. h[i] = Min({e[2] : e \in {f \in Range(adjacency[u]) : f[1] = v}})
      BY <2>5, <3>1
    <3>4. /\ h[i] \in Nat /\ s.dist[v] = s.dist[u] + h[i] /\ Edge(u, v)
          /\ NoSecondEdge => Distance(u, v) = h[i]
      BY <1>1, <3>2, <3>3, ChainEdge
    <3>5. d[i] = s.dist[v] /\ d[i - 1] = s.dist[u]
      BY <1>7, <2>5, <3>1
    <3>. QED
      BY <3>1, <3>3, <3>4, <3>5
  <2>7. \A i \in 1 .. n : d[i] \in Nat
    BY <1>1, <1>5, <2>5
  <2>8. d[1] = 0
    BY <1>1, <2>4, <2>5 DEF Searching
  <2>9. d[n] = Shortest(s.from, s.to)
    BY <1>6, <2>1, <2>5
  <2>10. \A f : Sums(f, n, h) => f[n] = d[n]
    <3>1. \A i \in 2 .. n : h[i] \in Nat /\ d[i] = d[i - 1] + h[i]
      BY <2>6
    <3>. QED
      BY <2>7, <2>8, <3>1, SumIsDistance
  <2>11. LengthOf(p) = Shortest(s.from, s.to)
    <3>1. \E f : Sums(f, n, h) /\ LengthOf(p) = f[n]
      <4>1. n \in Nat /\ \A i \in 2 .. n :
               h[i] \in Nat /\ h[i] = Min({e[2] : e \in {f \in Range(adjacency[p[i - 1]]) : f[1] = p[i]}})
        BY <2>6
      <4>. QED
        BY <1>4, <4>1, LengthIs
    <3>. QED
      BY <2>9, <2>10, <3>1
  <2>12. ASSUME NoSecondEdge PROVE Along(p) = Shortest(s.from, s.to)
    <3>1. \E f : Sums(f, n, h) /\ Along(p) = f[n]
      <4>1. n \in Nat /\ \A i \in 2 .. n : h[i] \in Nat /\ h[i] = Distance(p[i - 1], p[i])
        BY <2>6, <2>12
      <4>. QED
        BY <1>4, <4>1, AlongIs
    <3>. QED
      BY <2>9, <2>10, <3>1
  <2>13. IsWalk(p)
    <3>1. ASSUME NEW i \in 1 .. n - 1 PROVE Edge(p[i], p[i + 1])
      <4>1. i + 1 \in 2 .. n /\ (i + 1) - 1 = i
        BY <3>1
      <4>. QED
        BY <2>6, <4>1
    <3>2. Range(p) \subseteq Vertex
      BY <1>4, <1>5 DEF Range
    <3>. QED
      BY <1>4, <3>1, <3>2 DEF IsWalk
  <2>. QED
    BY <1>3, <1>8, <2>4, <2>11, <2>12, <2>13
<1>9. CASE s.to \notin Reachable(s.from)
  <2>1. s.dist[s.to] = Infinity
    BY <1>9, EndedIs
  <2>2. n = 1
    <3>1. SUFFICES ASSUME n # 1 PROVE FALSE
      OBVIOUS
    <3>2. n \in 2 .. n
      BY <3>1
    <3>3. s.dist[p[n]] < Infinity
      BY <1>7, <3>2
    <3>. QED
      BY <1>6, <2>1, <3>3, Numbers
  <2>3. p = <<s.to>>
    BY <1>3, <1>4, <1>6, <2>2
  <2>4. Along(p) = 0
    <3>1. PICK h : h = [i \in {} |-> 0]
      OBVIOUS
    <3>2. n \in Nat /\ n = Len(p)
      BY <1>4, <2>2
    <3>3. \A i \in 2 .. n : h[i] \in Nat /\ h[i] = Distance(p[i - 1], p[i])
      BY <2>2
    <3>4. PICK f : Sums(f, n, h) /\ Along(p) = f[n]
      BY ONLY <3>2, <3>3, AlongIs
    <3>5. f = [i \in 0 .. 1 |-> IF i <= 1 THEN 0 ELSE f[i - 1] + h[i]]
      BY <2>2, <3>4 DEF Sums
    <3>. QED
      BY <2>2, <3>4, <3>5
  <2>. QED
    BY <1>3, <1>9, <2>3, <2>4
<1>. QED
  BY <1>8, <1>9

-----------------------------------------------------------------------------
(* The answers. *)

SearchCalls == {"GetShortestDistance", "GetShortestPath"}

\* A call that searches once searches for what it was asked.
CallInv ==
    at \in {"search", "trace"} /\ call.name \in SearchCalls =>
        search.from = call.from /\ search.to = call.to

\* What answers are measured by stays while the map does.
LEMMA MeasuresStay ==
    ASSUME UNCHANGED adjacency
    PROVE  /\ \A v : Reachable(v)' = Reachable(v)
           /\ \A v, w : Shortest(v, w)' = Shortest(v, w) /\ Edge(v, w)' = Edge(v, w)
           /\ \A p : LengthOf(p)' = LengthOf(p) /\ IsWalk(p)' = IsWalk(p)
           /\ NoSecondEdge' = NoSecondEdge
<1>1. Vertex' = Vertex
  BY DEF Vertex
<1>2. \A v : Walks(v)' = Walks(v)
  BY <1>1 DEF Walks
<1>3. \A v : Reachable(v)' = Reachable(v)
  BY <1>2 DEF Reachable
<1>4. \A v, w : Shortest(v, w)' = Shortest(v, w)
  BY <1>2 DEF Shortest
<1>5. \A v, w : Edge(v, w)' = Edge(v, w)
  BY DEF Edge
<1>6. \A p : LengthOf(p)' = LengthOf(p)
  BY DEF LengthOf
<1>7. \A p : IsWalk(p)' = IsWalk(p)
  BY <1>1 DEF IsWalk, Edge
<1>8. NoSecondEdge' = NoSecondEdge
  BY <1>1 DEF NoSecondEdge
<1>. QED
  BY <1>3, <1>4, <1>5, <1>6, <1>7, <1>8

\* The path at the end of a search.
LEMMA TracedIs ==
    ASSUME Typed, Fits, EndedInv, PathInv, at = "trace", search.vertex = None
    PROVE  /\ path \in Seq(Vertex) /\ path # << >> /\ Last(path) = search.to
           /\ PathLength = Along(path)
           /\ IF search.to \in Reachable(search.from)
              THEN /\ path[1] = search.from /\ IsWalk(path)
                   /\ LengthOf(path) = Shortest(search.from, search.to)
                   /\ NoSecondEdge => Along(path) = Shortest(search.from, search.to)
              ELSE path = <<search.to>> /\ Along(path) = 0
<1>1. Graph
  BY DEF Typed
<1>2. PICK done : Ended(search, done)
  BY DEF EndedInv
<1>3. PathSoFar(search, path)
  BY DEF PathInv
<1>4. /\ path \in Seq(Vertex) /\ path # << >> /\ path[Len(path)] = search.to
      /\ IF search.to \in Reachable(search.from)
         THEN /\ path[1] = search.from /\ IsWalk(path)
              /\ LengthOf(path) = Shortest(search.from, search.to)
              /\ NoSecondEdge => Along(path) = Shortest(search.from, search.to)
         ELSE path = <<search.to>> /\ Along(path) = 0
  BY <1>1, <1>2, <1>3, FoundIs
<1>5. Last(path) = search.to
  BY <1>4 DEF Last
<1>6. Range(path) \subseteq Vertex
  BY <1>4 DEF Range
<1>7. PathLength = Along(path)
  BY <1>6 DEF PathLength
<1>. QED
  BY <1>4, <1>5, <1>7

LEMMA PathFoundAnswers ==
    ASSUME Typed, Fits, EndedInv, PathInv, CallInv, PathFound
    PROVE  AnswersAreShortest'
<1>1. /\ at = "trace" /\ search.vertex = None /\ call.name = "GetShortestPath"
      /\ answer' = path /\ UNCHANGED <<adjacency, call>>
  BY DEF PathFound, Traced, Answered
<1>2. search.from = call.from /\ search.to = call.to
  BY <1>1 DEF CallInv, SearchCalls
<1>3. DistanceIsShortest'
  BY <1>1 DEF DistanceIsShortest, Answer
<1>4. IF call.to \in Reachable(call.from)
      THEN /\ IsWalk(path)
           /\ path[1] = call.from /\ Last(path) = call.to
           /\ LengthOf(path) = Shortest(call.from, call.to)
      ELSE path = <<call.to>>
  BY <1>1, <1>2, TracedIs
<1>5. /\ Reachable(call.from)' = Reachable(call.from)
      /\ Shortest(call.from, call.to)' = Shortest(call.from, call.to)
      /\ LengthOf(answer)' = LengthOf(path) /\ IsWalk(answer)' = IsWalk(path)
  BY <1>1, MeasuresStay
<1>6. PathIsShortest'
  BY <1>1, <1>4, <1>5 DEF PathIsShortest
<1>. QED
  BY <1>3, <1>6 DEF AnswersAreShortest

LEMMA DistanceFoundAnswers ==
    ASSUME Typed, Fits, EndedInv, PathInv, CallInv, DistanceFound
    PROVE  AnswersAreShortest'
<1>1. /\ at = "trace" /\ search.vertex = None /\ call.name = "GetShortestDistance"
      /\ answer' = <<PathLength>> /\ UNCHANGED <<adjacency, call>>
  BY DEF DistanceFound, Traced, Answered
<1>2. search.from = call.from /\ search.to = call.to
  BY <1>1 DEF CallInv, SearchCalls
<1>3. PathIsShortest'
  BY <1>1 DEF PathIsShortest, Answer
<1>4. NoSecondEdge => PathLength = IF call.to \in Reachable(call.from)
                                   THEN Shortest(call.from, call.to) ELSE 0
  BY <1>1, <1>2, TracedIs
<1>5. /\ Reachable(call.from)' = Reachable(call.from)
      /\ Shortest(call.from, call.to)' = Shortest(call.from, call.to)
      /\ NoSecondEdge' = NoSecondEdge
  BY <1>1, MeasuresStay
<1>6. DistanceIsShortest'
  BY <1>1, <1>4, <1>5 DEF DistanceIsShortest, NoSecondEdge
<1>. QED
  BY <1>3, <1>6 DEF AnswersAreShortest

LEMMA AnswersStay ==
    ASSUME AnswersAreShortest, UNCHANGED <<adjacency, at, call, answer>>
    PROVE  AnswersAreShortest'
<1>1. /\ Reachable(call.from)' = Reachable(call.from)
      /\ Shortest(call.from, call.to)' = Shortest(call.from, call.to)
      /\ LengthOf(answer)' = LengthOf(answer) /\ IsWalk(answer)' = IsWalk(answer)
      /\ NoSecondEdge' = NoSecondEdge
  BY MeasuresStay
<1>2. PathIsShortest'
  BY <1>1 DEF AnswersAreShortest, PathIsShortest, Answer
<1>3. DistanceIsShortest'
  BY <1>1 DEF AnswersAreShortest, DistanceIsShortest, Answer, NoSecondEdge
<1>. QED
  BY <1>2, <1>3 DEF AnswersAreShortest

\* What a search of the map needs to be traced and answered.
AnswerInvs == PathInv /\ CallInv /\ AnswersAreShortest

LEMMA AnswerInvsStep ==
    ASSUME SearchInvs, SearchInvs', Fits, AnswerInvs, [Next]_vars
    PROVE  AnswerInvs'
<1>1. Typed /\ EndedInv /\ PathInv /\ CallInv /\ AnswersAreShortest
  BY DEF SearchInvs, AnswerInvs
\* Where a search begins.
<1>2. ASSUME NEW v, NEW w, Search(v, w),
             call'.name \in SearchCalls => call'.from = v /\ call'.to = w
      PROVE  AnswerInvs'
  <2>1. at' = "search" /\ path' = << >> /\ search'.from = v /\ search'.to = w
    BY <1>2 DEF Search, NewSearch
  <2>2. PathInv' /\ CallInv'
    BY <1>2, <2>1 DEF PathInv, CallInv
  <2>3. AnswersAreShortest'
    BY <2>1 DEF AnswersAreShortest, PathIsShortest, DistanceIsShortest, Answer
  <2>. QED
    BY <2>2, <2>3 DEF AnswerInvs
\* Where there is none, and no answer to one.
<1>3. ASSUME at' \in {"loading", "idle", "broken"} \/ (at' = "answer" /\ call'.name \notin SearchCalls)
      PROVE  AnswerInvs'
  BY <1>3 DEF AnswerInvs, PathInv, CallInv, AnswersAreShortest, PathIsShortest,
              DistanceIsShortest, Answer, SearchCalls
\* Where a search goes on.
<1>4. ASSUME at \in {"search", "trace"}, at' \in {"search", "trace"}, UNCHANGED call,
             search'.from = search.from, search'.to = search.to, PathInv'
      PROVE  AnswerInvs'
  <2>1. CallInv'
    BY <1>1, <1>4 DEF CallInv
  <2>2. AnswersAreShortest'
    BY <1>4 DEF AnswersAreShortest, PathIsShortest, DistanceIsShortest, Answer
  <2>. QED
    BY <1>4, <2>1, <2>2 DEF AnswerInvs
<1>5. CASE ReadLine
  <2>1. at = "loading" /\ UNCHANGED <<at, call, search, path, trip, answer>>
    BY <1>5, Zenon DEF ReadLine
  <2>. QED
    BY <1>3, <2>1
<1>6. CASE FileEnds \/ Reply
  BY <1>3, <1>6 DEF FileEnds, Reply
<1>7. CASE Visit
  <2>1. PICK x, s : /\ at = "search" /\ search \in Locals /\ search.queue # {}
                    /\ x = Foremost(search.queue) /\ s = Marked(search, x)
                    /\ IF x[2] = search.to
                       THEN at' = "trace" /\ search' = [s EXCEPT !.vertex = s.to]
                       ELSE at' = at /\ search' = Relaxed(s, x[2])
                    /\ UNCHANGED <<file, adjacency, call, path, trip, answer>>
    BY <1>1, <1>7, VisitIs
  <2>2. /\ s \in Locals /\ s.from = search.from /\ s.to = search.to /\ x[2] \in Vertex
        /\ x[2] \in s.visited
    <3>1. Graph
      BY <1>1 DEF Typed
    <3>. QED
      BY <2>1, <3>1, MarkedFields
  <2>3. path = << >>
    BY <1>1, <2>1 DEF PathInv
  <2>4. CASE x[2] = search.to
    <3>1. s.to \in Vertex /\ search' = [s EXCEPT !.vertex = s.to] /\ at' = "trace"
      BY <2>1, <2>2, <2>4, LocalFields
    <3>2. search'.vertex = search'.to /\ search'.from = s.from /\ search'.to = s.to
      BY <2>2, <3>1, LocalsTraced
    <3>3. PathInv'
      BY <2>1, <2>3, <3>1, <3>2 DEF PathInv, PathSoFar, Chain
    <3>. QED
      BY <1>4, <2>1, <2>2, <3>1, <3>2, <3>3
  <2>5. CASE x[2] # search.to
    <3>1. search' = Relaxed(s, x[2]) /\ at' = "search"
      BY <2>1, <2>5
    <3>2. search'.from = s.from /\ search'.to = s.to
      BY <1>1, <2>2, <3>1, RelaxedSees DEF Seen, Typed
    <3>3. PathInv'
      BY <2>1, <2>3, <3>1 DEF PathInv
    <3>. QED
      BY <1>4, <2>1, <2>2, <3>1, <3>2, <3>3
  <2>. QED
    BY <2>4, <2>5
<1>8. CASE QueueEmpty
  <2>1. /\ at = "search" /\ search \in Locals /\ at' = "trace"
        /\ search' = [search EXCEPT !.vertex = search.to]
        /\ UNCHANGED <<adjacency, call, path>>
    BY <1>1, <1>8 DEF Typed, QueueEmpty, Trace
  <2>2. search.to \in Vertex
    BY <2>1, LocalFields
  <2>3. search'.vertex = search'.to /\ search'.from = search.from /\ search'.to = search.to
    BY <2>1, <2>2, LocalsTraced
  <2>4. path = << >>
    BY <1>1, <2>1 DEF PathInv
  <2>5. PathInv'
    BY <2>1, <2>3, <2>4 DEF PathInv, PathSoFar, Chain
  <2>. QED
    BY <1>4, <2>1, <2>3, <2>5
<1>9. CASE InsertVertex
  <2>1. PathInv' /\ at' = "trace"
    BY <1>1, <1>9, InsertVertexPaths
  <2>2. /\ at = "trace" /\ search \in Locals /\ UNCHANGED call
        /\ search' = [search EXCEPT !.vertex = search.prev[search.vertex]]
    BY <1>1, <1>9 DEF Typed, InsertVertex, Locals
  <2>3. search'.from = search.from /\ search'.to = search.to
    BY <2>2 DEF Locals
  <2>. QED
    BY <1>4, <2>1, <2>2, <2>3
<1>10. CASE PathFound
  <2>1. at' = "answer"
    BY <1>10 DEF PathFound, Answered
  <2>2. AnswersAreShortest'
    BY <1>1, <1>10, PathFoundAnswers
  <2>. QED
    BY <2>1, <2>2 DEF AnswerInvs, PathInv, CallInv
<1>11. CASE DistanceFound
  <2>1. at' = "answer"
    BY <1>11 DEF DistanceFound, Answered
  <2>2. AnswersAreShortest'
    BY <1>1, <1>11, DistanceFoundAnswers
  <2>. QED
    BY <2>1, <2>2 DEF AnswerInvs, PathInv, CallInv
<1>12. CASE GoalMeasured
  <2>1. /\ call.name = "GetShortestTrip" /\ UNCHANGED call
        /\ \E n \in 1 .. Len(trip.goals) : Search(trip.here, trip.goals[n])
    BY <1>1, <1>12, GoalMeasuredIs
  <2>2. call'.name \notin SearchCalls
    BY <2>1 DEF SearchCalls
  <2>. QED
    BY <1>2, <2>1, <2>2
<1>13. CASE LegFound
  <2>1. /\ call.name = "GetShortestTrip" /\ UNCHANGED call
        /\ at' = "answer" \/ Search(trip'.here, trip'.goals[1])
    BY <1>1, <1>13, LegFoundIs
  <2>2. call'.name \notin SearchCalls
    BY <2>1 DEF SearchCalls
  <2>. QED
    BY <1>2, <1>3, <2>1, <2>2
<1>14. ASSUME NEW v \in Vertex, NEW w \in Vertex, GetDistance(v, w) PROVE AnswerInvs'
  <2>1. at' = "answer" /\ call'.name \notin SearchCalls
    BY <1>14 DEF GetDistance, SearchCalls
  <2>. QED
    BY <1>3, <2>1
<1>15. ASSUME NEW v \in Vertex, NEW w \in Vertex, SearchingCall(v, w) PROVE AnswerInvs'
  BY <1>2, <1>15, SearchingCallIs
<1>16. ASSUME NEW v \in Vertex, NEW goals \in Trips, Range(goals) \subseteq Vertex,
              GetShortestTrip(v, goals)
       PROVE  AnswerInvs'
  <2>1. call'.name \notin SearchCalls
    BY <1>16 DEF GetShortestTrip, SearchCalls
  <2>2. at' = "answer" \/ Search(v, goals[1])
    BY <1>1, <1>16, GetShortestTripIs
  <2>. QED
    BY <1>2, <1>3, <2>1, <2>2
<1>17. CASE UNCHANGED vars
  <2>1. UNCHANGED <<adjacency, at, call, search, path, answer>>
    BY <1>17 DEF vars
  <2>2. PathInv'
    BY <1>1, <2>1, PathSoFarStays DEF PathInv
  <2>3. CallInv'
    BY <1>1, <2>1 DEF CallInv
  <2>4. AnswersAreShortest'
    BY <1>1, <2>1, AnswersStay
  <2>. QED
    BY <2>2, <2>3, <2>4 DEF AnswerInvs
<1>. QED
  BY <1>5, <1>6, <1>7, <1>8, <1>9, <1>10, <1>11, <1>12, <1>13, <1>14, <1>15, <1>16, <1>17
     DEF Next, Work, SearchingCall

\* On a map of no more vertices than the vector of a path first has room for,
\* and of no walk too long for an int, both searches of a page are answered with
\* the shortest, or with the end alone and 0 when there is no way (nav.cpp,
\* getShortestPath and getShortestDistance).
THEOREM AnswersStayShortest == Spec /\ []Fits => []AnswersAreShortest
<1>1. Init => AnswerInvs
  BY DEF Init, AnswerInvs, PathInv, CallInv, AnswersAreShortest, PathIsShortest,
         DistanceIsShortest, Answer
<1>2. SearchInvs /\ SearchInvs' /\ Fits /\ AnswerInvs /\ [Next]_vars => AnswerInvs'
  BY AnswerInvsStep
<1>3. AnswerInvs => AnswersAreShortest
  BY DEF AnswerInvs
<1>. QED
  BY <1>1, <1>2, <1>3, SearchInvsHold, PTL DEF Spec

-----------------------------------------------------------------------------
(* Trips. *)

\* Every road can be taken back.
Symmetric ==
    \A v \in Vertex : \A e \in Range(adjacency[v]) : \E d \in Range(adjacency[e[1]]) : d[1] = v

\* When the destinations can all be reached, so can the end of each search.
LEMMA LegReaches ==
    ASSUME Graph, Fits, Symmetric, NEW s, NEW done, Ended(s, done), NEW a \in Vertex,
           s.from \in Reachable(a) \cup {a}, s.to \in Reachable(a)
    PROVE  s.to \in Reachable(s.from)
<1>1. SUFFICES ASSUME s.to \notin Reachable(s.from) PROVE FALSE
  OBVIOUS
<1>2. s \in Locals /\ s.to \in Vertex /\ s.visited \subseteq Vertex
  BY LocalFields DEF Ended, Searching
<1>3. s.to \notin s.visited
  BY <1>1, EndedIs
<1>4. s.queue = {} /\ Searching(s, s.visited)
  BY <1>3 DEF Ended
<1>5. Closed(s.visited) /\ s.from \in s.visited
  BY <1>2, <1>3, <1>4, VisitedIsClosed
<1>6. PICK C : C = Vertex \ s.visited
  OBVIOUS
<1>7. Closed(C)
  <2>1. ASSUME NEW u \in C, NEW e \in Range(adjacency[u]) PROVE e[1] \in C
    <3>1. u \in Vertex /\ e[1] \in Vertex
      BY <1>6, EdgeFields
    <3>2. PICK d \in Range(adjacency[e[1]]) : d[1] = u
      BY <3>1 DEF Symmetric
    <3>3. e[1] \notin s.visited
      BY <1>5, <1>6, <3>2 DEF Closed
    <3>. QED
      BY <1>6, <3>1, <3>3
  <2>. QED
    BY <1>6, <2>1 DEF Closed
<1>8. CASE a \in s.visited
  BY <1>3, <1>5, <1>8, WalksStay
<1>9. CASE a \in C
  <2>1. Reachable(a) \subseteq C
    BY <1>7, <1>9, WalksStay
  <2>. QED
    BY <1>5, <1>6, <1>9, <2>1
<1>. QED
  BY <1>6, <1>8, <1>9

AllReachable == Range(call.goals) \subseteq Reachable(call.from)
Stops == Range(call.goals) \cup {call.from}
Leads(v, w) == Edge(v, w) \/ (v = w /\ v \in Stops)

\* The route so far ends where the trip is and has the destinations that are done.
OnRoute ==
    /\ trip.here \in Stops
    /\ Range(call.goals) \subseteq Range(trip.goals) \cup Range(trip.route)
    /\ IF trip.route = << >> THEN trip.here = call.from
       ELSE /\ trip.route[1] = call.from /\ trip.route[Len(trip.route)] = trip.here
            /\ trip.here \in Range(call.goals)
    /\ \A i \in 1 .. Len(trip.route) :
          i + 1 <= Len(trip.route) => Leads(trip.route[i], trip.route[i + 1])

\* A search of a trip starts where it is and ends at one of the destinations left.
LegInv ==
    /\ call.from \in Vertex
    /\ search.from = trip.here /\ search.to \in Range(trip.goals)
    /\ ~Measuring => search.to = trip.goals[NearestGoal(trip.distances)]
    /\ Range(trip.goals) \subseteq Range(call.goals)
    /\ AllReachable => OnRoute

TripInv == at \in {"search", "trace"} /\ call.name = "GetShortestTrip" => LegInv

\* A leg leads from where the trip is to the nearest of the destinations.
LEMMA LegIs ==
    ASSUME Typed, Fits, EndedInv, PathInv, Symmetric, LegInv, AllReachable,
           at = "trace", search.vertex = None
    PROVE  /\ path \in Seq(Vertex) /\ path # << >>
           /\ path[1] = trip.here /\ path[Len(path)] = search.to
           /\ \A i \in 1 .. Len(path) : i + 1 <= Len(path) => Edge(path[i], path[i + 1])
<1>1. Graph
  BY DEF Typed
<1>2. PICK done : Ended(search, done)
  BY DEF EndedInv
<1>3. search.to \in Reachable(call.from) /\ search.from \in Reachable(call.from) \cup {call.from}
  BY DEF LegInv, AllReachable, OnRoute, Stops
<1>4. search.to \in Reachable(search.from)
  <2>1. call.from \in Vertex
    BY DEF LegInv
  <2>. QED
    BY <1>1, <1>2, <1>3, <2>1, LegReaches
<1>5. /\ path \in Seq(Vertex) /\ path # << >> /\ Last(path) = search.to
      /\ path[1] = search.from /\ IsWalk(path)
  BY <1>4, TracedIs
<1>6. path[Len(path)] = search.to /\ path[1] = trip.here
  BY <1>5 DEF Last, LegInv
<1>7. \A i \in 1 .. Len(path) : i + 1 <= Len(path) => Edge(path[i], path[i + 1])
  <2>1. ASSUME NEW i \in 1 .. Len(path), i + 1 <= Len(path) PROVE i \in 1 .. Len(path) - 1
    <3>1. PICK n \in Nat : n = Len(path)
      BY <1>5
    <3>. QED
      BY <2>1, <3>1
  <2>. QED
    BY <1>5, <2>1 DEF IsWalk
<1>. QED
  BY <1>5, <1>6, <1>7

LEMMA TripMeasuresStay ==
    ASSUME UNCHANGED <<adjacency, call>>
    PROVE  /\ Stops' = Stops /\ AllReachable' = AllReachable
           /\ \A v, w : Leads(v, w)' = Leads(v, w)
<1>1. Stops' = Stops
  BY DEF Stops
<1>2. AllReachable' = AllReachable
  <2>1. Reachable(call.from)' = Reachable(call.from)
    BY MeasuresStay
  <2>. QED
    BY <2>1 DEF AllReachable
<1>3. \A v, w : Leads(v, w)' = Leads(v, w)
  <2>1. \A v, w : Edge(v, w)' = Edge(v, w)
    BY MeasuresStay
  <2>. QED
    BY <1>1, <2>1 DEF Leads
<1>. QED
  BY <1>1, <1>2, <1>3

LEMMA OnRouteStays ==
    ASSUME UNCHANGED <<adjacency, call>>, OnRoute,
           trip'.here = trip.here, trip'.goals = trip.goals, trip'.route = trip.route
    PROVE  OnRoute'
BY TripMeasuresStay DEF OnRoute

\* A leg makes the route longer.
LEMMA RouteGrows ==
    ASSUME Typed, Fits, EndedInv, PathInv, Symmetric, LegInv, AllReachable, LegFound
    PROVE  OnRoute' /\ trip'.route # << >>
<1>1. /\ OnTrip /\ at = "trace" /\ search.vertex = None /\ ~Measuring
      /\ trip'.route = trip.route \o path /\ UNCHANGED <<adjacency, call>>
  BY LegFoundIs
<1>2. PICK g \in 1 .. Len(trip.goals) :
          /\ g = NearestGoal(trip.distances)
          /\ trip'.here = trip.goals[g] /\ trip'.goals = RemoveAt(trip.goals, g)
  BY LegFoundIs
<1>3. PICK goals, old, new, n, m : /\ goals = trip.goals /\ old = trip.route /\ new = trip'.route
                                   /\ n = Len(old) /\ m = Len(path)
  OBVIOUS
<1>4. /\ path \in Seq(Vertex) /\ path # << >> /\ path[1] = trip.here
      /\ path[m] = goals[g]
      /\ \A i \in 1 .. m : i + 1 <= m => Edge(path[i], path[i + 1])
  <2>1. search.to = goals[g]
    BY <1>1, <1>2, <1>3 DEF LegInv
  <2>. QED
    BY <1>1, <1>3, <2>1, LegIs
<1>5. goals \in Seq(Vertex) /\ old \in Seq(Place) /\ path \in Seq(Place) /\ OnRoute
  BY <1>1, <1>3 DEF OnTrip, Typed, LegInv
<1>6. n \in Nat /\ m \in Nat \ {0}
  BY <1>3, <1>4, <1>5
<1>7. /\ new \in Seq(Place) /\ Len(new) = n + m
      /\ \A j \in 1 .. n : new[j] = old[j]
      /\ \A j \in 1 .. m : new[n + j] = path[j]
  BY <1>1, <1>3, <1>5, Concat
<1>8. Stops' = Stops /\ \A v, w : Leads(v, w)' = Leads(v, w)
  BY <1>1, TripMeasuresStay
<1>9. new # << >> /\ new[Len(new)] = goals[g]
  <2>1. m \in 1 .. m /\ n + m # 0
    BY <1>6
  <2>. QED
    BY <1>4, <1>7, <2>1
<1>10. goals[g] \in Range(goals) /\ goals[g] \in Range(call.goals)
  <2>1. goals[g] \in Range(goals)
    BY <1>2, <1>3, <1>5 DEF Range
  <2>. QED
    BY <1>3, <2>1 DEF LegInv
<1>11. new[1] = call.from
  <2>1. CASE old = << >>
    <3>1. n = 0 /\ trip.here = call.from
      BY <1>3, <1>5, <2>1 DEF OnRoute
    <3>2. 1 \in 1 .. m /\ 0 + 1 = 1
      BY <1>6
    <3>. QED
      BY <1>4, <1>7, <3>1, <3>2
  <2>2. CASE old # << >>
    <3>1. 1 \in 1 .. n
      BY <1>3, <1>5, <2>2
    <3>2. old[1] = call.from
      BY <1>3, <1>5, <2>2 DEF OnRoute
    <3>. QED
      BY <1>7, <3>1, <3>2
  <2>. QED
    BY <2>1, <2>2
<1>12. ASSUME NEW x \in Range(call.goals) PROVE x \in Range(trip'.goals) \cup Range(new)
  <2>1. DOMAIN new = 1 .. n + m
    BY <1>7
  <2>2. CASE x \in Range(old)
    <3>1. PICK i \in 1 .. n : x = old[i]
      BY <1>3, <1>5, <2>2 DEF Range
    <3>2. i \in DOMAIN new /\ new[i] = x
      BY <1>6, <1>7, <2>1, <3>1
    <3>. QED
      BY <3>2 DEF Range
  <2>3. CASE x \in Range(goals)
    <3>1. PICK L \in Nat : L = Len(goals) /\ DOMAIN goals = 1 .. L
      BY <1>5
    <3>2. PICK k \in 1 .. L : x = goals[k]
      BY <2>3, <3>1 DEF Range
    <3>3. CASE k = g
      <4>1. Len(new) \in DOMAIN new
        BY <1>6, <1>7, <2>1
      <4>. QED
        BY <1>9, <3>2, <3>3, <4>1 DEF Range
    <3>4. CASE k # g
      <4>1. goals \in Seq(Vertex) /\ g \in 1 .. Len(goals) /\ k \in 1 .. Len(goals)
        BY <1>2, <1>3, <1>5, <3>1
      <4>2. goals[k] \in Range(RemoveAt(goals, g))
        BY <3>4, <4>1, RemoveAtKeeps
      <4>. QED
        BY <1>2, <1>3, <3>2, <4>2
    <3>. QED
      BY <3>3, <3>4
  <2>. QED
    BY <1>3, <1>5, <2>2, <2>3 DEF OnRoute
<1>13. ASSUME NEW i \in 1 .. Len(new), i + 1 <= Len(new) PROVE Leads(new[i], new[i + 1])
  <2>1. i \in 1 .. n + m /\ i + 1 <= n + m
    BY <1>7, <1>13
  <2>2. CASE i + 1 <= n
    <3>1. i \in 1 .. n /\ i + 1 \in 1 .. n
      BY <1>6, <2>1, <2>2
    <3>2. Leads(old[i], old[i + 1])
      BY <1>3, <1>5, <2>2, <3>1 DEF OnRoute
    <3>. QED
      BY <1>7, <3>1, <3>2
  <2>3. CASE i = n
    <3>1. i \in 1 .. n /\ 1 \in 1 .. m
      BY <1>6, <2>1, <2>3
    <3>2. new[i] = old[n] /\ new[i + 1] = path[1]
      BY <1>7, <2>3, <3>1
    <3>3. old # << >>
      BY <1>3, <1>6, <2>3, <3>1
    <3>4. old[n] = trip.here /\ trip.here \in Range(call.goals)
      BY <1>3, <1>5, <3>3 DEF OnRoute
    <3>. QED
      BY <1>4, <3>2, <3>4 DEF Leads, Stops
  <2>4. CASE i > n
    <3>1. PICK j : j = i - n
      OBVIOUS
    <3>2. /\ j \in 1 .. m /\ j + 1 \in 1 .. m /\ j + 1 <= m
          /\ n + j = i /\ n + (j + 1) = i + 1
      BY <1>6, <2>1, <2>4, <3>1
    <3>3. new[i] = path[j] /\ new[i + 1] = path[j + 1]
      BY <1>7, <3>2
    <3>4. Edge(path[j], path[j + 1])
      BY <1>4, <3>2
    <3>. QED
      BY <3>3, <3>4 DEF Leads
  <2>. QED
    BY <1>6, <2>1, <2>2, <2>3, <2>4
<1>14. trip'.here = goals[g] /\ call' = call
  BY <1>1, <1>2, <1>3
<1>15. OnRoute'
  <2>1. trip'.here \in Stops'
    BY <1>8, <1>10, <1>14 DEF Stops
  <2>2. Range(call'.goals) \subseteq Range(trip'.goals) \cup Range(trip'.route)
    BY <1>3, <1>12, <1>14
  <2>3. /\ trip'.route[1] = call'.from /\ trip'.route[Len(trip'.route)] = trip'.here
        /\ trip'.here \in Range(call'.goals) /\ trip'.route # << >>
    BY <1>3, <1>9, <1>10, <1>11, <1>14
  <2>4. \A i \in 1 .. Len(trip'.route) :
           i + 1 <= Len(trip'.route) => Leads(trip'.route[i], trip'.route[i + 1])
    BY <1>3, <1>13
  <2>5. \A i \in 1 .. Len(trip'.route) :
           i + 1 <= Len(trip'.route) => Leads(trip.route[i], trip.route[i + 1])'
    BY <1>8, <2>4
  <2>. QED
    BY <2>1, <2>2, <2>3, <2>5 DEF OnRoute
<1>. QED
  BY <1>3, <1>9, <1>15

\* A line adds a road both ways.
LEMMA ReadLineSymmetric ==
    ASSUME Typed, Symmetric, ReadLine
    PROVE  Symmetric'
<1>1. PICK V, L, a, b, x, y, grown : Reads(V, L, a, b, x, y, grown)
  BY ReadLineIs
<1>2. PICK there, all : there = Appended(grown, a, x) /\ all = adjacency'
  OBVIOUS
<1>3. /\ Vertex' = V /\ Vertex \subseteq V /\ a \in V /\ b \in V
      /\ x \in L /\ y \in L /\ x[1] = b /\ y[1] = a
      /\ grown \in [V -> Seq(L)] /\ there \in [V -> Seq(L)]
      /\ all = Appended(there, b, y) /\ all \in [V -> Seq(L)]
  BY <1>1, <1>2 DEF Reads
<1>4. /\ \A v \in Vertex : grown[v] = adjacency[v]
      /\ \A v \in V \ Vertex : grown[v] = << >>
  <2>1. grown = [v \in V |-> IF v \in Vertex THEN adjacency[v] ELSE << >>]
    BY <1>1 DEF Reads
  <2>. QED
    BY <1>3, <2>1
<1>5. /\ \A v \in V : v # a => Range(there[v]) = Range(grown[v])
      /\ Range(there[a]) = Range(grown[a]) \cup {x}
  <2>1. /\ there = Appended(grown, a, x) /\ grown \in [V -> Seq(L)] /\ a \in V /\ x \in L
        /\ there \in [V -> Seq(L)]
    BY <1>2, <1>3
  <2>2. OneMoreAt(V, grown, there, a, x)
    BY <2>1, AppendedIs
  <2>. QED
    BY <2>2 DEF OneMoreAt
<1>6. /\ \A v \in V : v # b => Range(all[v]) = Range(there[v])
      /\ Range(all[b]) = Range(there[b]) \cup {y}
  <2>1. /\ all = Appended(there, b, y) /\ there \in [V -> Seq(L)] /\ b \in V /\ y \in L
        /\ all \in [V -> Seq(L)]
    BY <1>3
  <2>2. OneMoreAt(V, there, all, b, y)
    BY <2>1, AppendedIs
  <2>. QED
    BY <2>2 DEF OneMoreAt
<1>7. /\ \A v \in V : Range(grown[v]) \subseteq Range(all[v])
      /\ x \in Range(all[a]) /\ y \in Range(all[b])
  BY <1>3, <1>5, <1>6
<1>8. ASSUME NEW v \in V, NEW e \in Range(all[v]) PROVE \E d \in Range(all[e[1]]) : d[1] = v
  <2>1. CASE e \in Range(grown[v])
    <3>1. v \in Vertex
      <4>1. Range(<< >>) = {}
        BY DEF Range
      <4>. QED
        BY <1>4, <2>1, <4>1
    <3>2. e \in Range(adjacency[v])
      BY <1>4, <2>1, <3>1
    <3>3. e[1] \in Vertex
      BY <3>1, <3>2, EdgeFields DEF Typed
    <3>4. PICK d \in Range(adjacency[e[1]]) : d[1] = v
      BY <3>1, <3>2 DEF Symmetric
    <3>5. d \in Range(all[e[1]])
      BY <1>3, <1>4, <1>7, <3>3, <3>4
    <3>. QED
      BY <3>4, <3>5
  <2>2. CASE e \notin Range(grown[v])
    <3>1. (v = a /\ e = x) \/ (v = b /\ e = y)
      BY <1>5, <1>6, <1>8, <2>2
    <3>. QED
      BY <1>3, <1>7, <3>1
  <2>. QED
    BY <2>1, <2>2
<1>9. \A v \in V : \A e \in Range(adjacency'[v]) : \E d \in Range(adjacency'[e[1]]) : d[1] = v
  BY <1>2, <1>8
<1>. QED
  BY <1>3, <1>9 DEF Symmetric

LEMMA SymmetricStays ==
    ASSUME Symmetric, UNCHANGED adjacency
    PROVE  Symmetric'
<1>1. Vertex' = Vertex
  BY DEF Vertex
<1>. QED
  BY <1>1 DEF Symmetric

\* The last leg makes the route the answer.
LEMMA LegFoundAnswers ==
    ASSUME Typed, Fits, EndedInv, PathInv, Symmetric, TripInv, LegFound, at' = "answer"
    PROVE  TripVisitsAll'
<1>1. /\ at = "trace" /\ call.name = "GetShortestTrip" /\ UNCHANGED <<adjacency, call>>
      /\ trip'.goals = << >> /\ answer' = trip'.route /\ trip'.route \in Seq(Place)
  <2>1. at' # "search"
    OBVIOUS
  <2>. QED
    BY <2>1, LegFoundIs DEF Search
<1>2. LegInv
  BY <1>1 DEF TripInv
<1>3. CASE ~AllReachable
  <2>1. ~AllReachable'
    BY <1>1, <1>3, TripMeasuresStay
  <2>. QED
    BY <2>1 DEF TripVisitsAll, AllReachable
<1>4. CASE AllReachable
  <2>1. OnRoute' /\ answer' # << >>
    BY <1>1, <1>2, <1>4, RouteGrows
  <2>2. Range(call.goals)' \subseteq Range(answer)'
    <3>1. Range(<< >>) = {}
      BY DEF Range
    <3>. QED
      BY <1>1, <2>1, <3>1 DEF OnRoute
  <2>3. answer'[1] = call'.from /\ Last(answer)' \in Range(call.goals)'
    BY <1>1, <2>1 DEF OnRoute, Last
  <2>4. PICK n \in Nat : n = Len(answer')
    BY <1>1
  <2>5. ASSUME NEW i \in 1 .. n - 1
        PROVE  \/ Edge(answer[i], answer[i + 1])'
               \/ /\ answer'[i] = answer'[i + 1]
                  /\ answer'[i] \in Range(call'.goals) \cup {call'.from}
    <3>1. i \in 1 .. n /\ i + 1 <= n
      BY <2>4
    <3>2. Leads(trip.route[i], trip.route[i + 1])'
      BY <1>1, <2>1, <2>4, <3>1 DEF OnRoute
    <3>. QED
      BY <1>1, <3>2 DEF Leads, Stops
  <2>. QED
    BY <2>1, <2>2, <2>3, <2>4, <2>5 DEF TripVisitsAll
<1>. QED
  BY <1>3, <1>4

\* A leg is begun from the end of the last one.
LEMMA LegFoundLegs ==
    ASSUME Typed, Fits, EndedInv, PathInv, Symmetric, LegInv, LegFound, at' # "answer"
    PROVE  LegInv'
<1>1. /\ UNCHANGED <<file, adjacency, call>> /\ trip'.goals # << >> /\ OnTrip'
      /\ trip'.distances = << >> /\ Search(trip'.here, trip'.goals[1])
  BY LegFoundIs
<1>2. PICK g \in 1 .. Len(trip.goals) : trip'.goals = RemoveAt(trip.goals, g)
  BY LegFoundIs
<1>3. trip.goals \in Seq(Vertex)
  BY LegFoundIs DEF OnTrip
<1>4. trip'.goals \in Seq(Vertex)
  BY LegFoundIs
<1>5. search'.from = trip'.here /\ search'.to = trip'.goals[1]
  BY <1>1 DEF Search, NewSearch
<1>6. trip'.goals[1] \in Range(trip'.goals)
  <2>1. 1 \in DOMAIN trip'.goals
    BY <1>1, <1>4
  <2>. QED
    BY <2>1 DEF Range
<1>7. Measuring'
  <2>1. Len(trip'.goals) > 0 /\ Len(trip'.distances) = 0
    BY <1>1, <1>4
  <2>. QED
    BY <2>1 DEF Measuring
<1>8. Range(trip'.goals) \subseteq Range(call'.goals)
  <2>1. Range(RemoveAt(trip.goals, g)) \subseteq Range(trip.goals)
    BY <1>2, <1>3, RemoveAtWithin
  <2>. QED
    BY <1>1, <1>2, <2>1 DEF LegInv
<1>9. AllReachable' => OnRoute'
  <2>1. AllReachable' = AllReachable
    BY <1>1, TripMeasuresStay
  <2>. QED
    BY <2>1, RouteGrows
<1>10. call'.from \in Vertex'
  BY <1>1, MapStays DEF LegInv
<1>. QED
  BY <1>5, <1>6, <1>7, <1>8, <1>9, <1>10 DEF LegInv

\* One more distance is known.
LEMMA GoalMeasuredLegs ==
    ASSUME Typed, LegInv, GoalMeasured
    PROVE  LegInv'
<1>1. /\ OnTrip /\ trip'.here = trip.here /\ trip'.goals = trip.goals
      /\ trip'.route = trip.route /\ UNCHANGED <<file, adjacency, call>>
  BY GoalMeasuredIs
<1>2. PICK next \in 1 .. Len(trip.goals) :
          /\ Search(trip.here, trip.goals[next])
          /\ ~Measuring' => next = NearestGoal(trip'.distances)
  BY GoalMeasuredIs
<1>3. search'.from = trip'.here /\ search'.to = trip'.goals[next]
  BY <1>1, <1>2 DEF Search, NewSearch
<1>4. trip'.goals[next] \in Range(trip'.goals)
  <2>1. trip.goals \in Seq(Vertex)
    BY <1>1 DEF OnTrip
  <2>2. next \in DOMAIN trip.goals
    BY <1>2, <2>1
  <2>. QED
    BY <1>1, <2>2 DEF Range
<1>5. ~Measuring' => search'.to = trip'.goals[NearestGoal(trip'.distances)]
  BY <1>2, <1>3
<1>6. AllReachable' => OnRoute'
  <2>1. AllReachable' = AllReachable
    BY <1>1, TripMeasuresStay
  <2>. QED
    BY <1>1, <2>1, OnRouteStays DEF LegInv
<1>7. call'.from \in Vertex' /\ Range(trip'.goals) \subseteq Range(call'.goals)
  BY <1>1, MapStays DEF LegInv
<1>. QED
  BY <1>3, <1>4, <1>5, <1>6, <1>7 DEF LegInv

\* A search of a trip goes on.
LEMMA LegStays ==
    ASSUME LegInv, UNCHANGED <<adjacency, call, trip>>,
           search'.from = search.from, search'.to = search.to
    PROVE  LegInv'
<1>1. AllReachable' => OnRoute'
  <2>1. AllReachable' = AllReachable
    BY TripMeasuresStay
  <2>. QED
    BY <2>1, OnRouteStays DEF LegInv
<1>2. Vertex' = Vertex /\ Measuring' = Measuring
  BY DEF Vertex, Measuring
<1>. QED
  BY <1>1, <1>2 DEF LegInv

\* A trip starts with an empty route and all destinations left.
LEMMA TripStarts ==
    ASSUME Typed, NEW v \in Vertex, NEW goals \in Trips, Range(goals) \subseteq Vertex,
           GetShortestTrip(v, goals), goals # << >>
    PROVE  LegInv' /\ at' = "search"
<1>1. /\ UNCHANGED <<file, adjacency>> /\ Search(v, goals[1])
      /\ trip' = [here |-> v, goals |-> goals, distances |-> << >>, route |-> << >>]
      /\ call' = [name |-> "GetShortestTrip", from |-> v, goals |-> goals]
  BY DEF GetShortestTrip, NoTrip
<1>2. /\ call'.from = v /\ call'.goals = goals /\ trip'.here = v /\ trip'.goals = goals
      /\ trip'.distances = << >> /\ trip'.route = << >>
  BY <1>1
<1>3. /\ at' = "search" /\ search'.from = v /\ search'.to = goals[1]
  BY <1>1 DEF Search, NewSearch
<1>4. goals \in Seq(Vertex)
  BY GoalsOnMap
<1>5. goals[1] \in Range(goals)
  <2>1. 1 \in DOMAIN goals
    BY <1>4
  <2>. QED
    BY <2>1 DEF Range
<1>6. Measuring'
  <2>1. Len(trip'.distances) = 0 /\ Len(trip'.goals) \in Nat \ {0}
    BY <1>2, <1>4
  <2>. QED
    BY <2>1 DEF Measuring
<1>7. OnRoute'
  <2>1. \A i \in 1 .. Len(trip'.route) : FALSE
    BY <1>2
  <2>2. trip'.here \in Stops'
    BY <1>2 DEF Stops
  <2>3. Range(call'.goals) \subseteq Range(trip'.goals) \cup Range(trip'.route)
    BY <1>2
  <2>4. trip'.route = << >> /\ trip'.here = call'.from
    BY <1>2
  <2>. QED
    BY <2>1, <2>2, <2>3, <2>4 DEF OnRoute
<1>8. call'.from \in Vertex'
  BY <1>1, <1>2, MapStays
<1>. QED
  BY <1>2, <1>3, <1>5, <1>6, <1>7, <1>8 DEF LegInv

\* A trip to nowhere is answered at once.
LEMMA EmptyTrip ==
    ASSUME NEW v \in Vertex, GetShortestTrip(v, << >>)
    PROVE  TripVisitsAll' /\ at' = "answer"
<1>1. at' = "answer" /\ answer' = << >> /\ call'.goals = << >>
  BY DEF GetShortestTrip
<1>2. Range(call'.goals) = {}
  BY <1>1 DEF Range
<1>3. \A i \in 1 .. Len(answer') - 1 : FALSE
  BY <1>1
<1>. QED
  BY <1>1, <1>2, <1>3 DEF TripVisitsAll

LEMMA TripAnswerStays ==
    ASSUME TripVisitsAll, UNCHANGED <<adjacency, at, call, answer>>
    PROVE  TripVisitsAll'
<1>1. /\ Reachable(call.from)' = Reachable(call.from)
      /\ \A v, w : Edge(v, w)' = Edge(v, w)
  BY MeasuresStay
<1>. QED
  BY <1>1 DEF TripVisitsAll, Answer

\* What a trip needs to visit all its destinations.
TripInvs == Symmetric /\ TripInv /\ TripVisitsAll

LEMMA TripInvsStep ==
    ASSUME SearchInvs, AnswerInvs, Fits, TripInvs, [Next]_vars
    PROVE  TripInvs'
<1>1. Typed /\ EndedInv /\ PathInv /\ Symmetric /\ TripInv /\ TripVisitsAll
  BY DEF SearchInvs, AnswerInvs, TripInvs
\* Where no trip is under way, and none is answered.
<1>2. ASSUME Symmetric', \/ at' \in {"loading", "idle", "broken"}
                         \/ call'.name # "GetShortestTrip"
      PROVE  TripInvs'
  BY <1>2 DEF TripInvs, TripInv, TripVisitsAll, Answer
\* Where a search of one is.
<1>3. ASSUME Symmetric', at' \in {"search", "trace"}, call'.name = "GetShortestTrip" => LegInv'
      PROVE  TripInvs'
  BY <1>3 DEF TripInvs, TripInv, TripVisitsAll, Answer
\* Where one goes on.
<1>4. ASSUME Symmetric', at \in {"search", "trace"}, at' \in {"search", "trace"},
             UNCHANGED <<adjacency, call, trip>>,
             search'.from = search.from, search'.to = search.to
      PROVE  TripInvs'
  <2>1. call'.name = "GetShortestTrip" => LegInv
    BY <1>1, <1>4 DEF TripInv
  <2>2. call'.name = "GetShortestTrip" => LegInv'
    BY <1>4, <2>1, LegStays
  <2>. QED
    BY <1>3, <1>4, <2>2
\* Where one is answered.
<1>5. ASSUME Symmetric', at' = "answer", TripVisitsAll' PROVE TripInvs'
  BY <1>5 DEF TripInvs, TripInv
<1>6. UNCHANGED adjacency => Symmetric'
  BY <1>1, SymmetricStays
<1>7. CASE ReadLine
  <2>1. at = "loading" /\ UNCHANGED <<at, call, search, path, trip, answer>>
    BY <1>7, Zenon DEF ReadLine
  <2>2. Symmetric'
    BY <1>1, <1>7, ReadLineSymmetric
  <2>. QED
    BY <1>2, <2>1, <2>2
<1>8. CASE FileEnds \/ Reply
  BY <1>2, <1>6, <1>8 DEF FileEnds, Reply
<1>9. CASE Visit
  <2>1. PICK x, s : /\ at = "search" /\ search \in Locals /\ search.queue # {}
                    /\ x = Foremost(search.queue) /\ s = Marked(search, x)
                    /\ IF x[2] = search.to
                       THEN at' = "trace" /\ search' = [s EXCEPT !.vertex = s.to]
                       ELSE at' = at /\ search' = Relaxed(s, x[2])
                    /\ UNCHANGED <<file, adjacency, call, path, trip, answer>>
    BY <1>1, <1>9, VisitIs
  <2>2. /\ s \in Locals /\ s.from = search.from /\ s.to = search.to /\ x[2] \in Vertex
        /\ x[2] \in s.visited
    <3>1. Graph
      BY <1>1 DEF Typed
    <3>. QED
      BY <2>1, <3>1, MarkedFields
  <2>3. CASE x[2] = search.to
    <3>1. s.to \in Vertex /\ search' = [s EXCEPT !.vertex = s.to] /\ at' = "trace"
      BY <2>1, <2>2, <2>3, LocalFields
    <3>2. search'.from = s.from /\ search'.to = s.to
      BY <2>2, <3>1, LocalsTraced
    <3>. QED
      BY <1>4, <1>6, <2>1, <2>2, <3>1, <3>2
  <2>4. CASE x[2] # search.to
    <3>1. search' = Relaxed(s, x[2]) /\ at' = "search"
      BY <2>1, <2>4
    <3>2. search'.from = s.from /\ search'.to = s.to
      BY <1>1, <2>2, <3>1, RelaxedSees DEF Seen, Typed
    <3>. QED
      BY <1>4, <1>6, <2>1, <2>2, <3>1, <3>2
  <2>. QED
    BY <2>3, <2>4
<1>10. CASE QueueEmpty
  <2>1. /\ at = "search" /\ search \in Locals /\ at' = "trace"
        /\ search' = [search EXCEPT !.vertex = search.to]
        /\ UNCHANGED <<adjacency, call, trip>>
    BY <1>1, <1>10 DEF Typed, QueueEmpty, Trace
  <2>2. search'.from = search.from /\ search'.to = search.to
    BY <2>1, LocalFields, LocalsTraced
  <2>. QED
    BY <1>4, <1>6, <2>1, <2>2
<1>11. CASE InsertVertex
  <2>1. /\ at = "trace" /\ search \in Locals /\ UNCHANGED <<adjacency, call, trip>>
        /\ search' = [search EXCEPT !.vertex = search.prev[search.vertex]]
    BY <1>1, <1>11 DEF Typed, InsertVertex
  <2>2. search'.from = search.from /\ search'.to = search.to
    BY <2>1 DEF Locals
  <2>3. at' \in {"trace", "broken"}
    BY <1>11, <2>1 DEF InsertVertex
  <2>. QED
    BY <1>2, <1>4, <1>6, <2>1, <2>2, <2>3
<1>12. CASE PathFound \/ DistanceFound
  <2>1. at' = "answer" /\ call'.name # "GetShortestTrip" /\ UNCHANGED adjacency
    BY <1>12 DEF PathFound, DistanceFound, Traced, Answered
  <2>. QED
    BY <1>2, <1>6, <2>1
<1>13. CASE GoalMeasured
  <2>1. /\ at = "trace" /\ call.name = "GetShortestTrip" /\ UNCHANGED adjacency
        /\ \E n \in 1 .. Len(trip.goals) : Search(trip.here, trip.goals[n])
    BY <1>1, <1>13, GoalMeasuredIs
  <2>2. at' = "search"
    BY <2>1 DEF Search
  <2>3. LegInv
    BY <1>1, <2>1 DEF TripInv
  <2>4. LegInv'
    BY <1>1, <1>13, <2>3, GoalMeasuredLegs
  <2>. QED
    BY <1>3, <1>6, <2>1, <2>2, <2>4
<1>14. CASE LegFound
  <2>1. /\ at = "trace" /\ call.name = "GetShortestTrip" /\ UNCHANGED adjacency
        /\ at' = "answer" \/ Search(trip'.here, trip'.goals[1])
    BY <1>1, <1>14, LegFoundIs
  <2>2. LegInv
    BY <1>1, <2>1 DEF TripInv
  <2>3. CASE at' = "answer"
    BY <1>1, <1>5, <1>6, <1>14, <2>1, <2>3, LegFoundAnswers
  <2>4. CASE at' # "answer"
    <3>1. at' = "search"
      BY <2>1, <2>4 DEF Search
    <3>2. LegInv'
      BY <1>1, <1>14, <2>2, <2>4, LegFoundLegs
    <3>. QED
      BY <1>3, <1>6, <2>1, <3>1, <3>2
  <2>. QED
    BY <2>3, <2>4
<1>15. ASSUME NEW v \in Vertex, NEW w \in Vertex, GetDistance(v, w) PROVE TripInvs'
  <2>1. at' = "answer" /\ call'.name # "GetShortestTrip" /\ UNCHANGED adjacency
    BY <1>15 DEF GetDistance
  <2>. QED
    BY <1>2, <1>6, <2>1
<1>16. ASSUME NEW v \in Vertex, NEW w \in Vertex, SearchingCall(v, w) PROVE TripInvs'
  <2>1. /\ Search(v, w) /\ UNCHANGED adjacency
        /\ call'.name \in {"GetShortestDistance", "GetShortestPath"}
    BY <1>16, SearchingCallIs
  <2>2. at' = "search"
    BY <2>1 DEF Search
  <2>. QED
    BY <1>2, <1>6, <2>1, <2>2
<1>17. ASSUME NEW v \in Vertex, NEW goals \in Trips, Range(goals) \subseteq Vertex,
              GetShortestTrip(v, goals)
       PROVE  TripInvs'
  <2>1. UNCHANGED adjacency
    BY <1>17 DEF GetShortestTrip
  <2>2. CASE goals = << >>
    BY <1>5, <1>6, <1>17, <2>1, <2>2, EmptyTrip
  <2>3. CASE goals # << >>
    <3>1. LegInv' /\ at' = "search"
      BY <1>1, <1>17, <2>3, TripStarts
    <3>. QED
      BY <1>3, <1>6, <2>1, <3>1
  <2>. QED
    BY <2>2, <2>3
<1>18. CASE UNCHANGED vars
  <2>1. UNCHANGED <<adjacency, at, call, search, trip, answer>>
    BY <1>18 DEF vars
  <2>2. TripVisitsAll'
    BY <1>1, <2>1, TripAnswerStays
  <2>3. CASE at \in {"search", "trace"}
    BY <1>4, <1>6, <2>1, <2>3
  <2>4. CASE at \notin {"search", "trace"}
    BY <1>6, <2>1, <2>2, <2>4 DEF TripInvs, TripInv
  <2>. QED
    BY <2>3, <2>4
<1>. QED
  BY <1>7, <1>8, <1>9, <1>10, <1>11, <1>12, <1>13, <1>14, <1>15, <1>16, <1>17, <1>18
     DEF Next, Work, SearchingCall

\* On such a map, where all its destinations can be reached, a trip passes
\* through them all along the roads (nav.cpp, getShortestTrip).
THEOREM TripsStayComplete == Spec /\ []Fits => []TripVisitsAll
<1>1. Init => AnswerInvs
  BY DEF Init, AnswerInvs, PathInv, CallInv, AnswersAreShortest, PathIsShortest,
         DistanceIsShortest, Answer
<1>2. Init => TripInvs
  BY DEF Init, TripInvs, Symmetric, Vertex, TripInv, TripVisitsAll, Answer
<1>3. SearchInvs /\ SearchInvs' /\ Fits /\ AnswerInvs /\ [Next]_vars => AnswerInvs'
  BY AnswerInvsStep
<1>4. SearchInvs /\ AnswerInvs /\ Fits /\ TripInvs /\ [Next]_vars => TripInvs'
  BY TripInvsStep
<1>5. TripInvs => TripVisitsAll
  BY DEF TripInvs
<1>. QED
  BY <1>1, <1>2, <1>3, <1>4, <1>5, SearchInvsHold, PTL DEF Spec

=============================================================================
