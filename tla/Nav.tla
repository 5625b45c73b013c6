-------------------------------- MODULE Nav --------------------------------
(***************************************************************************)
(* The campus map (nav/nav.cpp, called by api/nav.cpp): how it is read at  *)
(* the start of the program, the search for a shortest path, one visited   *)
(* vertex at a time, and the calls of a page that search.                  *)
(*                                                                         *)
(* A call works on locals and only reads the map, so calls of several      *)
(* threads do not meet, and one is followed at a time.  A page is taken to *)
(* name vertices that are on the map; the code does not look.              *)
(***************************************************************************)
EXTENDS Integers, SequencesExt

CONSTANTS
    Files,       \* the contents Graph.txt may have: lines of <<vertex, vertex, distance>>
    Trips,       \* the lists of destinations a page asks for
    Capacity     \* of a new mtl::Vector, 16

ASSUME FilesAssumption == Files \subseteq Seq(Nat \X Nat \X (Nat \ {0}))
ASSUME TripsAssumption == Trips \subseteq Seq(Nat)
ASSUME CapacityAssumption == Capacity \in Nat \ {0}

VARIABLES
    file,         \* the lines not read yet
    adjacency,    \* adjacencyList: per vertex the sequence of <<neighbour, distance>>
    at,           \* where the program is
    call,         \* the call that is answered: its name and arguments
    search,       \* the locals of getShortestPath
    path,         \* the vector it returns, as far as it is built
    trip,         \* the locals of getShortestTrip
    answer        \* a sequence, of one number when the answer is a number

vars == <<file, adjacency, at, call, search, path, trip, answer>>

Vertex == DOMAIN adjacency
None == -1
Infinity == 2147483647     \* numeric_limits<int>::max()
Garbage == -2              \* what memory that was never written holds, or a header
NoCall == [name |-> "none"]
NoSearch == [from |-> None, to |-> None]
NoTrip == [here |-> None, goals |-> << >>, distances |-> << >>, route |-> << >>]

-----------------------------------------------------------------------------
(* The map. *)

Init ==
    /\ file \in Files
    /\ adjacency = << >>
    /\ at = "loading"
    /\ call = NoCall /\ search = NoSearch /\ path = << >> /\ trip = NoTrip
    /\ answer = << >>

\* Mutant of Grown: the last vertex has no place.
GrownShort(n) ==
    [v \in Vertex \cup 0..(n - 1) |-> IF v \in Vertex THEN adjacency[v] ELSE << >>]

\* resize: there is a place for every vertex up to n.
Grown(n) ==
    [v \in Vertex \cup 0..n |-> IF v \in Vertex THEN adjacency[v] ELSE << >>]

\* addEdge for a line of the file.
ReadLine ==
    LET a == Head(file)[1]
        b == Head(file)[2]
        d == Head(file)[3]
        grown == Grown(IF a < b THEN b ELSE a)
        there == [grown EXCEPT ![a] = Append(@, <<b, d>>)]
    IN
    /\ at = "loading" /\ file # << >>
    /\ file' = Tail(file)
    /\ adjacency' = [there EXCEPT ![b] = Append(@, <<a, d>>)]
    /\ UNCHANGED <<at, call, search, path, trip, answer>>

FileEnds ==
    /\ at = "loading" /\ file = << >>
    /\ at' = "idle"
    /\ UNCHANGED <<file, adjacency, call, search, path, trip, answer>>

\* getDistance: the first edge counts.
Distance(v1, v2) ==
    LET i == SelectInSeq(adjacency[v1], LAMBDA e : e[1] = v2)
    IN  IF i = 0 THEN Infinity ELSE adjacency[v1][i][2]

\* The sum in getShortestDistance.
Along(p) ==
    LET sum[n \in 0..Len(p)] == IF n <= 1 THEN 0 ELSE sum[n - 1] + Distance(p[n - 1], p[n])
    IN  sum[Len(p)]

-----------------------------------------------------------------------------
(* getShortestPath. *)

NewSearch(from, to) ==
    [from |-> from, to |-> to,
     dist |-> [v \in Vertex |-> IF v = from THEN 0 ELSE Infinity],
     prev |-> [v \in Vertex |-> None],
     visited |-> {},
     queue |-> {<<0, from>>},     \* no pair is pushed twice: each push lowers a distance
     vertex |-> None]

Search(from, to) ==
    /\ at' = "search"
    /\ search' = NewSearch(from, to)
    /\ path' = << >>

\* Mutant of Foremost: a heap with the largest at the top.
Rearmost(queue) ==
    CHOOSE x \in queue : \A y \in queue : y[1] < x[1] \/ (y[1] = x[1] /\ y[2] <= x[2])

\* top() of the queue of pairs, the smallest.
Foremost(queue) ==
    CHOOSE x \in queue : \A y \in queue : x[1] < y[1] \/ (x[1] = y[1] /\ x[2] <= y[2])

\* Mutant of Popped: the entry stays in the queue.
NotPopped(queue, x) == queue

Popped(queue, x) == queue \ {x}

Lowered(s, u, v, d) ==
    [s EXCEPT !.dist[v] = d, !.prev[v] = u, !.queue = @ \cup {<<d, v>>}]

\* Mutant of Improves: the last neighbour seen is the predecessor.
Unvisited(s, u, e) == e[1] \notin s.visited

Improves(s, u, e) == e[1] \notin s.visited /\ s.dist[u] + e[2] < s.dist[e[1]]

\* The loop over the neighbours of u.
Relaxed(s, u) ==
    LET edges == adjacency[u]
        after[n \in 0..Len(edges)] ==
            IF n = 0 THEN s
            ELSE LET r == after[n - 1]
                     e == edges[n]
                 IN  IF Improves(r, u, e) THEN Lowered(r, u, e[1], r.dist[u] + e[2]) ELSE r
    IN  after[Len(edges)]

\* The loop that puts the path together starts at the end and has to do so even
\* when the search has not reached it.
Trace(s) ==
    /\ at' = "trace"
    /\ search' = [s EXCEPT !.vertex = s.to]

Visit ==
    /\ at = "search" /\ search.queue # {}
    /\ LET x == Foremost(search.queue)
           s == [search EXCEPT !.queue = Popped(@, x), !.visited = @ \cup {x[2]}]
       IN  IF x[2] = search.to
           THEN Trace(s)
           ELSE search' = Relaxed(s, x[2]) /\ UNCHANGED at
    /\ UNCHANGED <<file, adjacency, call, path, trip, answer>>

QueueEmpty ==
    /\ at = "search" /\ search.queue = {}
    /\ Trace(search)
    /\ UNCHANGED <<file, adjacency, call, path, trip, answer>>

\* A vector is full at its first capacity and each time that has doubled.
Full(n) ==
    LET size[k \in 0..n] == IF k = 0 THEN Capacity ELSE 2 * size[k - 1]
    IN  \E k \in 0..n : n = size[k]

\* insert(begin(), 1, v).  When the vector is full reserve moves it, and pos
\* still points to the old place: below the new one, so that all memory between
\* is shifted, or above, so that nothing is; v itself is lost in either case.
InsertVertex ==
    /\ at = "trace" /\ search.vertex # None
    /\ \/ /\ ~Full(Len(path))
          /\ path' = <<search.vertex>> \o path
          /\ UNCHANGED at
       \/ /\ Full(Len(path))
          /\ path' \in {Append(path, Garbage), <<Garbage>> \o path}
          /\ at' \in {at, "broken"}
    /\ search' = [search EXCEPT !.vertex = search.prev[@]]
    /\ UNCHANGED <<file, adjacency, call, trip, answer>>

-----------------------------------------------------------------------------
(* The calls. *)

GetDistance(v1, v2) ==
    /\ at = "idle"
    /\ at' = "answer"
    /\ call' = [name |-> "GetDistance", from |-> v1, to |-> v2]
    /\ answer' = <<Distance(v1, v2)>>
    /\ UNCHANGED <<file, adjacency, search, path, trip>>

GetShortestDistance(from, to) ==
    /\ at = "idle"
    /\ call' = [name |-> "GetShortestDistance", from |-> from, to |-> to]
    /\ Search(from, to)
    /\ UNCHANGED <<file, adjacency, trip, answer>>

GetShortestPath(from, to) ==
    /\ at = "idle"
    /\ call' = [name |-> "GetShortestPath", from |-> from, to |-> to]
    /\ Search(from, to)
    /\ UNCHANGED <<file, adjacency, trip, answer>>

GetShortestTrip(from, goals) ==
    /\ at = "idle"
    /\ call' = [name |-> "GetShortestTrip", from |-> from, goals |-> goals]
    /\ trip' = [NoTrip EXCEPT !.here = from, !.goals = goals]
    /\ IF goals = << >>
       THEN at' = "answer" /\ answer' = << >> /\ UNCHANGED <<search, path>>
       ELSE Search(from, goals[1]) /\ UNCHANGED answer
    /\ UNCHANGED <<file, adjacency>>

Traced(name) == at = "trace" /\ search.vertex = None /\ call.name = name

Answered(value) ==
    /\ at' = "answer"
    /\ answer' = value

PathFound ==
    /\ Traced("GetShortestPath")
    /\ Answered(path)
    /\ UNCHANGED <<file, adjacency, call, search, path, trip>>

\* A vertex that is none is looked up outside the map.
PathLength == IF Range(path) \subseteq Vertex THEN Along(path) ELSE Garbage

DistanceFound ==
    /\ Traced("GetShortestDistance")
    /\ Answered(<<PathLength>>)
    /\ UNCHANGED <<file, adjacency, call, search, path, trip>>

\* The first of the goals at the least distance.
NearestGoal(distances) ==
    SelectInSeq(distances, LAMBDA d : \A i \in DOMAIN distances : d <= distances[i])

Measuring == Len(trip.distances) < Len(trip.goals)

\* The distance to one of the goals left is known: the next one is measured, or
\* the path to the nearest is searched once more.
GoalMeasured ==
    LET distances == Append(trip.distances, PathLength)
        next == IF Len(distances) < Len(trip.goals) THEN Len(distances) + 1
                ELSE NearestGoal(distances)
    IN
    /\ Traced("GetShortestTrip") /\ Measuring
    /\ trip' = [trip EXCEPT !.distances = distances]
    /\ Search(trip.here, trip.goals[next])
    /\ UNCHANGED <<file, adjacency, call, answer>>

\* Mutant of Arrived: the next leg starts where this one did.
ArrivedNot(goal) == [here |-> trip.here, distances |-> << >>, route |-> trip.route \o path,
                     goals |-> RemoveAt(trip.goals, goal)]

Arrived(goal) == [here |-> trip.goals[goal], distances |-> << >>, route |-> trip.route \o path,
                  goals |-> RemoveAt(trip.goals, goal)]

LegFound ==
    LET next == Arrived(NearestGoal(trip.distances)) IN
    /\ Traced("GetShortestTrip") /\ ~Measuring
    /\ trip' = next
    /\ IF next.goals = << >>
       THEN Answered(next.route) /\ UNCHANGED <<search, path>>
       ELSE Search(next.here, next.goals[1]) /\ UNCHANGED answer
    /\ UNCHANGED <<file, adjacency, call>>

\* The answer goes to the page, and the locals go.
Reply ==
    /\ at = "answer"
    /\ at' = "idle"
    /\ call' = NoCall /\ search' = NoSearch /\ path' = << >> /\ trip' = NoTrip
    /\ answer' = << >>
    /\ UNCHANGED <<file, adjacency>>

Work ==
    \/ ReadLine \/ FileEnds
    \/ Visit \/ QueueEmpty \/ InsertVertex
    \/ PathFound \/ DistanceFound \/ GoalMeasured \/ LegFound
    \/ Reply

Next ==
    \/ Work
    \/ \E v, w \in Vertex :
          GetDistance(v, w) \/ GetShortestDistance(v, w) \/ GetShortestPath(v, w)
    \/ \E v \in Vertex : \E goals \in Trips :
          Range(goals) \subseteq Vertex /\ GetShortestTrip(v, goals)

Spec == Init /\ [][Next]_vars
FairSpec == Spec /\ WF_vars(Work)

-----------------------------------------------------------------------------
(* Properties. *)

\* The variables keep their types: no list of neighbours leads off the map.
TypeOK ==
    /\ at \in {"loading", "idle", "search", "trace", "answer", "broken"}
    /\ \A v \in Vertex : Range(adjacency[v]) \subseteq Vertex \X Nat
    /\ at = "search" =>
          /\ search.dist \in [Vertex -> 0..Infinity]
          /\ search.prev \in [Vertex -> Vertex \cup {None}]
          /\ search.visited \subseteq Vertex
          /\ search.queue \subseteq Nat \X Vertex
    /\ Range(path) \subseteq Vertex \cup {Garbage}

\* <<vertex, length>> for the walks from a vertex with at most so many edges.
Walks(from) ==
    LET upTo[n \in 0..Cardinality(Vertex)] ==
            IF n = 0 THEN {<<from, 0>>}
            ELSE LET shorter == upTo[n - 1]
                 IN  shorter \cup UNION {{<<e[1], x[2] + e[2]>> : e \in Range(adjacency[x[1]])}
                                          : x \in shorter}
    IN  upTo[Cardinality(Vertex) - 1]

Reachable(from) == {x[1] : x \in Walks(from)}
Shortest(from, to) == Min({x[2] : x \in {y \in Walks(from) : y[1] = to}})

Edge(v, w) == \E e \in Range(adjacency[v]) : e[1] = w

\* The least length a walk along p can have.
LengthOf(p) ==
    LET edges(n) == {e \in Range(adjacency[p[n - 1]]) : e[1] = p[n]}
        sum[n \in 0..Len(p)] == IF n <= 1 THEN 0 ELSE sum[n - 1] + Min({e[2] : e \in edges(n)})
    IN  sum[Len(p)]

IsWalk(p) ==
    /\ Range(p) \subseteq Vertex
    /\ \A i \in 1..(Len(p) - 1) : Edge(p[i], p[i + 1])

\* A visited vertex has its final distance, which is why the loop of
\* getShortestPath may leave it alone and may stop at the end vertex.
SettledAreFinal ==
    at = "search" =>
        \A v \in search.visited : search.dist[v] = Shortest(search.from, v)

Answer(name) == at = "answer" /\ call.name = name

\* getShortestPath returns a walk from start to end that no other one is
\* shorter than, and just the end when there is no walk.
PathIsShortest ==
    Answer("GetShortestPath") =>
        IF call.to \in Reachable(call.from)
        THEN /\ IsWalk(answer)
             /\ answer[1] = call.from /\ Last(answer) = call.to
             /\ LengthOf(answer) = Shortest(call.from, call.to)
        ELSE answer = <<call.to>>

\* On a map without a second edge between two vertices getShortestDistance
\* returns the least distance, and 0 when there is none.
DistanceIsShortest ==
    (/\ Answer("GetShortestDistance")
     /\ \A v \in Vertex : IsInjective([i \in DOMAIN adjacency[v] |-> adjacency[v][i][1]]))
        => answer = <<IF call.to \in Reachable(call.from)
                      THEN Shortest(call.from, call.to) ELSE 0>>

\* Both searches of a page are answered with the shortest.
AnswersAreShortest == PathIsShortest /\ DistanceIsShortest

\* When all destinations can be reached, a trip passes through all of them,
\* leads from vertex to neighbouring vertex and names a vertex twice in a row
\* only where one leg ends and the next one starts.
TripVisitsAll ==
    (Answer("GetShortestTrip") /\ Range(call.goals) \subseteq Reachable(call.from))
        => /\ Range(call.goals) \subseteq Range(answer)
           /\ answer # << >> =>
                 answer[1] = call.from /\ Last(answer) \in Range(call.goals)
           /\ \A i \in 1..(Len(answer) - 1) :
                 \/ Edge(answer[i], answer[i + 1])
                 \/ /\ answer[i] = answer[i + 1]
                    /\ answer[i] \in Range(call.goals) \cup {call.from}

\* Every call is answered.
CallsAnswered == at \in {"search", "trace"} ~> at = "answer"
=============================================================================
