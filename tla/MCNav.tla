------------------------------- MODULE MCNav -------------------------------
(***************************************************************************)
(* Instances of Nav.  All maps of up to four places with edges of length 1 *)
(* or 3, on which a detour may be shorter than the direct edge, or as      *)
(* long; maps with two edges between two places; and a road past seventeen *)
(* places.                                                                 *)
(***************************************************************************)
EXTENDS Nav

Pairs == <<<<0, 1>>, <<0, 2>>, <<1, 2>>, <<2, 3>>, <<3, 1>>, <<3, 0>>>>

\* 0 stands for no edge.
Lines(length) ==
    LET present == SelectSeq([i \in 1..6 |-> i], LAMBDA i : length[i] # 0)
    IN  [i \in DOMAIN present |->
            <<Pairs[present[i]][1], Pairs[present[i]][2], length[present[i]]>>]

SmallMaps == {Lines(f) : f \in [1..6 -> {0, 1, 3}]} \ {<< >>}

DoubleRoads == {<<<<0, 1, 3>>, <<1, 2, 1>>, <<0, 1, a>>, <<0, 2, b>>>> : a \in {1, 2}, b \in {1, 3}}

Maps == SmallMaps \cup DoubleRoads

SomeTrips == {<< >>, <<2, 1>>, <<3, 0, 1>>}

LongRoad == {[i \in 1..16 |-> <<i - 1, i, 1>>]}
NoTrips == {}
=============================================================================
