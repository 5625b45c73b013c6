----------------------------- MODULE OrderedMap -----------------------------
(***************************************************************************)
(* What the users of mtl::map rely on: a key has one value, insert keeps   *)
(* the value a key has, operator[] lets it be replaced.                    *)
(***************************************************************************)
CONSTANTS
    Key,
    ValuesOf     \* per key, the values it may have

VARIABLE content     \* a function from the keys that are in the map

Init == content = << >>

With(k, v) == [x \in DOMAIN content \cup {k} |-> IF x = k THEN v ELSE content[x]]

Insert(k, v) == content' = IF k \in DOMAIN content THEN content ELSE With(k, v)

Assign(k, v) == content' = With(k, v)

Erase(k) == content' = [x \in DOMAIN content \ {k} |-> content[x]]

Clear == content' = << >>

Next ==
    \/ \E k \in Key : \E v \in ValuesOf[k] : Insert(k, v) \/ Assign(k, v)
    \/ \E k \in Key : Erase(k)
    \/ Clear

Spec == Init /\ [][Next]_content
=============================================================================
