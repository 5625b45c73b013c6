------------------------------ MODULE MCRBTree ------------------------------
(***************************************************************************)
(* An instance of RBTree.  Seven keys, so that a missing black node may    *)
(* move up two levels; one node at a time away from the address of its     *)
(* key.  A key has one value, but for the first, which may be assigned     *)
(* another one.                                                            *)
(***************************************************************************)
EXTENDS RBTree

MCValuesOf == [k \in Key |-> IF k = 1 THEN {0, 1} ELSE {k}]
=============================================================================
