---------------------------- MODULE MCApiBridge ----------------------------
(***************************************************************************)
(* An instance of ApiBridge: three calls, so that a late answer, a fresh   *)
(* one and one under way meet; two pages, under the same frame or another; *)
(* a clock that may stand still or be set back.                            *)
(***************************************************************************)
EXTENDS ApiBridge

TwoInstants == {1, 2}
=============================================================================
