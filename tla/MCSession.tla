----------------------------- MODULE MCSession -----------------------------
(***************************************************************************)
(* An instance of Session.  Two users with an alarm each, who may find the *)
(* other's in memory; a schedule and a lesson that a removal may leave in  *)
(* the table, so that every file may be cut after the first of two lines.  *)
(***************************************************************************)
EXTENDS Session

MCAlarmsOf == [u \in User |-> {20 + u}]
=============================================================================
