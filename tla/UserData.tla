------------------------------ MODULE UserData ------------------------------
(***************************************************************************)
(* What a user may rely on about the data kept for him: from login on he   *)
(* works on a copy of all that is stored, logging out stores the copy, one *)
(* item after the other, and nothing else ever writes to his store.  A     *)
(* crash, a page that is loaded again, or a file that cannot be written    *)
(* ends the work at any time; within the saving it leaves a part stored.   *)
(***************************************************************************)
CONSTANTS
    User, NoUser, Item,
    Extra      \* items that may turn up in the copy without being stored

VARIABLES
    stored,    \* what is kept for each user
    active,    \* the user at work
    working,   \* his copy
    saving     \* whether he is logging out

vars == <<stored, active, working, saving>>

Init ==
    /\ stored \in [User -> SUBSET Item]
    /\ active = NoUser /\ working = {} /\ saving = FALSE

Open(u, extra) ==
    /\ active = NoUser
    /\ active' = u
    /\ working' = stored[u] \cup extra
    /\ UNCHANGED <<stored, saving>>

Edit(items) ==
    /\ active # NoUser /\ ~saving
    /\ working' = items
    /\ UNCHANGED <<stored, active, saving>>

\* From here on the copy is what it is.
BeginSave ==
    /\ active # NoUser /\ ~saving
    /\ saving' = TRUE
    /\ UNCHANGED <<stored, active, working>>

Truncate ==
    /\ saving
    /\ stored' = [stored EXCEPT ![active] = {}]
    /\ UNCHANGED <<active, working, saving>>

Write(x) ==
    /\ saving /\ x \in working
    /\ stored' = [stored EXCEPT ![active] = @ \cup {x}]
    /\ UNCHANGED <<active, working, saving>>

Leave == active' = NoUser /\ working' = {} /\ saving' = FALSE

EndSave ==
    /\ saving /\ stored[active] = working
    /\ Leave
    /\ UNCHANGED stored

\* What the user did since his login is lost, within the saving a part of all.
Abort ==
    /\ active # NoUser
    /\ Leave
    /\ UNCHANGED stored

Next ==
    \/ \E u \in User, extra \in SUBSET Extra : Open(u, extra)
    \/ \E items \in SUBSET Item : Edit(items)
    \/ BeginSave \/ Truncate
    \/ \E x \in Item : Write(x)
    \/ EndSave
    \/ Abort

Spec == Init /\ [][Next]_vars
=============================================================================
