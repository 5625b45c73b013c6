----------------------------- MODULE PageCalls -----------------------------
(***************************************************************************)
(* What a page may rely on when it calls window.api: a call gets a promise *)
(* that is settled at most once, with the answer to this call and no       *)
(* other, and only while the page that made the call is there.             *)
(***************************************************************************)
CONSTANTS Call, NoCall

VARIABLES
    open,       \* whether a page is there to make calls and to hear answers
    promise,    \* per call: the state of its promise
    answer      \* per call: the call whose answer settled it

vars == <<open, promise, answer>>

Outcome == {"resolved", "rejected"}
PromiseState == {"unmade", "pending", "gone"} \cup Outcome

Init ==
    /\ open = FALSE
    /\ promise = [c \in Call |-> "unmade"]
    /\ answer = [c \in Call |-> NoCall]

Load ==
    /\ ~open
    /\ open' = TRUE
    /\ UNCHANGED <<promise, answer>>

Make(c) ==
    /\ open /\ promise[c] = "unmade"
    /\ promise' = [promise EXCEPT ![c] = "pending"]
    /\ UNCHANGED <<open, answer>>

Settle(c, outcome) ==
    /\ open /\ promise[c] = "pending"
    /\ promise' = [promise EXCEPT ![c] = outcome]
    /\ answer' = [answer EXCEPT ![c] = c]
    /\ UNCHANGED open

\* The promises of a page go with it, those it still waits for unsettled.
Unload ==
    /\ open
    /\ open' = FALSE
    /\ promise' = [c \in Call |-> IF promise[c] = "pending" THEN "gone" ELSE promise[c]]
    /\ UNCHANGED answer

Next ==
    \/ Load \/ Unload
    \/ \E c \in Call : Make(c)
    \/ \E c \in Call, outcome \in Outcome : Settle(c, outcome)

Spec == Init /\ [][Next]_vars
=============================================================================
