-------------------------- MODULE TurnContract --------------------------
(***************************************************************************)
(* What the agent endpoints promise about the turns of one conversation,   *)
(* with no mention of locks, transactions or compensation: a request's     *)
(* turn is stored at most once, may be withdrawn until the client has been *)
(* told of success, and never after.                                       *)
(***************************************************************************)
CONSTANT Requests

VARIABLES
    stored,     \* requests whose turn is stored
    withdrawn,  \* requests whose turn was stored and is no longer
    told,       \* requests whose client was told of success
    bypassed    \* some client did not name the conversation by its id

vars == <<stored, withdrawn, told, bypassed>>

Init == stored = {} /\ withdrawn = {} /\ told = {} /\ bypassed = FALSE

Store(r) ==
    /\ r \notin stored \cup withdrawn
    /\ stored' = stored \cup {r}
    /\ UNCHANGED <<withdrawn, told, bypassed>>

Withdraw(r) ==
    /\ r \in stored \ told
    /\ stored' = stored \ {r} /\ withdrawn' = withdrawn \cup {r}
    /\ UNCHANGED <<told, bypassed>>

\* The conversation itself is withdrawn, with every turn in it.
WithdrawAll ==
    /\ told = {} \/ bypassed
    /\ stored' = {} /\ withdrawn' = withdrawn \cup stored
    /\ UNCHANGED <<told, bypassed>>

Tell(r) ==
    /\ r \notin told
    /\ bypassed \/ r \in stored
    /\ told' = told \cup {r}
    /\ UNCHANGED <<stored, withdrawn, bypassed>>

Bypass == bypassed' = TRUE /\ UNCHANGED <<stored, withdrawn, told>>

Next ==
    \/ \E r \in Requests : Store(r) \/ Withdraw(r) \/ Tell(r)
    \/ WithdrawAll
    \/ Bypass

Spec == Init /\ [][Next]_vars
=============================================================================
