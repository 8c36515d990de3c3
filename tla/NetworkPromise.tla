--------------------------- MODULE NetworkPromise ---------------------------
(***************************************************************************)
(* What a network change promises the administrator, without processes,    *)
(* files or timers: the device only ever runs a profile that was confirmed *)
(* or the candidate of the one pending change, and a pending change always *)
(* knows a confirmed profile to go back to.                                *)
(***************************************************************************)
CONSTANT Profile

VARIABLES
    running,        \* the profile in force
    pending,        \* the change waiting for a confirmation, if any
    confirmed       \* the first profile and every one reported confirmed

vars == <<running, pending, confirmed>>

Nothing == [phase |-> "none"]

Init ==
    /\ running \in Profile
    /\ pending = Nothing
    /\ confirmed = {running}

Settled == running \in confirmed

\* A change is prepared, in place of an earlier one that was not activated.
Stage ==
    /\ Settled
    /\ \E candidate \in Profile :
        pending' = [phase |-> "staged", saved |-> running, candidate |-> candidate]
    /\ UNCHANGED <<running, confirmed>>

Switch ==
    /\ pending.phase = "staged"
    /\ pending.saved \in confirmed
    /\ running' = pending.candidate
    /\ UNCHANGED <<pending, confirmed>>

\* Only what runs is offered for confirmation.
Offer ==
    /\ pending.phase = "staged"
    /\ running = pending.candidate
    /\ pending' = [pending EXCEPT !.phase = "active"]
    /\ UNCHANGED <<running, confirmed>>

\* A change is confirmed; what runs then is confirmed.
Accept ==
    /\ \E p \in Profile : confirmed' = confirmed \union {p}
    /\ running \in confirmed'
    /\ pending' = Nothing
    /\ UNCHANGED running

\* The rollback, also one that a confirmation came too late for.
Revert ==
    /\ running' \in confirmed
    /\ UNCHANGED <<pending, confirmed>>

\* A pending change is given up once nothing unconfirmed runs.
Drop ==
    /\ Settled
    /\ pending' = Nothing
    /\ UNCHANGED <<running, confirmed>>

Next == Stage \/ Switch \/ Offer \/ Accept \/ Revert \/ Drop

Spec == Init /\ [][Next]_vars
=============================================================================
