--------------------------- MODULE LeaseLifetime ----------------------------
(***************************************************************************)
(* What a close-gate lease promises, whoever uses and closes it: what it   *)
(* owns is freed once, only after the last user has left, nobody gets in   *)
(* or is granted a commit after the lease has begun to drain, and a        *)
(* draining lease is freed in the end.                                     *)
(***************************************************************************)
EXTENDS Naturals

CONSTANT Users

VARIABLES
    phase,      \* "open", "draining" (nobody may enter) or "freed"
    inside,     \* the users that are inside
    grants      \* commit permits each user has obtained

vars == <<phase, inside, grants>>

Init ==
    /\ phase = "open"
    /\ inside = {}
    /\ grants = [u \in Users |-> 0]

Enter(u) ==
    /\ phase = "open"
    /\ inside' = inside \cup {u}
    /\ UNCHANGED <<phase, grants>>

Leave(u) ==
    /\ u \in inside
    /\ inside' = inside \ {u}
    /\ UNCHANGED <<phase, grants>>

Grant(u) ==
    /\ phase = "open"
    /\ u \in inside
    /\ grants' = [grants EXCEPT ![u] = @ + 1]
    /\ UNCHANGED <<phase, inside>>

Drain ==
    /\ phase = "open"
    /\ phase' = "draining"
    /\ UNCHANGED <<inside, grants>>

Free ==
    /\ phase = "draining"
    /\ inside = {}
    /\ phase' = "freed"
    /\ UNCHANGED <<inside, grants>>

Next ==
    \/ \E u \in Users : Enter(u) \/ Leave(u) \/ Grant(u)
    \/ Drain
    \/ Free

Fairness == WF_vars(Free) /\ \A u \in Users : WF_vars(phase = "draining" /\ Leave(u))

Safety == Init /\ [][Next]_vars

Spec == Safety /\ Fairness
=============================================================================
