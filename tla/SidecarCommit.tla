---------------------------- MODULE SidecarCommit ---------------------------
(***************************************************************************)
(* What finalization promises: the sidecar at the target path is the only  *)
(* commit, it appears at most once and is never replaced, and a generation *)
(* is acknowledged as finalized only when it is the committed one.         *)
(***************************************************************************)
CONSTANTS
    Generations,    \* the sidecars that may be committed
    Missing         \* no file at the target path

VARIABLES
    target,         \* what is at the target path
    acknowledged    \* the generations reported as finalized

vars == <<target, acknowledged>>

Init == target = Missing /\ acknowledged = {}

Commit ==
    /\ target = Missing
    /\ target' \in Generations
    /\ UNCHANGED acknowledged

Acknowledge ==
    /\ target # Missing
    /\ acknowledged' = acknowledged \cup {target}
    /\ UNCHANGED target

Next == Commit \/ Acknowledge

Spec == Init /\ [][Next]_vars
=============================================================================
