------------------------------- MODULE MCBoard ------------------------------
(***************************************************************************)
(* The board and the hub that shows it, each explored with the other at     *)
(* rest: they share no state.                                               *)
(***************************************************************************)
EXTENDS TaskDependencies, EventHub

VARIABLE focus

vars == <<boardVars, hubVars, focus>>

(* Task 1 depends on task 2 from the start.                                *)
OneDependency == {<<1, 2>>}

Init == BoardInit /\ HubInit /\ focus \in {"board", "hub"}

Next ==
    \/ focus = "board" /\ BoardNext /\ UNCHANGED <<hubVars, focus>>
    \/ focus = "hub" /\ HubNext /\ UNCHANGED <<boardVars, focus>>

Spec ==
    /\ Init /\ [][Next]_vars
    /\ (focus = "hub" => HubFairness)
=============================================================================
