--------------------------- MODULE MCConversation ---------------------------
(***************************************************************************)
(* The parts of a running task's conversation that share no state with one  *)
(* another, each explored with the others at rest: `focus` says which.      *)
(***************************************************************************)
EXTENDS AgentLoop, Messages, Helpers

VARIABLE focus

vars == <<agentVars, msgVars, helperVars, focus>>

Init ==
    /\ AgentInit /\ MsgInit /\ HelperInit
    /\ focus \in {"loop", "mail", "helpers"}

Next ==
    \/ focus = "loop" /\ AgentNext /\ UNCHANGED <<msgVars, helperVars, focus>>
    \/ focus = "mail" /\ MsgNext /\ UNCHANGED <<agentVars, helperVars, focus>>
    \/ focus = "helpers" /\ HelperNext /\ UNCHANGED <<agentVars, msgVars, focus>>

Spec == Init /\ [][Next]_vars /\ (focus = "mail" => MsgFairness)
=============================================================================
