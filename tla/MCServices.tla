----------------------------- MODULE MCServices -----------------------------
(***************************************************************************)
(* The components that share no state with each other or with the engine,    *)
(* one at a time: the import of a team's archive, an account, the model       *)
(* gateway, GitHub's webhooks, the GitHub accounts of a user, and the MCP    *)
(* servers of a session.  Safety only.                                      *)
(***************************************************************************)
EXTENDS TenantImport, Identity, Gateway, Webhooks, Accounts, McpTools, TLC

VARIABLE focus   \* the component this behaviour is about

vars == <<focus, tenantVars, identityVars, gatewayVars, hookVars, accountVars, mcpVars>>

(* The components out of focus stay in one of their initial states.          *)
ServicesInit ==
    /\ focus \in {"import", "identity", "gateway", "webhooks", "accounts", "index", "tools"}
    /\ TenantInit /\ IdentityInit /\ GatewayInit /\ AccountsInit
    /\ WebhookInit /\ (focus # "webhooks" => payload = [comment |-> FALSE, relayed |-> FALSE] /\ linked = {})
    /\ McpInit /\ (focus \notin {"index", "tools"} => ~project)

(* An open session reads nothing of the project's index, and requests on the *)
(* project nothing of the session: a behaviour is about messages or edits.   *)
ServicesNext ==
    /\ UNCHANGED focus
    /\ \/ focus = "import" /\ TenantNext
       \/ focus # "import" /\ UNCHANGED tenantVars
    /\ \/ focus = "identity" /\ IdentityNext
       \/ focus # "identity" /\ UNCHANGED identityVars
    /\ \/ focus = "gateway" /\ GatewayNext
       \/ focus # "gateway" /\ UNCHANGED gatewayVars
    /\ \/ focus = "webhooks" /\ WebhookNext
       \/ focus # "webhooks" /\ UNCHANGED hookVars
    /\ \/ focus = "accounts" /\ AccountsNext
       \/ focus # "accounts" /\ UNCHANGED accountVars
    /\ \/ focus = "index" /\ McpNext /\ sent' = 0
       \/ focus = "tools" /\ McpNext /\ edits' = 0
       \/ focus \notin {"index", "tools"} /\ UNCHANGED mcpVars

ServicesSpec == ServicesInit /\ [][ServicesNext]_vars

(* The configuration gives the sets of requests the same members.          *)
Interchangeable == Permutations(Requests)
=============================================================================
