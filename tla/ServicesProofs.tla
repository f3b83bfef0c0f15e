--------------------------- MODULE ServicesProofs ---------------------------
(***************************************************************************)
(* Theorems about the services around the engine: the GitHub accounts of a  *)
(* user, the webhooks, the model gateway, the account's keys and sessions,  *)
(* and the answers of MCP servers.  Each component has its own inductive    *)
(* invariant; none reads a variable of another.                             *)
(***************************************************************************)
EXTENDS Identity, Gateway, Webhooks, Accounts, McpTools, Counting, TLAPS

----------------------------------------------------------------------------
(* GitHub accounts.                                                        *)
AccountRow == [there : BOOLEAN, token : Owners \cup {Nobody}, error : BOOLEAN]
OAuthState == [status : {"none", "issued", "used", "expired"}, account : {0} \cup AccountIds]
CallbackAt == [pc : {"claim", "exchange"}, state : States]
CallbackSaves == [pc : {"save"}, state : States, who : Owners, installed : BOOLEAN]
RenameSaves == [pc : {"save"}, account : AccountIds, old : AccountRow]

(* A rename saves a row that was there when it was loaded.                  *)
AccountsTypeOK ==
    /\ row \in [AccountIds -> AccountRow]
    /\ identity \in [AccountIds -> Owners \cup {Nobody}]
    /\ connected \in [AccountIds -> Owners \cup {Nobody}]
    /\ created \in 0..MaxAccounts
    /\ state \in [States -> OAuthState]
    /\ callback \in [Callbacks -> {NoRequest} \cup CallbackAt \cup CallbackSaves]
    /\ rename \in {NoRequest} \cup RenameSaves
    /\ rename.pc = "save" => rename.old.there

AccountsInv == AccountsTypeOK /\ LinkedIsVerified

LEMMA AccountsStart == AccountsInit => AccountsInv
<1> SUFFICES ASSUME AccountsInit PROVE AccountsInv
  OBVIOUS
<1>1. NoRow \in AccountRow /\ [status |-> "none", account |-> 0] \in OAuthState
  BY DEF NoRow, AccountRow, OAuthState
<1>2. AccountsTypeOK
  BY <1>1, AccountsAssumption DEF AccountsInit, AccountsTypeOK, NoRequest
<1>3. LinkedIsVerified
  BY DEF AccountsInit, LinkedIsVerified, Duplicate
<1> QED BY <1>2, <1>3 DEF AccountsInv

(* What a callback holds while it is at a statement.                        *)
LEMMA CallbackHolds ==
    ASSUME AccountsTypeOK, NEW c \in Callbacks
    PROVE  /\ callback[c].pc \in {"claim", "exchange"} => callback[c] \in CallbackAt
           /\ callback[c].pc = "save" => callback[c] \in CallbackSaves
BY DEF AccountsTypeOK, NoRequest, CallbackAt, CallbackSaves

(* Steps of a callback before its last one write its own record and the     *)
(* state it came with.                                                     *)
LEMMA CallbackTypes ==
    ASSUME AccountsTypeOK, NEW c \in Callbacks,
           \/ \E s \in States : Callback(c, s)
           \/ ClaimState(c) \/ ExchangeFails(c)
           \/ \E who \in Owners, installed \in BOOLEAN : Exchange(c, who, installed)
    PROVE  AccountsTypeOK' /\ UNCHANGED <<row, identity, connected>>
<1> DEFINE Req == {NoRequest} \cup CallbackAt \cup CallbackSaves
<1>1. CASE \E s \in States : Callback(c, s)
  <2>1. PICK s \in States : Callback(c, s)
    BY <1>1
  <2>2. [pc |-> "claim", state |-> s] \in CallbackAt
    BY DEF CallbackAt
  <2>3. callback' \in [Callbacks -> Req]
    BY <2>1, <2>2 DEF Callback, AccountsTypeOK
  <2> QED BY <2>1, <2>3 DEF Callback, AccountsTypeOK
<1>2. CASE ClaimState(c)
  <2>1. callback[c] \in CallbackAt
    BY <1>2, CallbackHolds DEF ClaimState
  <2>2. [callback[c] EXCEPT !.pc = "exchange"] \in CallbackAt
    BY <2>1 DEF CallbackAt
  <2>3. callback' \in [Callbacks -> Req]
    BY <1>2, <2>2 DEF ClaimState, AccountsTypeOK
  <2>4. state' \in [States -> OAuthState]
    BY <1>2, <2>1 DEF ClaimState, AccountsTypeOK, OAuthState, CallbackAt
  <2> QED BY <1>2, <2>3, <2>4 DEF ClaimState, AccountsTypeOK
<1>3. CASE ExchangeFails(c)
  <2>1. callback' \in [Callbacks -> Req]
    BY <1>3 DEF ExchangeFails, AccountsTypeOK
  <2> QED BY <1>3, <2>1 DEF ExchangeFails, AccountsTypeOK
<1>4. CASE \E who \in Owners, installed \in BOOLEAN : Exchange(c, who, installed)
  <2>1. PICK who \in Owners, installed \in BOOLEAN : Exchange(c, who, installed)
    BY <1>4
  <2>2. callback[c] \in CallbackAt
    BY <2>1, CallbackHolds DEF Exchange
  <2>3. [pc |-> "save", state |-> callback[c].state, who |-> who, installed |-> installed] \in CallbackSaves
    BY <2>2 DEF CallbackAt, CallbackSaves
  <2>4. callback' \in [Callbacks -> Req]
    BY <2>1, <2>3 DEF Exchange, AccountsTypeOK
  <2> QED BY <2>1, <2>4 DEF Exchange, AccountsTypeOK
<1> QED BY <1>1, <1>2, <1>3, <1>4

(* What SaveGitHubOAuthAccount writes: nothing, or the row, the identity and *)
(* the installations of one account, whose GitHub user no other account has. *)
LEMMA SaveAccountKeeps ==
    ASSUME AccountsInv, NEW c \in Callbacks, SaveAccount(c)
    PROVE  AccountsInv'
<1> DEFINE to == state[callback[c].state].account
           who == callback[c].who
           account == IF to = 0 THEN created + 1 ELSE to
<1>1. callback[c] \in CallbackSaves
  BY CallbackHolds DEF SaveAccount, AccountsInv
<1>2. /\ who \in Owners /\ callback[c].installed \in BOOLEAN /\ callback[c].state \in States
      /\ to \in {0} \cup AccountIds
  BY <1>1 DEF CallbackSaves, AccountsInv, AccountsTypeOK, OAuthState
<1>3. /\ account \in AccountIds
      /\ callback' = [callback EXCEPT ![c] = NoRequest]
      /\ UNCHANGED <<state, rename>>
  BY Zenon DEF SaveAccount
<1>4. callback' \in [Callbacks -> {NoRequest} \cup CallbackAt \cup CallbackSaves]
  BY <1>3 DEF AccountsInv, AccountsTypeOK
<1>5. CASE UNCHANGED <<row, identity, connected, created>>
  BY <1>3, <1>4, <1>5 DEF AccountsInv, AccountsTypeOK, LinkedIsVerified, Duplicate
<1>6. CASE /\ ~((to # 0 /\ ~row[to].there) \/ Duplicate(to, who))
           /\ SavedRow(account, who) /\ SavedIdentity(account, who)
           /\ ReplacedConnections(account, who, callback[c].installed)
           /\ created' = IF to = 0 THEN account ELSE created
  <2>1. \A i \in AccountIds : identity[i] = who => i = account
    BY <1>3, <1>6 DEF Duplicate, AccountIds
  <2> HIDE DEF to, who, account
  <2>2. [there |-> TRUE, token |-> who, error |-> FALSE] \in AccountRow
    BY <1>2 DEF AccountRow
  <2>3. /\ row' \in [AccountIds -> AccountRow] /\ row'[account].there
        /\ \A i \in AccountIds \ {account} : row'[i] = row[i]
    BY <1>3, <1>6, <2>2 DEF SavedRow, AccountsInv, AccountsTypeOK
  <2>4. /\ identity' \in [AccountIds -> Owners \cup {Nobody}] /\ identity'[account] = who
        /\ \A i \in AccountIds \ {account} : identity'[i] = identity[i]
    BY <1>2, <1>3, <1>6 DEF SavedIdentity, AccountsInv, AccountsTypeOK
  <2>5. /\ connected' \in [AccountIds -> Owners \cup {Nobody}] /\ connected'[account] \in {who, Nobody}
        /\ \A i \in AccountIds \ {account} : connected'[i] = connected[i]
    BY <1>2, <1>3, <1>6 DEF ReplacedConnections, AccountsInv, AccountsTypeOK
  <2>6. created' \in 0..MaxAccounts
    BY <1>3, <1>6, AccountsAssumption DEF AccountsInv, AccountsTypeOK, AccountIds
  <2>7. LinkedIsVerified'
    <3> SUFFICES ASSUME NEW i \in AccountIds
                 PROVE  /\ connected'[i] # Nobody => row'[i].there /\ identity'[i] = connected'[i]
                        /\ identity'[i] # Nobody => \A j \in AccountIds : j # i => identity'[j] # identity'[i]
      BY DEF LinkedIsVerified, Duplicate
    <3>1. /\ connected[i] # Nobody => row[i].there /\ identity[i] = connected[i]
          /\ identity[i] # Nobody => \A j \in AccountIds : j # i => identity[j] # identity[i]
      BY DEF AccountsInv, LinkedIsVerified, Duplicate
    <3> QED BY <2>1, <2>3, <2>4, <2>5, <3>1
  <2> QED BY <1>3, <1>4, <2>3, <2>4, <2>5, <2>6, <2>7 DEF AccountsInv, AccountsTypeOK
<1> QED BY <1>5, <1>6, Zenon DEF SaveAccount

(* A rename writes a row that was there; a deletion takes the identity and   *)
(* the installations with the row; a check touches the error alone.         *)
LEMMA RowKeeps ==
    ASSUME AccountsInv,
           \/ \E i \in AccountIds : LoadRename(i) \/ DeleteAccount(i) \/ \E broken \in BOOLEAN : CheckAccount(i, broken)
           \/ SaveRename
    PROVE  AccountsInv'
<1> USE DEF AccountsInv, LinkedIsVerified, Duplicate
<1>1. ASSUME NEW i \in AccountIds, LoadRename(i) PROVE AccountsInv'
  <2>1. row[i] \in AccountRow /\ row[i].there
    BY <1>1 DEF LoadRename, AccountsTypeOK
  <2>2. rename' \in RenameSaves /\ rename'.old.there
    BY <1>1, <2>1 DEF LoadRename, RenameSaves
  <2> QED BY <1>1, <2>2 DEF LoadRename, AccountsTypeOK
<1>2. ASSUME NEW i \in AccountIds, DeleteAccount(i) PROVE AccountsInv'
  <2>1. row' \in [AccountIds -> AccountRow]
    BY <1>2 DEF DeleteAccount, AccountsTypeOK, NoRow, AccountRow
  <2>2. AccountsTypeOK'
    BY <1>2, <2>1 DEF DeleteAccount, AccountsTypeOK
  <2>3. LinkedIsVerified'
    BY <1>2 DEF DeleteAccount, AccountsTypeOK
  <2> QED BY <2>2, <2>3
<1>3. ASSUME NEW i \in AccountIds, NEW broken \in BOOLEAN, CheckAccount(i, broken) PROVE AccountsInv'
  <2>1. PICK e \in BOOLEAN : row' = [row EXCEPT ![i].error = e]
    BY <1>3 DEF CheckAccount
  <2>2. row' \in [AccountIds -> AccountRow] /\ \A j \in AccountIds : row'[j].there = row[j].there
    BY <2>1 DEF AccountsTypeOK, AccountRow
  <2>3. UNCHANGED <<identity, connected, created, state, callback, rename>>
    BY <1>3 DEF CheckAccount
  <2> QED BY <2>2, <2>3 DEF AccountsTypeOK
<1>4. CASE SaveRename
  <2>1. rename \in RenameSaves /\ rename.old.there
    BY <1>4 DEF SaveRename, AccountsTypeOK, NoRequest
  <2>2. rename.account \in AccountIds /\ rename.old \in AccountRow
    BY <2>1 DEF RenameSaves
  <2>3. row' \in [AccountIds -> AccountRow] /\ \A j \in AccountIds : row[j].there => row'[j].there
    BY <1>4, <2>1, <2>2 DEF SaveRename, AccountsTypeOK
  <2>4. UNCHANGED <<identity, connected, created, state, callback>> /\ rename' = NoRequest
    BY <1>4 DEF SaveRename
  <2> QED BY <2>3, <2>4 DEF AccountsTypeOK, NoRequest
<1> QED BY <1>1, <1>2, <1>3, <1>4

LEMMA AccountsStep == AccountsInv /\ [AccountsNext]_accountVars => AccountsInv'
<1> SUFFICES ASSUME AccountsInv, [AccountsNext]_accountVars PROVE AccountsInv'
  OBVIOUS
<1>1. ASSUME AccountsTypeOK', UNCHANGED <<row, identity, connected>> PROVE AccountsInv'
  BY <1>1 DEF AccountsInv, LinkedIsVerified, Duplicate
<1>2. ASSUME NEW s \in States, NEW account \in {0} \cup AccountIds, StartOAuth(s, account) PROVE AccountsInv'
  <2>1. [status |-> "issued", account |-> account] \in OAuthState
    BY DEF OAuthState
  <2>2. state' \in [States -> OAuthState]
    BY <1>2, <2>1 DEF StartOAuth, AccountsInv, AccountsTypeOK
  <2> QED BY <1>1, <1>2, <2>2 DEF StartOAuth, AccountsInv, AccountsTypeOK
<1>3. ASSUME NEW s \in States, StateExpires(s) PROVE AccountsInv'
  <2>1. state' \in [States -> OAuthState]
    BY <1>3 DEF StateExpires, AccountsInv, AccountsTypeOK, OAuthState
  <2> QED BY <1>1, <1>3, <2>1 DEF StateExpires, AccountsInv, AccountsTypeOK
<1>4. ASSUME NEW c \in Callbacks,
             \/ \E s \in States : Callback(c, s)
             \/ ClaimState(c) \/ ExchangeFails(c)
             \/ \E who \in Owners, installed \in BOOLEAN : Exchange(c, who, installed)
      PROVE  AccountsInv'
  BY <1>1, <1>4, CallbackTypes DEF AccountsInv
<1>5. CASE UNCHANGED accountVars
  BY <1>5 DEF accountVars, AccountsInv, AccountsTypeOK, LinkedIsVerified, Duplicate
<1>6. CASE AccountsNext
  BY <1>2, <1>3, <1>4, <1>6, SaveAccountKeeps, RowKeeps, Zenon DEF AccountsNext
<1> QED BY <1>5, <1>6

(* The installations an account reaches are its verified user's, and no two  *)
(* accounts are verified for one GitHub user: whatever callbacks, renames   *)
(* and deletions overlap (persistGitHubOAuthAccount, DeleteMCPAccount).     *)
THEOREM LinkedIsVerifiedAlways == AccountsSpec => []LinkedIsVerified
<1>1. AccountsInv => LinkedIsVerified
  BY DEF AccountsInv
<1> QED BY <1>1, AccountsStart, AccountsStep, PTL DEF AccountsSpec

----------------------------------------------------------------------------
(* Webhooks.                                                               *)
PlainPC == {"load", "claim", "relay", "comment", "list", "next", "complete"}
TaskPC == {"waking", "woke", "fail", "next", "complete"}
PlainHook == [pc : PlainPC, token : Nat, late : BOOLEAN, todo : SUBSET HookTasks]
TaskHook == [pc : TaskPC, token : Nat, late : BOOLEAN, todo : SUBSET HookTasks, task : HookTasks]
HookState == {NoHook} \cup PlainHook \cup TaskHook
DeliveryRow == [status : {"none", "pending", "processing", "failed", "completed"},
                token : Nat, live : BOOLEAN, forwarded : BOOLEAN]
TargetRow == [status : {"none", "pending", "processing", "completed"}, token : Nat, live : BOOLEAN]

WebhookTypeOK ==
    /\ payload \in [comment : BOOLEAN, relayed : BOOLEAN]
    /\ delivery \in DeliveryRow
    /\ target \in [HookTasks -> TargetRow]
    /\ linked \subseteq HookTasks /\ woken \subseteq HookTasks
    /\ comments \in [HookTasks -> Nat]
    /\ hook \in [Hooks -> HookState]
    /\ attempts \in Nat

Served(h) == hook[h].pc # "none"

(* A request's token is its own.                                            *)
TokensInv ==
    /\ \A h \in Hooks : Served(h) => hook[h].token <= attempts
    /\ \A h, g \in Hooks : Served(h) /\ Served(g) /\ hook[h].token = hook[g].token => h = g

(* The lease is the request's that may still write: it has claimed the       *)
(* delivery and its context has not ended.                                  *)
Works(h) == hook[h].pc \notin {"none", "load", "claim"} /\ ~hook[h].late
LeaseInv ==
    \A h \in Hooks : Works(h) =>
        delivery.status = "processing" /\ delivery.live /\ delivery.token = hook[h].token

(* A wake holds its target, and one that is over has woken it.              *)
WakeInv ==
    \A h \in Hooks :
        /\ hook[h].pc = "waking" =>
              LET t == hook[h].task IN
              target[t].status = "processing" /\ target[t].live /\ target[t].token = hook[h].token
        /\ hook[h].pc = "woke" => hook[h].task \in woken

(* What is left to wake, and what has been woken, has a row.                *)
TodoInv ==
    \A h \in Hooks : Served(h) =>
        /\ \A t \in hook[h].todo : target[t].status # "none"
        /\ hook[h].pc = "woke" => target[hook[h].task].status # "none"

(* A comment comes with its outbox row, which is completed after the wake.   *)
OutboxInv ==
    \A t \in HookTasks :
        /\ comments[t] = IF target[t].status = "none" THEN 0 ELSE 1
        /\ target[t].status = "completed" => t \in woken
        /\ ~payload.comment => comments[t] = 0

(* Nothing is left to wake once a request is about to complete the delivery. *)
AllWoken == \A t \in HookTasks : comments[t] = 1 => t \in woken
DoneInv ==
    /\ delivery.status = "completed" => AllWoken
    /\ \A h \in Hooks : Works(h) /\ hook[h].pc = "complete" => AllWoken

WebhookInv == WebhookTypeOK /\ TokensInv /\ LeaseInv /\ WakeInv /\ TodoInv /\ OutboxInv /\ DoneInv

LEMMA WebhookStart == WebhookInit => WebhookInv
<1> SUFFICES ASSUME WebhookInit PROVE WebhookInv
  OBVIOUS
<1>1. WebhookTypeOK
  BY DEF WebhookInit, WebhookTypeOK, DeliveryRow, TargetRow, NoTarget, HookState
<1>2. \A h \in Hooks : hook[h].pc = "none"
  BY DEF WebhookInit, NoHook
<1>3. OutboxInv
  BY DEF WebhookInit, OutboxInv, NoTarget
<1>4. TokensInv /\ LeaseInv /\ WakeInv /\ TodoInv /\ DoneInv
  BY <1>2 DEF WebhookInit, TokensInv, LeaseInv, WakeInv, TodoInv, DoneInv, Served, Works
<1> QED BY <1>1, <1>3, <1>4 DEF WebhookInv

(* What a request holds.                                                    *)
LEMMA HookFields ==
    ASSUME WebhookTypeOK, NEW h \in Hooks, Served(h)
    PROVE  /\ hook[h].token \in Nat /\ hook[h].late \in BOOLEAN /\ hook[h].todo \in SUBSET HookTasks
           /\ hook[h] \in PlainHook \/ hook[h] \in TaskHook
           /\ hook[h].pc \in {"waking", "woke", "fail"} => hook[h] \in TaskHook /\ hook[h].task \in HookTasks
           /\ hook[h].pc \in {"load", "claim", "relay", "comment", "list"} => hook[h] \in PlainHook
<1>1. hook[h] \in PlainHook \/ hook[h] \in TaskHook
  BY DEF WebhookTypeOK, HookState, NoHook, Served
<1>2. CASE hook[h] \in PlainHook
  BY <1>2 DEF PlainHook, PlainPC
<1>3. CASE hook[h] \in TaskHook
  BY <1>3 DEF TaskHook, TaskPC
<1> QED BY <1>1, <1>2, <1>3

(* Moving on and being done.                                                *)
LEMMA HookGoes ==
    ASSUME WebhookTypeOK, NEW h \in Hooks, Served(h), NEW pc,
           hook[h] \in PlainHook => pc \in PlainPC,
           hook[h] \in TaskHook => pc \in TaskPC,
           Go(h, pc)
    PROVE  /\ hook' \in [Hooks -> HookState]
           /\ hook'[h].pc = pc /\ hook'[h].token = hook[h].token /\ hook'[h].late = hook[h].late
           /\ hook'[h].todo = hook[h].todo
           /\ hook[h] \in TaskHook => hook'[h].task = hook[h].task
           /\ \A g \in Hooks \ {h} : hook'[g] = hook[g]
<1>1. CASE hook[h] \in PlainHook
  <2>1. [hook[h] EXCEPT !.pc = pc] \in PlainHook
    BY <1>1 DEF PlainHook
  <2> QED BY <1>1, <2>1 DEF Go, WebhookTypeOK, HookState, PlainHook, TaskHook
<1>2. CASE hook[h] \in TaskHook
  <2>1. [hook[h] EXCEPT !.pc = pc] \in TaskHook
    BY <1>2 DEF TaskHook
  <2> QED BY <1>2, <2>1 DEF Go, WebhookTypeOK, HookState, TaskHook
<1> QED BY <1>1, <1>2, HookFields

LEMMA HookResponds ==
    ASSUME WebhookTypeOK, NEW h \in Hooks, Respond(h)
    PROVE  /\ hook' \in [Hooks -> HookState] /\ hook'[h].pc = "none"
           /\ \A g \in Hooks \ {h} : hook'[g] = hook[g]
BY DEF Respond, WebhookTypeOK, HookState, NoHook

(* One request at a time may write.                                         *)
LEMMA WorksAlone ==
    ASSUME WebhookInv, NEW h \in Hooks, NEW g \in Hooks, Works(h), Works(g)
    PROVE  g = h
BY DEF WebhookInv, LeaseInv, TokensInv, Works, Served

(* A step of a request that leaves the targets as they are, by its effect on *)
(* the lease and on what completing the delivery means.                     *)
LEMMA DeliverySide ==
    ASSUME WebhookInv, NEW h \in Hooks, Served(h),
           UNCHANGED <<payload, target, linked, comments, woken, attempts>>,
           delivery' \in DeliveryRow, hook' \in [Hooks -> HookState],
           \A g \in Hooks \ {h} : hook'[g] = hook[g],
           \/ hook'[h].pc = "none"
           \/ /\ hook'[h].token = hook[h].token /\ hook'[h].pc \notin {"waking", "woke"}
              /\ hook'[h].todo \subseteq hook[h].todo \cup Incomplete,
           LeaseInv', DoneInv'
    PROVE  WebhookInv'
<1>1. WebhookTypeOK'
  BY DEF WebhookInv, WebhookTypeOK
<1>2. TokensInv'
  <2>1. \A g \in Hooks : Served(g)' => Served(g) /\ hook'[g].token = hook[g].token
    BY DEF Served
  <2>2. attempts' = attempts
    OBVIOUS
  <2> QED BY <2>1, <2>2 DEF WebhookInv, TokensInv
<1>3. WakeInv'
  <2> SUFFICES ASSUME NEW g \in Hooks
               PROVE  /\ hook'[g].pc = "waking" =>
                            /\ target'[hook'[g].task].status = "processing" /\ target'[hook'[g].task].live
                            /\ target'[hook'[g].task].token = hook'[g].token
                      /\ hook'[g].pc = "woke" => hook'[g].task \in woken'
    BY DEF WakeInv
  <2>1. CASE g = h
    BY <2>1
  <2>2. CASE g # h
    BY <2>2 DEF WebhookInv, WakeInv
  <2> QED BY <2>1, <2>2
<1>4. OutboxInv'
  BY DEF WebhookInv, OutboxInv
<1>5. TodoInv'
  <2> SUFFICES ASSUME NEW g \in Hooks, Served(g)'
               PROVE  /\ \A t \in hook'[g].todo : target[t].status # "none"
                      /\ hook'[g].pc = "woke" => target[hook'[g].task].status # "none"
    BY DEF TodoInv
  <2>1. CASE g # h
    BY <2>1 DEF WebhookInv, TodoInv, Served
  <2>2. CASE g = h
    <3>1. hook'[g].pc # "woke" /\ \A t \in hook'[g].todo : t \in hook[h].todo \/ t \in Incomplete
      BY <2>2 DEF Served
    <3> QED BY <3>1 DEF WebhookInv, TodoInv, Incomplete
  <2> QED BY <2>1, <2>2
<1> QED BY <1>1, <1>2, <1>3, <1>4, <1>5 DEF WebhookInv

(* A request that gives up: nobody works on the delivery if it did, and the  *)
(* row is as it was if it did not.                                          *)
LEMMA MarkFailedKeeps ==
    ASSUME WebhookInv, NEW h \in Hooks, hook[h].pc \notin {"none", "load", "claim"}, MarkFailed(h)
    PROVE  /\ delivery' \in DeliveryRow /\ hook' \in [Hooks -> HookState]
           /\ \A g \in Hooks \ {h} : hook'[g] = hook[g]
           /\ hook'[h].pc = "none"
           /\ LeaseInv'
           /\ delivery'.status = "completed" => delivery.status = "completed"
           /\ \A g \in Hooks : Works(g)' => Works(g) /\ hook'[g] = hook[g]
<1>1. /\ hook' \in [Hooks -> HookState] /\ hook'[h].pc = "none"
      /\ \A g \in Hooks \ {h} : hook'[g] = hook[g]
  BY HookResponds DEF MarkFailed, WebhookInv
<1>2. delivery \in DeliveryRow
  BY DEF WebhookInv, WebhookTypeOK
<1>3. \A g \in Hooks : Works(g)' => g # h /\ Works(g) /\ hook'[g] = hook[g]
  BY <1>1 DEF Works
<1>4. CASE UNCHANGED delivery
  BY <1>1, <1>2, <1>3, <1>4 DEF WebhookInv, LeaseInv
<1>5. CASE Reaches(h) /\ delivery' = [delivery EXCEPT !.status = "failed", !.live = FALSE]
  <2>1. Works(h)
    BY <1>5, HookFields DEF Works, Reaches, Served, WebhookInv
  <2>2. \A g \in Hooks : ~Works(g)'
    BY <1>3, <2>1, WorksAlone
  <2>3. delivery' \in DeliveryRow /\ delivery'.status = "failed"
    BY <1>2, <1>5 DEF DeliveryRow
  <2> QED BY <1>1, <1>3, <2>2, <2>3 DEF LeaseInv
<1> QED BY <1>4, <1>5 DEF MarkFailed, UpdateDelivery

LEMMA FailsKeeps ==
    ASSUME WebhookInv, NEW h \in Hooks, hook[h].pc \notin {"none", "load", "claim"}, MarkFailed(h),
           UNCHANGED <<payload, target, linked, comments, woken, attempts>>
    PROVE  WebhookInv'
<1>1. DoneInv'
  BY MarkFailedKeeps DEF WebhookInv, DoneInv, AllWoken
<1>2. Served(h)
  BY DEF Served
<1> QED BY <1>1, <1>2, MarkFailedKeeps, DeliverySide, Zenon

(* A request that moves on, the rows left alone but for what a relay notes.  *)
LEMMA MovesKeeps ==
    ASSUME WebhookInv, NEW h \in Hooks, Served(h),
           UNCHANGED <<payload, target, linked, comments, woken, attempts>>,
           delivery' \in DeliveryRow,
           delivery'.status = delivery.status, delivery'.live = delivery.live, delivery'.token = delivery.token,
           hook' \in [Hooks -> HookState],
           \A g \in Hooks \ {h} : hook'[g] = hook[g],
           hook'[h].token = hook[h].token, hook'[h].late = hook[h].late,
           hook'[h].todo \subseteq hook[h].todo \cup Incomplete,
           hook'[h].pc \notin {"waking", "woke"},
           Works(h)' => Works(h),
           Works(h)' /\ hook'[h].pc = "complete" => AllWoken
    PROVE  WebhookInv'
<1>1. \A g \in Hooks : Works(g)' => Works(g) /\ hook'[g].token = hook[g].token
  BY DEF Works
<1>2. LeaseInv'
  BY <1>1 DEF WebhookInv, LeaseInv
<1>3. AllWoken' <=> AllWoken
  BY DEF AllWoken
<1>4. DoneInv'
  <2>1. ASSUME NEW g \in Hooks, Works(g)', hook'[g].pc = "complete" PROVE AllWoken
    BY <1>1, <2>1 DEF WebhookInv, DoneInv
  <2> QED BY <1>3, <2>1 DEF WebhookInv, DoneInv
<1> QED BY <1>2, <1>4, DeliverySide, Zenon

LEMMA LoadKeeps ==
    ASSUME WebhookInv, NEW h \in Hooks, LoadDelivery(h), payload' = payload
    PROVE  WebhookInv'
<1>0. WebhookTypeOK /\ Served(h)
  BY DEF WebhookInv, Served, LoadDelivery
<1>1. /\ delivery' \in DeliveryRow
      /\ delivery'.status = delivery.status \/ (delivery.status = "none" /\ delivery'.status = "pending")
      /\ delivery'.live = delivery.live /\ delivery'.token = delivery.token
  BY <1>0 DEF LoadDelivery, WebhookTypeOK, DeliveryRow
<1>2. /\ hook' \in [Hooks -> HookState] /\ \A g \in Hooks \ {h} : hook'[g] = hook[g]
      /\ \/ hook'[h].pc = "none"
         \/ hook'[h].token = hook[h].token /\ hook'[h].pc = "claim" /\ hook'[h].todo = hook[h].todo
  <2>1. CASE Respond(h)
    BY <1>0, <2>1, HookResponds
  <2>2. CASE Go(h, "claim")
    <3>1. "claim" \in PlainPC /\ hook[h].pc = "load"
      BY DEF PlainPC, LoadDelivery
    <3>2. hook[h] \notin TaskHook
      BY <3>1 DEF TaskHook, TaskPC
    <3> QED BY <1>0, <2>2, <3>1, <3>2, HookGoes
  <2> QED BY <2>1, <2>2 DEF LoadDelivery
<1>3. \A g \in Hooks : Works(g)' => Works(g) /\ hook'[g] = hook[g]
  BY <1>2 DEF Works
<1>4. UNCHANGED <<payload, target, linked, comments, woken, attempts>>
  BY DEF LoadDelivery
<1>5. LeaseInv'
  BY <1>1, <1>3 DEF WebhookInv, LeaseInv
<1>6. DoneInv'
  BY <1>1, <1>3, <1>4 DEF WebhookInv, DoneInv, AllWoken
<1>7. \/ hook'[h].pc = "none"
      \/ /\ hook'[h].token = hook[h].token /\ hook'[h].pc \notin {"waking", "woke"}
         /\ hook'[h].todo \subseteq hook[h].todo \cup Incomplete
  BY <1>2
<1>8. /\ \A g \in Hooks \ {h} : hook'[g] = hook[g]
      /\ hook' \in [Hooks -> HookState] /\ delivery' \in DeliveryRow
  BY <1>1, <1>2
<1> QED BY <1>0, <1>4, <1>5, <1>6, <1>7, <1>8, DeliverySide

(* A delivery is claimed when nobody works on it.                           *)
LEMMA ClaimKeeps ==
    ASSUME WebhookInv, NEW h \in Hooks, ClaimDelivery(h), payload' = payload
    PROVE  WebhookInv'
<1>0. WebhookTypeOK /\ Served(h) /\ hook[h].pc = "claim" /\ delivery \in DeliveryRow
  BY DEF WebhookInv, Served, ClaimDelivery, WebhookTypeOK
<1>1. UNCHANGED <<payload, target, linked, comments, woken, attempts>>
  BY DEF ClaimDelivery
<1>2. CASE Claimable(delivery) /\ delivery' = Claimed(delivery, h) /\ Go(h, "relay")
  <2>1. hook[h] \in PlainHook /\ hook[h] \notin TaskHook /\ "relay" \in PlainPC
    BY <1>0, HookFields DEF PlainPC, TaskHook, TaskPC
  <2>2. /\ hook' \in [Hooks -> HookState] /\ \A g \in Hooks \ {h} : hook'[g] = hook[g]
        /\ hook'[h].token = hook[h].token /\ hook'[h].pc = "relay" /\ hook'[h].todo = hook[h].todo
    BY <1>0, <1>2, <2>1, HookGoes
  <2>3. /\ delivery' \in DeliveryRow /\ delivery'.status = "processing" /\ delivery'.live
        /\ delivery'.token = hook[h].token
    BY <1>0, <1>2, HookFields DEF Claimed, DeliveryRow
  <2>4. \A g \in Hooks \ {h} : ~Works(g)'
    <3> SUFFICES ASSUME NEW g \in Hooks \ {h}, Works(g) PROVE FALSE
      BY <2>2 DEF Works
    <3> QED BY <1>2 DEF WebhookInv, LeaseInv, Claimable
  <2>5. LeaseInv'
    BY <2>2, <2>3, <2>4 DEF LeaseInv
  <2>6. DoneInv'
    BY <2>2, <2>3, <2>4 DEF DoneInv
  <2>7. hook'[h].pc \notin {"waking", "woke"} /\ hook'[h].todo \subseteq hook[h].todo \cup Incomplete
    BY <2>2
  <2> QED BY <1>0, <1>1, <2>2, <2>3, <2>5, <2>6, <2>7, DeliverySide
<1>3. CASE Respond(h) /\ UNCHANGED delivery
  <2>1. /\ hook' \in [Hooks -> HookState] /\ \A g \in Hooks \ {h} : hook'[g] = hook[g]
        /\ hook'[h].pc = "none"
    BY <1>0, <1>3, HookResponds
  <2>2. \A g \in Hooks : Works(g)' => Works(g) /\ hook'[g] = hook[g]
    BY <2>1 DEF Works
  <2>3. LeaseInv' /\ DoneInv'
    BY <1>1, <1>3, <2>2 DEF WebhookInv, LeaseInv, DoneInv, AllWoken
  <2> QED BY <1>0, <1>1, <1>3, <2>1, <2>3, DeliverySide
<1> QED BY <1>2, <1>3 DEF ClaimDelivery

LEMMA RelayKeeps ==
    ASSUME WebhookInv, NEW h \in Hooks, Relay(h), payload' = payload
    PROVE  WebhookInv'
<1>0. WebhookTypeOK /\ Served(h) /\ hook[h].pc = "relay" /\ delivery \in DeliveryRow
  BY DEF WebhookInv, Served, Relay, WebhookTypeOK
<1>1. UNCHANGED <<payload, target, linked, comments, woken, attempts>>
  BY DEF Relay
<1>2. CASE MarkFailed(h)
  BY <1>0, <1>1, <1>2, FailsKeeps
<1>3. CASE Go(h, "comment") /\ (UNCHANGED delivery \/ delivery' = [delivery EXCEPT !.forwarded = TRUE])
  <2>1. hook[h] \in PlainHook /\ hook[h] \notin TaskHook /\ "comment" \in PlainPC
    BY <1>0, HookFields DEF PlainPC, TaskHook, TaskPC
  <2>2. /\ hook' \in [Hooks -> HookState] /\ \A g \in Hooks \ {h} : hook'[g] = hook[g]
        /\ hook'[h].token = hook[h].token /\ hook'[h].pc = "comment" /\ hook'[h].late = hook[h].late
        /\ hook'[h].todo = hook[h].todo
    BY <1>0, <1>3, <2>1, HookGoes
  <2>3. /\ delivery' \in DeliveryRow /\ delivery'.status = delivery.status /\ delivery'.live = delivery.live
        /\ delivery'.token = delivery.token
    BY <1>0, <1>3 DEF DeliveryRow
  <2>4. Works(h)' => Works(h)
    BY <1>0, <2>2 DEF Works
  <2>5. /\ hook'[h].pc \notin {"waking", "woke"} /\ hook'[h].pc # "complete"
        /\ hook'[h].todo \subseteq hook[h].todo \cup Incomplete
    BY <2>2
  <2> QED BY <1>0, <1>1, <2>2, <2>3, <2>4, <2>5, MovesKeeps
<1> QED BY <1>2, <1>3 DEF Relay

(* The request that marks the delivery completed has found nothing to wake,  *)
(* and nobody else has written since.                                       *)
LEMMA CompleteKeeps ==
    ASSUME WebhookInv, NEW h \in Hooks, CompleteDelivery(h), payload' = payload
    PROVE  WebhookInv'
<1>0. WebhookTypeOK /\ Served(h) /\ hook[h].pc = "complete" /\ delivery \in DeliveryRow
  BY DEF WebhookInv, Served, CompleteDelivery, WebhookTypeOK
<1>1. UNCHANGED <<payload, target, linked, comments, woken, attempts>> /\ Respond(h)
  BY DEF CompleteDelivery
<1>2. /\ hook' \in [Hooks -> HookState] /\ \A g \in Hooks \ {h} : hook'[g] = hook[g]
      /\ hook'[h].pc = "none"
  BY <1>0, <1>1, HookResponds
<1>3. \A g \in Hooks : Works(g)' => g # h /\ Works(g) /\ hook'[g] = hook[g]
  BY <1>2 DEF Works
<1>4. AllWoken' <=> AllWoken
  BY <1>1 DEF AllWoken
<1>5. CASE UNCHANGED delivery
  <2>1. LeaseInv' /\ DoneInv'
    BY <1>3, <1>4, <1>5 DEF WebhookInv, LeaseInv, DoneInv
  <2> QED BY <1>0, <1>1, <1>2, <1>5, <2>1, DeliverySide
<1>6. CASE Reaches(h) /\ delivery' = [delivery EXCEPT !.status = "completed", !.live = FALSE]
  <2>1. Works(h)
    BY <1>0, <1>6, HookFields DEF Works, Reaches
  <2>2. AllWoken
    BY <1>0, <2>1 DEF WebhookInv, DoneInv
  <2>3. \A g \in Hooks : ~Works(g)'
    BY <1>3, <2>1, WorksAlone
  <2>4. LeaseInv' /\ DoneInv'
    BY <1>4, <2>2, <2>3 DEF LeaseInv, DoneInv
  <2>5. delivery' \in DeliveryRow
    BY <1>0, <1>6 DEF DeliveryRow
  <2> QED BY <1>0, <1>1, <1>2, <2>4, <2>5, DeliverySide
<1> QED BY <1>5, <1>6 DEF CompleteDelivery, UpdateDelivery

(* Nothing is left to wake: every comment's outbox row is completed.        *)
LEMMA NothingIncomplete == ASSUME WebhookInv, Incomplete = {} PROVE AllWoken
<1> SUFFICES ASSUME NEW t \in HookTasks, comments[t] = 1 PROVE t \in woken
  BY DEF AllWoken
<1>1. target[t].status \in {"none", "completed"}
  BY DEF Incomplete
<1> QED BY <1>1 DEF WebhookInv, OutboxInv

(* The list of targets, the count of them and a failed wake leave the rows.  *)
LEMMA TargetsKeep ==
    ASSUME WebhookInv, NEW h \in Hooks, ListTargets(h) \/ CountTargets(h) \/ WakeFailed(h), payload' = payload
    PROVE  WebhookInv'
<1>0. WebhookTypeOK /\ Served(h) /\ hook[h].pc \in {"list", "next", "fail"} /\ delivery \in DeliveryRow
  BY DEF WebhookInv, Served, ListTargets, CountTargets, WakeFailed, WebhookTypeOK
<1>1. UNCHANGED <<payload, target, linked, comments, woken, attempts>>
  BY DEF ListTargets, CountTargets, WakeFailed
<1>2. CASE MarkFailed(h)
  BY <1>0, <1>1, <1>2, FailsKeeps
<1>3. CASE /\ hook[h].pc = "list" /\ Reaches(h) /\ UNCHANGED delivery
           /\ hook' = [hook EXCEPT ![h].pc = "next", ![h].todo = Incomplete]
  <2>1. hook[h] \in PlainHook
    BY <1>0, <1>3, HookFields
  <2>2. Incomplete \in SUBSET HookTasks /\ "next" \in PlainPC
    BY DEF Incomplete, PlainPC
  <2>3. hook'[h] = [hook[h] EXCEPT !.pc = "next", !.todo = Incomplete]
    BY <1>0, <1>3 DEF WebhookTypeOK
  <2>4. hook'[h] \in PlainHook
    BY <2>1, <2>2, <2>3 DEF PlainHook
  <2>5. hook' \in [Hooks -> HookState] /\ \A g \in Hooks \ {h} : hook'[g] = hook[g]
    <3>1. \A g \in Hooks \ {h} : hook'[g] = hook[g]
      BY <1>0, <1>3 DEF WebhookTypeOK
    <3>2. hook' = [g \in Hooks |-> hook'[g]]
      BY <1>0, <1>3 DEF WebhookTypeOK
    <3>3. \A g \in Hooks : hook'[g] \in HookState
      BY <1>0, <2>4, <3>1 DEF WebhookTypeOK, HookState
    <3> QED BY <3>1, <3>2, <3>3
  <2>6. /\ hook'[h].token = hook[h].token /\ hook'[h].late = hook[h].late /\ hook'[h].pc = "next"
        /\ hook'[h].todo \subseteq hook[h].todo \cup Incomplete
    BY <2>1, <2>3 DEF PlainHook
  <2>7. Works(h)' => Works(h)
    BY <1>3, <2>6 DEF Works
  <2>8. delivery' = delivery
    BY <1>3
  <2> QED BY <1>0, <1>1, <2>5, <2>6, <2>7, <2>8, MovesKeeps
<1>4. CASE hook[h].pc = "next" /\ Incomplete = {} /\ Go(h, "complete") /\ UNCHANGED delivery
  <2>1. "complete" \in PlainPC /\ "complete" \in TaskPC
    BY DEF PlainPC, TaskPC
  <2>2. /\ hook' \in [Hooks -> HookState] /\ \A g \in Hooks \ {h} : hook'[g] = hook[g]
        /\ hook'[h].token = hook[h].token /\ hook'[h].pc = "complete" /\ hook'[h].late = hook[h].late
        /\ hook'[h].todo = hook[h].todo
    BY <1>0, <1>4, <2>1, HookGoes
  <2>3. Works(h)' => Works(h)
    BY <1>4, <2>2 DEF Works
  <2>4. AllWoken
    BY <1>4, NothingIncomplete
  <2>5. /\ hook'[h].pc \notin {"waking", "woke"} /\ delivery' = delivery
        /\ hook'[h].todo \subseteq hook[h].todo \cup Incomplete
    BY <1>4, <2>2
  <2> QED BY <1>0, <1>1, <2>2, <2>3, <2>4, <2>5, MovesKeeps
<1>5. CASE ListTargets(h)
  BY <1>2, <1>3, <1>5, Zenon DEF ListTargets
<1>6. CASE CountTargets(h)
  BY <1>2, <1>4, <1>6, Zenon DEF CountTargets
<1>7. CASE WakeFailed(h)
  BY <1>2, <1>7, Zenon DEF WakeFailed
<1> QED BY <1>5, <1>6, <1>7

(* A step of a request on the targets and the wakes: it writes no comment,   *)
(* forgets no wake, and completes no target it has not woken.               *)
LEMMA TargetSide ==
    ASSUME WebhookInv, NEW h \in Hooks, Served(h),
           UNCHANGED <<payload, linked, comments, attempts>>,
           woken \subseteq woken', woken' \subseteq HookTasks,
           target' \in [HookTasks -> TargetRow],
           \A t \in HookTasks : target'[t].status = "none" <=> target[t].status = "none",
           \A t \in HookTasks : target'[t].status = "completed" => t \in woken',
           delivery' \in DeliveryRow,
           delivery'.status = "completed" => delivery.status = "completed",
           hook' \in [Hooks -> HookState],
           \A g \in Hooks \ {h} : hook'[g] = hook[g],
           \/ hook'[h].pc = "none"
           \/ /\ hook'[h].token = hook[h].token /\ hook'[h].pc # "complete"
              /\ hook'[h].todo \subseteq hook[h].todo,
           hook'[h].pc = "woke" => hook'[h].task \in HookTasks /\ target[hook'[h].task].status # "none",
           LeaseInv', WakeInv'
    PROVE  WebhookInv'
<1>1. WebhookTypeOK'
  BY DEF WebhookInv, WebhookTypeOK
<1>2. TokensInv'
  <2>1. \A g \in Hooks : Served(g)' => Served(g) /\ hook'[g].token = hook[g].token
    BY DEF Served
  <2>2. attempts' = attempts
    OBVIOUS
  <2> QED BY <2>1, <2>2 DEF WebhookInv, TokensInv
<1>3. OutboxInv'
  BY DEF WebhookInv, OutboxInv
<1>4. AllWoken => AllWoken'
  BY DEF AllWoken
<1>5. DoneInv'
  <2>1. ASSUME NEW g \in Hooks, Works(g)', hook'[g].pc = "complete" PROVE AllWoken
    <3>1. g # h
      BY <2>1
    <3>2. Works(g) /\ hook[g].pc = "complete"
      BY <2>1, <3>1 DEF Works
    <3> QED BY <3>2 DEF WebhookInv, DoneInv
  <2> QED BY <1>4, <2>1 DEF WebhookInv, DoneInv
<1>6. TodoInv'
  <2> SUFFICES ASSUME NEW g \in Hooks, Served(g)'
               PROVE  /\ \A t \in hook'[g].todo : target'[t].status # "none"
                      /\ hook'[g].pc = "woke" => target'[hook'[g].task].status # "none"
    BY DEF TodoInv
  <2>1. Served(g) /\ hook'[g].todo \subseteq hook[g].todo
    BY DEF Served
  <2>2. hook[g].todo \subseteq HookTasks
    BY <2>1, HookFields DEF WebhookInv
  <2>3. \A t \in hook'[g].todo : target'[t].status # "none"
    BY <2>1, <2>2 DEF WebhookInv, TodoInv
  <2>4. ASSUME hook'[g].pc = "woke" PROVE target'[hook'[g].task].status # "none"
    <3>1. CASE g # h
      <4>1. hook[g].task \in HookTasks /\ hook'[g] = hook[g]
        BY <2>4, <3>1, HookFields DEF WebhookInv, Served
      <4> QED BY <2>1, <2>4, <4>1 DEF WebhookInv, TodoInv
    <3>2. CASE g = h
      BY <2>4, <3>2
    <3> QED BY <3>1, <3>2
  <2> QED BY <2>3, <2>4
<1> QED BY <1>1, <1>2, <1>3, <1>5, <1>6 DEF WebhookInv

(* The lease is not touched by a step of its holder that leaves the row.     *)
LEMMA LeaseStays ==
    ASSUME WebhookInv, NEW h \in Hooks, UNCHANGED delivery,
           \A g \in Hooks \ {h} : hook'[g] = hook[g],
           Works(h)' => Works(h) /\ hook'[h].token = hook[h].token
    PROVE  LeaseInv'
<1>1. \A g \in Hooks : Works(g)' => Works(g) /\ hook'[g].token = hook[g].token
  BY DEF Works
<1> QED BY <1>1 DEF WebhookInv, LeaseInv

(* The other wakes keep their targets when a step writes only the target its *)
(* request holds, or one nobody is waking.                                  *)
LEMMA OthersWake ==
    ASSUME WebhookInv, NEW h \in Hooks, NEW t \in HookTasks,
           woken \subseteq woken',
           \A g \in Hooks \ {h} : hook'[g] = hook[g],
           \A u \in HookTasks \ {t} : target'[u] = target[u],
           \/ target'[t] = target[t]
           \/ Claimable(target[t])
           \/ Holds(target[t], h) /\ Served(h)
    PROVE  \A g \in Hooks \ {h} :
              /\ hook'[g].pc = "waking" =>
                    /\ target'[hook'[g].task].status = "processing" /\ target'[hook'[g].task].live
                    /\ target'[hook'[g].task].token = hook'[g].token
              /\ hook'[g].pc = "woke" => hook'[g].task \in woken'
<1> SUFFICES ASSUME NEW g \in Hooks \ {h}
             PROVE  /\ hook[g].pc = "waking" =>
                          /\ target'[hook[g].task].status = "processing" /\ target'[hook[g].task].live
                          /\ target'[hook[g].task].token = hook[g].token
                    /\ hook[g].pc = "woke" => hook[g].task \in woken'
  OBVIOUS
<1>1. hook[g].pc = "woke" => hook[g].task \in woken'
  BY DEF WebhookInv, WakeInv
<1>2. CASE hook[g].pc = "waking"
  <2>1. /\ target[hook[g].task].status = "processing" /\ target[hook[g].task].live
        /\ target[hook[g].task].token = hook[g].token
    BY <1>2 DEF WebhookInv, WakeInv
  <2>2. hook[g].task \in HookTasks /\ Served(g)
    BY <1>2, HookFields DEF WebhookInv, Served
  <2>3. ~Claimable(target[hook[g].task])
    BY <2>1 DEF Claimable
  <2>4. ~(Holds(target[hook[g].task], h) /\ Served(h))
    BY <2>1, <2>2 DEF Holds, WebhookInv, TokensInv
  <2>5. target'[hook[g].task] = target[hook[g].task]
    BY <2>2, <2>3, <2>4
  <2> QED BY <1>1, <2>1, <2>5
<1> QED BY <1>1, <1>2

LEMMA HookForgets ==
    ASSUME WebhookTypeOK, NEW h \in Hooks, Served(h), NEW t, hook' = [hook EXCEPT ![h].todo = @ \ {t}]
    PROVE  /\ hook' \in [Hooks -> HookState] /\ \A g \in Hooks \ {h} : hook'[g] = hook[g]
           /\ hook'[h].token = hook[h].token /\ hook'[h].late = hook[h].late /\ hook'[h].pc = hook[h].pc
           /\ hook'[h].todo \subseteq hook[h].todo
<1>1. hook'[h] = [hook[h] EXCEPT !.todo = @ \ {t}] /\ \A g \in Hooks \ {h} : hook'[g] = hook[g]
  BY DEF WebhookTypeOK
<1>2. hook' = [g \in Hooks |-> hook'[g]]
  BY DEF WebhookTypeOK
<1>3. ASSUME hook'[h] \in HookState PROVE hook' \in [Hooks -> HookState]
  BY <1>1, <1>2, <1>3 DEF WebhookTypeOK
<1>4. CASE hook[h] \in PlainHook
  <2>1. hook[h].todo \ {t} \in SUBSET HookTasks
    BY <1>4 DEF PlainHook
  <2>2. hook'[h] \in PlainHook
    BY <1>1, <1>4, <2>1 DEF PlainHook
  <2> QED BY <1>1, <1>3, <1>4, <2>2 DEF PlainHook, HookState
<1>5. CASE hook[h] \in TaskHook
  <2>1. hook[h].todo \ {t} \in SUBSET HookTasks
    BY <1>5 DEF TaskHook
  <2>2. hook'[h] \in TaskHook
    BY <1>1, <1>5, <2>1 DEF TaskHook
  <2> QED BY <1>1, <1>3, <1>5, <2>2 DEF TaskHook, HookState
<1> QED BY <1>4, <1>5, HookFields

LEMMA NextTargetKeeps ==
    ASSUME WebhookInv, NEW h \in Hooks, NEW t \in HookTasks, NextTarget(h, t), payload' = payload
    PROVE  WebhookInv'
<1>0. /\ WebhookTypeOK /\ Served(h) /\ hook[h].pc = "next" /\ t \in hook[h].todo
      /\ delivery \in DeliveryRow /\ target \in [HookTasks -> TargetRow]
      /\ UNCHANGED <<linked, comments, woken, attempts>>
  BY DEF WebhookInv, Served, NextTarget, WebhookTypeOK
<1>1. CASE MarkFailed(h) /\ UNCHANGED target
  BY <1>0, <1>1, FailsKeeps
<1>2. CASE /\ Reaches(h) /\ UNCHANGED delivery /\ Claimable(target[t])
           /\ target' = [target EXCEPT ![t] = Claimed(target[t], h)]
           /\ hook' = [hook EXCEPT ![h] = [pc |-> "waking", token |-> @.token, late |-> @.late,
                                           todo |-> @.todo \ {t}, task |-> t]]
  <2>1. /\ hook[h].token \in Nat /\ hook[h].late \in BOOLEAN /\ hook[h].todo \in SUBSET HookTasks
    BY <1>0, HookFields
  <2>2. hook'[h] = [pc |-> "waking", token |-> hook[h].token, late |-> hook[h].late,
                    todo |-> hook[h].todo \ {t}, task |-> t]
    BY <1>0, <1>2 DEF WebhookTypeOK
  <2>3. hook'[h] \in TaskHook
    BY <2>1, <2>2 DEF TaskHook, TaskPC
  <2>4. hook' \in [Hooks -> HookState] /\ \A g \in Hooks \ {h} : hook'[g] = hook[g]
    <3>1. \A g \in Hooks \ {h} : hook'[g] = hook[g]
      BY <1>0, <1>2 DEF WebhookTypeOK
    <3>2. hook' = [g \in Hooks |-> hook'[g]]
      BY <1>0, <1>2 DEF WebhookTypeOK
    <3>3. \A g \in Hooks : hook'[g] \in HookState
      BY <1>0, <2>3, <3>1 DEF WebhookTypeOK, HookState
    <3> QED BY <3>1, <3>2, <3>3
  <2>5. /\ target'[t] \in TargetRow /\ target'[t].status = "processing" /\ target'[t].live
        /\ target'[t].token = hook[h].token
        /\ \A u \in HookTasks \ {t} : target'[u] = target[u]
    BY <1>0, <1>2, <2>1 DEF Claimed, TargetRow
  <2>6. target' \in [HookTasks -> TargetRow]
    BY <1>0, <1>2, <2>5
  <2>7. LeaseInv'
    <3>1. Works(h) /\ hook'[h].token = hook[h].token
      BY <1>0, <1>2, <2>2, <2>1 DEF Works, Reaches
    <3> QED BY <1>2, <2>4, <3>1, LeaseStays
  <2>8. WakeInv'
    <3>1. \A g \in Hooks \ {h} :
              /\ hook'[g].pc = "waking" =>
                    /\ target'[hook'[g].task].status = "processing" /\ target'[hook'[g].task].live
                    /\ target'[hook'[g].task].token = hook'[g].token
              /\ hook'[g].pc = "woke" => hook'[g].task \in woken'
      BY <1>0, <1>2, <2>4, <2>5, OthersWake
    <3>2. /\ hook'[h].pc = "waking" /\ hook'[h].task = t /\ hook'[h].token = hook[h].token
      BY <2>2
    <3> QED BY <2>5, <3>1, <3>2 DEF WakeInv
  <2>9. /\ \A u \in HookTasks : target'[u].status = "none" <=> target[u].status = "none"
        /\ \A u \in HookTasks : target'[u].status = "completed" => u \in woken'
    <3>1. target[t].status # "none"
      BY <1>0 DEF WebhookInv, TodoInv
    <3> QED BY <1>0, <2>5, <3>1 DEF WebhookInv, OutboxInv
  <2>10. /\ hook'[h].token = hook[h].token /\ hook'[h].pc # "complete" /\ UNCHANGED delivery
         /\ hook'[h].todo \subseteq hook[h].todo /\ hook'[h].pc # "woke"
    BY <1>2, <2>2
  <2>11. /\ delivery' \in DeliveryRow /\ (delivery'.status = "completed" => delivery.status = "completed")
         /\ woken \subseteq woken' /\ woken' \subseteq HookTasks
    BY <1>0, <2>10 DEF WebhookTypeOK
  <2>12. payload' = payload
    OBVIOUS
  <2> QED BY <1>0, <2>4, <2>6, <2>7, <2>8, <2>9, <2>10, <2>11, <2>12, TargetSide
<1>3. CASE /\ Reaches(h) /\ UNCHANGED <<delivery, target>>
           /\ hook' = [hook EXCEPT ![h].todo = @ \ {t}]
  <2>1. /\ hook' \in [Hooks -> HookState] /\ \A g \in Hooks \ {h} : hook'[g] = hook[g]
        /\ hook'[h].token = hook[h].token /\ hook'[h].late = hook[h].late /\ hook'[h].pc = hook[h].pc
        /\ hook'[h].todo \subseteq hook[h].todo \cup Incomplete
    BY <1>0, <1>3, HookForgets
  <2>2. (Works(h)' => Works(h)) /\ hook'[h].pc \notin {"waking", "woke"} /\ hook'[h].pc # "complete"
    BY <1>0, <2>1 DEF Works
  <2>3. UNCHANGED <<payload, target, delivery>>
    BY <1>3
  <2> QED BY <1>0, <2>1, <2>2, <2>3, MovesKeeps
<1> QED BY <1>1, <1>2, <1>3 DEF NextTarget

(* RerunTask has returned: the task counts as woken.                        *)
LEMMA RerunReturnsKeeps ==
    ASSUME WebhookInv, NEW h \in Hooks, RerunReturns(h), payload' = payload
    PROVE  WebhookInv'
<1>0. /\ WebhookTypeOK /\ Served(h) /\ hook[h].pc = "waking" /\ Go(h, "woke")
      /\ UNCHANGED <<payload, delivery, target, linked, comments, attempts>>
      /\ woken' = woken \cup {hook[h].task}
  BY DEF WebhookInv, Served, RerunReturns
<1>1. hook[h] \in TaskHook /\ hook[h].task \in HookTasks
  BY <1>0, HookFields
<1>2. hook[h] \notin PlainHook /\ "woke" \in TaskPC
  BY <1>0 DEF PlainHook, PlainPC, TaskPC
<1>3. /\ hook' \in [Hooks -> HookState] /\ \A g \in Hooks \ {h} : hook'[g] = hook[g]
      /\ hook'[h].token = hook[h].token /\ hook'[h].pc = "woke" /\ hook'[h].late = hook[h].late
      /\ hook'[h].todo = hook[h].todo /\ hook'[h].task = hook[h].task
  BY <1>0, <1>1, <1>2, HookGoes
<1>4. LeaseInv'
  <2>1. Works(h)' => Works(h) /\ hook'[h].token = hook[h].token
    BY <1>0, <1>3 DEF Works
  <2> QED BY <1>0, <1>3, <2>1, LeaseStays
<1>5. WakeInv'
  <2>1. \A g \in Hooks \ {h} :
            /\ hook'[g].pc = "waking" =>
                  /\ target'[hook'[g].task].status = "processing" /\ target'[hook'[g].task].live
                  /\ target'[hook'[g].task].token = hook'[g].token
            /\ hook'[g].pc = "woke" => hook'[g].task \in woken'
    BY <1>0, <1>1, <1>3, OthersWake
  <2> QED BY <1>0, <1>3, <2>1 DEF WakeInv
<1>6. woken \subseteq woken' /\ woken' \subseteq HookTasks
  BY <1>0, <1>1 DEF WebhookTypeOK
<1>7. \A t \in HookTasks : target'[t].status = "completed" => t \in woken'
  BY <1>0, <1>6 DEF WebhookInv, OutboxInv
<1>8. /\ target' \in [HookTasks -> TargetRow] /\ delivery' \in DeliveryRow
      /\ \A t \in HookTasks : target'[t].status = "none" <=> target[t].status = "none"
      /\ delivery'.status = "completed" => delivery.status = "completed"
  BY <1>0 DEF WebhookTypeOK
<1>9. /\ hook'[h].pc # "complete" /\ hook'[h].todo \subseteq hook[h].todo
      /\ hook'[h].task \in HookTasks /\ target[hook'[h].task].status # "none"
  BY <1>0, <1>1, <1>3 DEF WebhookInv, WakeInv
<1> QED BY <1>0, <1>3, <1>4, <1>5, <1>6, <1>7, <1>8, <1>9, TargetSide

(* What the end of a wake writes: its own target, if it still holds it.      *)
LEMMA TargetWritten ==
    ASSUME WebhookInv, NEW h \in Hooks, hook[h].pc \in {"waking", "woke"}, NEW status \in {"pending", "completed"},
           UpdateTarget(h, status)
    PROVE  /\ target' \in [HookTasks -> TargetRow]
           /\ \A u \in HookTasks \ {hook[h].task} : target'[u] = target[u]
           /\ \A u \in HookTasks : target'[u].status = "none" <=> target[u].status = "none"
           /\ target'[hook[h].task].status \in {status, target[hook[h].task].status}
           /\ target'[hook[h].task] = target[hook[h].task] \/ Holds(target[hook[h].task], h)
<1> DEFINE t == hook[h].task
<1>1. t \in HookTasks /\ WebhookTypeOK /\ Served(h) /\ hook[h].token \in Nat
  BY HookFields DEF WebhookInv, Served
<1>2. target' = [target EXCEPT ![t] = IF Reaches(h) /\ Holds(target[t], h)
                                      THEN [target[t] EXCEPT !.status = status, !.live = FALSE] ELSE target[t]]
  BY DEF UpdateTarget
<1>3. target[t].status # "none"
  BY <1>1 DEF WebhookInv, WakeInv, TodoInv
<1> HIDE DEF t
<1>4. [target[t] EXCEPT !.status = status, !.live = FALSE] \in TargetRow
  BY <1>1 DEF WebhookTypeOK, TargetRow
<1>5. CASE Reaches(h) /\ Holds(target[t], h)
  <2>1. target' = [target EXCEPT ![t] = [target[t] EXCEPT !.status = status, !.live = FALSE]]
    BY <1>2, <1>5
  <2>2. target'[t].status = status
    BY <1>1, <2>1 DEF WebhookTypeOK, TargetRow
  <2>3. target' \in [HookTasks -> TargetRow] /\ \A u \in HookTasks \ {t} : target'[u] = target[u]
    BY <1>1, <1>4, <2>1 DEF WebhookTypeOK
  <2> QED BY <1>3, <1>5, <2>2, <2>3 DEF t
<1>6. CASE ~(Reaches(h) /\ Holds(target[t], h))
  <2>1. target' = target
    BY <1>1, <1>2, <1>6 DEF WebhookTypeOK
  <2> QED BY <1>1, <2>1 DEF WebhookTypeOK
<1> QED BY <1>5, <1>6

(* The wake is over: its target is completed, or the request has lost it.    *)
LEMMA TargetDoneKeeps ==
    ASSUME WebhookInv, NEW h \in Hooks, TargetDone(h), payload' = payload
    PROVE  WebhookInv'
<1> DEFINE t == hook[h].task
<1>0. /\ WebhookTypeOK /\ Served(h) /\ hook[h].pc = "woke" /\ UpdateTarget(h, "completed")
      /\ UNCHANGED <<payload, linked, comments, woken, attempts>>
  BY DEF WebhookInv, Served, TargetDone
<1>1. /\ target' \in [HookTasks -> TargetRow]
      /\ \A u \in HookTasks \ {t} : target'[u] = target[u]
      /\ \A u \in HookTasks : target'[u].status = "none" <=> target[u].status = "none"
      /\ target'[t] = target[t] \/ Holds(target[t], h)
  BY <1>0, TargetWritten
<1>2. hook[h] \in TaskHook /\ hook[h] \notin PlainHook /\ t \in HookTasks /\ t \in woken /\ delivery \in DeliveryRow
  BY <1>0, HookFields DEF WebhookInv, WakeInv, PlainHook, PlainPC, WebhookTypeOK
<1>3. \A u \in HookTasks : target'[u].status = "completed" => u \in woken'
  BY <1>0, <1>1, <1>2 DEF WebhookInv, OutboxInv
<1>4. ASSUME \A g \in Hooks \ {h} : hook'[g] = hook[g], hook'[h].pc \notin {"waking", "woke"} PROVE WakeInv'
  <2>1. woken \subseteq woken'
    BY <1>0
  <2>2. \A g \in Hooks \ {h} :
            /\ hook'[g].pc = "waking" =>
                  /\ target'[hook'[g].task].status = "processing" /\ target'[hook'[g].task].live
                  /\ target'[hook'[g].task].token = hook'[g].token
            /\ hook'[g].pc = "woke" => hook'[g].task \in woken'
    BY <1>0, <1>1, <1>2, <1>4, <2>1, OthersWake
  <2> QED BY <1>4, <2>2 DEF WakeInv
<1>5. woken \subseteq woken' /\ woken' \subseteq HookTasks
  BY <1>0 DEF WebhookTypeOK
<1> HIDE DEF t
<1>6. CASE Go(h, "next") /\ UNCHANGED delivery
  <2>1. "next" \in TaskPC
    BY DEF TaskPC
  <2>2. /\ hook' \in [Hooks -> HookState] /\ \A g \in Hooks \ {h} : hook'[g] = hook[g]
        /\ hook'[h].token = hook[h].token /\ hook'[h].pc = "next" /\ hook'[h].late = hook[h].late
        /\ hook'[h].todo = hook[h].todo
    BY <1>0, <1>2, <1>6, <2>1, HookGoes
  <2>3. Works(h)' => Works(h) /\ hook'[h].token = hook[h].token
    BY <1>0, <2>2 DEF Works
  <2>4. LeaseInv'
    BY <1>6, <2>2, <2>3, LeaseStays
  <2>5. WakeInv'
    BY <1>4, <2>2
  <2>6. hook'[h].pc # "complete" /\ hook'[h].pc # "woke" /\ hook'[h].todo \subseteq hook[h].todo
    BY <2>2
  <2>7. delivery' \in DeliveryRow /\ (delivery'.status = "completed" => delivery.status = "completed")
    BY <1>2, <1>6
  <2> QED BY <1>0, <1>1, <1>3, <1>5, <2>2, <2>4, <2>5, <2>6, <2>7, TargetSide
<1>7. CASE MarkFailed(h)
  <2>1. hook[h].pc \notin {"none", "load", "claim"}
    BY <1>0
  <2>2. /\ delivery' \in DeliveryRow /\ hook' \in [Hooks -> HookState]
        /\ \A g \in Hooks \ {h} : hook'[g] = hook[g]
        /\ hook'[h].pc = "none"
        /\ LeaseInv'
        /\ delivery'.status = "completed" => delivery.status = "completed"
    BY <1>7, <2>1, MarkFailedKeeps
  <2>3. WakeInv'
    BY <1>4, <2>2
  <2>4. hook'[h].pc # "woke"
    BY <2>2
  <2> QED BY <1>0, <1>1, <1>3, <1>5, <2>2, <2>3, <2>4, TargetSide
<1> QED BY <1>6, <1>7, Zenon DEF TargetDone

(* The engine refused the wake: the target is put back.                     *)
LEMMA RerunFailsKeeps ==
    ASSUME WebhookInv, NEW h \in Hooks, RerunFails(h), payload' = payload
    PROVE  WebhookInv'
<1> DEFINE t == hook[h].task
<1>0. /\ WebhookTypeOK /\ Served(h) /\ hook[h].pc = "waking" /\ UpdateTarget(h, "pending") /\ Go(h, "fail")
      /\ UNCHANGED <<payload, delivery, linked, comments, woken, attempts>>
  BY DEF WebhookInv, Served, RerunFails
<1>1. /\ target' \in [HookTasks -> TargetRow]
      /\ \A u \in HookTasks \ {t} : target'[u] = target[u]
      /\ \A u \in HookTasks : target'[u].status = "none" <=> target[u].status = "none"
      /\ target'[t].status \in {"pending", target[t].status}
      /\ target'[t] = target[t] \/ Holds(target[t], h)
  BY <1>0, TargetWritten
<1>2. hook[h] \in TaskHook /\ hook[h] \notin PlainHook /\ t \in HookTasks /\ delivery \in DeliveryRow /\ "fail" \in TaskPC
  BY <1>0, HookFields DEF PlainHook, PlainPC, TaskPC, WebhookTypeOK
<1> HIDE DEF t
<1>3. \A u \in HookTasks : target'[u].status = "completed" => u \in woken'
  BY <1>0, <1>1, <1>2 DEF WebhookInv, OutboxInv
<1>4. /\ hook' \in [Hooks -> HookState] /\ \A g \in Hooks \ {h} : hook'[g] = hook[g]
      /\ hook'[h].token = hook[h].token /\ hook'[h].pc = "fail" /\ hook'[h].late = hook[h].late
      /\ hook'[h].todo = hook[h].todo
  BY <1>0, <1>2, HookGoes
<1>5. LeaseInv'
  <2>1. Works(h)' => Works(h) /\ hook'[h].token = hook[h].token
    BY <1>0, <1>4 DEF Works
  <2> QED BY <1>0, <1>4, <2>1, LeaseStays
<1>6. WakeInv'
  <2>1. woken \subseteq woken'
    BY <1>0
  <2>2. \A g \in Hooks \ {h} :
            /\ hook'[g].pc = "waking" =>
                  /\ target'[hook'[g].task].status = "processing" /\ target'[hook'[g].task].live
                  /\ target'[hook'[g].task].token = hook'[g].token
            /\ hook'[g].pc = "woke" => hook'[g].task \in woken'
    BY <1>0, <1>1, <1>2, <1>4, <2>1, OthersWake
  <2> QED BY <1>4, <2>2 DEF WakeInv
<1>7. /\ woken \subseteq woken' /\ woken' \subseteq HookTasks
      /\ delivery' \in DeliveryRow /\ (delivery'.status = "completed" => delivery.status = "completed")
  BY <1>0, <1>2 DEF WebhookTypeOK
<1>8. hook'[h].pc # "complete" /\ hook'[h].pc # "woke" /\ hook'[h].todo \subseteq hook[h].todo
  BY <1>4
<1> QED BY <1>0, <1>1, <1>3, <1>4, <1>5, <1>6, <1>7, <1>8, TargetSide

(* The transaction that leaves the comments: nobody else is writing, and a   *)
(* task gets a comment exactly when it gets its outbox row.                 *)
LEMMA CreateCommentsKeeps ==
    ASSUME WebhookInv, NEW h \in Hooks, CreateComments(h), payload' = payload
    PROVE  WebhookInv'
<1>0. /\ WebhookTypeOK /\ Served(h) /\ hook[h].pc = "comment" /\ delivery \in DeliveryRow
      /\ UNCHANGED <<payload, linked, woken, attempts>>
  BY DEF WebhookInv, Served, CreateComments, WebhookTypeOK
<1>1. hook[h] \in PlainHook /\ hook[h] \notin TaskHook
  BY <1>0, HookFields DEF TaskHook, TaskPC
<1>2. CASE MarkFailed(h) /\ UNCHANGED <<target, comments>>
  BY <1>0, <1>2, FailsKeeps
<1>3. CASE ~payload.comment /\ Go(h, "complete") /\ UNCHANGED <<delivery, target, comments>>
  <2>1. "complete" \in PlainPC
    BY DEF PlainPC
  <2>2. /\ hook' \in [Hooks -> HookState] /\ \A g \in Hooks \ {h} : hook'[g] = hook[g]
        /\ hook'[h].token = hook[h].token /\ hook'[h].pc = "complete" /\ hook'[h].late = hook[h].late
        /\ hook'[h].todo = hook[h].todo
    BY <1>0, <1>1, <1>3, <2>1, HookGoes
  <2>3. Works(h)' => Works(h)
    BY <1>0, <2>2 DEF Works
  <2>4. AllWoken
    BY <1>3 DEF WebhookInv, OutboxInv, AllWoken
  <2>5. /\ hook'[h].pc \notin {"waking", "woke"} /\ delivery' = delivery
        /\ hook'[h].todo \subseteq hook[h].todo \cup Incomplete
    BY <1>3, <2>2
  <2>6. UNCHANGED <<payload, target, linked, comments, woken, attempts>>
    BY <1>0, <1>3
  <2> QED BY <1>0, <2>2, <2>3, <2>4, <2>5, <2>6, MovesKeeps
<1>4. CASE /\ payload.comment /\ Reaches(h) /\ Go(h, "list") /\ UNCHANGED delivery
           /\ comments' = [t \in HookTasks |-> comments[t] + IF t \in Uncommented THEN 1 ELSE 0]
           /\ target' = [t \in HookTasks |->
                 IF t \in Uncommented THEN [NoTarget EXCEPT !.status = "pending"] ELSE target[t]]
  <2>1. "list" \in PlainPC
    BY DEF PlainPC
  <2>2. /\ hook' \in [Hooks -> HookState] /\ \A g \in Hooks \ {h} : hook'[g] = hook[g]
        /\ hook'[h].token = hook[h].token /\ hook'[h].pc = "list" /\ hook'[h].late = hook[h].late
        /\ hook'[h].todo = hook[h].todo
    BY <1>0, <1>1, <1>4, <2>1, HookGoes
  <2>3. Works(h)
    BY <1>0, <1>4 DEF Works, Reaches
  <2>4. NoTarget \in TargetRow
    BY DEF NoTarget, TargetRow
  <2>5. \A t \in HookTasks : \/ t \in Uncommented /\ target[t].status = "none" /\ comments[t] = 0
                                /\ comments'[t] = 1 /\ target'[t].status = "pending"
                             \/ t \notin Uncommented /\ comments'[t] = comments[t] /\ target'[t] = target[t]
    <3> SUFFICES ASSUME NEW t \in HookTasks
                 PROVE \/ t \in Uncommented /\ target[t].status = "none" /\ comments[t] = 0
                          /\ comments'[t] = 1 /\ target'[t].status = "pending"
                       \/ t \notin Uncommented /\ comments'[t] = comments[t] /\ target'[t] = target[t]
      OBVIOUS
    <3>1. CASE t \in Uncommented
      <4>1. target[t].status = "none"
        BY <3>1 DEF Uncommented
      <4>2. comments[t] = 0
        BY <4>1 DEF WebhookInv, OutboxInv
      <4>3. target'[t].status = "pending"
        BY <1>4, <2>4, <3>1 DEF TargetRow
      <4> QED BY <1>4, <3>1, <4>1, <4>2, <4>3
    <3>2. CASE t \notin Uncommented
      <4>1. comments[t] \in Nat
        BY <1>0 DEF WebhookTypeOK
      <4> QED BY <1>4, <3>2, <4>1
    <3> QED BY <3>1, <3>2
  <2>6. target' \in [HookTasks -> TargetRow] /\ comments' \in [HookTasks -> Nat]
    <3>1. [NoTarget EXCEPT !.status = "pending"] \in TargetRow
      BY <2>4 DEF TargetRow
    <3>2. target' \in [HookTasks -> TargetRow]
      BY <1>0, <1>4, <3>1 DEF WebhookTypeOK
    <3>3. comments' \in [HookTasks -> Nat]
      BY <1>0, <1>4 DEF WebhookTypeOK
    <3> QED BY <3>2, <3>3
  <2>7. WebhookTypeOK'
    BY <1>0, <1>4, <2>2, <2>6 DEF WebhookTypeOK
  <2>8. TokensInv'
    <3>1. \A g \in Hooks : Served(g)' => Served(g) /\ hook'[g].token = hook[g].token
      BY <1>0, <2>2 DEF Served
    <3> QED BY <1>0, <3>1 DEF WebhookInv, TokensInv
  <2>9. LeaseInv'
    BY <1>4, <2>2, <2>3, LeaseStays
  <2>10. \A t \in HookTasks : target[t].status # "none" => target'[t] = target[t]
    BY <2>5
  <2>11. WakeInv'
    <3> SUFFICES ASSUME NEW g \in Hooks
                 PROVE  /\ hook'[g].pc = "waking" =>
                              /\ target'[hook'[g].task].status = "processing" /\ target'[hook'[g].task].live
                              /\ target'[hook'[g].task].token = hook'[g].token
                        /\ hook'[g].pc = "woke" => hook'[g].task \in woken'
      BY DEF WakeInv
    <3>1. CASE g = h
      BY <2>2, <3>1
    <3>2. CASE g # h
      <4>1. hook'[g] = hook[g]
        BY <2>2, <3>2
      <4>2. hook[g].pc = "waking" => hook[g].task \in HookTasks
        BY <1>0, HookFields DEF Served
      <4> QED BY <1>0, <2>10, <4>1, <4>2 DEF WebhookInv, WakeInv
    <3> QED BY <3>1, <3>2
  <2>12. TodoInv'
    <3> SUFFICES ASSUME NEW g \in Hooks, Served(g)'
                 PROVE  /\ \A t \in hook'[g].todo : target'[t].status # "none"
                        /\ hook'[g].pc = "woke" => target'[hook'[g].task].status # "none"
      BY DEF TodoInv
    <3>1. Served(g) /\ hook'[g].todo = hook[g].todo
      BY <1>0, <2>2 DEF Served
    <3>2. hook[g].todo \subseteq HookTasks
      BY <1>0, <3>1, HookFields
    <3>3. \A t \in hook'[g].todo : target'[t].status # "none"
      BY <2>10, <3>1, <3>2 DEF WebhookInv, TodoInv
    <3>4. ASSUME hook'[g].pc = "woke" PROVE target'[hook'[g].task].status # "none"
      <4>1. hook'[g] = hook[g] /\ hook[g].pc = "woke"
        BY <2>2, <3>4
      <4>2. hook[g].task \in HookTasks
        BY <1>0, <3>1, <4>1, HookFields
      <4> QED BY <2>10, <3>1, <4>1, <4>2 DEF WebhookInv, TodoInv
    <3> QED BY <3>3, <3>4
  <2>13. OutboxInv'
    <3> SUFFICES ASSUME NEW t \in HookTasks
                 PROVE  /\ comments'[t] = IF target'[t].status = "none" THEN 0 ELSE 1
                        /\ target'[t].status = "completed" => t \in woken'
                        /\ ~payload'.comment => comments'[t] = 0
      BY DEF OutboxInv
    <3> QED BY <1>0, <1>4, <2>5 DEF WebhookInv, OutboxInv
  <2>14. DoneInv'
    <3>1. delivery'.status # "completed"
      BY <1>4, <2>3 DEF WebhookInv, LeaseInv
    <3>2. ASSUME NEW g \in Hooks, Works(g)', hook'[g].pc = "complete" PROVE FALSE
      <4>1. g # h
        BY <2>2, <3>2
      <4>2. Works(g)
        BY <2>2, <3>2, <4>1 DEF Works
      <4> QED BY <2>3, <4>1, <4>2, WorksAlone
    <3> QED BY <3>1, <3>2 DEF DoneInv
  <2> QED BY <2>7, <2>8, <2>9, <2>11, <2>12, <2>13, <2>14 DEF WebhookInv
<1> QED BY <1>2, <1>3, <1>4, Zenon DEF CreateComments

(* A new request has a number of its own.                                   *)
LEMMA ReceiveKeeps ==
    ASSUME WebhookInv, NEW h \in Hooks, ReceiveHook(h), payload' = payload
    PROVE  WebhookInv'
<1>0. /\ WebhookTypeOK /\ ~Served(h) /\ attempts' = attempts + 1 /\ attempts \in Nat
      /\ UNCHANGED <<payload, delivery, target, linked, comments, woken>>
      /\ hook' = [hook EXCEPT ![h] = [pc |-> "load", token |-> attempts', late |-> FALSE, todo |-> {}]]
  BY DEF WebhookInv, WebhookTypeOK, Served, ReceiveHook
<1>1. [pc |-> "load", token |-> attempts', late |-> FALSE, todo |-> {}] \in PlainHook
  BY <1>0 DEF PlainHook, PlainPC
<1>2. /\ hook' \in [Hooks -> HookState] /\ \A g \in Hooks \ {h} : hook'[g] = hook[g]
      /\ hook'[h].token = attempts + 1 /\ hook'[h].pc = "load" /\ hook'[h].todo = {}
  BY <1>0, <1>1 DEF WebhookTypeOK, HookState
<1>3. WebhookTypeOK'
  BY <1>0, <1>2 DEF WebhookTypeOK
<1>4. TokensInv'
  <2>1. \A g \in Hooks \ {h} : Served(g)' => Served(g) /\ hook'[g].token = hook[g].token /\ hook[g].token \in Nat
    BY <1>0, <1>2, HookFields DEF Served
  <2>2. \A g \in Hooks \ {h} : Served(g)' => hook'[g].token <= attempts /\ hook'[g].token \in Nat
    BY <2>1 DEF WebhookInv, TokensInv
  <2>3. \A g, f \in Hooks \ {h} : Served(g)' /\ Served(f)' /\ hook'[g].token = hook'[f].token => g = f
    BY <2>1 DEF WebhookInv, TokensInv
  <2>4. \A g \in Hooks : Served(g)' => hook'[g].token <= attempts'
    BY <1>0, <1>2, <2>2
  <2>5. \A g \in Hooks \ {h} : Served(g)' => hook'[g].token # hook'[h].token
    BY <1>0, <1>2, <2>2
  <2> QED BY <2>3, <2>4, <2>5 DEF TokensInv
<1>5. \A g \in Hooks : Works(g)' => Works(g) /\ hook'[g] = hook[g]
  BY <1>2 DEF Works
<1>6. LeaseInv' /\ DoneInv'
  BY <1>0, <1>5 DEF WebhookInv, LeaseInv, DoneInv, AllWoken
<1>7. WakeInv' /\ TodoInv'
  BY <1>0, <1>2 DEF WebhookInv, WakeInv, TodoInv, Served
<1>8. OutboxInv'
  BY <1>0 DEF WebhookInv, OutboxInv
<1> QED BY <1>3, <1>4, <1>6, <1>7, <1>8 DEF WebhookInv

(* Time and the rest of the system.                                         *)
LEMMA TimeKeeps ==
    ASSUME WebhookInv, payload' = payload,
           \/ \E h \in Hooks : ContextEnds(h)
           \/ DeliveryLeaseExpires
           \/ \E t \in HookTasks : TargetLeaseExpires(t) \/ LinkTask(t)
           \/ RestartServer
    PROVE  WebhookInv'
<1>1. ASSUME NEW h \in Hooks, ContextEnds(h) PROVE WebhookInv'
  <2>0. /\ WebhookTypeOK /\ Served(h) /\ hook' = [hook EXCEPT ![h].late = TRUE]
        /\ UNCHANGED <<payload, delivery, target, linked, comments, woken, attempts>>
    BY <1>1 DEF WebhookInv, Served, ContextEnds
  <2>1. hook'[h] = [hook[h] EXCEPT !.late = TRUE] /\ \A g \in Hooks \ {h} : hook'[g] = hook[g]
    BY <2>0 DEF WebhookTypeOK
  <2>2. hook' = [g \in Hooks |-> hook'[g]]
    BY <2>0 DEF WebhookTypeOK
  <2>3. /\ hook'[h] \in HookState /\ hook'[h].late
        /\ hook'[h].pc = hook[h].pc /\ hook'[h].token = hook[h].token /\ hook'[h].todo = hook[h].todo
        /\ hook[h].pc \in {"waking", "woke"} => hook'[h].task = hook[h].task
    <3>1. CASE hook[h] \in PlainHook
      <4>1. hook'[h] \in PlainHook
        BY <2>1, <3>1 DEF PlainHook
      <4> QED BY <2>1, <3>1, <4>1 DEF PlainHook, PlainPC, HookState
    <3>2. CASE hook[h] \in TaskHook
      <4>1. hook'[h] \in TaskHook
        BY <2>1, <3>2 DEF TaskHook
      <4> QED BY <2>1, <3>2, <4>1 DEF TaskHook, HookState
    <3> QED BY <2>0, <3>1, <3>2, HookFields
  <2>4. hook' \in [Hooks -> HookState]
    BY <2>0, <2>1, <2>2, <2>3 DEF WebhookTypeOK
  <2>5. WebhookTypeOK' /\ OutboxInv'
    BY <2>0, <2>4 DEF WebhookInv, WebhookTypeOK, OutboxInv
  <2>6. \A g \in Hooks : /\ hook'[g].pc = hook[g].pc
                         /\ Served(g) => hook'[g].token = hook[g].token /\ hook'[g].todo = hook[g].todo
                         /\ hook[g].pc \in {"waking", "woke"} => hook'[g].task = hook[g].task
    BY <2>1, <2>3
  <2>7. TokensInv' /\ WakeInv' /\ TodoInv'
    BY <2>0, <2>6 DEF WebhookInv, TokensInv, WakeInv, TodoInv, Served
  <2>8. \A g \in Hooks : Works(g)' => Works(g) /\ hook'[g] = hook[g]
    BY <2>1, <2>3 DEF Works
  <2>9. LeaseInv' /\ DoneInv'
    BY <2>0, <2>8 DEF WebhookInv, LeaseInv, DoneInv, AllWoken
  <2> QED BY <2>5, <2>7, <2>9 DEF WebhookInv
<1>2. CASE DeliveryLeaseExpires
  <2>0. /\ WebhookTypeOK /\ delivery \in DeliveryRow /\ delivery' = [delivery EXCEPT !.live = FALSE]
        /\ UNCHANGED <<target, linked, comments, woken, hook, attempts>>
    BY <1>2 DEF WebhookInv, WebhookTypeOK, DeliveryLeaseExpires
  <2>1. delivery' \in DeliveryRow /\ delivery'.status = delivery.status
    BY <2>0 DEF DeliveryRow
  <2>2. WebhookTypeOK'
    BY <2>0, <2>1 DEF WebhookTypeOK
  <2>3. \A g \in Hooks : ~Works(g)
    <3> SUFFICES ASSUME NEW g \in Hooks, Works(g) PROVE FALSE
      OBVIOUS
    <3>1. delivery.token = hook[g].token
      BY DEF WebhookInv, LeaseInv
    <3>2. g \in Holder(delivery.token) /\ ~hook[g].late
      BY <3>1 DEF Holder, Works
    <3> QED BY <1>2, <3>2 DEF DeliveryLeaseExpires
  <2>4. \A g \in Hooks : ~Works(g)'
    BY <2>0, <2>3 DEF Works
  <2>5. LeaseInv' /\ DoneInv'
    BY <2>0, <2>1, <2>4 DEF WebhookInv, LeaseInv, DoneInv, AllWoken
  <2>6. TokensInv' /\ WakeInv' /\ TodoInv' /\ OutboxInv'
    BY <2>0 DEF WebhookInv, TokensInv, WakeInv, TodoInv, OutboxInv, Served
  <2> QED BY <2>2, <2>5, <2>6 DEF WebhookInv
<1>3. ASSUME NEW t \in HookTasks, TargetLeaseExpires(t) PROVE WebhookInv'
  <2>0. /\ WebhookTypeOK /\ target \in [HookTasks -> TargetRow] /\ target' = [target EXCEPT ![t].live = FALSE]
        /\ UNCHANGED <<payload, delivery, linked, comments, woken, hook, attempts>>
    BY <1>3 DEF WebhookInv, WebhookTypeOK, TargetLeaseExpires
  <2>1. /\ target' \in [HookTasks -> TargetRow]
        /\ \A u \in HookTasks \ {t} : target'[u] = target[u]
        /\ \A u \in HookTasks : target'[u].status = target[u].status
    BY <2>0 DEF TargetRow
  <2>2. WebhookTypeOK' /\ OutboxInv'
    BY <2>0, <2>1 DEF WebhookInv, WebhookTypeOK, OutboxInv
  <2>3. \A g \in Hooks : hook[g].pc = "waking" => hook[g].task # t
    <3> SUFFICES ASSUME NEW g \in Hooks, hook[g].pc = "waking", hook[g].task = t PROVE FALSE
      OBVIOUS
    <3>1. g \in Holder(target[t].token)
      BY DEF WebhookInv, WakeInv, Holder
    <3> QED BY <1>3, <3>1 DEF TargetLeaseExpires
  <2>4. WakeInv'
    <3>1. \A g \in Hooks : hook[g].pc = "waking" => hook[g].task \in HookTasks
      BY <2>0, HookFields DEF Served
    <3> QED BY <2>0, <2>1, <2>3, <3>1 DEF WebhookInv, WakeInv
  <2>5. TodoInv'
    <3>1. \A g \in Hooks : Served(g) =>
             hook[g].todo \subseteq HookTasks /\ (hook[g].pc = "woke" => hook[g].task \in HookTasks)
      BY <2>0, HookFields
    <3> QED BY <2>0, <2>1, <3>1 DEF WebhookInv, TodoInv, Served
  <2>6. TokensInv' /\ LeaseInv' /\ DoneInv'
    BY <2>0 DEF WebhookInv, TokensInv, LeaseInv, DoneInv, AllWoken, Served, Works
  <2> QED BY <2>2, <2>4, <2>5, <2>6 DEF WebhookInv
<1>4. ASSUME NEW t \in HookTasks, LinkTask(t) PROVE WebhookInv'
  <2>1. UNCHANGED <<payload, delivery, target, comments, woken, hook, attempts>> /\ linked' = linked \cup {t}
    BY <1>4 DEF LinkTask
  <2>2. WebhookTypeOK'
    BY <2>1 DEF WebhookInv, WebhookTypeOK
  <2>3. TokensInv' /\ LeaseInv' /\ DoneInv' /\ WakeInv' /\ TodoInv' /\ OutboxInv'
    BY <2>1 DEF WebhookInv, TokensInv, LeaseInv, DoneInv, WakeInv, TodoInv, OutboxInv, AllWoken, Served, Works
  <2> QED BY <2>2, <2>3 DEF WebhookInv
<1>5. CASE RestartServer
  <2>1. /\ UNCHANGED <<payload, delivery, target, linked, comments, woken, attempts>>
        /\ hook' = [h \in Hooks |-> NoHook]
    BY <1>5 DEF RestartServer
  <2>2. WebhookTypeOK' /\ \A h \in Hooks : hook'[h].pc = "none"
    BY <2>1 DEF WebhookInv, WebhookTypeOK, HookState, NoHook
  <2>3. TokensInv' /\ LeaseInv' /\ DoneInv' /\ WakeInv' /\ TodoInv' /\ OutboxInv'
    BY <2>1, <2>2 DEF WebhookInv, TokensInv, LeaseInv, DoneInv, WakeInv, TodoInv, OutboxInv, AllWoken, Served, Works
  <2> QED BY <2>2, <2>3 DEF WebhookInv
<1> QED BY <1>1, <1>2, <1>3, <1>4, <1>5

LEMMA WebhookStep == WebhookInv /\ [WebhookNext]_hookVars => WebhookInv'
<1> SUFFICES ASSUME WebhookInv, [WebhookNext]_hookVars PROVE WebhookInv'
  OBVIOUS
<1>1. CASE UNCHANGED hookVars
  <2>1. UNCHANGED <<payload, delivery, target, linked, comments, woken, hook, attempts>>
    BY <1>1 DEF hookVars
  <2>2. WebhookTypeOK' /\ TokensInv' /\ LeaseInv' /\ WakeInv' /\ TodoInv' /\ OutboxInv' /\ DoneInv'
    BY <2>1 DEF WebhookInv, WebhookTypeOK, TokensInv, LeaseInv, DoneInv, WakeInv, TodoInv, OutboxInv, AllWoken, Served, Works
  <2> QED BY <2>2 DEF WebhookInv
<1>2. ASSUME NEW h \in Hooks, payload' = payload,
             \/ ReceiveHook(h) \/ LoadDelivery(h) \/ ClaimDelivery(h) \/ Relay(h) \/ CreateComments(h) \/ ListTargets(h)
             \/ \E t \in HookTasks : NextTarget(h, t)
             \/ RerunReturns(h) \/ TargetDone(h) \/ RerunFails(h) \/ WakeFailed(h)
             \/ CountTargets(h) \/ CompleteDelivery(h) \/ ContextEnds(h)
      PROVE  WebhookInv'
  BY <1>2, ReceiveKeeps, LoadKeeps, ClaimKeeps, RelayKeeps, CreateCommentsKeeps, TargetsKeep, NextTargetKeeps,
     RerunReturnsKeeps, TargetDoneKeeps, RerunFailsKeeps, CompleteKeeps, TimeKeeps, Zenon
<1>3. CASE WebhookNext
  <2>1. payload' = payload
    BY <1>3, Zenon DEF WebhookNext
  <2>2. ASSUME \/ DeliveryLeaseExpires
               \/ \E t \in HookTasks : TargetLeaseExpires(t) \/ LinkTask(t)
               \/ RestartServer
        PROVE  WebhookInv'
    BY <2>1, <2>2, TimeKeeps, Zenon
  <2> QED BY <1>2, <1>3, <2>1, <2>2, Zenon DEF WebhookNext
<1> QED BY <1>1, <1>3

(* At most one request is waking a task.                                    *)
LEMMA WakesOne ==
    ASSUME WebhookInv, NEW t
    PROVE  Cardinality({h \in Hooks : hook[h].pc = "waking" /\ hook[h].task = t}) <= 1
<1> DEFINE W == {h \in Hooks : hook[h].pc = "waking" /\ hook[h].task = t}
<1>1. \A h, g \in W : h = g
  BY DEF WebhookInv, WakeInv, TokensInv, Served
<1>2. CASE W = {}
  BY <1>2, FS_EmptySet
<1>3. CASE W # {}
  <2>1. PICK h \in W : TRUE
    BY <1>3
  <2>2. W = {h}
    BY <1>1, <2>1
  <2>3. Cardinality({h}) = 1
    BY FS_Singleton
  <2> QED BY <2>2, <2>3
<1> QED BY <1>2, <1>3

(* However often GitHub delivers and however the attempts end, a task gets   *)
(* at most one comment, its wakes never overlap, and a completed delivery    *)
(* has woken every task it commented on (processGitHubWebhook,              *)
(* wakeGitHubWebhookTargets).                                               *)
THEOREM DeliveredExactlyAlways == WebhookSpec => []DeliveredExactly
<1>1. WebhookInv => DeliveredExactly
  <2> SUFFICES ASSUME WebhookInv, NEW t \in HookTasks
               PROVE  /\ comments[t] <= 1
                      /\ Cardinality({h \in Hooks : hook[h].pc = "waking" /\ hook[h].task = t}) <= 1
                      /\ delivery.status = "completed" /\ comments[t] = 1 => t \in woken
    BY DEF DeliveredExactly
  <2>1. comments[t] \in {0, 1}
    BY DEF WebhookInv, OutboxInv
  <2>2. delivery.status = "completed" /\ comments[t] = 1 => t \in woken
    BY DEF WebhookInv, DoneInv, AllWoken
  <2>3. Cardinality({h \in Hooks : hook[h].pc = "waking" /\ hook[h].task = t}) <= 1
    BY WakesOne, Zenon
  <2>4. comments[t] <= 1
    BY <2>1
  <2> QED BY <2>2, <2>3, <2>4, Zenon
<1> QED BY <1>1, WebhookStart, WebhookStep, PTL DEF WebhookSpec

----------------------------------------------------------------------------
(* The model gateway.                                                      *)
HealthRow == [until : Nat, cooldown : Nat, fails : Nat, speed : Nat]
CallState == [pc : {"trying", "streaming", "answered", "exhausted", "broken"},
              order : Seq(Members), n : Nat, direct : BOOLEAN, stream : BOOLEAN, there : BOOLEAN,
              line : {"flowing", "silent"}, stalled : BOOLEAN, good : SUBSET Members, by : SUBSET Members]

GatewayTypeOK ==
    /\ group \in SUBSET Members
    /\ health \in [Members -> HealthRow]
    /\ call \in [Handlers -> {NoCall} \cup CallState]
    /\ now \in Nat

FreeFirst(order) == \A i, j \in DOMAIN order : i < j /\ order[j] \in Free => order[i] \in Free

(* A request while the members W work: what it has tried does not work; what *)
(* it relays comes from one member, a paid one only if no free one worked.   *)
CallOK(c, W) ==
    /\ c.n \in 1..Len(c.order) /\ (c.direct => Len(c.order) = 1) /\ FreeFirst(c.order)
    /\ c.good \subseteq ToSet(c.order)
    /\ c.pc = "trying" => c.good \subseteq W /\ c.by = {}
    /\ c.pc = "trying" /\ c.there => \A i \in 1..Len(c.order) : i < c.n => c.order[i] \notin c.good
    /\ c.pc # "trying" => c.by \subseteq {c.order[c.n]}
    /\ c.pc \in {"streaming", "answered", "broken"} /\ c.order[c.n] \notin Free => c.good \cap Free = {}
    /\ c.pc = "exhausted" /\ c.there => c.good = {}

GatewayInv == GatewayTypeOK /\ \A h \in Handlers : call[h].pc # "none" => CallOK(call[h], Working)

LEMMA GatewayStart == GatewayInit => GatewayInv
<1> SUFFICES ASSUME GatewayInit PROVE GatewayInv
  OBVIOUS
<1>1. Unknown \in HealthRow
  BY DEF Unknown, HealthRow
<1>2. GatewayTypeOK
  BY <1>1 DEF GatewayInit, GatewayTypeOK
<1>3. \A h \in Handlers : call[h].pc = "none"
  BY DEF GatewayInit, NoCall
<1> QED BY <1>2, <1>3 DEF GatewayInv

(* Which of two members is tried before the other is settled for every pair, *)
(* and agrees with itself.                                                  *)
LEMMA TriedBeforeIsOrder ==
    ASSUME GatewayTypeOK, NEW a \in Members, NEW b \in Members, NEW c \in Members
    PROVE  /\ ~TriedBefore(a, a)
           /\ a # b => TriedBefore(a, b) \/ TriedBefore(b, a)
           /\ TriedBefore(a, b) /\ TriedBefore(b, c) => TriedBefore(a, c)
<1>1. \A m \in Members : /\ health[m].until \in Nat /\ health[m].fails \in Nat /\ health[m].speed \in Nat
                         /\ m \in Nat
  BY MembersAssumption DEF GatewayTypeOK, HealthRow
<1> DEFINE C(m) == Cooled(m)
           F(m) == m \in Free
           U(m) == health[m].until
           N(m) == health[m].fails
           S(m) == health[m].speed
           Chilled(x, y) == U(x) < U(y) \/ (U(x) = U(y) /\ x < y)
           Fit(x, y) == N(x) < N(y) \/ (N(x) = N(y) /\ (S(x) > S(y) \/ (S(x) = S(y) /\ x < y)))
<1>2. ASSUME NEW x \in Members, NEW y \in Members
      PROVE  TriedBefore(x, y) <=> \/ F(x) /\ ~F(y)
                                   \/ /\ F(x) <=> F(y)
                                      /\ \/ ~C(x) /\ C(y)
                                         \/ C(x) /\ C(y) /\ Chilled(x, y)
                                         \/ ~C(x) /\ ~C(y) /\ Fit(x, y)
  <2>1. CASE ~(F(x) <=> F(y))
    BY <2>1 DEF TriedBefore
  <2>2. CASE F(x) <=> F(y)
    <3>1. CASE ~(C(x) <=> C(y))
      BY <2>2, <3>1 DEF TriedBefore
    <3>2. CASE C(x) <=> C(y)
      <4>1. TriedBefore(x, y) <=> IF C(x) /\ U(x) # U(y) THEN U(x) < U(y)
                                  ELSE IF ~C(x) /\ N(x) # N(y) THEN N(x) < N(y)
                                  ELSE IF ~C(x) /\ S(x) # S(y) THEN S(x) > S(y)
                                  ELSE x < y
        BY <2>2, <3>2 DEF TriedBefore, Cooled
      <4> HIDE DEF C, F
      <4> QED BY <1>1, <2>2, <3>2, <4>1
    <3> QED BY <3>1, <3>2
  <2> QED BY <2>1, <2>2
<1> HIDE DEF C, F
<1>3. \A m \in Members : U(m) \in Nat /\ N(m) \in Nat /\ S(m) \in Nat /\ m \in Nat
  BY <1>1
<1> HIDE DEF U, N, S
<1>4. /\ ~Chilled(a, a) /\ ~Fit(a, a)
      /\ a # b => (Chilled(a, b) \/ Chilled(b, a)) /\ (Fit(a, b) \/ Fit(b, a))
      /\ Chilled(a, b) /\ Chilled(b, c) => Chilled(a, c)
      /\ Fit(a, b) /\ Fit(b, c) => Fit(a, c)
  BY <1>3
<1> HIDE DEF Chilled, Fit
<1>5. ~TriedBefore(a, a)
  BY <1>2, <1>4, Zenon
<1>6. a # b => TriedBefore(a, b) \/ TriedBefore(b, a)
  BY <1>2, <1>4
<1>7. TriedBefore(a, b) /\ TriedBefore(b, c) => TriedBefore(a, c)
  BY <1>2, <1>4
<1> QED BY <1>5, <1>6, <1>7

(* The group in that order.                                                 *)
LEMMA OrderFound ==
    ASSUME GatewayTypeOK
    PROVE  orderCandidates \in Seq(Members) /\ FreeFirst(orderCandidates)
<1> DEFINE k == Cardinality(group)
           R == {p \in Members \X Members : TriedBefore(p[1], p[2])}
           Sorted(o) == \A i, j \in DOMAIN o : i < j => TriedBefore(o[i], o[j])
<1>1. group \in SUBSET Members /\ IsFiniteSet(group) /\ k \in Nat
  BY MembersAssumption, FS_Subset, FS_CardinalityType DEF GatewayTypeOK
<1>2. \A a, b \in Members : <<a, b>> \in R <=> TriedBefore(a, b)
  OBVIOUS
<1> HIDE DEF R
<1>3. /\ \A a \in group : <<a, a>> \notin R
      /\ \A a, b \in group : a # b => <<a, b>> \in R \/ <<b, a>> \in R
      /\ \A a, b, c \in group : <<a, b>> \in R /\ <<b, c>> \in R => <<a, c>> \in R
  BY <1>1, <1>2, TriedBeforeIsOrder
<1>4. PICK f \in [1..k -> group] : \A i, j \in 1..k : i < j => <<f[i], f[j]>> \in R
  BY <1>1, <1>3, SortedEnumeration
<1>5. Sorted(f)
  BY <1>1, <1>2, <1>4
<1>6. orderCandidates = CHOOSE o \in [1..k -> group] : Sorted(o)
  BY DEF orderCandidates
<1> HIDE DEF k, Sorted
<1>7. orderCandidates \in [1..k -> group] /\ Sorted(orderCandidates)
  BY <1>4, <1>5, <1>6, Zenon
<1>8. orderCandidates \in Seq(Members)
  BY <1>1, <1>7
<1>9. FreeFirst(orderCandidates)
  <2> SUFFICES ASSUME NEW i \in DOMAIN orderCandidates, NEW j \in DOMAIN orderCandidates,
                      i < j, orderCandidates[j] \in Free
               PROVE  orderCandidates[i] \in Free
    BY DEF FreeFirst
  <2>1. TriedBefore(orderCandidates[i], orderCandidates[j])
    BY <1>7 DEF Sorted
  <2> QED BY <2>1 DEF TriedBefore
<1> QED BY <1>8, <1>9

(* What the loop over the members keeps.                                    *)
LEMMA TriesOn ==
    ASSUME NEW W, NEW c \in CallState, CallOK(c, W), c.pc = "trying",
           c.there => c.order[c.n] \notin W
    PROVE  /\ c.n < Len(c.order) => [c EXCEPT !.n = @ + 1] \in CallState /\ CallOK([c EXCEPT !.n = @ + 1], W)
           /\ ~(c.n < Len(c.order)) => /\ [c EXCEPT !.pc = "exhausted"] \in CallState
                                       /\ CallOK([c EXCEPT !.pc = "exhausted"], W)
<1>1. /\ c.order \in Seq(Members) /\ c.n \in 1..Len(c.order) /\ Len(c.order) \in Nat
      /\ c.good \subseteq ToSet(c.order) /\ c.good \subseteq W /\ c.by = {}
      /\ (c.direct => Len(c.order) = 1) /\ FreeFirst(c.order)
      /\ c.there => \A i \in 1..Len(c.order) : i < c.n => c.order[i] \notin c.good
  BY DEF CallOK, CallState
<1>2. c.there => \A i \in 1..Len(c.order) : i <= c.n => c.order[i] \notin c.good
  BY <1>1
<1>3. CASE c.n < Len(c.order)
  <2> DEFINE d == [c EXCEPT !.n = c.n + 1]
  <2>1. c.n + 1 \in Nat /\ c.n + 1 \in 1..Len(c.order)
    BY <1>1, <1>3
  <2>2. d \in CallState
    BY <2>1 DEF CallState
  <2>3. /\ d.pc = "trying" /\ d.order = c.order /\ d.n = c.n + 1 /\ d.direct = c.direct
        /\ d.there = c.there /\ d.good = c.good /\ d.by = c.by
    BY DEF CallState
  <2> HIDE DEF d
  <2>4. d.there => \A i \in 1..Len(d.order) : i < d.n => d.order[i] \notin d.good
    BY <1>1, <1>2, <2>3
  <2>5. CallOK(d, W)
    BY <1>1, <2>1, <2>3, <2>4 DEF CallOK
  <2> QED BY <1>3, <2>2, <2>5 DEF d
<1>4. CASE ~(c.n < Len(c.order))
  <2> DEFINE d == [c EXCEPT !.pc = "exhausted"]
  <2>1. d \in CallState
    BY DEF CallState
  <2>2. /\ d.pc = "exhausted" /\ d.order = c.order /\ d.n = c.n /\ d.direct = c.direct
        /\ d.there = c.there /\ d.good = c.good /\ d.by = c.by
    BY DEF CallState
  <2> HIDE DEF d
  <2>3. c.there => c.good = {}
    <3> SUFFICES ASSUME c.there, NEW m \in c.good PROVE FALSE
      OBVIOUS
    <3>1. PICK i \in 1..Len(c.order) : m = c.order[i]
      BY <1>1 DEF ToSet
    <3>2. i <= c.n
      BY <1>1, <1>4
    <3> QED BY <1>2, <3>1, <3>2
  <2>4. CallOK(d, W)
    BY <1>1, <2>2, <2>3 DEF CallOK
  <2> QED BY <1>4, <2>1, <2>4 DEF d
<1> QED BY <1>3, <1>4

(* What a relay starts from.                                                *)
LEMMA RelayOK ==
    ASSUME NEW W, NEW c \in CallState, CallOK(c, W), c.pc = "trying", c.there,
           NEW pc \in {"streaming", "answered"}
    PROVE  LET d == [c EXCEPT !.pc = pc, !.by = @ \cup {c.order[c.n]}]
           IN  d \in CallState /\ CallOK(d, W)
<1> DEFINE d == [c EXCEPT !.pc = pc, !.by = c.by \cup {c.order[c.n]}]
<1>1. /\ c.order \in Seq(Members) /\ c.n \in 1..Len(c.order) /\ Len(c.order) \in Nat
      /\ c.good \subseteq ToSet(c.order) /\ c.by = {}
      /\ (c.direct => Len(c.order) = 1) /\ FreeFirst(c.order)
      /\ \A i \in 1..Len(c.order) : i < c.n => c.order[i] \notin c.good
  BY DEF CallOK, CallState
<1>2. c.order[c.n] \in Members
  BY <1>1
<1>3. c.by \cup {c.order[c.n]} \in SUBSET Members
  BY <1>1, <1>2
<1>4. d \in CallState
  BY <1>3 DEF CallState
<1>5. /\ d.pc = pc /\ d.order = c.order /\ d.n = c.n /\ d.direct = c.direct
      /\ d.there = c.there /\ d.good = c.good /\ d.by = c.by \cup {c.order[c.n]}
  BY DEF CallState
<1> HIDE DEF d
<1>6. ASSUME c.order[c.n] \notin Free PROVE c.good \cap Free = {}
  <2> SUFFICES ASSUME NEW m \in c.good, m \in Free PROVE FALSE
    OBVIOUS
  <2>1. PICK i \in 1..Len(c.order) : m = c.order[i]
    BY <1>1 DEF ToSet
  <2>2. ~(i < c.n) /\ i # c.n
    BY <1>1, <1>6, <2>1
  <2>3. c.n < i
    BY <1>1, <2>2
  <2> QED BY <1>1, <1>6, <2>1, <2>3 DEF FreeFirst
<1>7. CallOK(d, W)
  BY <1>1, <1>5, <1>6 DEF CallOK
<1> QED BY <1>4, <1>7 DEF d

(* A relay that goes on, and one that ends.                                 *)
LEMMA RelayGoesOn ==
    ASSUME NEW W, NEW c \in CallState, CallOK(c, W), c.pc = "streaming", NEW d \in CallState,
           d.order = c.order, d.n = c.n, d.direct = c.direct, d.good = c.good, d.by = c.by,
           d.pc \in {"streaming", "answered", "broken"}
    PROVE  CallOK(d, W)
BY DEF CallOK

(* A step of one request.                                                   *)
LEMMA CallMoves ==
    ASSUME GatewayInv, NEW h \in Handlers, NEW d,
           d = NoCall \/ (d \in CallState /\ CallOK(d, Working)),
           call' = [call EXCEPT ![h] = d],
           health' \in [Members -> HealthRow],
           UNCHANGED <<group, provider, vault, now>>
    PROVE  GatewayInv'
<1>1. call' \in [Handlers -> {NoCall} \cup CallState]
  BY DEF GatewayInv, GatewayTypeOK
<1>2. call'[h] = d /\ \A g \in Handlers \ {h} : call'[g] = call[g]
  BY DEF GatewayInv, GatewayTypeOK
<1>3. Working' = Working
  BY DEF Working
<1>4. \A g \in Handlers : call'[g].pc # "none" => CallOK(call'[g], Working)
  BY <1>2 DEF GatewayInv, NoCall
<1>5. \A g \in Handlers : call'[g].pc # "none" => CallOK(call'[g], Working')
  BY <1>3, <1>4
<1> QED BY <1>1, <1>5 DEF GatewayInv, GatewayTypeOK

(* What recordOutcome leaves.                                               *)
LEMMA HealthKept ==
    ASSUME GatewayTypeOK, NEW m \in Members, Failed(m) \/ Limited(m) \/ Succeeded(m)
    PROVE  health' \in [Members -> HealthRow]
<1>1. health[m] \in HealthRow /\ health \in [Members -> HealthRow] /\ now \in Nat
  BY DEF GatewayTypeOK
<1>2. CASE Failed(m)
  <2>1. [health[m] EXCEPT !.fails = @ + 1] \in HealthRow
    BY <1>1 DEF HealthRow
  <2> QED BY <1>1, <1>2, <2>1 DEF Failed
<1>3. CASE Limited(m)
  <2> DEFINE n == Cooldown(health[m].cooldown)
  <2>1. n \in Nat
    BY <1>1, MembersAssumption DEF Cooldown, HealthRow
  <2>2. health' = [health EXCEPT ![m].cooldown = n, ![m].until = now + n]
    BY <1>3 DEF Limited
  <2> HIDE DEF n
  <2>3. [health[m] EXCEPT !.cooldown = n, !.until = now + n] \in HealthRow
    <3>1. now + n \in Nat
      BY <1>1, <2>1
    <3>2. [health[m] EXCEPT !.cooldown = n] \in HealthRow
      BY <1>1, <2>1 DEF HealthRow
    <3> QED BY <1>1, <2>1, <3>1, <3>2 DEF HealthRow
  <2> QED BY <1>1, <2>2, <2>3
<1>4. CASE Succeeded(m)
  <2>1. PICK speed \in {health[m].speed, 1} : health' = [health EXCEPT ![m] = [Unknown EXCEPT !.speed = speed]]
    BY <1>4 DEF Succeeded
  <2>2. [Unknown EXCEPT !.speed = speed] \in HealthRow
    BY <1>1 DEF Unknown, HealthRow
  <2> QED BY <1>1, <2>1, <2>2
<1> QED BY <1>2, <1>3, <1>4

(* A request that has come.                                                 *)
LEMMA CallHolds ==
    ASSUME GatewayInv, NEW h \in Handlers, call[h].pc # "none"
    PROVE  /\ call[h] \in CallState /\ CallOK(call[h], Working)
           /\ Member(h) = call[h].order[call[h].n] /\ Member(h) \in Members
<1>1. call[h] \in CallState /\ CallOK(call[h], Working)
  BY DEF GatewayInv, GatewayTypeOK, NoCall
<1>2. call[h].order \in Seq(Members) /\ call[h].n \in 1..Len(call[h].order)
  BY <1>1 DEF CallState, CallOK
<1> QED BY <1>1, <1>2 DEF Member

LEMMA ArriveKeeps ==
    ASSUME GatewayInv, NEW h \in Handlers, Arrive(h)
    PROVE  GatewayInv'
<1>1. PICK to \in Targets, stream \in BOOLEAN :
        /\ to.order # <<>>
        /\ call' = [call EXCEPT ![h] =
            [pc |-> "trying", order |-> to.order, n |-> 1, direct |-> to.direct,
             stream |-> stream, there |-> TRUE, line |-> "flowing", stalled |-> FALSE,
             good |-> ToSet(to.order) \cap Working, by |-> {}]]
  BY DEF Arrive
<1> DEFINE o == to.order
           g == ToSet(to.order) \cap Working
<1>2. /\ o \in Seq(Members) /\ FreeFirst(o) /\ to.direct \in BOOLEAN
      /\ to.direct => Len(o) = 1
  <2>1. CASE to = [order |-> orderCandidates, direct |-> FALSE]
    BY <2>1, OrderFound DEF GatewayInv
  <2>2. ASSUME NEW m \in Members, to = Direct(m) PROVE <1>2!1 /\ to.direct /\ Len(o) = 1
    <3>1. o = <<m>> /\ to.direct
      BY <2>2 DEF Direct
    <3>2. <<m>> \in Seq(Members) /\ Len(<<m>>) = 1 /\ DOMAIN <<m>> = {1}
      OBVIOUS
    <3>3. FreeFirst(<<m>>)
      BY <3>2 DEF FreeFirst
    <3> QED BY <3>1, <3>2, <3>3
  <2> QED BY <2>1, <2>2 DEF Targets
<1>3. g \in SUBSET Members /\ g \subseteq ToSet(o) /\ g \subseteq Working
  BY DEF Working
<1>4. Len(o) \in Nat /\ 1 \in 1..Len(o)
  <2>1. o \in Seq(Members) /\ o # <<>>
    BY <1>1, <1>2
  <2> HIDE DEF o
  <2> QED BY <2>1
<1> HIDE DEF o, g
<1> DEFINE d == [pc |-> "trying", order |-> o, n |-> 1, direct |-> to.direct,
                 stream |-> stream, there |-> TRUE, line |-> "flowing", stalled |-> FALSE,
                 good |-> g, by |-> {}]
<1>5. d \in CallState
  BY <1>2, <1>3, <1>4 DEF CallState
<1>6. CallOK(d, Working)
  BY <1>2, <1>3, <1>4 DEF CallOK
<1>7. call' = [call EXCEPT ![h] = d]
  BY <1>1 DEF o, g
<1> HIDE DEF d
<1>8. UNCHANGED <<group, provider, vault, health, now>> /\ health \in [Members -> HealthRow]
  BY DEF Arrive, GatewayInv, GatewayTypeOK
<1> QED BY <1>5, <1>6, <1>7, <1>8, CallMoves

(* An attempt that comes to nothing.                                        *)
LEMMA AttemptKeeps ==
    ASSUME GatewayInv, NEW h \in Handlers, AttemptFails(h) \/ AttemptLimited(h)
    PROVE  GatewayInv'
<1> DEFINE c == call[h]
<1>1. /\ c.pc = "trying" /\ TryNext(h) /\ UNCHANGED surroundings
      /\ Failed(Member(h)) \/ Limited(Member(h))
      /\ ~c.there \/ ~vault \/ provider[Member(h)] # "ok"
  BY DEF AttemptFails, AttemptLimited, Trying, Unsendable
<1>2. /\ c \in CallState /\ CallOK(c, Working)
      /\ Member(h) = c.order[c.n] /\ Member(h) \in Members
  BY <1>1, CallHolds
<1>3. c.there => c.order[c.n] \notin Working
  BY <1>1, <1>2 DEF Working
<1>4. health' \in [Members -> HealthRow]
  BY <1>1, <1>2, HealthKept DEF GatewayInv
<1>5. UNCHANGED <<group, provider, vault, now>>
  BY <1>1 DEF surroundings
<1>6. CASE c.n < Len(c.order)
  <2>1. call' = [call EXCEPT ![h] = [c EXCEPT !.n = @ + 1]]
    BY <1>1, <1>6 DEF TryNext
  <2> QED BY <1>1, <1>2, <1>3, <1>4, <1>5, <1>6, <2>1, TriesOn, CallMoves
<1>7. CASE ~(c.n < Len(c.order))
  <2>1. call' = [call EXCEPT ![h] = [c EXCEPT !.pc = "exhausted"]]
    BY <1>1, <1>7 DEF TryNext, To
  <2> QED BY <1>1, <1>2, <1>3, <1>4, <1>5, <1>7, <2>1, TriesOn, CallMoves
<1> QED BY <1>6, <1>7

(* An attempt that is answered, by the group or by one provider.            *)
LEMMA AnswerKeeps ==
    ASSUME GatewayInv, NEW h \in Handlers, AttemptAnswers(h) \/ StreamStarts(h) \/ RelayDirect(h)
    PROVE  GatewayInv'
<1> DEFINE c == call[h]
<1>1. c.pc = "trying" /\ UNCHANGED surroundings /\ (UNCHANGED health \/ Succeeded(Member(h)))
  BY DEF AttemptAnswers, StreamStarts, RelayDirect, Trying
<1>2. /\ c \in CallState /\ CallOK(c, Working)
      /\ Member(h) = c.order[c.n] /\ Member(h) \in Members
  BY <1>1, CallHolds
<1>3. health' \in [Members -> HealthRow]
  BY <1>1, <1>2, HealthKept DEF GatewayInv, GatewayTypeOK
<1>4. UNCHANGED <<group, provider, vault, now>>
  BY <1>1 DEF surroundings
<1>5. ASSUME NEW pc \in {"streaming", "answered"}, c.there, Relays(h, pc) PROVE GatewayInv'
  <2> DEFINE d == [c EXCEPT !.pc = pc, !.by = @ \cup {c.order[c.n]}]
  <2>1. d \in CallState /\ CallOK(d, Working)
    BY <1>1, <1>2, <1>5, RelayOK
  <2>2. call' = [call EXCEPT ![h] = d]
    BY <1>2, <1>5 DEF Relays
  <2> HIDE DEF d
  <2> QED BY <1>3, <1>4, <2>1, <2>2, CallMoves
<1>6. CASE AttemptAnswers(h)
  <2>1. c.there /\ Relays(h, "answered")
    BY <1>6 DEF AttemptAnswers, Unsendable
  <2> QED BY <1>5, <2>1
<1>7. CASE StreamStarts(h)
  <2>1. c.there /\ Relays(h, "streaming")
    BY <1>7 DEF StreamStarts, Unsendable
  <2> QED BY <1>5, <2>1
<1>8. CASE RelayDirect(h) /\ ~Unsendable(h)
  <2>1. c.there
    BY <1>8 DEF Unsendable
  <2>2. Relays(h, "streaming") \/ Relays(h, "answered")
    BY <1>8 DEF RelayDirect
  <2> QED BY <1>5, <2>1, <2>2
<1>9. CASE RelayDirect(h) /\ Unsendable(h)
  <2>1. To(h, "exhausted") /\ c.direct
    BY <1>9 DEF RelayDirect
  <2>2. c.there => c.order[c.n] \notin Working
    BY <1>2, <1>9 DEF Unsendable, Working
  <2>3. ~(c.n < Len(c.order))
    <3>1. Len(c.order) = 1 /\ c.n \in 1..Len(c.order)
      BY <1>2, <2>1 DEF CallOK
    <3>2. c.n \in 1..1
      BY <3>1
    <3> QED BY <3>1, <3>2
  <2>4. call' = [call EXCEPT ![h] = [c EXCEPT !.pc = "exhausted"]]
    BY <2>1 DEF To
  <2> QED BY <1>1, <1>2, <1>3, <1>4, <2>2, <2>3, <2>4, TriesOn, CallMoves
<1> QED BY <1>6, <1>7, <1>8, <1>9

(* A stream goes on, falls silent, ends or breaks.                          *)
LEMMA StreamKeeps ==
    ASSUME GatewayInv, NEW h \in Handlers,
           FallSilent(h) \/ GoOn(h) \/ Watchdog(h) \/ StreamEnds(h) \/ StreamBreaks(h)
    PROVE  GatewayInv'
<1> DEFINE c == call[h]
<1>1. /\ c.pc = "streaming" /\ UNCHANGED <<group, provider, vault, now>>
      /\ UNCHANGED health \/ Failed(Member(h)) \/ Succeeded(Member(h))
  BY DEF FallSilent, GoOn, Watchdog, StreamEnds, StreamBreaks, Learns, surroundings
<1>2. /\ c \in CallState /\ CallOK(c, Working) /\ Member(h) \in Members
  BY <1>1, CallHolds
<1>3. health' \in [Members -> HealthRow]
  BY <1>1, <1>2, HealthKept DEF GatewayInv, GatewayTypeOK
<1>4. \/ \E line \in {"flowing", "silent"} : call' = [call EXCEPT ![h] = [c EXCEPT !.line = line]]
      \/ call' = [call EXCEPT ![h] = [c EXCEPT !.stalled = TRUE]]
      \/ \E pc \in {"answered", "broken"} : call' = [call EXCEPT ![h] = [c EXCEPT !.pc = pc]]
  <2>1. CASE FallSilent(h) \/ GoOn(h) \/ Watchdog(h)
    BY <2>1 DEF FallSilent, GoOn, Watchdog
  <2>2. CASE StreamEnds(h) \/ StreamBreaks(h)
    <3>1. To(h, "answered") \/ To(h, "broken")
      BY <2>2 DEF StreamEnds, StreamBreaks
    <3> QED BY <3>1 DEF To
  <2> QED BY <2>1, <2>2
<1>5. PICK d \in CallState :
        /\ call' = [call EXCEPT ![h] = d]
        /\ d.order = c.order /\ d.n = c.n /\ d.direct = c.direct /\ d.good = c.good /\ d.by = c.by
        /\ d.pc \in {"streaming", "answered", "broken"}
  <2> HIDE DEF c
  <2>1. ASSUME NEW line \in {"flowing", "silent"}, call' = [call EXCEPT ![h] = [c EXCEPT !.line = line]]
        PROVE  \E d \in CallState :
                /\ call' = [call EXCEPT ![h] = d]
                /\ d.order = c.order /\ d.n = c.n /\ d.direct = c.direct /\ d.good = c.good /\ d.by = c.by
                /\ d.pc \in {"streaming", "answered", "broken"}
    <3> DEFINE d == [c EXCEPT !.line = line]
    <3>1. /\ d \in CallState /\ d.pc = c.pc
          /\ d.order = c.order /\ d.n = c.n /\ d.direct = c.direct /\ d.good = c.good /\ d.by = c.by
      BY <1>2 DEF CallState
    <3>2. call' = [call EXCEPT ![h] = d]
      BY <2>1
    <3> HIDE DEF d
    <3> QED BY <1>1, <3>1, <3>2
  <2>2. ASSUME call' = [call EXCEPT ![h] = [c EXCEPT !.stalled = TRUE]]
        PROVE  \E d \in CallState :
                /\ call' = [call EXCEPT ![h] = d]
                /\ d.order = c.order /\ d.n = c.n /\ d.direct = c.direct /\ d.good = c.good /\ d.by = c.by
                /\ d.pc \in {"streaming", "answered", "broken"}
    <3> DEFINE d == [c EXCEPT !.stalled = TRUE]
    <3>1. /\ d \in CallState /\ d.pc = c.pc
          /\ d.order = c.order /\ d.n = c.n /\ d.direct = c.direct /\ d.good = c.good /\ d.by = c.by
      BY <1>2 DEF CallState
    <3>2. call' = [call EXCEPT ![h] = d]
      BY <2>2
    <3> HIDE DEF d
    <3> QED BY <1>1, <3>1, <3>2
  <2>3. ASSUME NEW pc \in {"answered", "broken"}, call' = [call EXCEPT ![h] = [c EXCEPT !.pc = pc]]
        PROVE  \E d \in CallState :
                /\ call' = [call EXCEPT ![h] = d]
                /\ d.order = c.order /\ d.n = c.n /\ d.direct = c.direct /\ d.good = c.good /\ d.by = c.by
                /\ d.pc \in {"streaming", "answered", "broken"}
    <3> DEFINE d == [c EXCEPT !.pc = pc]
    <3>1. /\ d \in CallState /\ d.pc = pc
          /\ d.order = c.order /\ d.n = c.n /\ d.direct = c.direct /\ d.good = c.good /\ d.by = c.by
      BY <1>2 DEF CallState
    <3>2. call' = [call EXCEPT ![h] = d]
      BY <2>3
    <3> HIDE DEF d
    <3> QED BY <3>1, <3>2
  <2> QED BY <1>4, <2>1, <2>2, <2>3
<1>6. CallOK(d, Working)
  BY <1>1, <1>2, <1>5, RelayGoesOn
<1> QED BY <1>1, <1>3, <1>5, <1>6, CallMoves

(* The client goes, or leaves with its answer.                              *)
LEMMA ClientKeeps ==
    ASSUME GatewayInv, NEW h \in Handlers, ClientGoes(h) \/ Leave(h)
    PROVE  GatewayInv'
<1>1. UNCHANGED <<group, provider, vault, now>> /\ health' \in [Members -> HealthRow]
  BY DEF ClientGoes, Leave, surroundings, GatewayInv, GatewayTypeOK
<1>2. CASE Leave(h)
  <2>1. call' = [call EXCEPT ![h] = NoCall]
    BY <1>2 DEF Leave
  <2> QED BY <1>1, <2>1, CallMoves
<1>3. CASE ClientGoes(h)
  <2> DEFINE c == call[h]
             d == [c EXCEPT !.there = FALSE]
  <2>1. c \in CallState /\ CallOK(c, Working) /\ c.pc \in {"trying", "streaming"}
    BY <1>3, CallHolds DEF ClientGoes
  <2>2. /\ d \in CallState /\ d.pc = c.pc /\ ~d.there
        /\ d.order = c.order /\ d.n = c.n /\ d.direct = c.direct /\ d.good = c.good /\ d.by = c.by
    BY <2>1 DEF CallState
  <2>3. call' = [call EXCEPT ![h] = d]
    BY <1>3 DEF ClientGoes
  <2> HIDE DEF c, d
  <2>4. CallOK(d, Working)
    BY <2>1, <2>2 DEF CallOK
  <2> QED BY <1>1, <2>2, <2>3, <2>4, CallMoves
<1> QED BY <1>2, <1>3

(* A member stops or starts to work: what a request may still hope for        *)
(* shrinks.                                                                 *)
LEMMA WitnessedKeeps ==
    ASSUME GatewayInv, call' = Witnessed(Working'), UNCHANGED <<group, health, now>>
    PROVE  GatewayInv'
<1>1. ASSUME NEW h \in Handlers, call[h].pc \in {"trying", "streaming"}
      PROVE  LET d == [call[h] EXCEPT !.good = @ \cap Working'] IN d \in CallState /\ CallOK(d, Working')
  <2> DEFINE c == call[h]
             W == Working'
             d == [c EXCEPT !.good = c.good \cap W]
  <2>1. c \in CallState /\ CallOK(c, Working)
    BY <1>1, CallHolds
  <2> HIDE DEF c, W
  <2>2. c.good \cap W \in SUBSET Members
    BY <2>1 DEF CallState
  <2>3. /\ d \in CallState /\ d.pc = c.pc /\ d.there = c.there
        /\ d.order = c.order /\ d.n = c.n /\ d.direct = c.direct /\ d.good = c.good \cap W /\ d.by = c.by
    BY <2>1, <2>2 DEF CallState
  <2> HIDE DEF d
  <2>4. c.pc \in {"trying", "streaming"}
    BY <1>1 DEF c
  <2>5. CallOK(d, W)
    <3>1. /\ d.n \in 1..Len(d.order) /\ (d.direct => Len(d.order) = 1) /\ FreeFirst(d.order)
          /\ d.good \subseteq ToSet(d.order)
          /\ d.pc = "trying" => d.good \subseteq W /\ d.by = {}
      BY <2>1, <2>3 DEF CallOK
    <3>2. d.pc = "trying" /\ d.there => \A i \in 1..Len(d.order) : i < d.n => d.order[i] \notin d.good
      BY <2>1, <2>3 DEF CallOK
    <3>3. /\ d.pc # "trying" => d.by \subseteq {d.order[d.n]}
          /\ d.pc \in {"streaming", "answered", "broken"} /\ d.order[d.n] \notin Free => d.good \cap Free = {}
          /\ d.pc = "exhausted" /\ d.there => d.good = {}
      BY <2>1, <2>3, <2>4 DEF CallOK
    <3> QED BY <3>1, <3>2, <3>3 DEF CallOK
  <2> QED BY <2>3, <2>5 DEF c, d, W
<1>2. ASSUME NEW h \in Handlers
      PROVE  call'[h] \in {NoCall} \cup CallState /\ (call'[h].pc # "none" => CallOK(call'[h], Working'))
  <2>1. CASE call[h].pc \in {"trying", "streaming"}
    <3>1. call'[h] = [call[h] EXCEPT !.good = @ \cap Working']
      BY <2>1 DEF Witnessed
    <3> QED BY <1>1, <2>1, <3>1
  <2>2. CASE call[h].pc \notin {"trying", "streaming"}
    <3>1. call'[h] = call[h]
      BY <2>2 DEF Witnessed
    <3>2. CASE call[h].pc = "none"
      BY <3>1, <3>2 DEF GatewayInv, GatewayTypeOK
    <3>3. CASE call[h].pc # "none"
      <4>1. call[h] \in CallState /\ CallOK(call[h], Working)
        BY <3>3, CallHolds
      <4>2. CallOK(call[h], Working')
        BY <2>2, <4>1 DEF CallOK
      <4> QED BY <3>1, <4>1, <4>2
    <3> QED BY <3>2, <3>3
  <2> QED BY <2>1, <2>2
<1>3. call' = [h \in Handlers |-> call'[h]]
  BY DEF Witnessed
<1>4. call' \in [Handlers -> {NoCall} \cup CallState]
  BY <1>2, <1>3
<1> QED BY <1>2, <1>4 DEF GatewayInv, GatewayTypeOK

LEMMA GatewayStep == GatewayInv /\ [GatewayNext]_gatewayVars => GatewayInv'
<1> SUFFICES ASSUME GatewayInv, [GatewayNext]_gatewayVars PROVE GatewayInv'
  OBVIOUS
<1>1. ASSUME NEW h \in Handlers,
             \/ Arrive(h) \/ AttemptFails(h) \/ AttemptLimited(h) \/ AttemptAnswers(h)
             \/ StreamStarts(h) \/ RelayDirect(h) \/ FallSilent(h) \/ GoOn(h) \/ Watchdog(h)
             \/ StreamEnds(h) \/ StreamBreaks(h) \/ Leave(h) \/ ClientGoes(h)
      PROVE  GatewayInv'
  BY <1>1, ArriveKeeps, AttemptKeeps, AnswerKeeps, StreamKeeps, ClientKeeps, Zenon
<1>2. ASSUME NEW m \in Members, NEW does \in {"ok", "limited", "down"}, ProviderChanges(m, does)
      PROVE  GatewayInv'
  <2>1. call' = Witnessed(Working') /\ UNCHANGED <<group, health, now>>
    BY <1>2, Zenon DEF ProviderChanges
  <2> QED BY <2>1, WitnessedKeeps
<1>3. CASE VaultChanges
  <2>1. call' = Witnessed(Working') /\ UNCHANGED <<group, health, now>>
    BY <1>3, Zenon DEF VaultChanges
  <2> QED BY <2>1, WitnessedKeeps
<1>4. ASSUME UNCHANGED <<provider, vault, call>>, GatewayTypeOK' PROVE GatewayInv'
  BY <1>4 DEF GatewayInv, Working
<1>5. ASSUME NEW members \in SUBSET Members, UpdateModelGroup(members) PROVE GatewayInv'
  BY <1>4, <1>5 DEF UpdateModelGroup, GatewayInv, GatewayTypeOK
<1>6. CASE Elapse
  BY <1>4, <1>6 DEF Elapse, GatewayInv, GatewayTypeOK
<1>7. CASE RestartGateway
  <2>1. Unknown \in HealthRow
    BY DEF Unknown, HealthRow
  <2>2. GatewayTypeOK'
    BY <1>7, <2>1 DEF RestartGateway, GatewayInv, GatewayTypeOK
  <2>3. \A h \in Handlers : call'[h].pc = "none"
    BY <1>7 DEF RestartGateway, NoCall
  <2> QED BY <2>2, <2>3 DEF GatewayInv
<1>8. CASE UNCHANGED gatewayVars
  BY <1>4, <1>8 DEF gatewayVars, GatewayInv, GatewayTypeOK
<1>9. CASE GatewayNext
  BY <1>1, <1>2, <1>3, <1>5, <1>6, <1>7, <1>9, Zenon DEF GatewayNext
<1> QED BY <1>8, <1>9

(* A client that stayed is told that the group is exhausted only if no        *)
(* member would have answered at every moment of its request, whatever      *)
(* cooldowns and failures the gateway remembered (serveGroupChatCompletions).*)
THEOREM ExhaustedMeansNoneWorksAlways == GatewaySpec => []ExhaustedMeansNoneWorks
<1>1. GatewayInv => ExhaustedMeansNoneWorks
  BY DEF GatewayInv, ExhaustedMeansNoneWorks, CallOK
<1> QED BY <1>1, GatewayStart, GatewayStep, PTL DEF GatewaySpec

(* A paid member relays only if no free member of the request's order would  *)
(* have answered throughout (orderCandidates: the free ones are first).      *)
THEOREM PaidIsLastResortAlways == GatewaySpec => []PaidIsLastResort
<1>1. GatewayInv => PaidIsLastResort
  BY DEF GatewayInv, PaidIsLastResort, CallOK, Member
<1> QED BY <1>1, GatewayStart, GatewayStep, PTL DEF GatewaySpec

(* The bytes of an answer come from one member (proxySSEStream: no failover   *)
(* once the relay has begun).                                               *)
THEOREM OneVoiceAlways == GatewaySpec => []OneVoice
<1>1. GatewayInv => OneVoice
  <2> SUFFICES ASSUME GatewayInv, NEW h \in Handlers, call[h].pc # "none"
               PROVE  Cardinality(call[h].by) <= 1
    BY DEF OneVoice
  <2>1. call[h].by \subseteq {Member(h)}
    BY DEF GatewayInv, CallOK, Member
  <2>2. call[h].by = {} \/ call[h].by = {Member(h)}
    BY <2>1
  <2>3. Cardinality(call[h].by) \in {0, 1}
    BY <2>2, FS_EmptySet, FS_Singleton
  <2> QED BY <2>3
<1> QED BY <1>1, GatewayStart, GatewayStep, PTL DEF GatewaySpec

----------------------------------------------------------------------------
(* Accounts: keys, sessions and refresh tokens.                            *)
SessionRow == [expires : Nat, ceiling : Nat, since : Nat]
TokenRow == [id : Nat, family : Nat, used : Nat, revoked : BOOLEAN, expires : Nat, ceiling : Nat, since : Nat]

(* The data keys that have wrapped anything: a passkey's, or a shredded one's. *)
Known == passkeys \cup shredded

(* What a request holds when the data keys K are known: a key it took from   *)
(* the account, or the ceiling and the beginning of one login.              *)
IdlePC == {"idle", "registering", "logout", "logout2", "shredded", "recover2", "recover3", "recover4"}
RotatedReq == {q \in [pc : {"rotated"}, ceiling : Nat, since : Nat] : q.ceiling = q.since + Cap}
ReqOf(K) ==
    [pc : IdlePC]
    \cup [pc : {"enrolled"}, dek : K, ticket : Nat]
    \cup [pc : {"unlock", "adding", "saving"}, dek : K]
    \cup [pc : {"issue"}, dek : K \cup {0}]
    \cup [pc : {"issueRefresh"}, dek : K \cup {0}, since : Nat]
    \cup RotatedReq

CountersOK == clock \in Nat /\ made \in Nat /\ issued \in Nat /\ ticket \in Nat
KeysOK ==
    /\ passkeys \subseteq Nat /\ shredded \subseteq Nat
    /\ keyring \in [dek : Known \cup {0}, until : Nat]
    /\ snapshot \in Known \cup {0}
    /\ SecretsReadable
SessionsOK(S) == S \subseteq SessionRow /\ \A s \in S : s.ceiling = s.since + Cap
TokensOK(T) == T \subseteq TokenRow /\ \A t \in T : t.ceiling = t.since + Cap
ReqOK == req \in [Requests -> ReqOf(Known)]

IdentityInv == CountersOK /\ KeysOK /\ SessionsOK(sessions) /\ TokensOK(tokens) /\ ReqOK

LEMMA IdentityStart == IdentityInit => IdentityInv
<1> SUFFICES ASSUME IdentityInit PROVE IdentityInv
  OBVIOUS
<1>1. AtRest \in ReqOf(Known)
  BY DEF AtRest, ReqOf, IdlePC
<1>2. ReqOK
  BY <1>1 DEF IdentityInit, ReqOK
<1>3. CountersOK /\ KeysOK
  BY DEF IdentityInit, CountersOK, KeysOK, Locked, SecretsReadable
<1>4. SessionsOK(sessions) /\ TokensOK(tokens)
  BY DEF IdentityInit, SessionsOK, TokensOK
<1> QED BY <1>2, <1>3, <1>4 DEF IdentityInv

(* What is read off a request at each statement.                            *)
LEMMA ReqHolds ==
    ASSUME ReqOK, NEW r \in Requests
    PROVE  /\ req[r].pc \in {"unlock", "adding", "saving", "enrolled"} => req[r].dek \in Known
           /\ req[r].pc \in {"issue", "issueRefresh"} => req[r].dek \in Known \cup {0}
           /\ req[r].pc = "issueRefresh" => req[r].since \in Nat
           /\ req[r].pc = "rotated" =>
                 req[r].ceiling \in Nat /\ req[r].since \in Nat /\ req[r].ceiling = req[r].since + Cap
<1>1. req[r] \in ReqOf(Known)
  BY DEF ReqOK
<1>2. CASE req[r] \in [pc : IdlePC]
  BY <1>2 DEF IdlePC
<1>3. CASE req[r] \in [pc : {"enrolled"}, dek : Known, ticket : Nat]
  BY <1>3
<1>4. CASE req[r] \in [pc : {"unlock", "adding", "saving"}, dek : Known]
  BY <1>4
<1>5. CASE req[r] \in [pc : {"issue"}, dek : Known \cup {0}]
  BY <1>5
<1>6. CASE req[r] \in [pc : {"issueRefresh"}, dek : Known \cup {0}, since : Nat]
  BY <1>6
<1>7. CASE req[r] \in RotatedReq
  BY <1>7 DEF RotatedReq
<1> QED BY <1>1, <1>2, <1>3, <1>4, <1>5, <1>6, <1>7 DEF ReqOf

(* A request moves on; what was known stays known.                          *)
LEMMA ReqMoves ==
    ASSUME ReqOK, NEW r \in Requests, NEW next \in ReqOf(Known'), Known \subseteq Known',
           req' = [req EXCEPT ![r] = next]
    PROVE  ReqOK'
<1>1. ReqOf(Known) \subseteq ReqOf(Known')
  BY DEF ReqOf
<1>2. req' \in [Requests -> ReqOf(Known')]
  BY <1>1 DEF ReqOK
<1> QED BY <1>2 DEF ReqOK

LEMMA ReqForms ==
    ASSUME NEW K
    PROVE  /\ AtRest \in ReqOf(K)
           /\ \A pc \in IdlePC : [pc |-> pc] \in ReqOf(K)
           /\ \A k \in K, t \in Nat : [pc |-> "enrolled", dek |-> k, ticket |-> t] \in ReqOf(K)
           /\ \A k \in K, pc \in {"unlock", "adding", "saving"} : [pc |-> pc, dek |-> k] \in ReqOf(K)
           /\ \A k \in K \cup {0} : [pc |-> "issue", dek |-> k] \in ReqOf(K)
           /\ \A k \in K \cup {0}, c \in Nat : [pc |-> "issueRefresh", dek |-> k, since |-> c] \in ReqOf(K)
           /\ \A c \in Nat, e \in Nat : e = c + Cap => [pc |-> "rotated", ceiling |-> e, since |-> c] \in ReqOf(K)
<1>1. AtRest \in [pc : IdlePC]
  BY DEF AtRest, IdlePC
<1>2. \A c \in Nat, e \in Nat : e = c + Cap => [pc |-> "rotated", ceiling |-> e, since |-> c] \in RotatedReq
  BY DEF RotatedReq
<1> QED BY <1>1, <1>2 DEF ReqOf

(* Reading a session slides it, and a new one begins its own ceiling or      *)
(* takes its family's.                                                      *)
LEMMA SessionsKept ==
    ASSUME CountersOK, SessionsOK(sessions),
           \/ Authenticated
           \/ \E ceiling, since \in Nat : ceiling = since + Cap /\ CreateSession(ceiling, since)
           \/ sessions' \subseteq sessions
    PROVE  SessionsOK(sessions')
<1>1. CASE Authenticated
  <2>1. PICK s \in sessions : sessions' = (sessions \ {s}) \cup {Slid(s)}
    BY <1>1 DEF Authenticated
  <2>2. s \in SessionRow /\ s.ceiling = s.since + Cap /\ clock \in Nat
    BY DEF SessionsOK, CountersOK
  <2> DEFINE e == IF clock + Access > s.expires THEN Smaller(clock + Access, s.ceiling) ELSE s.expires
  <2>3. e \in Nat
    BY <2>2, LifetimesAssumption DEF Smaller, SessionRow
  <2>4. Slid(s) = [s EXCEPT !.expires = e]
    BY DEF Slid
  <2> HIDE DEF e
  <2>5. Slid(s) \in SessionRow /\ Slid(s).ceiling = Slid(s).since + Cap
    BY <2>2, <2>3, <2>4 DEF SessionRow
  <2> QED BY <2>1, <2>5 DEF SessionsOK
<1>2. CASE \E ceiling, since \in Nat : ceiling = since + Cap /\ CreateSession(ceiling, since)
  <2>1. PICK ceiling \in Nat, since \in Nat : ceiling = since + Cap /\ CreateSession(ceiling, since)
    BY <1>2
  <2> DEFINE s == [expires |-> clock + Access, ceiling |-> ceiling, since |-> since]
  <2>2. s \in SessionRow /\ s.ceiling = s.since + Cap
    BY <2>1, LifetimesAssumption DEF SessionRow, CountersOK
  <2>3. sessions' = sessions \cup {s}
    BY <2>1 DEF CreateSession
  <2> HIDE DEF s
  <2> QED BY <2>2, <2>3 DEF SessionsOK
<1>3. CASE sessions' \subseteq sessions
  BY <1>3 DEF SessionsOK
<1> QED BY <1>1, <1>2, <1>3

(* A new token begins or continues a login; a rotation marks its token and   *)
(* adds a successor under the same ceiling; a burned family keeps it.       *)
LEMMA TokensKept ==
    ASSUME CountersOK, TokensOK(tokens),
           \/ \E ceiling, since \in Nat : ceiling = since + Cap /\ CreateRefreshToken(ceiling, since)
           \/ \E t \in tokens : tokens' = (tokens \ {t})
                                          \cup {IF t.used = 0 THEN [t EXCEPT !.used = clock] ELSE t, Successor(t)}
           \/ \E t \in tokens : tokens' = Burned(t.family)
           \/ tokens' \subseteq tokens
    PROVE  TokensOK(tokens')
<1>1. CASE \E ceiling, since \in Nat : ceiling = since + Cap /\ CreateRefreshToken(ceiling, since)
  <2>1. PICK ceiling \in Nat, since \in Nat : ceiling = since + Cap /\ CreateRefreshToken(ceiling, since)
    BY <1>1
  <2> DEFINE t == [id |-> issued, family |-> issued, used |-> 0, revoked |-> FALSE,
                   expires |-> clock + RefreshLife, ceiling |-> ceiling, since |-> since]
  <2>2. t \in TokenRow /\ t.ceiling = t.since + Cap
    BY <2>1, LifetimesAssumption DEF TokenRow, CountersOK
  <2>3. tokens' = tokens \cup {t}
    BY <2>1 DEF CreateRefreshToken
  <2> HIDE DEF t
  <2> QED BY <2>2, <2>3 DEF TokensOK
<1>2. CASE \E t \in tokens : tokens' = (tokens \ {t})
                                       \cup {IF t.used = 0 THEN [t EXCEPT !.used = clock] ELSE t, Successor(t)}
  <2>1. PICK t \in tokens : tokens' = (tokens \ {t})
                                      \cup {IF t.used = 0 THEN [t EXCEPT !.used = clock] ELSE t, Successor(t)}
    BY <1>2
  <2>2. t \in TokenRow /\ t.ceiling = t.since + Cap /\ clock \in Nat /\ issued \in Nat
    BY DEF TokensOK, CountersOK
  <2> DEFINE u == [t EXCEPT !.used = clock]
  <2>3. u \in TokenRow /\ u.ceiling = u.since + Cap
    BY <2>2 DEF TokenRow
  <2>4. Successor(t) \in TokenRow /\ Successor(t).ceiling = Successor(t).since + Cap
    <3>1. clock + RefreshLife \in Nat
      BY <2>2, LifetimesAssumption
    <3> QED BY <2>2, <3>1 DEF Successor, TokenRow
  <2>5. \A v \in tokens' : v \in tokens \/ v = u \/ v = Successor(t)
    BY <2>1
  <2> HIDE DEF u
  <2> QED BY <2>3, <2>4, <2>5 DEF TokensOK
<1>3. CASE \E t \in tokens : tokens' = Burned(t.family)
  <2>1. PICK f : tokens' = Burned(f)
    BY <1>3
  <2>2. ASSUME NEW v \in tokens' PROVE v \in TokenRow /\ v.ceiling = v.since + Cap
    <3>1. PICK t \in tokens : v = IF t.family = f THEN [t EXCEPT !.revoked = TRUE] ELSE t
      BY <2>1 DEF Burned
    <3>2. t \in TokenRow /\ t.ceiling = t.since + Cap
      BY DEF TokensOK
    <3>3. CASE v = t
      BY <3>2, <3>3
    <3>4. CASE v = [t EXCEPT !.revoked = TRUE]
      BY <3>2, <3>4 DEF TokenRow
    <3> QED BY <3>1, <3>3, <3>4
  <2> QED BY <2>2 DEF TokensOK
<1>4. CASE tokens' \subseteq tokens
  BY <1>4 DEF TokensOK
<1> QED BY <1>1, <1>2, <1>3, <1>4

(* Steps that leave every key where it is.                                  *)
LEMMA KeysStay ==
    ASSUME KeysOK, UNCHANGED <<passkeys, secrets, keyring, snapshot, shredded>>
    PROVE  KeysOK' /\ Known' = Known
BY DEF KeysOK, Known, SecretsReadable

(* The keyring is opened with a known key, or locked.                       *)
LEMMA KeyringMoves ==
    ASSUME CountersOK, KeysOK, UNCHANGED <<passkeys, secrets, shredded>>,
           snapshot' \in Known \cup {0},
           keyring' \in {keyring, Locked} \/ \E dek \in Known : Unlock(dek)
    PROVE  KeysOK' /\ Known' = Known
<1>1. keyring' \in [dek : Known \cup {0}, until : Nat]
  <2>1. CASE keyring' \in {keyring, Locked}
    BY <2>1 DEF KeysOK, Locked
  <2>2. CASE \E dek \in Known : Unlock(dek)
    <3>1. PICK dek \in Known : keyring' = [dek |-> dek, until |-> clock + Cap]
      BY <2>2 DEF Unlock
    <3>2. clock + Cap \in Nat
      BY LifetimesAssumption DEF CountersOK
    <3> QED BY <3>1, <3>2
  <2> QED BY <2>1, <2>2
<1> QED BY <1>1 DEF KeysOK, Known, SecretsReadable

(* Registration and added devices.                                          *)
LEMMA RegisterKeeps ==
    ASSUME IdentityInv, NEW r \in Requests,
           RegisterBegin(r) \/ SavePasskey(r) \/ GiveUp(r) \/ Enrolled(r) \/ AddBegin(r) \/ AddFinish(r)
    PROVE  IdentityInv'
<1> USE DEF IdentityInv
<1>1. CASE RegisterBegin(r) \/ GiveUp(r)
  <2>1. /\ UNCHANGED <<clock, passkeys, secrets, keyring, sessions, tokens, ticket, snapshot, made, issued, shredded>>
        /\ req' = [req EXCEPT ![r] = [pc |-> "registering"]] \/ req' = [req EXCEPT ![r] = AtRest]
    BY <1>1 DEF RegisterBegin, GiveUp, Start, Done, Step
  <2>2. KeysOK' /\ Known' = Known
    BY <2>1, KeysStay
  <2>3. [pc |-> "registering"] \in ReqOf(Known') /\ AtRest \in ReqOf(Known')
    BY ReqForms DEF IdlePC
  <2>4. ReqOK'
    BY <2>1, <2>2, <2>3, ReqMoves
  <2> QED BY <2>1, <2>2, <2>4 DEF CountersOK
<1>2. CASE SavePasskey(r)
  <2>1. /\ UNCHANGED <<clock, secrets, keyring, sessions, tokens, ticket, snapshot, issued, shredded>>
        /\ made' = made + 1 /\ passkeys' = passkeys \cup {made + 1}
        /\ req' = [req EXCEPT ![r] = [pc |-> "enrolled", dek |-> made + 1, ticket |-> ticket]]
    BY <1>2 DEF SavePasskey, Step
  <2>2. Known \subseteq Known' /\ made + 1 \in Known'
    BY <2>1 DEF Known
  <2>3. KeysOK'
    BY <2>1, <2>2 DEF KeysOK, SecretsReadable, CountersOK
  <2>4. [pc |-> "enrolled", dek |-> made + 1, ticket |-> ticket] \in ReqOf(Known')
    BY <2>2, ReqForms DEF CountersOK
  <2>5. ReqOK'
    BY <2>1, <2>2, <2>4, ReqMoves
  <2> QED BY <2>1, <2>3, <2>5 DEF CountersOK
<1>3. CASE Enrolled(r)
  <2>1. /\ UNCHANGED <<clock, passkeys, secrets, sessions, tokens, snapshot, made, issued, shredded>>
        /\ Unlock(req[r].dek) /\ ticket' \in {0, ticket}
        /\ req' = [req EXCEPT ![r] = [pc |-> "issue", dek |-> 0]]
    BY <1>3 DEF Enrolled, Step
  <2>2. req[r].dek \in Known
    BY <1>3, ReqHolds DEF Enrolled, At
  <2>3. KeysOK' /\ Known' = Known
    BY <2>1, <2>2, KeyringMoves DEF KeysOK
  <2>4. [pc |-> "issue", dek |-> 0] \in ReqOf(Known')
    BY ReqForms
  <2>5. ReqOK'
    BY <2>1, <2>3, <2>4, ReqMoves
  <2> QED BY <2>1, <2>3, <2>5 DEF CountersOK
<1>4. CASE AddBegin(r)
  <2>1. /\ UNCHANGED <<clock, passkeys, secrets, keyring, tokens, ticket, snapshot, made, issued, shredded>>
        /\ Authenticated /\ keyring.dek # 0
        /\ req' = [req EXCEPT ![r] = [pc |-> "adding", dek |-> keyring.dek]]
    BY <1>4 DEF AddBegin, Start, Unlocked
  <2>2. KeysOK' /\ Known' = Known
    BY <2>1, KeysStay
  <2>3. [pc |-> "adding", dek |-> keyring.dek] \in ReqOf(Known')
    BY <2>1, <2>2, ReqForms DEF KeysOK
  <2>4. ReqOK'
    BY <2>1, <2>2, <2>3, ReqMoves
  <2>5. SessionsOK(sessions')
    BY <2>1, SessionsKept
  <2> QED BY <2>1, <2>2, <2>4, <2>5 DEF CountersOK
<1>5. CASE AddFinish(r)
  <2>1. /\ UNCHANGED <<clock, secrets, keyring, sessions, tokens, ticket, snapshot, made, issued, shredded>>
        /\ passkeys' = passkeys \cup {req[r].dek}
        /\ req' = [req EXCEPT ![r] = AtRest]
    BY <1>5 DEF AddFinish, Done, Step
  <2>2. req[r].dek \in Known
    BY <1>5, ReqHolds DEF AddFinish, At
  <2>3. Known' = Known
    BY <2>1, <2>2 DEF Known
  <2>4. KeysOK'
    BY <2>1, <2>2, <2>3 DEF KeysOK, SecretsReadable, Known
  <2>5. ReqOK'
    BY <2>1, <2>3, ReqForms, ReqMoves
  <2> QED BY <2>1, <2>4, <2>5 DEF CountersOK
<1> QED BY <1>1, <1>2, <1>3, <1>4, <1>5

(* Logins, and what they unlock.                                            *)
LEMMA LoginKeeps ==
    ASSUME IdentityInv, NEW r \in Requests,
           Assertion(r) \/ IssueSession(r) \/ IssueRefresh(r) \/ FinishUnlock(r)
    PROVE  IdentityInv'
<1> USE DEF IdentityInv
<1>1. CASE Assertion(r)
  <2>1. UNCHANGED <<clock, passkeys, secrets, keyring, tokens, ticket, snapshot, made, issued, shredded>>
    BY <1>1 DEF Assertion
  <2>2. PICK k \in passkeys, prf \in BOOLEAN :
          \/ req' = [req EXCEPT ![r] = [pc |-> "issue", dek |-> IF prf THEN k ELSE 0]] /\ UNCHANGED sessions
          \/ Authenticated /\ req' = [req EXCEPT ![r] = [pc |-> "unlock", dek |-> k]]
    BY <1>1 DEF Assertion, Start
  <2>3. KeysOK' /\ Known' = Known
    BY <2>1, KeysStay
  <2>4. k \in Known'
    BY <2>3 DEF Known
  <2>5. /\ [pc |-> "issue", dek |-> IF prf THEN k ELSE 0] \in ReqOf(Known')
        /\ [pc |-> "unlock", dek |-> k] \in ReqOf(Known')
    BY <2>4, ReqForms
  <2>6. ReqOK'
    BY <2>2, <2>3, <2>5, ReqMoves
  <2>7. SessionsOK(sessions')
    BY <2>2, SessionsKept
  <2> QED BY <2>1, <2>3, <2>6, <2>7 DEF CountersOK
<1>2. CASE IssueSession(r)
  <2>1. /\ UNCHANGED <<clock, passkeys, secrets, keyring, tokens, ticket, snapshot, made, issued, shredded>>
        /\ CreateSession(clock + Cap, clock)
        /\ req' = [req EXCEPT ![r] = [pc |-> "issueRefresh", dek |-> req[r].dek, since |-> clock]]
    BY <1>2 DEF IssueSession, Step
  <2>2. KeysOK' /\ Known' = Known
    BY <2>1, KeysStay
  <2>3. req[r].dek \in Known \cup {0} /\ clock \in Nat /\ clock + Cap \in Nat
    BY <1>2, ReqHolds, LifetimesAssumption DEF IssueSession, At, CountersOK
  <2>4. ReqOK'
    BY <2>1, <2>2, <2>3, ReqForms, ReqMoves
  <2>5. SessionsOK(sessions')
    BY <2>1, <2>3, SessionsKept
  <2> QED BY <2>1, <2>2, <2>4, <2>5 DEF CountersOK
<1>3. CASE IssueRefresh(r)
  <2>1. /\ UNCHANGED <<clock, passkeys, secrets, keyring, sessions, ticket, snapshot, made, shredded>>
        /\ CreateRefreshToken(req[r].since + Cap, req[r].since)
        /\ \/ req' = [req EXCEPT ![r] = AtRest]
           \/ req[r].dek # 0 /\ req' = [req EXCEPT ![r] = [pc |-> "unlock", dek |-> req[r].dek]]
    BY <1>3 DEF IssueRefresh, Step, Done
  <2>2. KeysOK' /\ Known' = Known
    BY <2>1, KeysStay
  <2>3. req[r].dek \in Known \cup {0} /\ req[r].since \in Nat /\ req[r].since + Cap \in Nat
    BY <1>3, ReqHolds, LifetimesAssumption DEF IssueRefresh, At
  <2>4. ReqOK'
    BY <2>1, <2>2, <2>3, ReqForms, ReqMoves
  <2>5. TokensOK(tokens')
    BY <2>1, <2>3, TokensKept
  <2>6. issued' = issued + 1
    BY <2>1 DEF CreateRefreshToken
  <2> QED BY <2>1, <2>2, <2>4, <2>5, <2>6 DEF CountersOK
<1>4. CASE FinishUnlock(r)
  <2>1. /\ UNCHANGED <<clock, passkeys, secrets, sessions, tokens, ticket, snapshot, made, issued, shredded>>
        /\ Unlock(req[r].dek) /\ req' = [req EXCEPT ![r] = AtRest]
    BY <1>4 DEF FinishUnlock, Step, Done
  <2>2. req[r].dek \in Known
    BY <1>4, ReqHolds DEF FinishUnlock, At
  <2>3. KeysOK' /\ Known' = Known
    BY <2>1, <2>2, KeyringMoves DEF KeysOK
  <2>4. ReqOK'
    BY <2>1, <2>3, ReqForms, ReqMoves
  <2> QED BY <2>1, <2>3, <2>4 DEF CountersOK
<1> QED BY <1>1, <1>2, <1>3, <1>4

(* Secrets: a key is known when a secret is sealed under it, and a recovery   *)
(* that deletes its passkey deletes the secrets.                            *)
LEMMA SecretKeeps ==
    ASSUME IdentityInv, NEW r \in Requests, SealSecret(r) \/ SaveSecret(r) \/ Shred(r)
    PROVE  IdentityInv'
<1> USE DEF IdentityInv
<1>1. CASE SealSecret(r)
  <2>1. /\ UNCHANGED <<clock, passkeys, secrets, keyring, tokens, ticket, snapshot, made, issued, shredded>>
        /\ Authenticated /\ keyring.dek # 0
        /\ req' = [req EXCEPT ![r] = [pc |-> "saving", dek |-> keyring.dek]]
    BY <1>1 DEF SealSecret, Start, Unlocked
  <2>2. KeysOK' /\ Known' = Known
    BY <2>1, KeysStay
  <2>3. [pc |-> "saving", dek |-> keyring.dek] \in ReqOf(Known')
    BY <2>1, <2>2, ReqForms DEF KeysOK
  <2>4. ReqOK'
    BY <2>1, <2>2, <2>3, ReqMoves
  <2>5. SessionsOK(sessions')
    BY <2>1, SessionsKept
  <2> QED BY <2>1, <2>2, <2>4, <2>5 DEF CountersOK
<1>2. CASE SaveSecret(r)
  <2>1. /\ UNCHANGED <<clock, passkeys, keyring, sessions, tokens, ticket, snapshot, made, issued, shredded>>
        /\ secrets' = secrets \cup {[dek |-> req[r].dek, late |-> req[r].dek \in shredded]}
        /\ req' = [req EXCEPT ![r] = AtRest]
    BY <1>2 DEF SaveSecret, Done, Step
  <2>2. req[r].dek \in Known
    BY <1>2, ReqHolds DEF SaveSecret, At
  <2>3. Known' = Known
    BY <2>1 DEF Known
  <2>4. KeysOK'
    <3>1. SecretsReadable'
      <4> DEFINE late == req[r].dek \in shredded
                 s == [dek |-> req[r].dek, late |-> late]
      <4>1. late \/ req[r].dek \in passkeys
        BY <2>2 DEF Known
      <4>2. secrets' = secrets \cup {s}
        BY <2>1
      <4> HIDE DEF late
      <4>3. s.late = late /\ s.dek = req[r].dek
        OBVIOUS
      <4> HIDE DEF s
      <4> QED BY <2>1, <4>1, <4>2, <4>3 DEF KeysOK, SecretsReadable
    <3> QED BY <2>1, <2>3, <3>1 DEF KeysOK
  <2>5. ReqOK'
    BY <2>1, <2>3, ReqForms, ReqMoves
  <2> QED BY <2>1, <2>4, <2>5 DEF CountersOK
<1>3. CASE Shred(r)
  <2>1. /\ UNCHANGED <<clock, keyring, sessions, tokens, ticket, snapshot, made, issued>>
        /\ passkeys' = {} /\ secrets' = {} /\ shredded' = shredded \cup passkeys
        /\ req' = [req EXCEPT ![r] = [pc |-> "shredded"]]
    BY <1>3 DEF Shred, Start
  <2>2. Known' = Known
    BY <2>1 DEF Known
  <2>3. KeysOK'
    BY <2>1, <2>2 DEF KeysOK, SecretsReadable
  <2>4. [pc |-> "shredded"] \in ReqOf(Known')
    BY ReqForms DEF IdlePC
  <2>5. ReqOK'
    BY <2>1, <2>2, <2>4, ReqMoves
  <2> QED BY <2>1, <2>3, <2>5 DEF CountersOK
<1> QED BY <1>1, <1>2, <1>3

(* Rotations hand the ceiling of a login on.                                *)
LEMMA RotateKeeps ==
    ASSUME IdentityInv, NEW r \in Requests, Rotate(r) \/ RotateRefused(r) \/ RefreshSession(r)
    PROVE  IdentityInv'
<1> USE DEF IdentityInv
<1>0. UNCHANGED <<clock, passkeys, secrets, keyring, ticket, snapshot, made, shredded>>
  BY DEF Rotate, RotateRefused, RefreshSession
<1>1. KeysOK' /\ Known' = Known
  BY <1>0, KeysStay
<1>2. CASE Rotate(r)
  <2>1. PICK t \in tokens :
          /\ tokens' = (tokens \ {t}) \cup {IF t.used = 0 THEN [t EXCEPT !.used = clock] ELSE t, Successor(t)}
          /\ req' = [req EXCEPT ![r] = [pc |-> "rotated", ceiling |-> Successor(t).ceiling, since |-> t.since]]
    BY <1>2 DEF Rotate, Start
  <2>2. t \in TokenRow /\ t.ceiling = t.since + Cap /\ Successor(t).ceiling = t.ceiling
    BY DEF TokensOK, Successor
  <2>3. [pc |-> "rotated", ceiling |-> Successor(t).ceiling, since |-> t.since] \in ReqOf(Known')
    BY <2>2, ReqForms DEF TokenRow
  <2>4. ReqOK'
    BY <1>1, <2>1, <2>3, ReqMoves
  <2>5. TokensOK(tokens')
    BY <2>1, TokensKept
  <2>6. issued' = issued + 1 /\ UNCHANGED sessions
    BY <1>2 DEF Rotate
  <2> QED BY <1>0, <1>1, <2>4, <2>5, <2>6 DEF CountersOK
<1>3. CASE RotateRefused(r)
  <2>1. /\ \E t \in tokens : tokens' = Burned(t.family)
        /\ sessions' = {} /\ UNCHANGED issued /\ req' = [req EXCEPT ![r] = AtRest]
    BY <1>3 DEF RotateRefused, Start
  <2>2. ReqOK'
    BY <1>1, <2>1, ReqForms, ReqMoves
  <2>3. TokensOK(tokens') /\ SessionsOK(sessions')
    BY <2>1, TokensKept DEF SessionsOK
  <2> QED BY <1>0, <1>1, <2>1, <2>2, <2>3 DEF CountersOK
<1>4. CASE RefreshSession(r)
  <2>1. /\ CreateSession(req[r].ceiling, req[r].since) /\ UNCHANGED <<tokens, issued>>
        /\ req' = [req EXCEPT ![r] = AtRest]
    BY <1>4 DEF RefreshSession, Done, Step
  <2>2. req[r].ceiling \in Nat /\ req[r].since \in Nat /\ req[r].ceiling = req[r].since + Cap
    BY <1>4, ReqHolds DEF RefreshSession, At
  <2>3. ReqOK'
    BY <1>1, <2>1, ReqForms, ReqMoves
  <2>4. SessionsOK(sessions')
    BY <2>1, <2>2, SessionsKept
  <2> QED BY <1>0, <1>1, <2>1, <2>3, <2>4 DEF CountersOK
<1> QED BY <1>2, <1>3, <1>4

(* Logout and the rest of a recovery take away.                             *)
LEMMA LogoutKeeps ==
    ASSUME IdentityInv, NEW r \in Requests,
           \/ LogoutLock(r) \/ LogoutTokens(r) \/ LogoutSessions(r)
           \/ RecoverLock(r) \/ RecoverSessions(r) \/ RecoverTokens(r) \/ RecoverTicket(r)
    PROVE  IdentityInv'
<1> USE DEF IdentityInv
<1>1. /\ UNCHANGED <<clock, passkeys, secrets, snapshot, made, issued, shredded>>
      /\ keyring' \in {keyring, Locked} /\ ticket' \in {ticket, clock}
      /\ Authenticated \/ sessions' \subseteq sessions
      /\ tokens' \subseteq tokens
  BY DEF LogoutLock, LogoutTokens, LogoutSessions, RecoverLock, RecoverSessions, RecoverTokens, RecoverTicket, LockUser
<1>2. \E next \in {AtRest} \cup [pc : {"logout", "logout2", "recover2", "recover3", "recover4"}] :
         req' = [req EXCEPT ![r] = next]
  <2>1. /\ AtRest \in {AtRest} \cup [pc : {"logout", "logout2", "recover2", "recover3", "recover4"}]
        /\ \A pc \in {"logout", "logout2", "recover2", "recover3", "recover4"} :
              [pc |-> pc] \in {AtRest} \cup [pc : {"logout", "logout2", "recover2", "recover3", "recover4"}]
    OBVIOUS
  <2> QED BY <2>1 DEF LogoutLock, LogoutTokens, LogoutSessions, RecoverLock, RecoverSessions, RecoverTokens, RecoverTicket,
                      Start, Step, Done
<1>3. KeysOK' /\ Known' = Known
  BY <1>1, KeyringMoves DEF KeysOK
<1>4. {AtRest} \cup [pc : {"logout", "logout2", "recover2", "recover3", "recover4"}] \subseteq ReqOf(Known')
  BY ReqForms DEF ReqOf, IdlePC
<1>5. ReqOK'
  BY <1>2, <1>3, <1>4, ReqMoves
<1>6. SessionsOK(sessions') /\ TokensOK(tokens')
  BY <1>1, SessionsKept, TokensKept
<1> QED BY <1>1, <1>3, <1>5, <1>6 DEF CountersOK

(* The sweep, time and the server.                                          *)
LEMMA ServerKeeps ==
    ASSUME IdentityInv, Sweep \/ TimePasses \/ SealKeyring \/ GoDown \/ Boot
    PROVE  IdentityInv'
<1> USE DEF IdentityInv
<1>1. /\ UNCHANGED <<passkeys, secrets, ticket, made, issued, shredded>>
      /\ clock' \in {clock, clock + 1}
      /\ sessions' \subseteq sessions /\ tokens' \subseteq tokens
  BY DEF Sweep, TimePasses, SealKeyring, GoDown, Boot
<1>2. snapshot' \in Known \cup {0}
  BY DEF Sweep, TimePasses, SealKeyring, GoDown, Boot, KeysOK, Unlocked
<1>3. keyring' \in {keyring, Locked} \/ \E dek \in Known : Unlock(dek)
  BY DEF Sweep, TimePasses, SealKeyring, GoDown, Boot, KeysOK
<1>4. KeysOK' /\ Known' = Known
  BY <1>1, <1>2, <1>3, KeyringMoves
<1>5. UNCHANGED req \/ req' = [r \in Requests |-> AtRest]
  BY DEF Sweep, TimePasses, SealKeyring, GoDown, Boot
<1>6. ReqOK'
  BY <1>4, <1>5, ReqForms DEF ReqOK
<1>7. SessionsOK(sessions') /\ TokensOK(tokens')
  BY <1>1, SessionsKept, TokensKept
<1> QED BY <1>1, <1>4, <1>6, <1>7 DEF CountersOK

LEMMA IdentityStep == IdentityInv /\ [IdentityNext]_identityVars => IdentityInv'
<1> SUFFICES ASSUME IdentityInv, [IdentityNext]_identityVars PROVE IdentityInv'
  OBVIOUS
<1>1. CASE UNCHANGED identityVars
  <2>1. KeysOK' /\ Known' = Known
    BY <1>1, KeysStay DEF identityVars, IdentityInv
  <2> QED BY <1>1, <2>1 DEF identityVars, IdentityInv, CountersOK, ReqOK
<1>2. CASE IdentityNext
  BY <1>2, RegisterKeeps, LoginKeeps, SecretKeeps, RotateKeeps, LogoutKeeps, ServerKeeps, Zenon DEF IdentityNext
<1> QED BY <1>1, <1>2

(* A stored secret can be opened with a passkey of the account, but for one   *)
(* that a recovery overtook (EncryptForUser, AddCredential, CryptoShredUser). *)
THEOREM SecretsReadableAlways == IdentitySpec => []SecretsReadable
<1>1. IdentityInv => SecretsReadable
  BY DEF IdentityInv, KeysOK
<1> QED BY <1>1, IdentityStart, IdentityStep, PTL DEF IdentitySpec

(* However often a session slides and a refresh token is rotated, neither     *)
(* is good after the ceiling of its login (GetSessionUser,                  *)
(* RotateRefreshToken, SessionAbsoluteCap).                                 *)
THEOREM NothingOutlivesLoginAlways == IdentitySpec => []NothingOutlivesLogin
<1>1. IdentityInv => NothingOutlivesLogin
  BY DEF IdentityInv, SessionsOK, TokensOK, NothingOutlivesLogin, LiveSession
<1> QED BY <1>1, IdentityStart, IdentityStep, PTL DEF IdentitySpec

----------------------------------------------------------------------------
(* MCP servers: the code index.                                            *)
GraphRow == [status : {"pending", "initializing", "ready", "failed"}, dir : Dirs]
EditPC == {"clone", "fetch", "find", "create", "check", "mark", "save"}
EditorPlain == [pc : EditPC, dir : Dirs, saves : BOOLEAN]
EditorMove == [pc : EditPC \cup {"move"}, dir : Dirs, saves : BOOLEAN, row : GraphRow]

(* A row says "ready", also one a request has read and is about to write      *)
(* back, only after some "codegraph init" has succeeded.                    *)
IndexInv ==
    /\ graph \in {NoServer} \cup GraphRow
    /\ graph.status = "ready" => indexed # {}
    /\ editor \in [Editors -> {NoEditor} \cup EditorPlain \cup EditorMove]
    /\ \A e \in Editors : editor[e].pc = "move" => editor[e] \in EditorMove /\ (editor[e].row.status = "ready" => indexed # {})

LEMMA IndexStart == McpInit => IndexInv
<1> SUFFICES ASSUME McpInit PROVE IndexInv
  OBVIOUS
<1>1. editor = [e \in Editors |-> NoEditor]
  BY DEF McpInit
<1>2. CASE graph = NoServer
  BY <1>1, <1>2 DEF IndexInv, NoServer, NoEditor
<1>3. CASE \E d \in Dirs : graph = [status |-> "ready", dir |-> d] /\ indexed = {d}
  <2>1. graph \in GraphRow /\ indexed # {}
    BY <1>3 DEF GraphRow
  <2> QED BY <1>1, <2>1 DEF IndexInv, NoEditor
<1> QED BY <1>2, <1>3 DEF McpInit

LEMMA EditorHolds ==
    ASSUME IndexInv, NEW e \in Editors, editor[e].pc # "none"
    PROVE  /\ editor[e] \in EditorPlain \/ editor[e] \in EditorMove
           /\ editor[e].dir \in Dirs /\ editor[e].saves \in BOOLEAN
           /\ \A pc \in EditPC : /\ [editor[e] EXCEPT !.pc = pc] \in EditorPlain \cup EditorMove
                                 /\ [editor[e] EXCEPT !.pc = pc].pc = pc
<1>1. editor[e] \in EditorPlain \/ editor[e] \in EditorMove
  BY DEF IndexInv, NoEditor
<1>2. CASE editor[e] \in EditorPlain
  BY <1>2 DEF EditorPlain
<1>3. CASE editor[e] \in EditorMove
  BY <1>3 DEF EditorMove
<1> QED BY <1>1, <1>2, <1>3

(* A step of one request: the row it leaves is one it may leave, its own      *)
(* record is at a statement other than the move, or holds a row it has read. *)
LEMMA EditorStep ==
    ASSUME IndexInv, NEW e \in Editors, NEW n,
           editor' = [editor EXCEPT ![e] = n],
           \/ n \in {NoEditor} \cup EditorPlain \cup EditorMove /\ n.pc # "move"
           \/ n \in EditorMove /\ (n.row.status = "ready" => indexed # {}),
           indexed \subseteq indexed',
           graph' \in {NoServer} \cup GraphRow, graph'.status = "ready" => indexed' # {}
    PROVE  IndexInv'
<1>1. editor' \in [Editors -> {NoEditor} \cup EditorPlain \cup EditorMove]
  BY DEF IndexInv
<1>2. indexed # {} => indexed' # {}
  OBVIOUS
<1>3. ASSUME NEW f \in Editors, editor'[f].pc = "move"
      PROVE  editor'[f] \in EditorMove /\ (editor'[f].row.status = "ready" => indexed' # {})
  <2>1. CASE f = e
    BY <1>2, <1>3, <2>1 DEF IndexInv
  <2>2. CASE f # e
    BY <1>2, <1>3, <2>2 DEF IndexInv
  <2> QED BY <2>1, <2>2
<1> QED BY <1>1, <1>3 DEF IndexInv

(* The same when the request only goes on, or ends.                          *)
LEMMA EditorPasses ==
    ASSUME IndexInv, NEW e \in Editors, editor[e].pc # "none",
           EndEdit(e) \/ \E pc \in EditPC : EditAt(e, pc),
           indexed \subseteq indexed',
           graph' \in {NoServer} \cup GraphRow, graph'.status = "ready" => indexed' # {}
    PROVE  IndexInv'
<1>1. CASE EndEdit(e)
  <2>1. editor' = [editor EXCEPT ![e] = NoEditor] /\ NoEditor.pc # "move"
    BY <1>1 DEF EndEdit, NoEditor
  <2> QED BY <2>1, EditorStep
<1>2. CASE \E pc \in EditPC : EditAt(e, pc)
  <2>1. PICK pc \in EditPC : editor' = [editor EXCEPT ![e].pc = pc]
    BY <1>2 DEF EditAt
  <2> DEFINE n == [editor[e] EXCEPT !.pc = pc]
  <2>2. editor' = [editor EXCEPT ![e] = n]
    BY <2>1
  <2>3. n \in EditorPlain \cup EditorMove /\ n.pc = pc /\ pc # "move"
    BY EditorHolds DEF EditPC
  <2> HIDE DEF n
  <2> QED BY <2>2, <2>3, EditorStep
<1> QED BY <1>1, <1>2

(* What UpdateStatus leaves of the row.                                     *)
LEMMA StatusKept ==
    ASSUME IndexInv, NEW status \in {"initializing", "ready", "failed"}, UpdateStatus(status)
    PROVE  graph' \in {NoServer} \cup GraphRow /\ (graph'.status = "ready" => status = "ready")
<1>1. CASE graph = NoServer
  BY <1>1 DEF UpdateStatus, NoServer
<1>2. CASE graph # NoServer
  <2>1. graph \in GraphRow /\ graph' = [graph EXCEPT !.status = status]
    BY <1>2 DEF UpdateStatus, IndexInv
  <2> QED BY <2>1 DEF GraphRow
<1> QED BY <1>1, <1>2

LEMMA IndexStep ==
    ASSUME IndexInv, IndexNext
    PROVE  IndexInv' /\ indexed \subseteq indexed'
<1>0. graph \in {NoServer} \cup GraphRow /\ (graph.status = "ready" => indexed # {})
  BY DEF IndexInv
<1>1. ASSUME NEW e \in Editors, NEW d \in Dirs, CreateProject(e, d) \/ UpdateProject(e, d)
      PROVE  IndexInv' /\ indexed \subseteq indexed'
  <2>1. PICK pc \in {"clone", "fetch"}, saves \in BOOLEAN :
          editor' = [editor EXCEPT ![e] = [pc |-> pc, dir |-> d, saves |-> saves]]
    <3>1. BeginEdit(e, "clone", d) \/ BeginEdit(e, "fetch", d)
      BY <1>1 DEF CreateProject, UpdateProject
    <3> QED BY <3>1 DEF BeginEdit
  <2>2. UNCHANGED <<graph, indexed>>
    BY <1>1 DEF CreateProject, UpdateProject
  <2> DEFINE n == [pc |-> pc, dir |-> d, saves |-> saves]
  <2>3. n \in EditorPlain /\ n.pc # "move"
    BY DEF EditorPlain, EditPC
  <2> HIDE DEF n
  <2>4. editor' = [editor EXCEPT ![e] = n]
    BY <2>1 DEF n
  <2> QED BY <1>0, <2>2, <2>3, <2>4, EditorStep
<1>2. ASSUME NEW e \in Editors, PrepareNew(e) \/ PrepareAgain(e) \/ CheckInit(e) \/ SaveProject(e)
      PROVE  IndexInv' /\ indexed \subseteq indexed'
  <2>1. editor[e].pc # "none" /\ UNCHANGED indexed /\ graph' \in {graph, NoServer}
    BY <1>2 DEF PrepareNew, PrepareAgain, CheckInit, SaveProject
  <2>2. EndEdit(e) \/ \E pc \in EditPC : EditAt(e, pc)
    <3>1. EndEdit(e) \/ EditAt(e, "create") \/ EditAt(e, "find") \/ EditAt(e, "save") \/ EditAt(e, "mark")
      BY <1>2 DEF PrepareNew, PrepareAgain, CheckInit, SaveProject, LeaveEdit
    <3> QED BY <3>1 DEF EditPC
  <2>3. graph' \in {NoServer} \cup GraphRow /\ (graph'.status = "ready" => indexed' # {})
    BY <1>0, <2>1 DEF NoServer
  <2> QED BY <2>1, <2>2, <2>3, EditorPasses
<1>3. ASSUME NEW e \in Editors, FindServer(e)
      PROVE  IndexInv' /\ indexed \subseteq indexed'
  <2>1. editor[e].pc # "none" /\ UNCHANGED <<indexed, graph>>
    BY <1>3 DEF FindServer
  <2>2. CASE \E pc \in EditPC : EditAt(e, pc)
    BY <1>0, <2>1, <2>2, EditorPasses
  <2>3. CASE /\ graph # NoServer
             /\ editor' = [editor EXCEPT ![e] = [pc |-> "move", dir |-> editor[e].dir, saves |-> editor[e].saves, row |-> graph]]
    <3> DEFINE n == [pc |-> "move", dir |-> editor[e].dir, saves |-> editor[e].saves, row |-> graph]
    <3>1. n \in EditorMove /\ n.row = graph
      BY <1>0, <2>1, <2>3, EditorHolds DEF EditorMove
    <3>2. editor' = [editor EXCEPT ![e] = n]
      BY <2>3
    <3> HIDE DEF n
    <3> QED BY <1>0, <2>1, <3>1, <3>2, EditorStep
  <2>4. editor' = [editor EXCEPT ![e] =
         IF graph = NoServer THEN [editor[e] EXCEPT !.pc = "create"]
         ELSE IF graph.dir = editor[e].dir THEN [editor[e] EXCEPT !.pc = "check"]
         ELSE [pc |-> "move", dir |-> editor[e].dir, saves |-> editor[e].saves, row |-> graph]]
    BY <1>3 DEF FindServer
  <2>5. CASE graph = NoServer
    <3>1. editor' = [editor EXCEPT ![e].pc = "create"]
      BY <2>4, <2>5
    <3> QED BY <2>2, <3>1 DEF EditAt, EditPC
  <2>6. CASE graph # NoServer /\ graph.dir = editor[e].dir
    <3>1. editor' = [editor EXCEPT ![e].pc = "check"]
      BY <2>4, <2>6
    <3> QED BY <2>2, <3>1 DEF EditAt, EditPC
  <2>7. CASE graph # NoServer /\ graph.dir # editor[e].dir
    BY <2>3, <2>4, <2>7
  <2> QED BY <2>5, <2>6, <2>7
<1>4. ASSUME NEW e \in Editors, CreateServer(e) \/ MoveServer(e) \/ MarkInit(e)
      PROVE  IndexInv' /\ indexed \subseteq indexed'
  <2>1. editor[e].pc # "none" /\ UNCHANGED indexed
    BY <1>4 DEF CreateServer, MoveServer, MarkInit
  <2>2. EndEdit(e) \/ \E pc \in EditPC : EditAt(e, pc)
    <3>1. EndEdit(e) \/ EditAt(e, "check") \/ EditAt(e, "save")
      BY <1>4 DEF CreateServer, MoveServer, MarkInit, LeaveEdit
    <3> QED BY <3>1 DEF EditPC
  <2>3. graph' \in {NoServer} \cup GraphRow /\ (graph'.status = "ready" => indexed # {})
    <3>1. CASE CreateServer(e)
      <4>1. graph' = graph \/ graph' = [status |-> "pending", dir |-> editor[e].dir]
        BY <3>1 DEF CreateServer
      <4>2. [status |-> "pending", dir |-> editor[e].dir] \in GraphRow
        BY <2>1, EditorHolds DEF GraphRow
      <4> QED BY <1>0, <4>1, <4>2
    <3>2. CASE MoveServer(e)
      <4>1. editor[e].row \in GraphRow /\ (editor[e].row.status = "ready" => indexed # {}) /\ editor[e].dir \in Dirs
        BY <2>1, <3>2, EditorHolds DEF MoveServer, IndexInv, EditorMove
      <4>2. graph' = graph \/ graph' = [editor[e].row EXCEPT !.dir = editor[e].dir]
        BY <3>2 DEF MoveServer
      <4>3. /\ [editor[e].row EXCEPT !.dir = editor[e].dir] \in GraphRow
            /\ [editor[e].row EXCEPT !.dir = editor[e].dir].status = editor[e].row.status
        BY <4>1 DEF GraphRow
      <4> QED BY <1>0, <4>1, <4>2, <4>3
    <3>3. CASE MarkInit(e)
      BY <3>3, StatusKept DEF MarkInit
    <3> QED BY <1>4, <3>1, <3>2, <3>3
  <2> QED BY <2>1, <2>2, <2>3, EditorPasses
<1>5. ASSUME NEW e \in Editors, SweepIndexes(e)
      PROVE  IndexInv' /\ indexed \subseteq indexed'
  <2>1. UNCHANGED <<graph, indexed>>
    BY <1>5 DEF SweepIndexes
  <2>2. CASE Pending
    <3> DEFINE n == [pc |-> "check", dir |-> graph.dir, saves |-> FALSE]
    <3>1. graph \in GraphRow
      BY <1>0, <2>2 DEF Pending
    <3>2. n \in EditorPlain /\ n.pc # "move"
      BY <3>1 DEF EditorPlain, EditPC, GraphRow
    <3>3. editor' = [editor EXCEPT ![e] = n]
      BY <1>5, <2>2 DEF SweepIndexes
    <3> HIDE DEF n
    <3> QED BY <1>0, <2>1, <3>2, <3>3, EditorStep
  <2>3. CASE ~Pending
    <3>1. editor' = editor
      BY <1>5, <2>3 DEF SweepIndexes, IndexInv
    <3> QED BY <2>1, <3>1 DEF IndexInv
  <2> QED BY <2>2, <2>3
<1>6. ASSUME NEW i \in inits, NEW ok \in BOOLEAN, InitEnds(i, ok)
      PROVE  IndexInv' /\ indexed \subseteq indexed'
  <2>1. editor' = editor /\ indexed' = (IF ok THEN indexed \cup {i[1]} ELSE indexed)
    BY <1>6 DEF InitEnds
  <2>2. graph' \in {NoServer} \cup GraphRow /\ (graph'.status = "ready" => ok)
    <3>1. CASE ok
      BY <1>6, <3>1, StatusKept DEF InitEnds
    <3>2. CASE ~ok
      BY <1>6, <3>2, StatusKept DEF InitEnds
    <3> QED BY <3>1, <3>2
  <2>3. indexed \subseteq indexed' /\ (ok => indexed' # {})
    BY <2>1
  <2> QED BY <2>1, <2>2, <2>3 DEF IndexInv
<1> QED BY <1>1, <1>2, <1>3, <1>4, <1>5, <1>6, Zenon DEF IndexNext

(* MCP servers: a session and its clients.                                  *)
Line == [id : Nat, no : Nat, kind : {"ok", "refused"}]
ClientState == [up : BOOLEAN, next : Nat, kept : BOOLEAN, token : Nat, asked : SUBSET (Nat \X Nat), lines : Seq(Line)]
WaitState == [pc : {"initialize", "list", "call"}, server : Server, for : {"register", "call", "discover"},
              id : Nat, no : Nat, again : BOOLEAN]

(* No id is on its way that was not given out.                              *)
IdsGiven(c) ==
    /\ \A q \in c.asked : q[1] <= c.next
    /\ \A i \in 1..Len(c.lines) : c.lines[i].id <= c.next

(* The id that is waited for is the last given out, and on its way for this   *)
(* send alone; a repeated call goes to a process with the renewed token.    *)
Awaits(w, c) ==
    /\ w.id = c.next
    /\ \A q \in c.asked : q[1] = w.id => q[2] = w.no
    /\ \A i \in 1..Len(c.lines) : c.lines[i].id = w.id => c.lines[i].no = w.no

Renewed(w, c, t) == w.again => c.token = t /\ t > 0

SessionInv ==
    /\ token \in Nat /\ sent \in Nat /\ servers \subseteq Server
    /\ client \in [Server -> {NoClient} \cup ClientState]
    /\ \A s \in Server : client[s] \in ClientState => IdsGiven(client[s])
    /\ wait \in {NoWait} \cup WaitState
    /\ wait \in WaitState => /\ client[wait.server] \in ClientState
                             /\ Awaits(wait, client[wait.server]) /\ Renewed(wait, client[wait.server], token)
    /\ answer.made = answer.to

LEMMA SessionStart == McpInit => SessionInv
<1> SUFFICES ASSUME McpInit PROVE SessionInv
  OBVIOUS
<1>1. wait = NoWait /\ NoWait \notin WaitState
  BY DEF McpInit, NoWait, WaitState
<1>2. client = [s \in Server |-> NoClient] /\ NoClient \notin ClientState
  <2>1. client = [s \in Server |-> NoClient]
    BY DEF McpInit
  <2>2. \A c \in ClientState : "next" \in DOMAIN c
    BY DEF ClientState
  <2>3. "next" \notin DOMAIN NoClient
    BY DEF NoClient
  <2> QED BY <2>1, <2>2, <2>3
<1>3. token \in Nat /\ sent \in Nat /\ servers \subseteq Server /\ answer.made = answer.to
  BY DEF McpInit, NoAnswer
<1> QED BY <1>1, <1>2, <1>3 DEF SessionInv

(* A new process, and one that has been kept or read a line of.             *)
LEMMA ClientForms ==
    /\ \A t \in Nat : NewClient(t) \in ClientState /\ IdsGiven(NewClient(t)) /\ NewClient(t).token = t
    /\ \A c \in ClientState : /\ [c EXCEPT !.kept = TRUE] \in ClientState
                              /\ IdsGiven(c) => IdsGiven([c EXCEPT !.kept = TRUE])
                              /\ [c EXCEPT !.kept = TRUE].token = c.token
<1>1. ASSUME NEW t \in Nat PROVE NewClient(t) \in ClientState /\ IdsGiven(NewClient(t)) /\ NewClient(t).token = t
  <2>1. << >> \in Seq(Line) /\ Len(<< >>) = 0
    OBVIOUS
  <2>2. {} \in SUBSET (Nat \X Nat)
    OBVIOUS
  <2>3. NewClient(t) \in ClientState
    BY <2>1, <2>2 DEF NewClient, ClientState
  <2>4. NewClient(t).asked = {} /\ NewClient(t).lines = << >> /\ NewClient(t).token = t
    BY DEF NewClient
  <2> QED BY <2>1, <2>3, <2>4 DEF IdsGiven
<1>2. ASSUME NEW c \in ClientState
      PROVE  /\ [c EXCEPT !.kept = TRUE] \in ClientState
             /\ IdsGiven(c) => IdsGiven([c EXCEPT !.kept = TRUE])
             /\ [c EXCEPT !.kept = TRUE].token = c.token
  <2> DEFINE d == [c EXCEPT !.kept = TRUE]
  <2>1. d \in ClientState /\ d.asked = c.asked /\ d.lines = c.lines /\ d.next = c.next /\ d.token = c.token
    BY DEF ClientState
  <2> HIDE DEF d
  <2>2. IdsGiven(c) => IdsGiven(d)
    BY <2>1 DEF IdsGiven
  <2> QED BY <2>1, <2>2 DEF d
<1> QED BY <1>1, <1>2

(* A message that is sent is the last of its process and waited for.         *)
LEMMA SendKeeps ==
    ASSUME SessionInv, NEW s \in Server, NEW c \in ClientState, IdsGiven(c),
           NEW w \in WaitState, w.server = s, token' \in Nat, Renewed(w, c, token'),
           SendOn(s, c, w), servers' \subseteq Server, answer'.made = answer'.to
    PROVE  SessionInv'
<1> DEFINE more == IF c.up THEN c.asked \cup {<<c.next + 1, sent + 1>>} ELSE c.asked
           d == [c EXCEPT !.next = c.next + 1, !.asked = more]
           v == [w EXCEPT !.id = c.next + 1, !.no = sent + 1]
<1>1. /\ sent' = sent + 1 /\ client' = [client EXCEPT ![s] = d] /\ wait' = v
  BY DEF SendOn
<1>2. sent \in Nat /\ c.next \in Nat /\ c.lines \in Seq(Line) /\ c.asked \in SUBSET (Nat \X Nat)
  BY DEF SessionInv, ClientState
<1>3. more \in SUBSET (Nat \X Nat) /\ \A q \in more : q \in c.asked \/ q = <<c.next + 1, sent + 1>>
  BY <1>2
<1> HIDE DEF more
<1>4. /\ d \in ClientState /\ d.next = c.next + 1 /\ d.asked = more /\ d.lines = c.lines /\ d.token = c.token
  <2> DEFINE k == c.next + 1
             c1 == [c EXCEPT !.next = k]
  <2>1. k \in Nat
    BY <1>2
  <2> HIDE DEF k
  <2>2. c1 \in ClientState /\ c1.next = k /\ c1.asked = c.asked /\ c1.lines = c.lines /\ c1.token = c.token
    BY <2>1 DEF ClientState
  <2>3. d = [c1 EXCEPT !.asked = more]
    BY DEF k
  <2> HIDE DEF c1, d
  <2> QED BY <1>3, <2>2, <2>3 DEF ClientState, k
<1>5. /\ v \in WaitState /\ v.id = c.next + 1 /\ v.no = sent + 1 /\ v.server = s /\ v.again = w.again
  <2> DEFINE k == c.next + 1
             j == sent + 1
  <2>1. k \in Nat /\ j \in Nat
    BY <1>2
  <2>2. v = [w EXCEPT !.id = k, !.no = j]
    OBVIOUS
  <2> HIDE DEF k, j, v
  <2>3. [w EXCEPT !.id = k] \in WaitState
    BY <2>1 DEF WaitState
  <2> QED BY <2>1, <2>2, <2>3 DEF WaitState, k, j
<1> HIDE DEF d, v
<1>6. \A q \in c.asked : q[1] \in Nat /\ q[1] <= c.next
  BY <1>2 DEF IdsGiven
<1>7. \A i \in 1..Len(c.lines) : c.lines[i].id \in Nat /\ c.lines[i].id <= c.next
  <2>1. \A i \in 1..Len(c.lines) : c.lines[i] \in Line
    BY <1>2
  <2>2. \A i \in 1..Len(c.lines) : c.lines[i].id \in Nat
    BY <2>1 DEF Line
  <2> QED BY <2>2 DEF IdsGiven
<1>8. IdsGiven(d)
  <2>1. \A q \in d.asked : q[1] <= d.next
    BY <1>2, <1>3, <1>4, <1>6
  <2>2. \A i \in 1..Len(d.lines) : d.lines[i].id <= d.next
    BY <1>2, <1>4, <1>7
  <2> QED BY <2>1, <2>2 DEF IdsGiven
<1>9. Awaits(v, d)
  <2>1. \A q \in d.asked : q[1] = v.id => q[2] = v.no
    BY <1>2, <1>3, <1>4, <1>5, <1>6
  <2>2. \A i \in 1..Len(d.lines) : d.lines[i].id # v.id
    BY <1>2, <1>4, <1>5, <1>7
  <2> QED BY <1>4, <1>5, <2>1, <2>2 DEF Awaits
<1>10. Renewed(v, d, token')
  BY <1>4, <1>5 DEF Renewed
<1>11. /\ client' \in [Server -> {NoClient} \cup ClientState]
       /\ client'[s] = d /\ \A p \in Server \ {s} : client'[p] = client[p]
  BY <1>1, <1>4 DEF SessionInv
<1>12. \A p \in Server : client'[p] \in ClientState => IdsGiven(client'[p])
  BY <1>8, <1>11 DEF SessionInv
<1>13. sent' \in Nat
  BY <1>1, <1>2
<1> QED BY <1>1, <1>4, <1>5, <1>9, <1>10, <1>11, <1>12, <1>13 DEF SessionInv

(* A process is stopped or kept when nothing is waited for any more.         *)
LEMMA StopsWaiting ==
    ASSUME SessionInv, NEW s \in Server, NEW c,
           c = NoClient \/ (c \in ClientState /\ IdsGiven(c)),
           client' = [client EXCEPT ![s] = c], wait' = NoWait,
           token' \in Nat, sent' \in Nat, servers' \subseteq Server, answer'.made = answer'.to
    PROVE  SessionInv'
<1>1. NoWait \notin WaitState
  BY DEF NoWait, WaitState
<1>2. client' \in [Server -> {NoClient} \cup ClientState]
  BY DEF SessionInv
<1>3. NoClient \notin ClientState
  <2>1. \A d \in ClientState : "next" \in DOMAIN d
    BY DEF ClientState
  <2>2. "next" \notin DOMAIN NoClient
    BY DEF NoClient
  <2> QED BY <2>1, <2>2
<1>4. ASSUME NEW p \in Server, client'[p] \in ClientState PROVE IdsGiven(client'[p])
  BY <1>3, <1>4 DEF SessionInv
<1> QED BY <1>1, <1>2, <1>4 DEF SessionInv

(* A line is read off the pipe.                                             *)
LEMMA LineRead ==
    ASSUME NEW c \in ClientState, IdsGiven(c), c.lines # << >>
    PROVE  LET d == [c EXCEPT !.lines = Tail(@)]
           IN  /\ d \in ClientState /\ IdsGiven(d) /\ d.token = c.token
               /\ \A w : Awaits(w, c) => Awaits(w, d) /\ (Head(c.lines).id = w.id => Head(c.lines).no = w.no)
<1> DEFINE rest == Tail(c.lines)
           d == [c EXCEPT !.lines = rest]
<1>1. c.lines \in Seq(Line)
  BY DEF ClientState
<1>2. /\ rest \in Seq(Line) /\ Head(c.lines) = c.lines[1] /\ 1 \in 1..Len(c.lines)
      /\ \A i \in 1..Len(rest) : i + 1 \in 1..Len(c.lines) /\ rest[i] = c.lines[i + 1]
  BY <1>1
<1> HIDE DEF rest
<1>3. d \in ClientState /\ d.lines = rest /\ d.asked = c.asked /\ d.next = c.next /\ d.token = c.token
  BY <1>2 DEF ClientState
<1> HIDE DEF d
<1>4. IdsGiven(d)
  BY <1>2, <1>3 DEF IdsGiven
<1>5. ASSUME NEW w, Awaits(w, c) PROVE Awaits(w, d) /\ (Head(c.lines).id = w.id => Head(c.lines).no = w.no)
  BY <1>2, <1>3, <1>5 DEF Awaits
<1> QED BY <1>3, <1>4, <1>5 DEF d, rest

(* A process changes and what its session waits for is still on its way.      *)
LEMMA ClientMoves ==
    ASSUME SessionInv, NEW s \in Server, client[s] \in ClientState, NEW d \in ClientState, IdsGiven(d),
           d.token = client[s].token, \A w : Awaits(w, client[s]) => Awaits(w, d),
           client' = [client EXCEPT ![s] = d], UNCHANGED <<servers, token, wait, sent, answer>>
    PROVE  SessionInv'
<1>1. /\ client' \in [Server -> {NoClient} \cup ClientState]
      /\ client'[s] = d /\ \A p \in Server \ {s} : client'[p] = client[p]
  BY DEF SessionInv
<1>2. \A p \in Server : client'[p] \in ClientState => IdsGiven(client'[p])
  BY <1>1 DEF SessionInv
<1>3. ASSUME wait \in WaitState
      PROVE  /\ client'[wait.server] \in ClientState
             /\ Awaits(wait, client'[wait.server]) /\ Renewed(wait, client'[wait.server], token)
  <2>1. /\ wait.server \in Server /\ client[wait.server] \in ClientState
        /\ Awaits(wait, client[wait.server]) /\ Renewed(wait, client[wait.server], token)
    BY <1>3 DEF SessionInv, WaitState
  <2>2. CASE wait.server = s
    BY <1>1, <2>1, <2>2 DEF Renewed
  <2>3. CASE wait.server # s
    BY <1>1, <2>1, <2>3
  <2> QED BY <2>2, <2>3
<1>4. /\ token' \in Nat /\ sent' \in Nat /\ servers' \subseteq Server /\ wait' = wait /\ token' = token
      /\ wait' \in {NoWait} \cup WaitState /\ answer'.made = answer'.to
  BY DEF SessionInv
<1> QED BY <1>1, <1>2, <1>3, <1>4 DEF SessionInv

(* What a session waits for, first and again.                               *)
LEMMA WaitForms ==
    /\ \A s \in Server, pc \in {"initialize", "list", "call"}, why \in {"register", "call", "discover"} :
          Waiting(s, pc, why) \in WaitState /\ Waiting(s, pc, why).server = s /\ Waiting(s, pc, why).again = FALSE
    /\ \A w \in WaitState, pc \in {"initialize", "list", "call"} :
          /\ [w EXCEPT !.pc = pc] \in WaitState /\ [w EXCEPT !.pc = pc].server = w.server
          /\ [w EXCEPT !.pc = pc].again = w.again
    /\ \A w \in WaitState : [w EXCEPT !.again = TRUE] \in WaitState /\ [w EXCEPT !.again = TRUE].server = w.server
<1>1. ASSUME NEW s \in Server, NEW pc \in {"initialize", "list", "call"}, NEW why \in {"register", "call", "discover"}
      PROVE  Waiting(s, pc, why) \in WaitState /\ Waiting(s, pc, why).server = s /\ Waiting(s, pc, why).again = FALSE
  BY DEF Waiting, WaitState
<1>2. ASSUME NEW w \in WaitState, NEW pc \in {"initialize", "list", "call"}
      PROVE  /\ [w EXCEPT !.pc = pc] \in WaitState /\ [w EXCEPT !.pc = pc].server = w.server
             /\ [w EXCEPT !.pc = pc].again = w.again
  BY DEF WaitState
<1>3. ASSUME NEW w \in WaitState
      PROVE  [w EXCEPT !.again = TRUE] \in WaitState /\ [w EXCEPT !.again = TRUE].server = w.server
  BY DEF WaitState
<1> QED BY <1>1, <1>2, <1>3

(* A message of the session that is not a repeated call.                     *)
LEMMA ConnectKeeps ==
    ASSUME SessionInv, NEW s \in Server, NEW w \in WaitState, w.server = s, w.again = FALSE,
           Connect(s, token, w), UNCHANGED token, servers' \subseteq Server, answer'.made = answer'.to
    PROVE  SessionInv'
<1> DEFINE v == [w EXCEPT !.pc = "initialize"]
<1>1. v \in WaitState /\ v.server = s /\ v.again = FALSE
  BY WaitForms
<1>2. SendOn(s, NewClient(token), v)
  BY DEF Connect
<1>3. token' \in Nat /\ NewClient(token) \in ClientState /\ IdsGiven(NewClient(token))
  BY ClientForms DEF SessionInv
<1> HIDE DEF v
<1> QED BY <1>1, <1>2, <1>3, SendKeeps DEF Renewed

LEMMA OpenKeeps ==
    ASSUME IndexInv, SessionInv, NEW github \in BOOLEAN, OpenSession(github)
    PROVE  SessionInv' /\ ("graph" \in servers' => indexed # {})
<1>1. /\ servers' = (IF graph.status = "ready" THEN {"graph"} ELSE {}) \cup (IF github THEN {"github"} ELSE {})
      /\ Connect("graph", token, Waiting("graph", "initialize", "register")) \/ UNCHANGED <<client, wait, sent>>
      /\ UNCHANGED <<token, answer>>
  BY DEF OpenSession
<1>2. servers' \subseteq Server /\ ("graph" \in servers' => indexed # {})
  BY <1>1 DEF Server, IndexInv
<1>3. CASE UNCHANGED <<client, wait, sent>>
  BY <1>1, <1>2, <1>3 DEF SessionInv, Awaits, Renewed
<1>4. CASE Connect("graph", token, Waiting("graph", "initialize", "register"))
  <2>1. "graph" \in Server /\ answer'.made = answer'.to
    BY <1>1 DEF Server, SessionInv
  <2> DEFINE w == Waiting("graph", "initialize", "register")
  <2>2. w \in WaitState /\ w.server = "graph" /\ w.again = FALSE
    BY <2>1, WaitForms
  <2> HIDE DEF w
  <2> QED BY <1>1, <1>2, <1>4, <2>1, <2>2, ConnectKeeps DEF w
<1> QED BY <1>1, <1>2, <1>3, <1>4

(* A call, of a kept process or of a new one, and the search for tools.       *)
LEMMA CallKeeps ==
    ASSUME SessionInv, (\E s \in Server : CallTool(s)) \/ DiscoverTool
    PROVE  SessionInv' /\ UNCHANGED servers
<1>1. /\ UNCHANGED <<servers, token>> /\ servers' \subseteq Server /\ token' \in Nat
      /\ answer'.made = answer'.to
  BY DEF CallTool, DiscoverTool, KeepStore, SessionInv
<1>2. ASSUME NEW s \in Server, NEW why \in {"register", "call", "discover"},
             Connect(s, token, Waiting(s, "initialize", why))
      PROVE  SessionInv'
  <2> DEFINE w == Waiting(s, "initialize", why)
  <2>1. w \in WaitState /\ w.server = s /\ w.again = FALSE
    BY WaitForms
  <2> HIDE DEF w
  <2> QED BY <1>1, <1>2, <2>1, ConnectKeeps DEF w
<1>3. ASSUME NEW s \in Server, Kept(s), SendOn(s, client[s], Waiting(s, "call", "call"))
      PROVE  SessionInv'
  <2>1. client[s] # NoClient
    BY <1>3 DEF Kept, NoClient
  <2>2. client[s] \in ClientState /\ IdsGiven(client[s])
    BY <2>1 DEF SessionInv
  <2> DEFINE w == Waiting(s, "call", "call")
  <2>3. w \in WaitState /\ w.server = s /\ w.again = FALSE
    BY WaitForms
  <2> HIDE DEF w
  <2>4. Renewed(w, client[s], token')
    BY <2>3 DEF Renewed
  <2> QED BY <1>1, <1>3, <2>2, <2>3, <2>4, SendKeeps DEF w
<1>4. ASSUME NEW s \in Server, CallTool(s) PROVE SessionInv'
  BY <1>2, <1>3, <1>4 DEF CallTool
<1>5. ASSUME DiscoverTool PROVE SessionInv'
  <2>1. "github" \in Server
    BY DEF Server
  <2> QED BY <1>2, <1>5, <2>1 DEF DiscoverTool
<1> QED BY <1>1, <1>4, <1>5

(* The server answers, in the pipe, what it was asked.                      *)
LEMMA PipeAnswers ==
    ASSUME SessionInv, NEW s \in Server, NEW kind \in {"ok", "refused"}, NEW q \in client[s].asked, Answer(s, q, kind)
    PROVE  SessionInv'
<1> DEFINE c == client[s]
           line == [id |-> q[1], no |-> q[2], kind |-> kind]
           due == c.asked \ {q}
           lines == Append(c.lines, line)
           d == [c EXCEPT !.asked = due, !.lines = lines]
<1>1. c # NoClient /\ UNCHANGED <<session, servers, token, wait, sent, answer>>
  BY DEF Answer
<1>2. c \in ClientState /\ IdsGiven(c)
  BY <1>1 DEF SessionInv
<1>3. client' = [client EXCEPT ![s] = d]
  BY DEF Answer
<1>4. q \in Nat \X Nat /\ c.lines \in Seq(Line) /\ c.asked \in SUBSET (Nat \X Nat)
  BY <1>2 DEF ClientState
<1>5. line \in Line /\ line.id = q[1] /\ line.no = q[2]
  BY <1>4 DEF Line
<1> HIDE DEF line
<1>6. /\ lines \in Seq(Line) /\ due \in SUBSET (Nat \X Nat)
      /\ \A i \in 1..Len(lines) : (i \in 1..Len(c.lines) /\ lines[i] = c.lines[i]) \/ lines[i] = line
  BY <1>4, <1>5
<1>7. \A p \in due : p \in c.asked
  OBVIOUS
<1> HIDE DEF lines, due
<1>8. d \in ClientState /\ d.asked = due /\ d.lines = lines /\ d.next = c.next /\ d.token = c.token
  BY <1>2, <1>6 DEF ClientState
<1> HIDE DEF d
<1>9. IdsGiven(d)
  BY <1>2, <1>5, <1>6, <1>7, <1>8 DEF IdsGiven
<1>10. \A w : Awaits(w, c) => Awaits(w, d)
  BY <1>5, <1>6, <1>7, <1>8 DEF Awaits
<1> QED BY <1>1, <1>2, <1>3, <1>8, <1>9, <1>10, ClientMoves

LEMMA DieKeeps ==
    ASSUME SessionInv, NEW s \in Server, Die(s)
    PROVE  SessionInv'
<1> DEFINE c == client[s]
           d == [c EXCEPT !.up = FALSE, !.asked = {}]
<1>1. c # NoClient /\ UNCHANGED <<session, servers, token, wait, sent, answer>>
  BY DEF Die
<1>2. c \in ClientState /\ IdsGiven(c)
  BY <1>1 DEF SessionInv
<1>3. client' = [client EXCEPT ![s] = d]
  BY DEF Die
<1>4. {} \in SUBSET (Nat \X Nat)
  OBVIOUS
<1>5. d \in ClientState /\ d.asked = {} /\ d.lines = c.lines /\ d.next = c.next /\ d.token = c.token
  BY <1>2, <1>4 DEF ClientState
<1> HIDE DEF d
<1>6. IdsGiven(d) /\ \A w : Awaits(w, c) => Awaits(w, d)
  BY <1>2, <1>5 DEF IdsGiven, Awaits
<1> QED BY <1>1, <1>2, <1>3, <1>5, <1>6, ClientMoves

(* A line is read: a stale one is dropped, the awaited one answers the send   *)
(* it was made for and the session goes on, renews the token or gives up.   *)
LEMMA ReadKeeps ==
    ASSUME SessionInv, ReadLine
    PROVE  SessionInv' /\ UNCHANGED servers
<1> DEFINE s == wait.server
           head == Head(client[s].lines)
           c == [client[s] EXCEPT !.lines = Tail(@)]
<1>1. wait # NoWait /\ client[s].lines # << >> /\ UNCHANGED servers
  BY DEF ReadLine
<1>2. /\ wait \in WaitState /\ s \in Server /\ client[s] \in ClientState /\ IdsGiven(client[s])
      /\ Awaits(wait, client[s]) /\ Renewed(wait, client[s], token) /\ token \in Nat /\ sent \in Nat
  BY <1>1 DEF SessionInv, WaitState
<1>3. /\ c \in ClientState /\ IdsGiven(c) /\ c.token = client[s].token
      /\ \A w : Awaits(w, client[s]) => Awaits(w, c) /\ (head.id = w.id => head.no = w.no)
  BY <1>1, <1>2, LineRead
<1>4. CASE ~Matches(head)
  <2>1. client' = [client EXCEPT ![s] = c] /\ UNCHANGED <<token, wait, sent, answer>>
    BY <1>4 DEF ReadLine
  <2> HIDE DEF c, s
  <2> QED BY <1>1, <1>2, <1>3, <2>1, ClientMoves
<1>5. CASE Matches(head)
  <2>1. /\ answer' = [to |-> wait.no, made |-> head.no]
        /\ \/ Proceed(s, c) /\ UNCHANGED token
           \/ Renew(s, c) /\ ~wait.again
           \/ Fails(s, c) /\ UNCHANGED token
    BY <1>5 DEF ReadLine
  <2>2. answer'.made = answer'.to
    BY <1>2, <1>3, <1>5, <2>1 DEF Matches
  <2>3. servers' \subseteq Server
    BY <1>1 DEF SessionInv
  <2> DEFINE k == [c EXCEPT !.kept = TRUE]
  <2>4. k \in ClientState /\ IdsGiven(k) /\ k.token = client[s].token
    BY <1>3, ClientForms
  <2> HIDE DEF c, k, head, s
  <2>5. ASSUME NEW d \in ClientState, IdsGiven(d), d.token = client[s].token,
               NEW pc \in {"initialize", "list", "call"}, SendOn(s, d, [wait EXCEPT !.pc = pc]), UNCHANGED token
        PROVE  SessionInv'
    <3> DEFINE w == [wait EXCEPT !.pc = pc]
    <3>1. w \in WaitState /\ w.server = s /\ w.again = wait.again
      BY <1>2, WaitForms DEF s
    <3> HIDE DEF w
    <3>2. Renewed(w, d, token') /\ token' \in Nat
      BY <1>2, <2>5, <3>1 DEF Renewed
    <3> QED BY <1>2, <2>2, <2>3, <2>5, <3>1, <3>2, SendKeeps DEF w
  <2>6. ASSUME NEW d, d = NoClient \/ (d \in ClientState /\ IdsGiven(d)),
               client' = [client EXCEPT ![s] = d], Return, token' \in Nat
        PROVE  SessionInv'
    <3>1. wait' = NoWait /\ sent' \in Nat
      BY <1>2, <2>6 DEF Return
    <3> QED BY <1>2, <2>2, <2>3, <2>6, <3>1, StopsWaiting
  <2>7. ASSUME Fails(s, c), token' \in Nat PROVE SessionInv'
    BY <1>3, <2>6, <2>7 DEF Fails
  <2>8. ASSUME Proceed(s, c), UNCHANGED token PROVE SessionInv'
    <3>1. wait.pc \in {"initialize", "list", "call"} /\ s \in {"github", "graph"} /\ token' \in Nat
      BY <1>2, <2>8 DEF WaitState, Server
    <3>2. CASE wait.pc = "initialize" /\ s = "github"
      BY <1>3, <2>5, <2>8, <3>2 DEF Proceed
    <3>3. CASE wait.pc = "initialize" /\ s = "graph"
      <4>1. SendOn(s, k, [wait EXCEPT !.pc = IF wait.for = "register" THEN "list" ELSE "call"])
        BY <2>8, <3>3 DEF Proceed, k
      <4> QED BY <2>4, <2>5, <2>8, <4>1
    <3>4. CASE wait.pc = "list" /\ wait.for = "call"
      <4>1. SendOn(s, k, [wait EXCEPT !.pc = "call"])
        BY <2>8, <3>4 DEF Proceed, k
      <4> QED BY <2>4, <2>5, <2>8, <4>1
    <3>5. CASE wait.pc = "list" /\ wait.for # "call"
      <4>1. client' = [client EXCEPT ![s] = k] /\ Return
        BY <2>8, <3>5 DEF Proceed, k
      <4> QED BY <2>4, <2>6, <3>1, <4>1
    <3>6. CASE wait.pc = "call"
      <4>1. client' = [client EXCEPT ![s] = c] /\ Return
        BY <2>8, <3>6 DEF Proceed
      <4> QED BY <1>3, <2>6, <3>1, <4>1
    <3> QED BY <3>1, <3>2, <3>3, <3>4, <3>5, <3>6
  <2>9. ASSUME Renew(s, c), ~wait.again PROVE SessionInv'
    <3>1. CASE Fails(s, c) /\ UNCHANGED token
      BY <1>2, <2>7, <3>1
    <3>2. CASE /\ token < MaxRenewals /\ token' = token + 1
               /\ Connect(s, token', [wait EXCEPT !.again = TRUE]) \/ (Drop(s) /\ Return)
      <4>1. token' \in Nat /\ token' > 0
        BY <1>2, <3>2
      <4>2. CASE Drop(s) /\ Return
        BY <2>6, <4>1, <4>2 DEF Drop
      <4>3. CASE Connect(s, token', [wait EXCEPT !.again = TRUE])
        <5> DEFINE u == [wait EXCEPT !.again = TRUE]
                   w == [u EXCEPT !.pc = "initialize"]
                   d == NewClient(token')
        <5>1. u \in WaitState /\ u.server = s
          BY <1>2, WaitForms DEF s
        <5>2. SendOn(s, d, w)
          BY <4>3 DEF Connect
        <5>3. d \in ClientState /\ IdsGiven(d) /\ d.token = token'
          BY <4>1, ClientForms
        <5> HIDE DEF u, d
        <5>4. w \in WaitState /\ w.server = s
          BY <5>1, WaitForms
        <5> HIDE DEF w
        <5>5. Renewed(w, d, token')
          BY <4>1, <5>3 DEF Renewed
        <5> QED BY <1>2, <2>2, <2>3, <4>1, <5>2, <5>3, <5>4, <5>5, SendKeeps
      <4> QED BY <3>2, <4>2, <4>3
    <3> QED BY <2>9, <3>1, <3>2 DEF Renew
  <2> QED BY <1>1, <1>2, <2>1, <2>7, <2>8, <2>9
<1> QED BY <1>1, <1>4, <1>5

(* A send is given up, the session is closed, the process starts again.      *)
LEMMA GivenUp ==
    ASSUME SessionInv, AbandonWait \/ CloseSession
    PROVE  SessionInv' /\ UNCHANGED servers
<1>1. /\ UNCHANGED <<servers, token>> /\ token' \in Nat /\ servers' \subseteq Server
      /\ answer'.made = answer'.to
  BY DEF AbandonWait, CloseSession, SessionInv, NoAnswer
<1>2. CASE AbandonWait
  <2> DEFINE c == client[wait.server]
             d == IF c.kept THEN c ELSE NoClient
  <2>1. wait.server \in Server /\ c \in ClientState /\ IdsGiven(c)
    BY <1>2 DEF AbandonWait, SessionInv, WaitState
  <2>2. client' = [client EXCEPT ![wait.server] = d] /\ wait' = NoWait /\ sent' = sent
    BY <1>2 DEF AbandonWait, Fails, Return
  <2>3. d = NoClient \/ (d \in ClientState /\ IdsGiven(d))
    BY <2>1
  <2>4. sent' \in Nat
    BY <2>2 DEF SessionInv
  <2> HIDE DEF d
  <2> QED BY <1>1, <2>1, <2>2, <2>3, <2>4, StopsWaiting
<1>3. CASE CloseSession
  <2>1. "graph" \in Server /\ sent' \in Nat
    BY <1>3 DEF CloseSession, SessionInv, Server
  <2>2. client' = [client EXCEPT !["graph"] = NoClient] /\ wait' = NoWait
    BY <1>3 DEF CloseSession, Drop
  <2> QED BY <1>1, <2>1, <2>2, StopsWaiting
<1> QED BY <1>1, <1>2, <1>3

LEMMA RestartKeeps ==
    ASSUME IndexInv, SessionInv, RestartProcess
    PROVE  IndexInv' /\ SessionInv' /\ UNCHANGED <<servers, indexed>>
<1>1. /\ UNCHANGED <<graph, indexed, servers, token, sent, answer>> /\ wait' = NoWait
      /\ client' = [s \in Server |-> NoClient] /\ editor' = [e \in Editors |-> NoEditor]
  BY DEF RestartProcess
<1>2. NoWait \notin WaitState
  BY DEF NoWait, WaitState
<1>3. NoClient \notin ClientState
  <2>1. \A d \in ClientState : "next" \in DOMAIN d
    BY DEF ClientState
  <2>2. "next" \notin DOMAIN NoClient
    BY DEF NoClient
  <2> QED BY <2>1, <2>2
<1>4. \A e \in Editors : editor'[e].pc = "none"
  BY <1>1 DEF NoEditor
<1>5. IndexInv'
  BY <1>1, <1>4 DEF IndexInv
<1>6. SessionInv'
  BY <1>1, <1>2, <1>3 DEF SessionInv
<1> QED BY <1>1, <1>5, <1>6

(* A session that has the code index was given it when it had been built.    *)
McpInv == IndexInv /\ SessionInv /\ ("graph" \in servers => indexed # {})

LEMMA McpStep == McpInv /\ [McpNext]_mcpVars => McpInv'
<1> SUFFICES ASSUME McpInv, [McpNext]_mcpVars PROVE McpInv'
  OBVIOUS
<1>1. CASE IndexNext /\ UNCHANGED sessionVars
  <2>1. IndexInv' /\ indexed \subseteq indexed'
    BY <1>1, IndexStep DEF McpInv
  <2>2. UNCHANGED <<session, servers, client, token, wait, sent, answer>>
    BY <1>1 DEF sessionVars
  <2>3. SessionInv'
    BY <2>2 DEF McpInv, SessionInv, Awaits, Renewed
  <2> QED BY <2>1, <2>2, <2>3 DEF McpInv
<1>2. CASE SessionNext /\ UNCHANGED indexVars
  <2>1. UNCHANGED <<graph, indexed, editor>>
    BY <1>2 DEF indexVars
  <2>2. IndexInv'
    BY <2>1 DEF McpInv, IndexInv
  <2>3. ASSUME NEW github \in BOOLEAN, OpenSession(github) PROVE McpInv'
    BY <2>1, <2>2, <2>3, OpenKeeps DEF McpInv
  <2>4. CASE (\E s \in Server : CallTool(s)) \/ DiscoverTool
    BY <2>1, <2>2, <2>4, CallKeeps DEF McpInv
  <2>5. ASSUME NEW s \in Server, Die(s) PROVE McpInv'
    <3>1. servers' = servers
      BY <2>5 DEF Die
    <3> QED BY <2>1, <2>2, <2>5, <3>1, DieKeeps DEF McpInv
  <2>6. ASSUME NEW s \in Server, NEW kind \in {"ok", "refused"}, NEW q \in client[s].asked, Answer(s, q, kind)
        PROVE  McpInv'
    <3>1. servers' = servers
      BY <2>6 DEF Answer
    <3> QED BY <2>1, <2>2, <2>6, <3>1, PipeAnswers DEF McpInv
  <2>7. CASE ReadLine
    BY <2>1, <2>2, <2>7, ReadKeeps DEF McpInv
  <2>8. CASE AbandonWait \/ CloseSession
    BY <2>1, <2>2, <2>8, GivenUp DEF McpInv
  <2> QED BY <1>2, <2>3, <2>4, <2>5, <2>6, <2>7, <2>8 DEF SessionNext
<1>3. CASE RestartProcess
  BY <1>3, RestartKeeps DEF McpInv
<1>4. CASE UNCHANGED mcpVars
  BY <1>4 DEF McpInv, IndexInv, SessionInv, Awaits, Renewed, mcpVars, indexVars, sessionVars
<1> QED BY <1>1, <1>2, <1>3, <1>4 DEF McpNext

(* The text a tool call returns was made for that very call, also when an    *)
(* earlier one was given up on and its answer is still in the pipe; a        *)
(* repeated call goes to a process with the renewed token; and a session is  *)
(* only given a code index that has been built (stdioClient.send,            *)
(* CallMCPTool.Execute, startCodegraphInit).                                *)
THEOREM ToolAnswersSoundAlways == McpSpec => []ToolAnswersSound
<1>1. McpInit => McpInv
  <2>1. McpInit => servers = {}
    BY DEF McpInit
  <2> QED BY <2>1, IndexStart, SessionStart DEF McpInv
<1>2. McpInv => ToolAnswersSound
  <2> SUFFICES ASSUME McpInv PROVE ToolAnswersSound
    OBVIOUS
  <2>1. answer.made = answer.to /\ ("graph" \in servers => indexed # {})
    BY DEF McpInv, SessionInv
  <2>2. ASSUME wait # NoWait, wait.again PROVE client[wait.server].token = token /\ token > 0
    BY <2>2 DEF McpInv, SessionInv, Renewed
  <2> QED BY <2>1, <2>2 DEF ToolAnswersSound
<1> QED BY <1>1, <1>2, McpStep, PTL DEF McpSpec
=============================================================================
