------------------------------ MODULE Accounts ------------------------------
(***************************************************************************)
(* A user's GitHub accounts: the rows of mcp_accounts, git_hub_identities   *)
(* and git_hub_connections, and the requests that write them: the OAuth     *)
(* round trip that connects or reconnects an account, run twice at once for *)
(* one state when the callback's page is loaded again, the rename that      *)
(* saves the row it loaded, the deletion and the check of the installations. *)
(*                                                                          *)
(* A GitHub user stands for his token, his identity and his installations.  *)
(***************************************************************************)
EXTENDS Naturals, FiniteSets

CONSTANTS
    Owners,        \* GitHub users this person can sign in as
    States,        \* OAuth states issued (a bound)
    Callbacks,     \* callback requests at once
    MaxAccounts    \* rows created (a bound)

ASSUME AccountsAssumption == MaxAccounts \in Nat

VARIABLES
    row,        \* mcp_accounts: [there, token, error]
    identity,   \* the GitHub user a row is verified for, by account
    connected,     \* the GitHub user whose installations are linked, by account
    created,       \* how many ids have been given out
    state,      \* git_hub_oauth_states: [status, account]
    callback,   \* what each callback is doing
    rename      \* the row a rename has loaded

accountVars == <<row, identity, connected, created, state, callback, rename>>

AccountIds == 1..MaxAccounts
Nobody == "nobody"
NoRow == [there |-> FALSE, token |-> Nobody, error |-> FALSE]
NoRequest == [pc |-> "none"]

AccountsInit ==
    /\ row = [i \in AccountIds |-> NoRow] /\ created = 0
    /\ identity = [i \in AccountIds |-> Nobody] /\ connected = [i \in AccountIds |-> Nobody]
    /\ state = [s \in States |-> [status |-> "none", account |-> 0]]
    /\ callback = [c \in Callbacks |-> NoRequest] /\ rename = NoRequest

----------------------------------------------------------------------------
(* account = 0 connects another account; else it is reconnected.            *)
StartOAuth(s, account) ==
    /\ state[s].status = "none"
    /\ account \in AccountIds => row[account].there
    /\ state' = [state EXCEPT ![s] = [status |-> "issued", account |-> account]]
    /\ UNCHANGED <<row, identity, connected, created, callback, rename>>

StateExpires(s) ==
    /\ state[s].status = "issued"
    /\ state' = [state EXCEPT ![s].status = "expired"]
    /\ UNCHANGED <<row, identity, connected, created, callback, rename>>

Callback(c, s) ==
    /\ callback[c].pc = "none" /\ state[s].status = "issued"
    /\ callback' = [callback EXCEPT ![c] = [pc |-> "claim", state |-> s]]
    /\ UNCHANGED <<row, identity, connected, created, state, rename>>

(* Of two callbacks of one state, one exchanges the code.                   *)
ClaimState(c) ==
    LET s == callback[c].state
    IN  /\ callback[c].pc = "claim"
        /\ IF state[s].status = "issued"
           THEN state' = [state EXCEPT ![s].status = "used"] /\ callback' = [callback EXCEPT ![c].pc = "exchange"]
           ELSE callback' = [callback EXCEPT ![c] = NoRequest] /\ UNCHANGED state
        /\ UNCHANGED <<row, identity, connected, created, rename>>

(* The code is exchanged for the token of whoever signed in at GitHub, and  *)
(* his installations are read; or GitHub or the locked vault refuses.       *)
Exchange(c, who, installed) ==
    /\ callback[c].pc = "exchange"
    /\ callback' = [callback EXCEPT ![c] = [pc |-> "save", state |-> @.state, who |-> who, installed |-> installed]]
    /\ UNCHANGED <<row, identity, connected, created, state, rename>>

ExchangeFails(c) ==
    /\ callback[c].pc = "exchange"
    /\ callback' = [callback EXCEPT ![c] = NoRequest]
    /\ UNCHANGED <<row, identity, connected, created, state, rename>>

----------------------------------------------------------------------------
(* SaveGitHubOAuthAccount, one transaction.                                *)
Duplicate(account, who) == \E i \in AccountIds : i # account /\ identity[i] = who

SavedRow(account, who) ==
    row' = [row EXCEPT ![account] = [there |-> TRUE, token |-> who, error |-> FALSE]]

(* Mutation: reconnecting an account leaves the identity it already has.    *)
KeptIdentity(account, who) ==
    identity' = [identity EXCEPT ![account] = IF @ = Nobody THEN who ELSE @]

SavedIdentity(account, who) == identity' = [identity EXCEPT ![account] = who]

ReplacedConnections(account, who, installed) ==
    connected' = [connected EXCEPT ![account] = IF installed THEN who ELSE Nobody]

SaveAccount(c) ==
    LET to == state[callback[c].state].account
        who == callback[c].who
        account == IF to = 0 THEN created + 1 ELSE to
    IN  /\ callback[c].pc = "save" /\ account \in AccountIds
        /\ callback' = [callback EXCEPT ![c] = NoRequest]
        /\ IF (to # 0 /\ ~row[to].there) \/ Duplicate(to, who)
           THEN UNCHANGED <<row, identity, connected, created>>
           ELSE /\ SavedRow(account, who) /\ SavedIdentity(account, who)
                /\ ReplacedConnections(account, who, callback[c].installed)
                /\ created' = IF to = 0 THEN account ELSE created
        /\ UNCHANGED <<state, rename>>

----------------------------------------------------------------------------
(* PUT saves the row it has loaded: over a reconnection's token, and back   *)
(* into the table when the account has been deleted meanwhile.             *)
LoadRename(i) ==
    /\ rename.pc = "none" /\ row[i].there
    /\ rename' = [pc |-> "save", account |-> i, old |-> row[i]]
    /\ UNCHANGED <<row, identity, connected, created, state, callback>>

SaveRename ==
    /\ rename.pc = "save"
    /\ row' = [row EXCEPT ![rename.account] = rename.old] /\ rename' = NoRequest
    /\ UNCHANGED <<identity, connected, created, state, callback>>

DeleteAccount(i) ==
    /\ row[i].there
    /\ row' = [row EXCEPT ![i] = NoRow]
    /\ identity' = [identity EXCEPT ![i] = Nobody] /\ connected' = [connected EXCEPT ![i] = Nobody]
    /\ UNCHANGED <<created, state, callback, rename>>

(* Listing the repositories records what is wrong with each account.        *)
CheckAccount(i, broken) ==
    /\ row[i].there
    /\ row' = [row EXCEPT ![i].error = identity[i] = Nobody \/ connected[i] = Nobody \/ broken]
    /\ UNCHANGED <<identity, connected, created, state, callback, rename>>

AccountsNext ==
    \/ \E s \in States :
          \/ \E account \in {0} \cup AccountIds : StartOAuth(s, account)
          \/ StateExpires(s)
          \/ \E c \in Callbacks : Callback(c, s)
    \/ \E c \in Callbacks :
          \/ ClaimState(c) \/ ExchangeFails(c) \/ SaveAccount(c)
          \/ \E who \in Owners, installed \in BOOLEAN : Exchange(c, who, installed)
    \/ \E i \in AccountIds : LoadRename(i) \/ DeleteAccount(i) \/ \E broken \in BOOLEAN : CheckAccount(i, broken)
    \/ SaveRename

AccountsSpec == AccountsInit /\ [][AccountsNext]_accountVars

----------------------------------------------------------------------------
(* The installations an account can reach are those of the GitHub user it   *)
(* was last verified for, and no two accounts are verified for one GitHub   *)
(* user, whatever races with the OAuth callback: a rename that brings a     *)
(* deleted row back brings it back without either (persistGitHubOAuthAccount *)
(* and DeleteMCPAccount).                                                   *)
LinkedIsVerified ==
    \A i \in AccountIds :
        /\ connected[i] # Nobody => row[i].there /\ identity[i] = connected[i]
        /\ identity[i] # Nobody => ~Duplicate(i, identity[i])
=============================================================================
