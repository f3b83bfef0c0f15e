------------------------------ MODULE Identity ------------------------------
(***************************************************************************)
(* One account: its passkeys, the data key each of them wraps, the secrets  *)
(* sealed under a data key, the keyring that holds the unlocked key, the    *)
(* access sessions and the families of rotating refresh tokens, over the    *)
(* handlers that several tabs and devices have in flight at once, restarts  *)
(* of the server and the account's recovery.                                *)
(*                                                                          *)
(* Time is discrete, in ticks longer than the reuse grace period, a         *)
(* ceremony's challenge and a re-enroll ticket, which thus hold within the  *)
(* tick they begin in, and no longer than the other lifetimes; a handler ends *)
(* in the tick it began.  A browser is not modelled: any row's token may be *)
(* presented.                                                               *)
(***************************************************************************)
EXTENDS Naturals, FiniteSets

CONSTANTS
    Requests,          \* requests in flight at once
    Access, RefreshLife, Cap,   \* AccessTokenLifetime, refreshTokenLifetime, SessionAbsoluteCap
    MaxTime,           \* ticks (a bound)
    MaxRequests            \* requests and exits of the server (a bound)

ASSUME LifetimesAssumption ==
    /\ Access \in Nat \ {0} /\ RefreshLife \in Nat /\ Cap \in Nat
    /\ RefreshLife >= Access /\ Cap >= RefreshLife

VARIABLES
    clock,
    passkeys,    \* rows of webauthn_credentials: the data key each wraps
    secrets,     \* stored secret columns: [dek, late], the data key each is sealed
                 \* under, and whether a recovery had shredded it by then
    keyring,     \* the unlocked data key: [dek, until], or Locked
    sessions,    \* [expires, ceiling, since]
    tokens,      \* refresh tokens: [id, family, used, revoked, expires, ceiling, since]
    ticket,      \* the expiry of the re-enroll ticket, or 0
    req,         \* what each request is doing
    server,      \* "up", "sealed" (keyring written, still serving) or "down"
    snapshot,    \* the sealed keyring on disk, or 0
    made, issued,   \* data keys and refresh tokens so far
    shredded,    \* the keys whose passkeys a recovery deleted
    asked

identityVars == <<clock, passkeys, secrets, keyring, sessions, tokens, ticket, req,
                  server, snapshot, made, issued, shredded, asked>>

Locked == [dek |-> 0, until |-> 0]
AtRest == [pc |-> "idle"]

IdentityInit ==
    /\ clock = 1 /\ passkeys = {} /\ secrets = {} /\ keyring = Locked
    /\ sessions = {} /\ tokens = {} /\ ticket = 0 /\ req = [r \in Requests |-> AtRest]
    /\ server = "up" /\ snapshot = 0 /\ made = 0 /\ issued = 0 /\ shredded = {} /\ asked = 0

----------------------------------------------------------------------------
(* The handlers' common parts.                                             *)
Up == server # "down"
Unlocked == keyring.dek # 0 /\ clock <= keyring.until
Unlock(dek) == keyring' = [dek |-> dek, until |-> clock + Cap]
LockUser == keyring' = Locked

Smaller(a, b) == IF a < b THEN a ELSE b

(* GetSessionUser: rejected past its window or past its ceiling; it slides  *)
(* the window, never past the ceiling.                                     *)
LiveSession(s) == s.expires > clock /\ clock <= s.ceiling
Slid(s) == [s EXCEPT !.expires = IF clock + Access > @ THEN Smaller(clock + Access, s.ceiling) ELSE @]

Authenticated == \E s \in sessions : LiveSession(s) /\ sessions' = (sessions \ {s}) \cup {Slid(s)}

CreateSession(ceiling, since) ==
    sessions' = sessions \cup {[expires |-> clock + Access, ceiling |-> ceiling, since |-> since]}

CreateRefreshToken(ceiling, since) ==
    /\ issued' = issued + 1
    /\ tokens' = tokens \cup
        {[id |-> issued, family |-> issued, used |-> 0, revoked |-> FALSE,
          expires |-> clock + RefreshLife, ceiling |-> ceiling, since |-> since]}

Step(r, next) == Up /\ req' = [req EXCEPT ![r] = next] /\ UNCHANGED asked
Start(r, next) ==
    /\ Up /\ req[r].pc = "idle" /\ req' = [req EXCEPT ![r] = next]
    /\ asked < MaxRequests /\ asked' = asked + 1
Done(r) == Step(r, AtRest)
At(r, pc) == req[r].pc = pc

----------------------------------------------------------------------------
(* Registration: refused for an account that has a passkey; an account in   *)
(* recovery wants the ticket of the browser that recovered it (present or   *)
(* not, if it has not run out).                                            *)
RegisterBegin(r) ==
    /\ passkeys = {}
    /\ ticket # 0 => clock <= ticket
    /\ Start(r, [pc |-> "registering"])
    /\ UNCHANGED <<clock, passkeys, secrets, keyring, sessions, tokens, ticket, server, snapshot, made, issued, shredded>>

(* RegisterFinish: a new data key, wrapped for the new passkey, and then     *)
(* unlocked; a recovery ticket is retired, the login begins.               *)
SavePasskey(r) ==
    /\ At(r, "registering")
    /\ made' = made + 1 /\ passkeys' = passkeys \cup {made + 1}
    /\ Step(r, [pc |-> "enrolled", dek |-> made + 1, ticket |-> ticket])
    /\ UNCHANGED <<clock, secrets, keyring, sessions, tokens, ticket, server, snapshot, issued, shredded>>

Enrolled(r) ==
    /\ At(r, "enrolled")
    /\ Unlock(req[r].dek)
    /\ ticket' = IF req[r].ticket # 0 THEN 0 ELSE ticket
    /\ Step(r, [pc |-> "issue", dek |-> 0])
    /\ UNCHANGED <<clock, passkeys, secrets, sessions, tokens, server, snapshot, made, issued, shredded>>

(* The ceremony is abandoned.                                                *)
GiveUp(r) ==
    /\ At(r, "registering") /\ Done(r)
    /\ UNCHANGED <<clock, passkeys, secrets, keyring, sessions, tokens, ticket, server, snapshot, made, issued, shredded>>

(* finishAssertion of a login, a re-authentication (which issue a pair) or   *)
(* an unlock (which does not): the passkey's key is read before the pair is *)
(* issued and unlocked after it; a device without PRF unlocks nothing.     *)
Assertion(r) ==
    /\ \E k \in passkeys, prf \in BOOLEAN :
        \/ /\ Start(r, [pc |-> "issue", dek |-> IF prf THEN k ELSE 0])
           /\ UNCHANGED sessions
        \/ Authenticated /\ prf /\ Start(r, [pc |-> "unlock", dek |-> k])
    /\ UNCHANGED <<clock, passkeys, secrets, keyring, tokens, ticket, server, snapshot, made, issued, shredded>>

IssueSession(r) ==
    /\ At(r, "issue")
    /\ CreateSession(clock + Cap, clock)
    /\ Step(r, [pc |-> "issueRefresh", dek |-> req[r].dek, since |-> clock])
    /\ UNCHANGED <<clock, passkeys, secrets, keyring, tokens, ticket, server, snapshot, made, issued, shredded>>

IssueRefresh(r) ==
    /\ At(r, "issueRefresh")
    /\ CreateRefreshToken(req[r].since + Cap, req[r].since)
    /\ IF req[r].dek = 0 THEN Done(r) ELSE Step(r, [pc |-> "unlock", dek |-> req[r].dek])
    /\ UNCHANGED <<clock, passkeys, secrets, keyring, sessions, ticket, server, snapshot, made, shredded>>

FinishUnlock(r) ==
    /\ At(r, "unlock") /\ Unlock(req[r].dek) /\ Done(r)
    /\ UNCHANGED <<clock, passkeys, secrets, sessions, tokens, ticket, server, snapshot, made, issued, shredded>>

(* AddCredential: the unlocked key, read first, is wrapped for one more      *)
(* passkey.                                                                *)
AddBegin(r) ==
    /\ Authenticated /\ Unlocked
    /\ Start(r, [pc |-> "adding", dek |-> keyring.dek])
    /\ UNCHANGED <<clock, passkeys, secrets, keyring, tokens, ticket, server, snapshot, made, issued, shredded>>

AddFinish(r) ==
    /\ At(r, "adding")
    /\ passkeys' = passkeys \cup {req[r].dek} /\ Done(r)
    /\ UNCHANGED <<clock, secrets, keyring, sessions, tokens, ticket, server, snapshot, made, issued, shredded>>

(* A handler that stores a secret seals it under the unlocked key            *)
(* (EncryptForUser, refused when locked) and writes the row afterwards.     *)
SealSecret(r) ==
    /\ Authenticated /\ Unlocked
    /\ Start(r, [pc |-> "saving", dek |-> keyring.dek])
    /\ UNCHANGED <<clock, passkeys, secrets, keyring, tokens, ticket, server, snapshot, made, issued, shredded>>

SaveSecret(r) ==
    /\ At(r, "saving")
    /\ secrets' = secrets \cup {[dek |-> req[r].dek, late |-> req[r].dek \in shredded]} /\ Done(r)
    /\ UNCHANGED <<clock, passkeys, keyring, sessions, tokens, ticket, server, snapshot, made, issued, shredded>>

----------------------------------------------------------------------------
(* RotateRefreshToken, one transaction.  A revoked token, or one that was    *)
(* used longer ago than the grace period, burns its family and every        *)
(* session; within the grace a second successor is minted.                 *)
Burned(family) == {IF t.family = family THEN [t EXCEPT !.revoked = TRUE] ELSE t : t \in tokens}

(* Mutation: each rotation starts a new ceiling.                            *)
SuccessorFresh(t) ==
    [id |-> issued, family |-> t.family, used |-> 0, revoked |-> FALSE,
     expires |-> clock + RefreshLife, ceiling |-> clock + Cap, since |-> t.since]

Successor(t) ==
    [id |-> issued, family |-> t.family, used |-> 0, revoked |-> FALSE,
     expires |-> clock + RefreshLife, ceiling |-> t.ceiling, since |-> t.since]

Reused(t) == t.revoked \/ (t.used # 0 /\ t.used # clock)

Rotate(r) ==
    /\ \E t \in tokens :
        /\ ~Reused(t) /\ clock <= t.ceiling /\ (t.used = 0 => clock <= t.expires)
        /\ issued' = issued + 1
        /\ tokens' = (tokens \ {t}) \cup {IF t.used = 0 THEN [t EXCEPT !.used = clock] ELSE t, Successor(t)}
        /\ Start(r, [pc |-> "rotated", ceiling |-> Successor(t).ceiling, since |-> t.since])
    /\ UNCHANGED <<clock, passkeys, secrets, keyring, sessions, ticket, server, snapshot, made, shredded>>

RotateRefused(r) ==
    /\ Start(r, AtRest)
    /\ \E t \in tokens : Reused(t) /\ tokens' = Burned(t.family)
    /\ sessions' = {}
    /\ UNCHANGED <<clock, passkeys, secrets, keyring, ticket, server, snapshot, made, issued, shredded>>

(* Refresh, after the rotation: the new session has the family's ceiling.  *)
RefreshSession(r) ==
    /\ At(r, "rotated")
    /\ CreateSession(req[r].ceiling, req[r].since) /\ Done(r)
    /\ UNCHANGED <<clock, passkeys, secrets, keyring, tokens, ticket, server, snapshot, made, issued, shredded>>

(* Logout with a live session; the cookie of a dead one changes nothing     *)
(* but its own row.                                                        *)
LogoutLock(r) ==
    /\ Authenticated /\ LockUser /\ Start(r, [pc |-> "logout"])
    /\ UNCHANGED <<clock, passkeys, secrets, tokens, ticket, server, snapshot, made, issued, shredded>>

LogoutTokens(r) ==
    /\ At(r, "logout") /\ tokens' = {} /\ Step(r, [pc |-> "logout2"])
    /\ UNCHANGED <<clock, passkeys, secrets, keyring, sessions, ticket, server, snapshot, made, issued, shredded>>

LogoutSessions(r) ==
    /\ At(r, "logout2") /\ sessions' = {} /\ Done(r)
    /\ UNCHANGED <<clock, passkeys, secrets, keyring, tokens, ticket, server, snapshot, made, issued, shredded>>

(* Mutation: the secrets stay.                                             *)
ShredPasskeysOnly(r) ==
    /\ passkeys # {}
    /\ passkeys' = {} /\ shredded' = shredded \cup passkeys
    /\ Start(r, [pc |-> "shredded"])
    /\ UNCHANGED <<clock, secrets, keyring, sessions, tokens, ticket, server, snapshot, made, issued>>

(* RecoverConfirm, with a reset link that is good: CryptoShredUser deletes   *)
(* the passkeys and the secrets in one transaction; the rest follows.       *)
Shred(r) ==
    /\ passkeys # {}
    /\ passkeys' = {} /\ secrets' = {} /\ shredded' = shredded \cup passkeys
    /\ Start(r, [pc |-> "shredded"])
    /\ UNCHANGED <<clock, keyring, sessions, tokens, ticket, server, snapshot, made, issued>>

RecoverLock(r) ==
    /\ At(r, "shredded") /\ LockUser /\ Step(r, [pc |-> "recover2"])
    /\ UNCHANGED <<clock, passkeys, secrets, sessions, tokens, ticket, server, snapshot, made, issued, shredded>>

RecoverSessions(r) ==
    /\ At(r, "recover2") /\ sessions' = {} /\ Step(r, [pc |-> "recover3"])
    /\ UNCHANGED <<clock, passkeys, secrets, keyring, tokens, ticket, server, snapshot, made, issued, shredded>>

RecoverTokens(r) ==
    /\ At(r, "recover3") /\ tokens' = {} /\ Step(r, [pc |-> "recover4"])
    /\ UNCHANGED <<clock, passkeys, secrets, keyring, sessions, ticket, server, snapshot, made, issued, shredded>>

RecoverTicket(r) ==
    /\ At(r, "recover4") /\ ticket' = clock /\ Done(r)
    /\ UNCHANGED <<clock, passkeys, secrets, keyring, sessions, tokens, server, snapshot, made, issued, shredded>>

----------------------------------------------------------------------------
(* The hourly sweep; time; the server.                                     *)
Sweep ==
    /\ Up
    /\ sessions' = {s \in sessions : s.expires > clock}
    /\ tokens' = {t \in tokens : t.ceiling > clock /\ ~t.revoked}
    /\ keyring' = IF clock > keyring.until THEN Locked ELSE keyring
    /\ UNCHANGED <<clock, passkeys, secrets, ticket, req, server, snapshot, made, issued, shredded, asked>>

TimePasses ==
    /\ \A r \in Requests : At(r, "idle")
    /\ clock < MaxTime /\ clock' = clock + 1
    /\ UNCHANGED <<passkeys, secrets, keyring, sessions, tokens, ticket, req, server, snapshot, made, issued, shredded, asked>>

(* The graceful exit writes the keyring, and only then stops serving.       *)
SealKeyring ==
    /\ server = "up" /\ server' = "sealed"
    /\ snapshot' = IF Unlocked THEN keyring.dek ELSE 0
    /\ UNCHANGED <<clock, passkeys, secrets, keyring, sessions, tokens, ticket, req, made, issued, shredded, asked>>

(* A crash leaves nothing, a graceful exit the snapshot.                   *)
GoDown ==
    /\ Up /\ asked < MaxRequests /\ asked' = asked + 1 /\ server' = "down"
    /\ keyring' = Locked /\ req' = [r \in Requests |-> AtRest]
    /\ UNCHANGED <<clock, passkeys, secrets, sessions, tokens, ticket, snapshot, made, issued, shredded>>

Boot ==
    /\ server = "down" /\ server' = "up"
    /\ IF snapshot # 0 THEN Unlock(snapshot) ELSE UNCHANGED keyring
    /\ snapshot' = 0
    /\ UNCHANGED <<clock, passkeys, secrets, sessions, tokens, ticket, req, made, issued, shredded, asked>>

IdentityNext ==
    \/ Sweep \/ TimePasses \/ SealKeyring \/ GoDown \/ Boot
    \/ \E r \in Requests :
        \/ RegisterBegin(r) \/ SavePasskey(r) \/ GiveUp(r) \/ Enrolled(r)
        \/ Assertion(r) \/ IssueSession(r) \/ IssueRefresh(r) \/ FinishUnlock(r)
        \/ AddBegin(r) \/ AddFinish(r) \/ SealSecret(r) \/ SaveSecret(r)
        \/ Rotate(r) \/ RotateRefused(r) \/ RefreshSession(r)
        \/ LogoutLock(r) \/ LogoutTokens(r) \/ LogoutSessions(r)
        \/ Shred(r) \/ RecoverLock(r) \/ RecoverSessions(r) \/ RecoverTokens(r) \/ RecoverTicket(r)

IdentitySpec == IdentityInit /\ [][IdentityNext]_identityVars

----------------------------------------------------------------------------
(* A stored secret can be opened by a passkey of the account, through any    *)
(* overlap of registrations, added devices, logouts, recoveries and         *)
(* restarts; a write that a recovery overtakes is excepted.                 *)
SecretsReadable == \A s \in secrets : s.late \/ s.dek \in passkeys

(* Neither a session nor a refresh token gets anyone in after the ceiling    *)
(* of the login it descends from, however often it slid or was rotated.     *)
NothingOutlivesLogin ==
    /\ \A s \in sessions : LiveSession(s) => clock <= s.since + Cap
    /\ \A t \in tokens : ~t.revoked /\ clock <= t.ceiling => clock <= t.since + Cap
=============================================================================
