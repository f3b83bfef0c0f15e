------------------------------ MODULE Gateway ------------------------------
(***************************************************************************)
(* The model gateway in front of one model group and its providers: the      *)
(* health it keeps of each member, the order a request tries the members     *)
(* in, failover, rate limit cooldowns, the relay of streams and the requests *)
(* that go to one provider past the group, over providers that fail and   *)
(* recover, clients that give up, an owner who logs out, edits of the group *)
(* and restarts, with several requests in flight.                           *)
(*                                                                          *)
(* A member is a provider and a model; its number is its priority.  Time    *)
(* runs in units of the base cooldown.  Accounting and the log of the run   *)
(* are left out.                                                            *)
(***************************************************************************)
EXTENDS Naturals, FiniteSets, SequencesExt

CONSTANTS
    Members, Free,     \* members a group may have, and those that cost nothing
    Handlers,          \* requests in flight at once
    MaxCooldown,       \* rateLimitMaxCooldown, in units of rateLimitBaseCooldown
    MaxNow,            \* time (a bound)
    MaxCalls, MaxEvents   \* requests; changes around them (bounds)

ASSUME MembersAssumption ==
    Members \subseteq Nat /\ IsFiniteSet(Members) /\ Free \subseteq Members /\ MaxCooldown \in Nat

VARIABLES
    group,       \* the members stored for the group
    provider,    \* what each member does with a request: "ok", "limited" or "down"
    vault,       \* is the owner's vault unlocked
    health,      \* groupHealth: [until, cooldown, fails, speed] of each member
    call,        \* what each handler is doing
    now, calls, happened

gatewayVars == <<group, provider, vault, health, call, now, calls, happened>>
surroundings == <<group, provider, vault, now, calls, happened>>

Unknown == [until |-> 0, cooldown |-> 0, fails |-> 0, speed |-> 0]
NoCall == [pc |-> "none"]

GatewayInit ==
    /\ group = Members /\ provider = [m \in Members |-> "ok"] /\ vault = TRUE
    /\ health = [m \in Members |-> Unknown]
    /\ call = [h \in Handlers |-> NoCall]
    /\ now = 1 /\ calls = 0 /\ happened = 0

----------------------------------------------------------------------------
(* The order of a request's attempts.                                      *)
Cooled(m) == now < health[m].until

(* Mutation: members that wait out a rate limit come after all the others, free or not. *)
CooledLast(a, b) ==
    IF Cooled(a) # Cooled(b) THEN ~Cooled(a)
    ELSE IF (a \in Free) # (b \in Free) THEN a \in Free
    ELSE a < b

TriedBefore(a, b) ==
    LET x == health[a]  y == health[b]
    IN  IF (a \in Free) # (b \in Free) THEN a \in Free
        ELSE IF Cooled(a) # Cooled(b) THEN ~Cooled(a)
        ELSE IF Cooled(a) /\ x.until # y.until THEN x.until < y.until
        ELSE IF ~Cooled(a) /\ x.fails # y.fails THEN x.fails < y.fails
        ELSE IF ~Cooled(a) /\ x.speed # y.speed THEN x.speed > y.speed
        ELSE a < b

orderCandidates ==
    CHOOSE order \in [1..Cardinality(group) -> group] :
        \A i, j \in DOMAIN order : i < j => TriedBefore(order[i], order[j])

----------------------------------------------------------------------------
(* recordOutcome.                                                          *)
Cooldown(last) == IF last = 0 THEN 1 ELSE IF 2 * last > MaxCooldown THEN MaxCooldown ELSE 2 * last

(* The base, shifted by the length of the streak, is kept instead of the     *)
(* length: each limit of a streak doubles the cooldown up to the cap.       *)
Limited(m) ==
    LET n == Cooldown(health[m].cooldown)
    IN  health' = [health EXCEPT ![m].cooldown = n, ![m].until = now + n]

Failed(m) == health' = [health EXCEPT ![m].fails = @ + 1]

(* With tokens and a duration to divide, a success also sets the speed       *)
(* (slow or fast, here).                                                   *)
Succeeded(m) ==
    \E speed \in {health[m].speed, 1} :
        health' = [health EXCEPT ![m] = [Unknown EXCEPT !.speed = speed]]

----------------------------------------------------------------------------
(* A request.  good: the members it may go to that would have answered it   *)
(* at every moment since it came; by: whose bytes the client has.          *)
Happen == happened < MaxEvents /\ happened' = happened + 1
To(h, pc) == call' = [call EXCEPT ![h].pc = pc]

Working == {m \in Members : vault /\ provider[m] = "ok"}

(* A request that names a provider, and that of an agent with one.          *)
Direct(m) == [order |-> <<m>>, direct |-> TRUE]

(* An agent is bound to the group or to a provider of its own.              *)
Targets == {[order |-> orderCandidates, direct |-> FALSE]} \cup {Direct(m) : m \in Members}

(* The members of a group and their order are read once; a group without     *)
(* members is an error.                                                    *)
Arrive(h) ==
    /\ call[h].pc = "none" /\ calls < MaxCalls /\ calls' = calls + 1
    /\ \E target \in Targets, stream \in BOOLEAN :
        /\ target.order # <<>>
        /\ call' = [call EXCEPT ![h] =
            [pc |-> "trying", order |-> target.order, n |-> 1, direct |-> target.direct,
             stream |-> stream, there |-> TRUE, line |-> "flowing", stalled |-> FALSE,
             good |-> ToSet(target.order) \cap Working, by |-> {}]]
    /\ UNCHANGED <<group, provider, vault, health, now, happened>>

Member(h) == call[h].order[call[h].n]

(* sendProviderRequest fails: the client has gone, the vault is locked, or   *)
(* the provider is out of reach.                                           *)
Unsendable(h) == ~call[h].there \/ ~vault \/ provider[Member(h)] = "down"

Trying(h) == call[h].pc = "trying" /\ ~call[h].direct

TryNext(h) ==
    IF call[h].n < Len(call[h].order)
      THEN call' = [call EXCEPT ![h].n = @ + 1]
      ELSE To(h, "exhausted")

(* A network failure, or a status of 400 and more.                         *)
AttemptFails(h) ==
    /\ Trying(h) /\ Unsendable(h)
    /\ Failed(Member(h)) /\ TryNext(h)
    /\ UNCHANGED surroundings

(* Mutation: a rate limit is passed on to the client.                       *)
LimitRelayed(h) ==
    /\ Trying(h) /\ ~Unsendable(h) /\ provider[Member(h)] = "limited"
    /\ Limited(Member(h)) /\ To(h, "exhausted")
    /\ UNCHANGED surroundings

(* 429, or an error that reads like a rate limit, also in a 200 body.       *)
AttemptLimited(h) ==
    /\ Trying(h) /\ ~Unsendable(h) /\ provider[Member(h)] = "limited"
    /\ Limited(Member(h)) /\ TryNext(h)
    /\ UNCHANGED surroundings

Relays(h, pc) == call' = [call EXCEPT ![h].pc = pc, ![h].by = @ \cup {Member(h)}]

AttemptAnswers(h) ==
    /\ Trying(h) /\ ~Unsendable(h) /\ provider[Member(h)] = "ok"
    /\ ~call[h].stream
    /\ Succeeded(Member(h)) /\ Relays(h, "answered")
    /\ UNCHANGED surroundings

(* The header is out: from here on there is no failover.                    *)
StreamStarts(h) ==
    /\ Trying(h) /\ ~Unsendable(h) /\ provider[Member(h)] = "ok"
    /\ call[h].stream /\ Relays(h, "streaming")
    /\ UNCHANGED <<health, surroundings>>

(* relayProviderResponse: one attempt, and whatever the provider answers, a   *)
(* rate limit too, is the client's.  Nothing is learnt from it.             *)
RelayDirect(h) ==
    /\ call[h].pc = "trying" /\ call[h].direct
    /\ IF Unsendable(h) THEN To(h, "exhausted")
       ELSE Relays(h, IF call[h].stream THEN "streaming" ELSE "answered")
    /\ UNCHANGED <<health, surroundings>>

----------------------------------------------------------------------------
(* proxySSEStream: the scanner waits for the provider's next line while the  *)
(* watchdog counts the silence; what the watchdog found is read when the    *)
(* scanner is through.                                                     *)
FallSilent(h) ==
    /\ call[h].pc = "streaming" /\ call[h].line = "flowing" /\ Happen
    /\ call' = [call EXCEPT ![h].line = "silent"]
    /\ UNCHANGED <<group, provider, vault, health, now, calls>>

GoOn(h) ==
    /\ call[h].pc = "streaming" /\ call[h].line = "silent" /\ call[h].there
    /\ call' = [call EXCEPT ![h].line = "flowing"]
    /\ UNCHANGED <<health, surroundings>>

Watchdog(h) ==
    /\ call[h].pc = "streaming" /\ call[h].line = "silent" /\ ~call[h].stalled
    /\ call' = [call EXCEPT ![h].stalled = TRUE]
    /\ UNCHANGED <<health, surroundings>>

(* A direct request leaves the health of its provider as it is.             *)
Learns(h, outcome) == IF call[h].direct THEN UNCHANGED health ELSE outcome

(* The last line has come: a stall on the way makes the stream a failure.    *)
StreamEnds(h) ==
    /\ call[h].pc = "streaming" /\ call[h].line = "flowing" /\ call[h].there
    /\ IF call[h].stalled
         THEN Learns(h, Failed(Member(h))) /\ To(h, "broken")
         ELSE Learns(h, Succeeded(Member(h))) /\ To(h, "answered")
    /\ UNCHANGED surroundings

(* Mutation: a stream that breaks is tried again with the next member.      *)
StreamBreaksOver(h) ==
    /\ call[h].pc = "streaming"
    /\ call[h].there => provider[Member(h)] = "down"
    /\ Failed(Member(h))
    /\ IF call[h].n < Len(call[h].order)
         THEN call' = [call EXCEPT ![h].pc = "trying", ![h].n = @ + 1]
         ELSE To(h, "broken")
    /\ UNCHANGED surroundings

(* The connection to the provider is lost, or given up with the client.     *)
StreamBreaks(h) ==
    /\ call[h].pc = "streaming"
    /\ call[h].there => provider[Member(h)] = "down"
    /\ Learns(h, Failed(Member(h))) /\ To(h, "broken")
    /\ UNCHANGED surroundings

Leave(h) ==
    /\ call[h].pc \in {"answered", "exhausted", "broken"}
    /\ call' = [call EXCEPT ![h] = NoCall]
    /\ UNCHANGED <<health, surroundings>>

----------------------------------------------------------------------------
(* Around the requests.                                                    *)
(* The client's timeout, or its user: the request's context ends.           *)
ClientGoes(h) ==
    /\ call[h].pc \in {"trying", "streaming"} /\ call[h].there /\ Happen
    /\ call' = [call EXCEPT ![h].there = FALSE]
    /\ UNCHANGED <<group, provider, vault, health, now, calls>>

Witnessed(working) ==
    [h \in Handlers |-> IF call[h].pc \in {"trying", "streaming"}
                          THEN [call[h] EXCEPT !.good = @ \cap working] ELSE call[h]]

ProviderChanges(m, does) ==
    /\ Happen /\ provider[m] # does /\ provider' = [provider EXCEPT ![m] = does]
    /\ UNCHANGED <<group, vault, health, now, calls>>
    /\ call' = Witnessed(Working')

(* The owner logs out, or unlocks again.                                    *)
VaultChanges ==
    /\ Happen /\ vault' = ~vault
    /\ UNCHANGED <<group, provider, health, now, calls>>
    /\ call' = Witnessed(Working')

(* replaceGroupMembers: in one transaction.                                 *)
UpdateModelGroup(members) ==
    /\ Happen /\ group # members /\ group' = members
    /\ UNCHANGED <<provider, vault, health, call, now, calls>>

Elapse ==
    /\ now < MaxNow /\ now' = now + 1 /\ Happen
    /\ UNCHANGED <<group, provider, vault, health, call, calls>>

(* Health is not stored.                                                   *)
RestartGateway ==
    /\ Happen
    /\ health' = [m \in Members |-> Unknown] /\ call' = [h \in Handlers |-> NoCall]
    /\ UNCHANGED <<group, provider, vault, now, calls>>

GatewayNext ==
    \/ \E h \in Handlers :
        \/ Arrive(h) \/ AttemptFails(h) \/ AttemptLimited(h) \/ AttemptAnswers(h)
        \/ StreamStarts(h) \/ RelayDirect(h) \/ FallSilent(h) \/ GoOn(h) \/ Watchdog(h)
        \/ StreamEnds(h) \/ StreamBreaks(h) \/ Leave(h) \/ ClientGoes(h)
    \/ \E m \in Members, does \in {"ok", "limited", "down"} : ProviderChanges(m, does)
    \/ VaultChanges
    \/ \E members \in SUBSET Members : UpdateModelGroup(members)
    \/ Elapse \/ RestartGateway

GatewaySpec == GatewayInit /\ [][GatewayNext]_gatewayVars

(* What the gateway does by itself.                                         *)
GatewayFairness ==
    \A h \in Handlers : WF_gatewayVars(
        AttemptFails(h) \/ AttemptLimited(h) \/ AttemptAnswers(h) \/ StreamStarts(h)
        \/ RelayDirect(h) \/ Watchdog(h) \/ StreamBreaks(h) \/ Leave(h))

FairGatewaySpec == GatewaySpec /\ GatewayFairness

----------------------------------------------------------------------------
(* A client that is still there is told that the group is exhausted only if  *)
(* no member of the group, as the request found it, could have answered at  *)
(* every moment of the request: a cooldown or a streak of failures delays a *)
(* member's turn but never takes it away (orderCandidates, the loop of      *)
(* serveGroupChatCompletions).                                              *)
ExhaustedMeansNoneWorks ==
    \A h \in Handlers : call[h].pc = "exhausted" /\ call[h].there => call[h].good = {}

(* A paid member answers only if no free one of the group could have done    *)
(* so throughout the request, whatever the gateway believed of its health   *)
(* (orderCandidates: free members before paid ones).                        *)
PaidIsLastResort ==
    \A h \in Handlers :
        call[h].pc \in {"answered", "streaming", "broken"} /\ Member(h) \notin Free
            => call[h].good \cap Free = {}

(* The bytes a client gets come from one member: failover ends where the     *)
(* relay of a stream begins, and where a body is answered.                  *)
OneVoice == \A h \in Handlers : call[h].pc # "none" => Cardinality(call[h].by) <= 1

(* A stream that stays silent past the stall timeout is ended without the     *)
(* client's help (the comment on proxySSEStream: an error is returned, so   *)
(* that nobody waits for the outer timeout).                                *)
Stalled(h) == call[h].pc = "streaming" /\ call[h].line = "silent" /\ call[h].stalled
StalledStreamEnds == \A h \in Handlers : Stalled(h) ~> ~Stalled(h)
=============================================================================
