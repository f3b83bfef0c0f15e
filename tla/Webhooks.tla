------------------------------ MODULE Webhooks ------------------------------
(***************************************************************************)
(* One delivery of a GitHub webhook: its row, the outbox of tasks to wake,  *)
(* and the requests GitHub makes for it, the first and its redeliveries,    *)
(* which overlap, run out of time and are cut short by a restart.           *)
(*                                                                          *)
(* A lease is taken until a time; here it is live until LeaseExpires.  A    *)
(* request's context ends after the lease's length and a wake's after ten   *)
(* minutes of the lease's fifteen, both counted from before the lease, so a *)
(* lease outlives the request or the wake that holds it.  The engine is     *)
(* what RerunTask returns.                                                  *)
(***************************************************************************)
EXTENDS Naturals, FiniteSets

CONSTANTS
    Hooks,        \* requests served at once
    HookTasks,    \* tasks of this repository, one for each project
    MaxAttempts   \* requests GitHub makes for the delivery (a bound)

VARIABLES
    payload,    \* does the event say something for a task; did another server relay it
    delivery,   \* the row of github_webhook_deliveries
    target,     \* the rows of github_webhook_targets
    linked,     \* the tasks whose row carries the pull request's number
    comments,   \* how many comments the delivery left on each task
    woken,      \* the tasks RerunTask has accepted
    hook,       \* what each request is doing
    attempts    \* requests so far; a request's number is its attempt token

hookVars == <<payload, delivery, target, linked, comments, woken, hook, attempts>>

NoHook == [pc |-> "none"]
NoTarget == [status |-> "none", token |-> 0, live |-> FALSE]

WebhookInit ==
    /\ payload \in [comment : BOOLEAN, relayed : BOOLEAN]
    /\ delivery = [status |-> "none", token |-> 0, live |-> FALSE, forwarded |-> FALSE]
    /\ target = [t \in HookTasks |-> NoTarget]
    /\ linked \in SUBSET HookTasks
    /\ comments = [t \in HookTasks |-> 0] /\ woken = {}
    /\ hook = [h \in Hooks |-> NoHook] /\ attempts = 0

----------------------------------------------------------------------------
(* What a row's lease admits, and what an update scoped to a token reaches. *)
Claimable(row) == row.status # "completed" /\ (row.status = "processing" => ~row.live)
Claimed(row, h) == [row EXCEPT !.status = "processing", !.token = hook[h].token, !.live = TRUE]
Holds(row, h) == row.token = hook[h].token

Go(h, pc) == hook' = [hook EXCEPT ![h].pc = pc]
Respond(h) == hook' = [hook EXCEPT ![h] = NoHook]

(* A request that is late finds its context ended: none of its statements   *)
(* reaches the database, the one that would mark the delivery failed too.   *)
Reaches(h) == ~hook[h].late

ReceiveHook(h) ==
    /\ hook[h].pc = "none" /\ attempts < MaxAttempts /\ attempts' = attempts + 1
    /\ hook' = [hook EXCEPT ![h] = [pc |-> "load", token |-> attempts', late |-> FALSE, todo |-> {}]]
    /\ UNCHANGED <<delivery, target, linked, comments, woken>>

LoadDelivery(h) ==
    /\ hook[h].pc = "load"
    /\ IF ~Reaches(h) \/ delivery.status = "completed" THEN Respond(h) ELSE Go(h, "claim")
    /\ delivery' = [delivery EXCEPT !.status = IF Reaches(h) /\ @ = "none" THEN "pending" ELSE @]
    /\ UNCHANGED <<target, linked, comments, woken, attempts>>

(* A delivery another request holds is answered with a conflict.            *)
ClaimDelivery(h) ==
    /\ hook[h].pc = "claim"
    /\ IF Reaches(h) /\ Claimable(delivery)
       THEN delivery' = Claimed(delivery, h) /\ Go(h, "relay")
       ELSE Respond(h) /\ UNCHANGED delivery
    /\ UNCHANGED <<target, linked, comments, woken, attempts>>

----------------------------------------------------------------------------
UpdateDelivery(h, row) ==
    IF Reaches(h) /\ Holds(delivery, h) THEN delivery' = row ELSE UNCHANGED delivery

MarkFailed(h) ==
    /\ UpdateDelivery(h, [delivery EXCEPT !.status = "failed", !.live = FALSE])
    /\ Respond(h)

Relay(h) ==
    /\ hook[h].pc = "relay"
    /\ IF payload.relayed \/ delivery.forwarded
       THEN Go(h, "comment") /\ UNCHANGED delivery
       ELSE \/ MarkFailed(h)
            \/ /\ Reaches(h) /\ Holds(delivery, h)
               /\ delivery' = [delivery EXCEPT !.forwarded = TRUE] /\ Go(h, "comment")
    /\ UNCHANGED <<target, linked, comments, woken, attempts>>

(* Mutation of Uncommented: the outbox is not looked at.                    *)
UncommentedLinked == linked

(* The tasks of the pull request that have no outbox row of this delivery.   *)
Uncommented == {t \in linked : target[t].status = "none"}

(* One transaction: a comment and an outbox row for each of them.           *)
CreateComments(h) ==
    /\ hook[h].pc = "comment"
    /\ IF ~payload.comment
       THEN Go(h, "complete") /\ UNCHANGED <<delivery, target, comments>>
       ELSE \/ MarkFailed(h) /\ UNCHANGED <<target, comments>>
            \/ /\ Reaches(h) /\ Go(h, "list") /\ UNCHANGED delivery
               /\ comments' = [t \in HookTasks |-> comments[t] + IF t \in Uncommented THEN 1 ELSE 0]
               /\ target' = [t \in HookTasks |->
                     IF t \in Uncommented THEN [NoTarget EXCEPT !.status = "pending"] ELSE target[t]]
    /\ UNCHANGED <<linked, woken, attempts>>

Incomplete == {t \in HookTasks : target[t].status \notin {"none", "completed"}}

ListTargets(h) ==
    /\ hook[h].pc = "list"
    /\ \/ Reaches(h) /\ hook' = [hook EXCEPT ![h].pc = "next", ![h].todo = Incomplete] /\ UNCHANGED delivery
       \/ MarkFailed(h)
    /\ UNCHANGED <<target, linked, comments, woken, attempts>>

(* The next target: claimed and handed to the engine, or left to its holder. *)
NextTarget(h, t) ==
    /\ hook[h].pc = "next" /\ t \in hook[h].todo
    /\ \/ /\ Reaches(h) /\ UNCHANGED delivery
          /\ IF Claimable(target[t])
             THEN /\ target' = [target EXCEPT ![t] = Claimed(target[t], h)]
                  /\ hook' = [hook EXCEPT ![h] = [pc |-> "waking", token |-> @.token, late |-> @.late,
                                                  todo |-> @.todo \ {t}, task |-> t]]
             ELSE hook' = [hook EXCEPT ![h].todo = @ \ {t}] /\ UNCHANGED target
       \/ MarkFailed(h) /\ UNCHANGED target
    /\ UNCHANGED <<linked, comments, woken, attempts>>

----------------------------------------------------------------------------
(* RerunTask runs under a context of its own, so a late request still waits *)
(* for it; what it records afterwards is lost.                              *)
UpdateTarget(h, status) ==
    LET t == hook[h].task
    IN  target' = [target EXCEPT ![t] = IF Reaches(h) /\ Holds(@, h) THEN [@ EXCEPT !.status = status, !.live = FALSE] ELSE @]

RerunReturns(h) ==
    /\ hook[h].pc = "waking"
    /\ woken' = woken \cup {hook[h].task} /\ Go(h, "woke")
    /\ UNCHANGED <<delivery, target, linked, comments, attempts>>

TargetDone(h) ==
    /\ hook[h].pc = "woke"
    /\ UpdateTarget(h, "completed")
    /\ IF Reaches(h) /\ Holds(target[hook[h].task], h) THEN Go(h, "next") /\ UNCHANGED delivery ELSE MarkFailed(h)
    /\ UNCHANGED <<linked, comments, woken, attempts>>

RerunFails(h) ==
    /\ hook[h].pc = "waking"
    /\ UpdateTarget(h, "pending") /\ Go(h, "fail")
    /\ UNCHANGED <<delivery, linked, comments, woken, attempts>>

WakeFailed(h) ==
    /\ hook[h].pc = "fail" /\ MarkFailed(h)
    /\ UNCHANGED <<target, linked, comments, woken, attempts>>

CountTargets(h) ==
    /\ hook[h].pc = "next" /\ hook[h].todo = {}
    /\ \/ Reaches(h) /\ Incomplete = {} /\ Go(h, "complete") /\ UNCHANGED delivery
       \/ MarkFailed(h)
    /\ UNCHANGED <<target, linked, comments, woken, attempts>>

CompleteDelivery(h) ==
    /\ hook[h].pc = "complete"
    /\ UpdateDelivery(h, [delivery EXCEPT !.status = "completed", !.live = FALSE]) /\ Respond(h)
    /\ UNCHANGED <<target, linked, comments, woken, attempts>>

----------------------------------------------------------------------------
(* What time and the rest of the system do.                                *)
ContextEnds(h) ==
    /\ hook[h].pc # "none" /\ ~hook[h].late
    /\ hook' = [hook EXCEPT ![h].late = TRUE]
    /\ UNCHANGED <<delivery, target, linked, comments, woken, attempts>>

Holder(token) == {h \in Hooks : hook[h].pc # "none" /\ hook[h].token = token}

DeliveryLeaseExpires ==
    /\ delivery.live /\ \A h \in Holder(delivery.token) : hook[h].late
    /\ delivery' = [delivery EXCEPT !.live = FALSE]
    /\ UNCHANGED <<target, linked, comments, woken, hook, attempts>>

TargetLeaseExpires(t) ==
    /\ target[t].live
    /\ \A h \in Holder(target[t].token) : ~(hook[h].pc = "waking" /\ hook[h].task = t)
    /\ target' = [target EXCEPT ![t].live = FALSE]
    /\ UNCHANGED <<delivery, linked, comments, woken, hook, attempts>>

(* publishTaskPR records the pull request on another task.                  *)
LinkTask(t) ==
    /\ t \notin linked /\ linked' = linked \cup {t}
    /\ UNCHANGED <<delivery, target, comments, woken, hook, attempts>>

RestartServer ==
    /\ \E h \in Hooks : hook[h].pc # "none"
    /\ hook' = [h \in Hooks |-> NoHook]
    /\ UNCHANGED <<delivery, target, linked, comments, woken, attempts>>

WebhookNext == UNCHANGED payload /\
   (\/ \E h \in Hooks :
          \/ ReceiveHook(h) \/ LoadDelivery(h) \/ ClaimDelivery(h) \/ Relay(h) \/ CreateComments(h) \/ ListTargets(h)
          \/ \E t \in HookTasks : NextTarget(h, t)
          \/ RerunReturns(h) \/ TargetDone(h) \/ RerunFails(h) \/ WakeFailed(h)
          \/ CountTargets(h) \/ CompleteDelivery(h) \/ ContextEnds(h)
    \/ DeliveryLeaseExpires
    \/ \E t \in HookTasks : TargetLeaseExpires(t) \/ LinkTask(t)
    \/ RestartServer)

WebhookSpec == WebhookInit /\ [][WebhookNext]_hookVars

----------------------------------------------------------------------------
(* However often GitHub delivers and however the attempts end: a task gets  *)
(* one comment of the delivery, its wakes never overlap, and a delivery is  *)
(* only completed, after which GitHub's retries do nothing, once every task *)
(* it left a comment on has been woken (processGitHubWebhook and            *)
(* wakeGitHubWebhookTargets, the outbox of comments and wakes).             *)
DeliveredExactly ==
    \A t \in HookTasks :
        /\ comments[t] <= 1
        /\ Cardinality({h \in Hooks : hook[h].pc = "waking" /\ hook[h].task = t}) <= 1
        /\ delivery.status = "completed" /\ comments[t] = 1 => t \in woken
=============================================================================
