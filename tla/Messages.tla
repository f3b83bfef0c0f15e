------------------------------ MODULE Messages ------------------------------
(***************************************************************************)
(* Routed messages and lifecycle events between the task orchestrator and   *)
(* its worker sessions: rows of run_events, written by tools inside a turn  *)
(* and read at the start of the next one.                                   *)
(*                                                                          *)
(* The orchestrator's loop reads its sessions, then its inbox, gives both   *)
(* to one activation of the model, and consumes what it had read when the   *)
(* activation succeeds.  A worker reads its inbox before each turn.  Either *)
(* may block inside a tool waiting for the other's answer: the worker for   *)
(* as long as it takes (ask_task_owner), the orchestrator until the         *)
(* per-call timeout or the end of its target (session_send_message).        *)
(***************************************************************************)
EXTENDS Naturals, FiniteSets

CONSTANTS
    Workers,     \* run ids for worker sessions
    First,       \* the worker that is running at the start
    MaxMessages  \* routed messages over the task's life (a bound)

Owner == "orchestrator"

ASSUME MessagesAssumption == First \in Workers /\ Owner \notin Workers /\ MaxMessages \in Nat

Actors == Workers \cup {Owner}
Ids == 1..MaxMessages

VARIABLES
    msg,       \* session_message rows: [from, to, st]
    ans,       \* session_answer rows, by the message they reply to
    ev,        \* lifecycle and status_report rows: [Workers -> kinds -> state]
    wst,       \* status of each worker run
    wpc,       \* a worker is taking turns, or blocked asking
    ostat,     \* status of the orchestrator: live, failed or over
    opc,       \* where its loop is
    oseen,     \* what its activation was shown: [events, answers, asks]
    ofp,       \* fingerprint at its last activation, all "unknown" before the first
    awaiting,  \* the message an actor is blocked on; 0 when it is not
    observed,  \* history: events shown to an activation that succeeded
    delivered  \* history: messages whose answer its sender has been given

mailVars == <<msg, ans, ev>>
workVars == <<wst, wpc>>
ownVars  == <<ostat, opc, oseen, ofp>>
msgVars  == <<mailVars, workVars, ownVars, awaiting, observed, delivered>>

NoMsg == [from |-> Owner, to |-> Owner, st |-> "none"]
Kinds == {"ended", "report"}
Unknown == [w \in Workers |-> "unknown"]
Nothing == [events |-> {}, answers |-> {}, asks |-> {}]

MsgInit ==
    /\ msg = [m \in Ids |-> NoMsg] /\ ans = [m \in Ids |-> "none"]
    /\ ev = [w \in Workers |-> [k \in Kinds |-> "none"]]
    /\ wst = [w \in Workers |-> IF w = First THEN "running" ELSE "absent"]
    /\ wpc = [w \in Workers |-> "turn"]
    /\ ostat = "live" /\ opc = "loop" /\ oseen = Nothing /\ ofp = Unknown
    /\ awaiting = [a \in Actors |-> 0] /\ observed = {} /\ delivered = {}

----------------------------------------------------------------------------
(* Rows.                                                                   *)

Terminal(w) == wst[w] = "ended"

(* EnqueueRoutedEvent with a key of its own: the next free id.             *)
NextId == CHOOSE m \in Ids : msg[m].st = "none" /\ \A k \in 1..(m - 1) : msg[k].st # "none"
CanSend == \E m \in Ids : msg[m].st = "none"
Enqueue(from, to) == msg' = [msg EXCEPT ![NextId] = [from |-> from, to |-> to, st |-> "pending"]]

(* ListUnconsumedEventsForTarget.                                          *)
InboxOf(a) == {m \in Ids : msg[m].st = "pending" /\ msg[m].to = a}
AnswersFor(a) == {m \in Ids : ans[m] = "pending" /\ msg[m].from = a}

(* ListPendingRunEvents.                                                   *)
PendingEvents == {e \in Workers \X Kinds : ev[e[1]][e[2]] = "pending"}

(* UpdateRunLog enqueues a lifecycle event whose key is the run and its     *)
(* status: a second one with the same key is not written.                  *)
LifecycleEvent(w) ==
    ev' = [ev EXCEPT ![w]["ended"] = IF @ = "none" THEN "pending" ELSE @]

(* Mutation of AnswerPendingMessage: the answer is written and the request  *)
(* left unconsumed.                                                        *)
AnswerOnly(a, m) ==
    /\ msg[m].to = a
    /\ ans' = [ans EXCEPT ![m] = "pending"]
    /\ UNCHANGED msg

(* AnswerPendingMessage: the target's answer consumes its request.  When it *)
(* already has, the existing answer is returned.                           *)
AnswerPendingMessage(a, m) ==
    /\ msg[m].to = a
    /\ IF msg[m].st = "pending"
       THEN /\ msg' = [msg EXCEPT ![m].st = "answered"]
            /\ ans' = [ans EXCEPT ![m] = "pending"]
       ELSE UNCHANGED <<msg, ans>>

----------------------------------------------------------------------------
(* The orchestrator.                                                       *)

(* Mutation of NothingNew: answers are not looked for.                     *)
NoQuestions == ofp = wst /\ PendingEvents = {} /\ InboxOf(Owner) = {}

(* An iteration of the loop lists its sessions, events and inbox.  Nothing  *)
(* new: it waits and looks again.                                          *)
NothingNew == ofp = wst /\ PendingEvents = {} /\ InboxOf(Owner) \cup AnswersFor(Owner) = {}

Activate ==
    /\ ostat = "live" /\ opc = "loop" /\ ~NothingNew
    /\ opc' = "turn" /\ ofp' = wst
    /\ oseen' = [events |-> PendingEvents, answers |-> AnswersFor(Owner), asks |-> InboxOf(Owner)]
    /\ UNCHANGED <<mailVars, workVars, ostat, awaiting, observed, delivered>>

(* session_send_message to a running session.                              *)
SendMessage(w) ==
    /\ opc = "turn" /\ wst[w] = "running" /\ CanSend
    /\ Enqueue(Owner, w)
    /\ awaiting' = [awaiting EXCEPT ![Owner] = NextId] /\ opc' = "sending"
    /\ UNCHANGED <<ans, ev, workVars, ostat, oseen, ofp, observed, delivered>>

(* To one that ended or is paused: a new session is created for it.        *)
MessageTerminalSession(w, new) ==
    /\ opc = "turn" /\ wst[w] \in {"ended", "paused"} /\ wst[new] = "absent" /\ CanSend
    /\ wst' = [wst EXCEPT ![new] = "running"]
    /\ Enqueue(Owner, new)
    /\ awaiting' = [awaiting EXCEPT ![Owner] = NextId] /\ opc' = "sending"
    /\ UNCHANGED <<ans, ev, wpc, ostat, oseen, ofp, observed, delivered>>

(* The tool returns to the turn.                                           *)
StopWaiting ==
    /\ opc' = "turn" /\ awaiting' = [awaiting EXCEPT ![Owner] = 0]
    /\ UNCHANGED <<mailVars, workVars, ostat, oseen, ofp, observed>>

(* The poll finds the answer; it stays in the inbox.                       *)
SendAnswered ==
    /\ opc = "sending" /\ ans[awaiting[Owner]] # "none"
    /\ delivered' = delivered \cup {awaiting[Owner]}
    /\ StopWaiting

(* The poll found no answer and then a target that had ended.              *)
SendTargetEnded ==
    /\ opc = "sending" /\ Terminal(msg[awaiting[Owner]].to)
    /\ StopWaiting /\ UNCHANGED delivered

(* toolCallTimeout.                                                         *)
SendTimesOut ==
    /\ opc = "sending" /\ StopWaiting /\ UNCHANGED delivered

(* answer_message, with an id the activation was shown.                    *)
OwnerAnswers(m) ==
    /\ opc = "turn" /\ m \in oseen.asks
    /\ AnswerPendingMessage(Owner, m)
    /\ UNCHANGED <<ev, workVars, ownVars, awaiting, observed, delivered>>

(* run_new_session.                                                        *)
StartWorker(w) ==
    /\ opc = "turn" /\ wst[w] = "absent"
    /\ wst' = [wst EXCEPT ![w] = "running"]
    /\ UNCHANGED <<mailVars, wpc, ownVars, awaiting, observed, delivered>>

(* Mutation of Consumed: everything pending when the activation ends.      *)
ConsumedAll == PendingEvents

(* What a successful activation consumes: the events it was shown.         *)
Consumed == oseen.events

EndActivation ==
    /\ opc = "turn"
    /\ ev' = [w \in Workers |-> [k \in Kinds |->
                 IF <<w, k>> \in Consumed THEN "consumed" ELSE ev[w][k]]]
    /\ ans' = [m \in Ids |-> IF m \in oseen.answers THEN "consumed" ELSE ans[m]]
    /\ observed' = observed \cup oseen.events
    /\ delivered' = delivered \cup oseen.answers
    /\ opc' = "loop" /\ oseen' = Nothing
    /\ UNCHANGED <<msg, workVars, ostat, ofp, awaiting>>

(* The provider fails: nothing is consumed and the row is failed.          *)
ActivationFails ==
    /\ opc = "turn"
    /\ ostat' = "failed" /\ opc' = "loop" /\ oseen' = Nothing
    /\ UNCHANGED <<mailVars, workVars, ofp, awaiting, observed, delivered>>

(* The watchdog restarts the loop of a failed orchestrator.                *)
Restarted ==
    /\ ostat = "failed"
    /\ ostat' = "live" /\ ofp' = Unknown
    /\ UNCHANGED <<mailVars, workVars, opc, oseen, awaiting, observed, delivered>>

(* finish_task, refused while a session is not terminal, or a person's      *)
(* stop.                                                                   *)
OwnerOver ==
    /\ ostat = "live"
    /\ opc = "turn" => \A w \in Workers : wst[w] \in {"absent", "ended"}
    /\ ostat' = "over" /\ opc' = "loop" /\ oseen' = Nothing
    /\ awaiting' = [awaiting EXCEPT ![Owner] = 0]
    /\ UNCHANGED <<mailVars, workVars, ofp, observed, delivered>>

----------------------------------------------------------------------------
(* A worker.                                                               *)

(* BeforeTurn shows a turn the worker's inbox, which only answers consume;  *)
(* answer_message takes the ids it was shown.                              *)
WorkerAnswers(w, m) ==
    /\ wst[w] = "running" /\ wpc[w] = "turn" /\ m \in InboxOf(w)
    /\ AnswerPendingMessage(w, m)
    /\ UNCHANGED <<ev, workVars, ownVars, awaiting, observed, delivered>>

(* ask_task_owner.                                                         *)
AskOwner(w) ==
    /\ wst[w] = "running" /\ wpc[w] = "turn" /\ CanSend
    /\ Enqueue(w, Owner)
    /\ awaiting' = [awaiting EXCEPT ![w] = NextId]
    /\ wpc' = [wpc EXCEPT ![w] = "asking"]
    /\ UNCHANGED <<ans, ev, wst, ownVars, observed, delivered>>

AskAnswered(w) ==
    /\ wst[w] = "running" /\ wpc[w] = "asking" /\ ans[awaiting[w]] # "none"
    /\ delivered' = delivered \cup {awaiting[w]}
    /\ awaiting' = [awaiting EXCEPT ![w] = 0]
    /\ wpc' = [wpc EXCEPT ![w] = "turn"]
    /\ UNCHANGED <<mailVars, wst, ownVars, observed>>

(* report_status: a row of its own each time.                              *)
ReportStatus(w) ==
    /\ wst[w] = "running" /\ wpc[w] = "turn"
    /\ ev' = [ev EXCEPT ![w]["report"] = "pending"]
    /\ observed' = observed \ {<<w, "report">>}
    /\ UNCHANGED <<msg, ans, workVars, ownVars, awaiting, delivered>>

(* Paused before a turn's tools and resumed: see Sessions.                 *)
PauseWorker(w) ==
    /\ wst[w] = "running" /\ wpc[w] = "turn"
    /\ wst' = [wst EXCEPT ![w] = "paused"]
    /\ UNCHANGED <<mailVars, wpc, ownVars, awaiting, observed, delivered>>

ResumeWorker(w) ==
    /\ wst[w] = "paused"
    /\ wst' = [wst EXCEPT ![w] = "running"]
    /\ UNCHANGED <<mailVars, wpc, ownVars, awaiting, observed, delivered>>

(* The session finishes, fails or is stopped, wherever it is.              *)
WorkerEnds(w) ==
    /\ wst[w] \in {"running", "paused"}
    /\ wst' = [wst EXCEPT ![w] = "ended"]
    /\ awaiting' = [awaiting EXCEPT ![w] = 0]
    /\ LifecycleEvent(w)
    /\ UNCHANGED <<msg, ans, wpc, ownVars, observed, delivered>>

----------------------------------------------------------------------------
OwnerStep ==
    \/ Activate \/ EndActivation \/ ActivationFails
    \/ SendAnswered \/ SendTargetEnded \/ SendTimesOut \/ Restarted \/ OwnerOver
    \/ \E w \in Workers : SendMessage(w) \/ StartWorker(w)
    \/ \E w, new \in Workers : MessageTerminalSession(w, new)
    \/ \E m \in Ids : OwnerAnswers(m)

WorkerStep(w) ==
    \/ AskOwner(w) \/ AskAnswered(w) \/ ReportStatus(w)
    \/ PauseWorker(w) \/ ResumeWorker(w) \/ WorkerEnds(w)
    \/ \E m \in Ids : WorkerAnswers(w, m)

MsgNext == OwnerStep \/ \E w \in Workers : WorkerStep(w)

MsgSpec == MsgInit /\ [][MsgNext]_msgVars

(* The loop and its polls keep going, a tool call is cut off after its      *)
(* timeout, the watchdog comes round, and a provider that is tried again    *)
(* and again does not fail every activation.                               *)
MsgFairness ==
    /\ WF_msgVars(Activate)
    /\ WF_msgVars(SendAnswered \/ SendTargetEnded \/ SendTimesOut)
    /\ SF_msgVars(EndActivation) /\ WF_msgVars(Restarted)
    /\ \A w \in Workers : WF_msgVars(AskAnswered(w))

----------------------------------------------------------------------------
(* Properties.                                                             *)

(* A message leaves its target's inbox exactly when its answer is written,  *)
(* whatever answers twice, late, or after a pause (AnswerPendingMessage's   *)
(* transaction), and a sender is only given answers that exist.            *)
AnsweredOnce ==
    /\ \A m \in Ids : msg[m].st = "answered" <=> ans[m] # "none"
    /\ \A m \in delivered : ans[m] # "none"

(* No lifecycle event or status report is lost: a row is consumed only by   *)
(* an activation that was shown it and succeeded, and rows that arrive      *)
(* while it runs, or that a failed one was shown, stay for the next.       *)
ConsumedWereObserved ==
    \A w \in Workers, k \in Kinds : ev[w][k] = "consumed" => <<w, k>> \in observed

(* A worker blocked on the orchestrator is not blocked for good by the      *)
(* orchestrator being blocked on it: its question reaches an activation, or *)
(* it ends, or the orchestrator is over.  And an answer that comes after    *)
(* the orchestrator stopped waiting for it, by timeout or because its       *)
(* target ended, still reaches it (ask_worker's timeout, the inbox and the  *)
(* answers an activation is started with).                                  *)
MailReachesOwner ==
    \A m \in Ids :
        /\ (msg[m].st = "pending" /\ msg[m].to = Owner)
               ~> (msg[m].st = "answered" \/ (opc = "turn" /\ m \in oseen.asks) \/ ostat = "over")
        /\ (ans[m] = "pending" /\ msg[m].from = Owner) ~> (m \in delivered \/ ostat = "over")
=============================================================================
