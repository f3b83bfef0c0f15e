------------------------------ MODULE MailProofs -----------------------------
(***************************************************************************)
(* Theorems about Messages and Helpers, for any workers, helpers and number *)
(* of messages: an answer and its request go together, no event is consumed *)
(* unseen, and a parent that finished left no helper behind.                *)
(***************************************************************************)
EXTENDS Messages, Helpers, Counting

----------------------------------------------------------------------------
(* Messages.                                                               *)

Row  == [from : Actors, to : Actors, st : {"none", "pending", "answered"}]
Seen == [events : SUBSET (Workers \X Kinds), answers : SUBSET Ids, asks : SUBSET Ids]

MailTypeOK ==
    /\ msg \in [Ids -> Row]
    /\ ans \in [Ids -> {"none", "pending", "consumed"}]
    /\ ev \in [Workers -> [Kinds -> {"none", "pending", "consumed"}]]
    /\ wst \in [Workers -> {"absent", "running", "paused", "ended"}]
    /\ wpc \in [Workers -> {"turn", "asking"}]
    /\ ostat \in {"live", "failed", "over"} /\ opc \in {"loop", "turn", "sending"}
    /\ oseen \in Seen /\ awaiting \in [Actors -> Ids \cup {0}]
    /\ observed \in SUBSET (Workers \X Kinds) /\ delivered \in SUBSET Ids

(* Who is blocked knows on which message, and only a session that runs, or  *)
(* ended while it did, is.                                                  *)
BlockedOnMessage ==
    /\ \A w \in Workers : wst[w] \in {"absent", "paused"} => wpc[w] = "turn"
    /\ opc = "sending" => awaiting[Owner] \in Ids
    /\ \A w \in Workers : wst[w] = "running" /\ wpc[w] = "asking" => awaiting[w] \in Ids

(* What an activation was shown is still so: the answers it was shown exist. *)
ShownExist == \A m \in oseen.answers : ans[m] # "none"

MailInv == MailTypeOK /\ BlockedOnMessage /\ ShownExist /\ AnsweredOnce

(* The id of the next message is free.                                      *)
LEMMA NextIdFree ==
    ASSUME CanSend
    PROVE  NextId \in Ids /\ msg[NextId].st = "none"
<1> DEFINE F == {m \in Ids : msg[m].st = "none"}
<1>1. F \in SUBSET Nat /\ F # {}
  BY DEF CanSend, Ids
<1>2. PICK n \in F : \A m \in F : n <= m
  <2> HIDE DEF F
  <2> QED BY <1>1, LeastNat
<1>3. \A k \in 1..(n - 1) : msg[k].st # "none"
  <2> TAKE k \in 1..(n - 1)
  <2>1. k \in Ids /\ ~(n <= k)
    BY <1>1, MessagesAssumption DEF Ids
  <2> QED BY <1>2, <2>1
<1> QED BY <1>2, <1>3 DEF NextId

(* Writing a new row.                                                       *)
LEMMA EnqueueRow ==
    ASSUME MailTypeOK, CanSend, NEW a \in Actors, NEW b \in Actors, Enqueue(a, b)
    PROVE  /\ msg' \in [Ids -> Row] /\ NextId \in Ids
           /\ \A m \in Ids : msg'[m].st = "answered" <=> msg[m].st = "answered"
<1>1. NextId \in Ids /\ msg[NextId].st = "none"
  BY NextIdFree
<1>2. [from |-> a, to |-> b, st |-> "pending"] \in Row
  BY DEF Row
<1> HIDE DEF NextId, Row
<1> QED BY <1>1, <1>2 DEF Enqueue, MailTypeOK

(* Answering a message.                                                     *)
LEMMA AnswerRow ==
    ASSUME MailTypeOK, AnsweredOnce, NEW a, NEW m \in Ids, AnswerPendingMessage(a, m)
    PROVE  /\ msg' \in [Ids -> Row]
           /\ ans' \in [Ids -> {"none", "pending", "consumed"}]
           /\ \A k \in Ids : msg'[k].st = "answered" <=> ans'[k] # "none"
           /\ \A k \in Ids : ans[k] # "none" => ans'[k] # "none"
<1>1. CASE msg[m].st = "pending"
  <2>1. /\ msg' = [msg EXCEPT ![m].st = "answered"]
        /\ ans' = [ans EXCEPT ![m] = "pending"]
    BY <1>1 DEF AnswerPendingMessage
  <2>2. [msg[m] EXCEPT !.st = "answered"] \in Row
    BY DEF MailTypeOK, Row
  <2> QED BY <2>1, <2>2 DEF MailTypeOK, AnsweredOnce, Row
<1>2. CASE msg[m].st # "pending"
  BY <1>2 DEF AnswerPendingMessage, MailTypeOK, AnsweredOnce
<1> QED BY <1>1, <1>2

(* The mailbox starts with the invariant.                                   *)
LEMMA MailInit ==
    ASSUME MsgInit
    PROVE  MailInv /\ ConsumedWereObserved
<1>1. MailTypeOK
  BY MessagesAssumption DEF MsgInit, MailTypeOK, Row, Seen, NoMsg, Nothing, Actors, Kinds
<1>2. BlockedOnMessage /\ ShownExist /\ AnsweredOnce /\ ConsumedWereObserved
  BY DEF MsgInit, BlockedOnMessage, ShownExist, AnsweredOnce, ConsumedWereObserved, NoMsg, Nothing
<1> QED BY <1>1, <1>2 DEF MailInv

(* A step that leaves the rows, the activation and the deliveries alone.     *)
LEMMA MailAtRest ==
    ASSUME MailInv, MailTypeOK', BlockedOnMessage', UNCHANGED <<msg, ans>>,
           delivered' \subseteq {m \in Ids : ans[m] # "none"},
           oseen' \in {oseen, Nothing}
    PROVE  MailInv'
BY DEF MailInv, ShownExist, AnsweredOnce, Nothing, MailTypeOK

(* Steps of the orchestrator.                                               *)
LEMMA OwnerKeepsMail ==
    ASSUME MailInv, OwnerStep
    PROVE  MailInv'
<1> USE DEF MailInv
<1>1. CASE Activate
  <2>1. MailTypeOK'
    BY <1>1 DEF Activate, MailTypeOK, mailVars, workVars, Seen, PendingEvents, AnswersFor, InboxOf, Kinds
  <2>2. ShownExist'
    BY <1>1 DEF Activate, mailVars, AnswersFor, ShownExist
  <2> QED BY <1>1, <2>1, <2>2 DEF Activate, mailVars, workVars, BlockedOnMessage, AnsweredOnce
<1>2. CASE EndActivation
  <2>1. MailTypeOK'
    <3>1. ev' \in [Workers -> [Kinds -> {"none", "pending", "consumed"}]]
      BY <1>2 DEF EndActivation, MailTypeOK
    <3>2. ans' \in [Ids -> {"none", "pending", "consumed"}]
      BY <1>2 DEF EndActivation, MailTypeOK
    <3>3. oseen' \in Seen /\ observed' \in SUBSET (Workers \X Kinds) /\ delivered' \in SUBSET Ids
      BY <1>2 DEF EndActivation, MailTypeOK, Seen, Nothing
    <3> QED BY <1>2, <3>1, <3>2, <3>3 DEF EndActivation, MailTypeOK, workVars
  <2>2. ShownExist'
    BY <1>2 DEF EndActivation, ShownExist, Nothing
  <2>3. AnsweredOnce'
    <3>1. \A m \in Ids : ans'[m] # "none" <=> ans[m] # "none"
      BY <1>2 DEF EndActivation, ShownExist
    <3>2. \A m \in delivered' : m \in Ids /\ ans'[m] # "none"
      BY <1>2, <3>1 DEF EndActivation, ShownExist, AnsweredOnce, MailTypeOK, Seen
    <3> QED BY <1>2, <3>1, <3>2 DEF EndActivation, AnsweredOnce
  <2>4. BlockedOnMessage'
    BY <1>2 DEF EndActivation, BlockedOnMessage, workVars
  <2> QED BY <2>1, <2>2, <2>3, <2>4
<1>3. CASE \/ ActivationFails \/ Restarted \/ OwnerOver
  <2>1. MailTypeOK' /\ BlockedOnMessage'
    BY <1>3, MessagesAssumption
    DEF ActivationFails, Restarted, OwnerOver, MailTypeOK, BlockedOnMessage, mailVars, workVars, Nothing, Seen, Actors
  <2> QED BY <1>3, <2>1, MailAtRest
          DEF ActivationFails, Restarted, OwnerOver, mailVars, AnsweredOnce, MailTypeOK
<1>4. CASE SendAnswered \/ SendTargetEnded \/ SendTimesOut
  <2>1. MailTypeOK' /\ BlockedOnMessage'
    BY <1>4, MessagesAssumption
    DEF SendAnswered, SendTargetEnded, SendTimesOut, StopWaiting, MailTypeOK, BlockedOnMessage, mailVars, workVars, Actors
  <2>2. delivered' \subseteq {m \in Ids : ans[m] # "none"}
    BY <1>4 DEF SendAnswered, SendTargetEnded, SendTimesOut, BlockedOnMessage, AnsweredOnce, MailTypeOK
  <2> QED BY <1>4, <2>1, <2>2, MailAtRest
          DEF SendAnswered, SendTargetEnded, SendTimesOut, StopWaiting, mailVars
<1>5. ASSUME NEW w \in Workers, SendMessage(w) PROVE MailInv'
  <2>1. msg' \in [Ids -> Row] /\ NextId \in Ids /\ \A m \in Ids : msg'[m].st = "answered" <=> msg[m].st = "answered"
    BY <1>5, EnqueueRow DEF SendMessage, Actors
  <2> HIDE DEF NextId
  <2>2. MailTypeOK' /\ BlockedOnMessage'
    BY <1>5, <2>1, MessagesAssumption DEF SendMessage, MailTypeOK, BlockedOnMessage, workVars, Actors
  <2> QED BY <1>5, <2>1, <2>2 DEF SendMessage, AnsweredOnce, ShownExist
<1>6. ASSUME NEW w \in Workers, NEW new \in Workers, MessageTerminalSession(w, new) PROVE MailInv'
  <2>1. msg' \in [Ids -> Row] /\ NextId \in Ids /\ \A m \in Ids : msg'[m].st = "answered" <=> msg[m].st = "answered"
    BY <1>6, EnqueueRow DEF MessageTerminalSession, Actors
  <2> HIDE DEF NextId
  <2>2. MailTypeOK'
    BY <1>6, <2>1 DEF MessageTerminalSession, MailTypeOK, Actors
  <2>3. BlockedOnMessage'
    BY <1>6, <2>1, MessagesAssumption DEF MessageTerminalSession, MailTypeOK, BlockedOnMessage, Actors
  <2> QED BY <1>6, <2>1, <2>2, <2>3 DEF MessageTerminalSession, AnsweredOnce, ShownExist
<1>7. ASSUME NEW w \in Workers, StartWorker(w) PROVE MailInv'
  <2>1. MailTypeOK'
    BY <1>7 DEF StartWorker, MailTypeOK, mailVars, ownVars
  <2>2. BlockedOnMessage'
    BY <1>7 DEF StartWorker, BlockedOnMessage, MailTypeOK, ownVars
  <2> QED BY <1>7, <2>1, <2>2, MailAtRest DEF StartWorker, mailVars, ownVars, AnsweredOnce, MailTypeOK
<1>8. ASSUME NEW m \in Ids, OwnerAnswers(m) PROVE MailInv'
  <2>1. /\ msg' \in [Ids -> Row] /\ ans' \in [Ids -> {"none", "pending", "consumed"}]
        /\ \A k \in Ids : msg'[k].st = "answered" <=> ans'[k] # "none"
        /\ \A k \in Ids : ans[k] # "none" => ans'[k] # "none"
    BY <1>8, AnswerRow DEF OwnerAnswers
  <2>2. MailTypeOK' /\ BlockedOnMessage'
    BY <1>8, <2>1 DEF OwnerAnswers, MailTypeOK, BlockedOnMessage, workVars, ownVars
  <2> QED BY <1>8, <2>1, <2>2 DEF OwnerAnswers, AnsweredOnce, ShownExist, ownVars, MailTypeOK, Seen
<1> QED BY <1>1, <1>2, <1>3, <1>4, <1>5, <1>6, <1>7, <1>8 DEF OwnerStep

(* Steps of a worker.                                                       *)
LEMMA WorkerKeepsMail ==
    ASSUME MailInv, NEW w \in Workers, WorkerStep(w)
    PROVE  MailInv'
<1> USE DEF MailInv
<1>1. CASE AskOwner(w)
  <2>1. msg' \in [Ids -> Row] /\ NextId \in Ids /\ \A m \in Ids : msg'[m].st = "answered" <=> msg[m].st = "answered"
    BY <1>1, EnqueueRow DEF AskOwner, Actors
  <2> HIDE DEF NextId
  <2>2. MailTypeOK'
    BY <1>1, <2>1, MessagesAssumption DEF AskOwner, MailTypeOK, Actors, ownVars
  <2>3. BlockedOnMessage'
    BY <1>1, <2>1, MessagesAssumption DEF AskOwner, MailTypeOK, BlockedOnMessage, Actors, ownVars
  <2> QED BY <1>1, <2>1, <2>2, <2>3 DEF AskOwner, AnsweredOnce, ShownExist, ownVars
<1>2. CASE AskAnswered(w)
  <2>1. MailTypeOK' /\ BlockedOnMessage'
    BY <1>2, MessagesAssumption DEF AskAnswered, MailTypeOK, BlockedOnMessage, mailVars, ownVars, Actors
  <2>2. delivered' \subseteq {m \in Ids : ans[m] # "none"}
    BY <1>2 DEF AskAnswered, BlockedOnMessage, AnsweredOnce, MailTypeOK
  <2> QED BY <1>2, <2>1, <2>2, MailAtRest DEF AskAnswered, mailVars, ownVars
<1>3. CASE ReportStatus(w)
  <2>1. MailTypeOK' /\ BlockedOnMessage'
    BY <1>3 DEF ReportStatus, MailTypeOK, BlockedOnMessage, workVars, ownVars, Kinds
  <2> QED BY <1>3, <2>1, MailAtRest DEF ReportStatus, ownVars, AnsweredOnce, MailTypeOK
<1>4. CASE PauseWorker(w) \/ ResumeWorker(w) \/ WorkerEnds(w)
  <2>1. ev' \in [Workers -> [Kinds -> {"none", "pending", "consumed"}]]
    BY <1>4 DEF PauseWorker, ResumeWorker, WorkerEnds, LifecycleEvent, mailVars, MailTypeOK, Kinds
  <2>2. MailTypeOK'
    BY <1>4, <2>1, MessagesAssumption
    DEF PauseWorker, ResumeWorker, WorkerEnds, MailTypeOK, mailVars, ownVars, Actors
  <2>3. BlockedOnMessage'
    BY <1>4, MessagesAssumption
    DEF PauseWorker, ResumeWorker, WorkerEnds, MailTypeOK, BlockedOnMessage, ownVars, Actors
  <2> QED BY <1>4, <2>2, <2>3, MailAtRest
          DEF PauseWorker, ResumeWorker, WorkerEnds, mailVars, ownVars, AnsweredOnce, MailTypeOK
<1>5. ASSUME NEW m \in Ids, WorkerAnswers(w, m) PROVE MailInv'
  <2>1. /\ msg' \in [Ids -> Row] /\ ans' \in [Ids -> {"none", "pending", "consumed"}]
        /\ \A k \in Ids : msg'[k].st = "answered" <=> ans'[k] # "none"
        /\ \A k \in Ids : ans[k] # "none" => ans'[k] # "none"
    BY <1>5, AnswerRow DEF WorkerAnswers
  <2>2. MailTypeOK' /\ BlockedOnMessage'
    BY <1>5, <2>1 DEF WorkerAnswers, MailTypeOK, BlockedOnMessage, workVars, ownVars
  <2> QED BY <1>5, <2>1, <2>2 DEF WorkerAnswers, AnsweredOnce, ShownExist, ownVars, MailTypeOK, Seen
<1> QED BY <1>1, <1>2, <1>3, <1>4, <1>5 DEF WorkerStep

(* MailInv is inductive.                                                    *)
LEMMA MailInductive ==
    ASSUME MailInv, [MsgNext]_msgVars
    PROVE  MailInv'
<1>1. CASE MsgNext
  BY <1>1, OwnerKeepsMail, WorkerKeepsMail DEF MsgNext
<1>2. CASE UNCHANGED msgVars
  BY <1>2 DEF msgVars, mailVars, workVars, ownVars, MailInv, MailTypeOK, BlockedOnMessage, ShownExist, AnsweredOnce
<1> QED BY <1>1, <1>2

(* Who is blocked, what an activation was shown and what was given to a     *)
(* sender stay consistent with the rows.                                    *)
THEOREM MailTypeCorrect == MsgSpec => []MailTypeOK
<1>1. MsgSpec => []MailInv
  BY MailInit, MailInductive, PTL DEF MsgSpec
<1>2. MailInv => MailTypeOK
  BY DEF MailInv
<1> QED BY <1>1, <1>2, PTL

(* A message leaves its target's inbox exactly when its answer is written,  *)
(* whatever answers twice, late or after a pause, and a sender is only      *)
(* given answers that exist.                                                *)
THEOREM AnsweredOnceAlways == MsgSpec => []AnsweredOnce
<1>1. MsgSpec => []MailInv
  BY MailInit, MailInductive, PTL DEF MsgSpec
<1>2. MailInv => AnsweredOnce
  BY DEF MailInv
<1> QED BY <1>1, <1>2, PTL

----------------------------------------------------------------------------
(* Events.                                                                 *)

(* Only an activation that ends consumes events, and it has been shown them. *)
LEMMA EventStep ==
    ASSUME MailTypeOK, ConsumedWereObserved, [MsgNext]_msgVars
    PROVE  ConsumedWereObserved'
<1>1. CASE EndActivation
  <2>1. ASSUME NEW w \in Workers, NEW k \in Kinds, ev'[w][k] = "consumed"
        PROVE  <<w, k>> \in observed'
    <3>1. <<w, k>> \in oseen.events \/ ev[w][k] = "consumed"
      BY <1>1, <2>1 DEF EndActivation, Consumed
    <3> QED BY <1>1, <3>1 DEF EndActivation, ConsumedWereObserved
  <2> QED BY <2>1 DEF ConsumedWereObserved
<1>2. ASSUME NEW w \in Workers, ReportStatus(w) PROVE ConsumedWereObserved'
  <2>1. ASSUME NEW v \in Workers, NEW k \in Kinds, ev'[v][k] = "consumed"
        PROVE  <<v, k>> \in observed'
    <3>1. ev[v][k] = "consumed" /\ <<v, k>> # <<w, "report">>
      BY <1>2, <2>1 DEF ReportStatus, MailTypeOK, Kinds
    <3> QED BY <1>2, <3>1 DEF ReportStatus, ConsumedWereObserved
  <2> QED BY <2>1 DEF ConsumedWereObserved
<1>3. ASSUME NEW w \in Workers, WorkerEnds(w) PROVE ConsumedWereObserved'
  BY <1>3 DEF WorkerEnds, LifecycleEvent, ownVars, ConsumedWereObserved, MailTypeOK, Kinds
<1>4. CASE UNCHANGED <<ev, observed>>
  BY <1>4 DEF ConsumedWereObserved
<1>5. ASSUME OwnerStep, ~EndActivation PROVE UNCHANGED <<ev, observed>>
  BY <1>5
  DEF OwnerStep, Activate, ActivationFails, SendAnswered, SendTargetEnded, SendTimesOut, StopWaiting, Restarted,
      OwnerOver, SendMessage, StartWorker, MessageTerminalSession, OwnerAnswers, mailVars
<1>6. ASSUME NEW w \in Workers, WorkerStep(w), ~ReportStatus(w), ~WorkerEnds(w)
      PROVE  UNCHANGED <<ev, observed>>
  BY <1>6 DEF WorkerStep, AskOwner, AskAnswered, PauseWorker, ResumeWorker, WorkerAnswers, mailVars, ownVars
<1> QED BY <1>1, <1>2, <1>3, <1>4, <1>5, <1>6 DEF MsgNext, msgVars, mailVars

(* No lifecycle event or status report is consumed by an activation that    *)
(* was not shown it, or that failed.                                        *)
THEOREM ConsumedWereObservedAlways == MsgSpec => []ConsumedWereObserved
<1>1. MsgSpec => []MailTypeOK
  BY MailTypeCorrect
<1>2. MsgInit => ConsumedWereObserved
  BY MailInit
<1> QED BY <1>1, <1>2, EventStep, PTL DEF MsgSpec

----------------------------------------------------------------------------
(* Helpers.                                                                *)

HelperTypeOK ==
    /\ hst \in [Helper -> {"absent", "running", "waiting", "paused", "completed", "failed", "canceled"}]
    /\ pst \in {"running", "paused", "completed"}
    /\ told \in SUBSET Helper /\ revived \in SUBSET Helper

(* Only a helper that a restart paused is paused or takes part in waiting,  *)
(* so after the parent finished only those can become active again.         *)
HelperInv ==
    /\ HelperTypeOK /\ NoHelperLeftBehind
    /\ \A h \in Helper : hst[h] = "paused" => h \in revived

(* Every step keeps the invariant of the helpers.                           *)
LEMMA HelperInductive ==
    ASSUME HelperInv, [HelperNext]_helperVars
    PROVE  HelperInv'
<1> USE DEF HelperInv, HelperTypeOK, NoHelperLeftBehind, Active
<1>1. ASSUME NEW h \in Helper, RunWorker(h) PROVE HelperInv'
  BY <1>1 DEF RunWorker
<1>2. ASSUME NEW h \in Helper, HelperFails(h) \/ FinishWork(h) \/ HelperEnds(h) PROVE HelperInv'
  BY <1>2 DEF HelperFails, FinishWork, HelperEnds
<1>3. ASSUME NEW h \in Helper, HelperWaits(h) PROVE HelperInv'
  BY <1>3 DEF HelperWaits
<1>4. ASSUME NEW h \in Helper, StopWorker(h) PROVE HelperInv'
  BY <1>4 DEF StopWorker
<1>5. ASSUME NEW h \in Helper, PauseHelper(h) \/ ResumeHelper(h) PROVE HelperInv'
  BY <1>5 DEF PauseHelper, ResumeHelper
<1>6. CASE FinishTask \/ PauseParent
  BY <1>6 DEF FinishTask, PauseParent
<1>7. CASE UNCHANGED helperVars
  BY <1>7 DEF helperVars
<1> QED BY <1>1, <1>2, <1>3, <1>4, <1>5, <1>6, <1>7 DEF HelperNext

(* A parent that finished left no helper at work, but for one that was      *)
(* paused by a restart when it finished.                                    *)
THEOREM NoHelperLeftBehindAlways == HelperSpec => []NoHelperLeftBehind
<1>1. HelperInit => HelperInv
  BY DEF HelperInit, HelperInv, HelperTypeOK, NoHelperLeftBehind, Active
<1>2. HelperInv => NoHelperLeftBehind
  BY DEF HelperInv
<1> QED BY <1>1, <1>2, HelperInductive, PTL DEF HelperSpec
=============================================================================
