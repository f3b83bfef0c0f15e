------------------------ MODULE OrchestrationProofs ------------------------
(***************************************************************************)
(* Theorems about Orchestration, for any number of rows, goroutines and    *)
(* callers, any configuration and any bound on what happens from outside.  *)
(***************************************************************************)
EXTENDS Orchestration, TLAPS

(* A caller past createTaskOrchestrator, and a monitor past its listing,   *)
(* have a row in hand: TypeOK alone does not say that it is not NULL.      *)
HasRun(rec) == rec.pc \in {"link", "claim", "start"} => rec.run \in Runs
RunInHand ==
    /\ \A c \in Callers : HasRun(caller[c])
    /\ mon.pc \in {"revive", "nudge", "start"} => mon.run \in Runs

TypeInv == TypeOK /\ RunInHand

----------------------------------------------------------------------------
(* Records.                                                                *)

LEMMA IdleType == Idle \in CallerRec /\ HasRun(Idle) /\ Sleep \in MonitorRec
  BY DEF Idle, NoRow, CallerRec, CallerPC, TaskRow, TaskStatus, MaybeRun,
         HasRun, Sleep, MonitorRec

(* Replacing one caller's record keeps the callers well formed.            *)
CallersOK == caller \in [Callers -> CallerRec] /\ \A c \in Callers : HasRun(caller[c])

LEMMA CallerReplaced ==
    ASSUME CallersOK, NEW c \in Callers, NEW rec \in CallerRec, HasRun(rec),
           caller' = [caller EXCEPT ![c] = rec]
    PROVE  CallersOK'
  BY DEF CallersOK

LEMMA CallerGoes ==
    ASSUME CallersOK, NEW c \in Callers, NEW where \in CallerPC, Goto(c, where),
           where \in {"link", "claim", "start"} => caller[c].run \in Runs
    PROVE  CallersOK'
<1> DEFINE rec == [caller[c] EXCEPT !.pc = where]
<1>1. rec \in CallerRec /\ HasRun(rec)
  BY DEF CallersOK, CallerRec, HasRun
<1>2. caller' = [caller EXCEPT ![c] = rec]
  BY DEF Goto
<1> QED BY <1>1, <1>2, CallerReplaced

LEMMA CallerDone ==
    ASSUME CallersOK, NEW c \in Callers, Done(c)
    PROVE  CallersOK'
  BY IdleType, CallerReplaced DEF Done

----------------------------------------------------------------------------
(* Type correctness, one lemma per actor.                                  *)

LEMMA TypeInit == Init => TypeInv
<1> SUFFICES ASSUME Init PROVE TypeInv
  OBVIOUS
<1>1. CallersOK
  <2>1. PICK c \in Callers :
           caller = [d \in Callers |-> [Idle EXCEPT !.pc = IF d = c THEN "begin" ELSE "idle"]]
    BY DEF Init
  <2>2. [Idle EXCEPT !.pc = "begin"] \in CallerRec /\ HasRun([Idle EXCEPT !.pc = "begin"])
        /\ [Idle EXCEPT !.pc = "idle"] \in CallerRec /\ HasRun([Idle EXCEPT !.pc = "idle"])
    BY IdleType DEF Idle, CallerRec, CallerPC, HasRun
  <2> QED BY <2>1, <2>2 DEF CallersOK
<1>2. task \in TaskRow /\ mon \in MonitorRec
      /\ (mon.pc \in {"revive", "nudge", "start"} => mon.run \in Runs)
  BY IdleType DEF Init, TaskRow, TaskStatus, MaybeRun, Sleep
<1>3. rstat \in [Runs -> RunStatus] /\ pc \in [Loops -> LoopPC]
      /\ handle \in [Runs -> Slots \cup {None}]
  BY DEF Init, RunStatus, LoopPC
<1>4. events \in 0..MaxEvents
  BY EventsAssumption DEF Init
<1> QED
  BY <1>1, <1>2, <1>3, <1>4 DEF Init, TypeInv, TypeOK, RunInHand, CallersOK

(* startTaskOrchestrator keeps the registry, the cancel funcs and the      *)
(* goroutines well formed.                                                 *)
LEMMA StartLoopType ==
    ASSUME TypeOK, NEW r \in Runs, StartLoop(r)
    PROVE  /\ registered' \subseteq Runs
           /\ handle' \in [Runs -> Slots \cup {None}]
           /\ pc' \in [Loops -> LoopPC]
<1>0. /\ registered \subseteq Runs /\ handle \in [Runs -> Slots \cup {None}]
      /\ pc \in [Loops -> LoopPC]
  BY DEF TypeOK
<1>1. CASE r \in registered
  BY <1>0, <1>1 DEF StartLoop
<1>2. CASE r \notin registered
  <2>1. PICK s \in Slots : /\ registered' = registered \cup {r}
                          /\ handle' = [handle EXCEPT ![r] = s]
                          /\ pc' = [pc EXCEPT ![<<r, s>>] = "enter"]
    BY <1>2 DEF StartLoop
  <2>2. "enter" \in LoopPC
    BY DEF LoopPC, Body
  <2> QED BY <1>0, <2>1, <2>2
<1> QED BY <1>1, <1>2

(* What a caller's statement changes: the task, a row's status, the open   *)
(* question and its own record.                                            *)
LEMMA CallerFrameType ==
    ASSUME TypeInv, task' \in TaskRow, rstat' \in [Runs -> RunStatus],
           question' \in BOOLEAN, CallersOK', UNCHANGED <<callerFrame, events>>
    PROVE  TypeInv'
  BY DEF TypeInv, TypeOK, RunInHand, CallersOK, callerFrame

LEMMA CallerStepType ==
    ASSUME TypeInv, NEW c \in Callers, CallerStep(c), UNCHANGED events
    PROVE  TypeInv'
<1>0. /\ CallersOK /\ task \in TaskRow /\ rstat \in [Runs -> RunStatus]
      /\ question \in BOOLEAN /\ caller[c] \in CallerRec
      /\ caller[c].row \in TaskRow /\ caller[c].run \in MaybeRun
  BY DEF TypeInv, TypeOK, RunInHand, CallersOK, CallerRec
<1> DEFINE ToBegin == [Idle EXCEPT !.pc = "begin"]
           ToRun   == [Idle EXCEPT !.pc = "run"]
<1>i. /\ ToBegin \in CallerRec /\ HasRun(ToBegin)
      /\ ToRun \in CallerRec /\ HasRun(ToRun)
  BY IdleType DEF CallerRec, CallerPC, HasRun
<1>1. CASE ApiSave(c)
  <2>1. task' \in TaskRow
    BY <1>0, <1>1, StatusAssumption DEF ApiSave, SavedStatus, Save, TaskRow
  <2>2. CallersOK' /\ question' \in BOOLEAN
    BY <1>0, <1>1, <1>i, CallerReplaced, CallerDone DEF ApiSave
  <2> QED BY <1>0, <1>1, <2>1, <2>2, CallerFrameType DEF ApiSave
<1>2. CASE Unblock(c)
  <2>1. task' \in TaskRow
    BY <1>0, <1>2 DEF Unblock, HandleHumanReply, TaskRow, TaskStatus
  <2>2. CallersOK'
    BY <1>0, <1>2, CallerGoes, CallerDone DEF Unblock, CallerPC
  <2> QED BY <1>0, <1>2, <2>1, <2>2, CallerFrameType DEF Unblock
<1>3. CASE Begin(c)
  <2>1. ASSUME NEW where \in {"dispatch", "dedupe"}
        PROVE  LET rec == [caller[c] EXCEPT !.row = task, !.pc = where]
               IN  rec \in CallerRec /\ HasRun(rec)
    BY <1>0 DEF CallerRec, CallerPC, HasRun
  <2>2. CallersOK'
    <3>1. CASE server = "draining"
      BY <1>0, <1>3, <3>1, CallerDone DEF Begin
    <3>2. CASE server # "draining"
      <4> DEFINE where == IF task.lock = None THEN "dispatch" ELSE "dedupe"
                 rec == [caller[c] EXCEPT !.row = task, !.pc = where]
      <4>1. caller' = [caller EXCEPT ![c] = rec]
        BY <1>3, <3>2 DEF Begin
      <4> QED BY <1>0, <2>1, <4>1, CallerReplaced
    <3> QED BY <3>1, <3>2
  <2> QED BY <1>0, <1>3, <2>2, CallerFrameType DEF Begin
<1>4. CASE Dedupe(c)
  BY <1>0, <1>4, CallerGoes, CallerDone, CallerFrameType DEF Dedupe, CallerPC
<1>5. CASE Resolve(c)
  <2>1. CallersOK'
    BY <1>0, <1>5, CallerGoes DEF Resolve, CallerPC
  <2>2. rstat' \in [Runs -> RunStatus]
    BY <1>0, <1>5 DEF Resolve, RunStatus
  <2> QED BY <1>0, <1>5, <2>1, <2>2, CallerFrameType DEF Resolve
<1>6. CASE ResolveUnlock(c)
  <2>1. CallersOK'
    BY <1>0, <1>6, CallerGoes DEF ResolveUnlock, CallerPC
  <2>2. task' \in TaskRow
    BY <1>0, <1>6 DEF ResolveUnlock, TaskRow, MaybeRun
  <2> QED BY <1>0, <1>6, <2>1, <2>2, CallerFrameType DEF ResolveUnlock
<1>7. CASE Dispatch(c)
  <2>1. CallersOK'
    BY <1>0, <1>7, <1>i, CallerGoes, CallerDone, CallerReplaced
    DEF Dispatch, SpawnRun, CallerPC
  <2>2. task' \in TaskRow
    BY <1>0, <1>7 DEF Dispatch, Save, TaskRow, TaskStatus
  <2> QED BY <1>0, <1>7, <2>1, <2>2, CallerFrameType DEF Dispatch
<1>8. CASE ReuseRow(c)
  <2> DEFINE rec == [caller[c] EXCEPT !.pc = "claim", !.run = task.ptr]
  <2>1. rec \in CallerRec /\ HasRun(rec)
    BY <1>0, <1>8 DEF ReuseRow, LivePointer, CallerRec, CallerPC, HasRun,
                      TaskRow, MaybeRun
  <2>2. caller' = [caller EXCEPT ![c] = rec]
    BY <1>8 DEF ReuseRow
  <2> QED BY <1>0, <1>8, <2>1, <2>2, CallerReplaced, CallerFrameType DEF ReuseRow
<1>9. CASE CreateRow(c)
  <2>1. PICK r \in Runs :
          /\ rstat' = [rstat EXCEPT ![r] = "running"]
          /\ caller' = [caller EXCEPT ![c].pc = "link", ![c].run = r, ![c].own = TRUE]
    BY <1>9 DEF CreateRow
  <2> DEFINE rec == [caller[c] EXCEPT !.pc = "link", !.run = r, !.own = TRUE]
  <2>2. rec \in CallerRec /\ HasRun(rec)
    BY <1>0 DEF CallerRec, CallerPC, HasRun, MaybeRun
  <2>3. caller' = [caller EXCEPT ![c] = rec]
    BY <2>1
  <2>4. rstat' \in [Runs -> RunStatus]
    BY <1>0, <2>1 DEF RunStatus
  <2> QED BY <1>0, <1>9, <2>2, <2>3, <2>4, CallerReplaced, CallerFrameType
          DEF CreateRow
<1>10. CASE PreflightFails(c)
  <2>1. rstat' \in [Runs -> RunStatus] /\ task' \in TaskRow
    BY <1>0, <1>10 DEF PreflightFails, RunStatus, TaskRow, TaskStatus, MaybeRun
  <2> QED BY <1>0, <1>10, <2>1, CallerDone, CallerFrameType DEF PreflightFails
<1>11. CASE Link(c)
  <2>1. CallersOK'
    BY <1>0, <1>11, CallerGoes DEF Link, At, CallersOK, HasRun, CallerPC
  <2>2. task' \in TaskRow
    BY <1>0, <1>11 DEF Link, TaskRow
  <2> QED BY <1>0, <1>11, <2>1, <2>2, CallerFrameType DEF Link
<1>12. CASE Claim(c)
  <2>1. CallersOK'
    BY <1>0, <1>12, CallerGoes, CallerDone DEF Claim, At, CallersOK, HasRun, CallerPC
  <2>2. task' \in TaskRow
    BY <1>0, <1>12 DEF Claim, TaskRow
  <2> QED BY <1>0, <1>12, <2>1, <2>2, CallerFrameType DEF Claim
<1>13. CASE CallerStart(c)
  <2>1. caller[c].run \in Runs
    BY <1>0, <1>13 DEF CallerStart, At, CallersOK, HasRun
  <2>2. /\ registered' \subseteq Runs
        /\ handle' \in [Runs -> Slots \cup {None}]
        /\ pc' \in [Loops -> LoopPC]
    BY <1>13, <2>1, StartLoopType DEF CallerStart, TypeInv
  <2>3. CallersOK'
    BY <1>0, <1>13, CallerDone DEF CallerStart
  <2> QED BY <1>13, <2>2, <2>3
          DEF CallerStart, TypeInv, TypeOK, RunInHand, CallersOK, dbVars
<1> QED
  BY <1>1, <1>2, <1>3, <1>4, <1>5, <1>6, <1>7, <1>8, <1>9, <1>10, <1>11,
     <1>12, <1>13 DEF CallerStep

(* What a loop's statement changes: the task, its row, its program counter. *)
LEMMA LoopFrameType ==
    ASSUME TypeInv, task' \in TaskRow, rstat' \in [Runs -> RunStatus],
           old' \subseteq Runs, pc' \in [Loops -> LoopPC],
           UNCHANGED <<loopFrame, events>>
    PROVE  TypeInv'
  BY DEF TypeInv, TypeOK, RunInHand, loopFrame

LEMMA LoopGoes ==
    ASSUME TypeOK, NEW l \in Loops, NEW where \in LoopPC, LoopGoto(l, where)
    PROVE  pc' \in [Loops -> LoopPC]
  BY DEF TypeOK, LoopGoto

LEMMA RowWritten ==
    ASSUME TypeOK, NEW l \in Loops
    PROVE  /\ \A s \in RunStatus : Write(l, s) => rstat' \in [Runs -> RunStatus]
           /\ MarkInterrupted(l) => rstat' \in [Runs -> RunStatus]
  BY DEF TypeOK, Write, MarkInterrupted, RunStatus

LEMMA LoopStepType ==
    ASSUME TypeInv, NEW l \in Loops, LoopStep(l), UNCHANGED events
    PROVE  TypeInv'
<1>0. /\ TypeOK /\ task \in TaskRow /\ rstat \in [Runs -> RunStatus]
      /\ old \subseteq Runs /\ pc \in [Loops -> LoopPC]
  BY DEF TypeInv, TypeOK
<1>s. {"running", "waiting", "completed", "failed"} \subseteq RunStatus
  BY DEF RunStatus
<1>p. Body \cup {"idle", "drop"} \subseteq LoopPC
  BY DEF LoopPC
<1>1. CASE EnterInterrupted(l)
  BY <1>0, <1>1, <1>p, LoopGoes, RowWritten, LoopFrameType DEF EnterInterrupted, Body
<1>2. CASE Enter(l)
  BY <1>0, <1>2, <1>p, LoopGoes, LoopFrameType DEF Enter, Body
<1>3. CASE Dormant(l)
  BY <1>0, <1>3, <1>p, <1>s, LoopGoes, RowWritten, LoopFrameType DEF Dormant, Body
<1>4. CASE SetupDone(l)
  BY <1>0, <1>4, <1>p, LoopGoes, LoopFrameType DEF SetupDone, Body
<1>5. CASE SetupFails(l)
  BY <1>0, <1>5, <1>p, <1>s, LoopGoes, RowWritten, LoopFrameType DEF SetupFails, Body
<1>6. CASE PollInterrupted(l)
  BY <1>0, <1>6, <1>p, LoopGoes, LoopFrameType DEF PollInterrupted, Body
<1>7. CASE Poll(l)
  <2>1. pc' \in [Loops -> LoopPC]
    BY <1>0, <1>7, <1>p, LoopGoes DEF Poll, Body
  <2>2. rstat' \in [Runs -> RunStatus]
    BY <1>0, <1>7, <1>s, RowWritten DEF Poll
  <2> QED BY <1>0, <1>7, <2>1, <2>2, LoopFrameType DEF Poll
<1>8. CASE Finish(l)
  BY <1>0, <1>8, <1>p, <1>s, LoopGoes, RowWritten, LoopFrameType DEF Finish, Body
<1>9. CASE Wait(l)
  BY <1>0, <1>9, <1>p, LoopGoes, LoopFrameType DEF Wait, Body
<1>10. CASE TurnEnds(l)
  BY <1>0, <1>10, <1>p, <1>s, LoopGoes, RowWritten, LoopFrameType DEF TurnEnds, Body
<1>11. CASE Settle(l)
  BY <1>0, <1>11, <1>p, <1>s, LoopGoes, RowWritten, LoopFrameType DEF Settle, Body
<1>12. CASE Abort(l)
  BY <1>0, <1>12, <1>p, LoopGoes, RowWritten, LoopFrameType DEF Abort, Body
<1>13. CASE Unlock(l)
  <2>1. task' \in TaskRow
    BY <1>0, <1>13 DEF Unlock, TaskRow, MaybeRun
  <2> QED BY <1>0, <1>13, <1>p, <2>1, LoopGoes, LoopFrameType DEF Unlock, Body
<1>14. CASE Exit(l)
  <2>1. pc' \in [Loops -> LoopPC]
    BY <1>0, <1>14, <1>p, LoopGoes DEF Exit
  <2> QED BY <1>14, <2>1 DEF Exit, TypeInv, TypeOK, RunInHand, dbVars
<1>15. CASE Drop(l)
  <2>1. pc' \in [Loops -> LoopPC]
    BY <1>0, <1>15, <1>p, LoopGoes DEF Drop
  <2>2. handle' \in [Runs -> Slots \cup {None}]
    BY <1>15 DEF Drop, TypeInv, TypeOK
  <2> QED BY <1>15, <2>1, <2>2 DEF Drop, TypeInv, TypeOK, RunInHand, dbVars
<1> QED
  BY <1>1, <1>2, <1>3, <1>4, <1>5, <1>6, <1>7, <1>8, <1>9, <1>10, <1>11,
     <1>12, <1>13, <1>14, <1>15 DEF LoopStep

(* The other things that happen inside a loop, to it or around it.         *)
LEMMA AroundLoopsType ==
    ASSUME TypeInv, UNCHANGED events,
           \/ \E l \in Loops : StartWorker(l) \/ FinishTask(l) \/ Heartbeat(l)
                               \/ DrainCancel(l)
           \/ \E r \in Runs : Age(r) \/ BootStart(r)
           \/ BlockForQuestion \/ SeeAnswer
    PROVE  TypeInv'
<1>1. CASE \E l \in Loops : StartWorker(l)
  BY <1>1 DEF StartWorker, TypeInv, TypeOK, RunInHand, dbVars
<1>2. CASE \E l \in Loops : FinishTask(l)
  <2>1. task' \in TaskRow
    BY <1>2 DEF FinishTask, TypeInv, TypeOK, TaskRow, TaskStatus
  <2> QED BY <1>2, <2>1, LoopFrameType DEF FinishTask, TypeInv, TypeOK
<1>3. CASE \E l \in Loops : Heartbeat(l)
  <2>1. old' \subseteq Runs
    BY <1>3 DEF Heartbeat, TypeInv, TypeOK
  <2> QED BY <1>3, <2>1, LoopFrameType DEF Heartbeat, TypeInv, TypeOK
<1>4. CASE \E l \in Loops : DrainCancel(l)
  BY <1>4 DEF DrainCancel, TypeInv, TypeOK, RunInHand, dbVars
<1>5. CASE \E r \in Runs : Age(r)
  BY <1>5 DEF Age, TypeInv, TypeOK, RunInHand, localVars
<1>6. CASE \E r \in Runs : BootStart(r)
  <2>1. PICK r \in Runs : BootStart(r)
    BY <1>6
  <2>2. /\ registered' \subseteq Runs
        /\ handle' \in [Runs -> Slots \cup {None}]
        /\ pc' \in [Loops -> LoopPC]
    BY <2>1, StartLoopType DEF BootStart, TypeInv, TypeOK
  <2> QED BY <2>1, <2>2 DEF BootStart, TypeInv, TypeOK, RunInHand, dbVars
<1>7. CASE BlockForQuestion
  <2>1. task' \in TaskRow
    BY <1>7 DEF BlockForQuestion, TypeInv, TypeOK, TaskRow, TaskStatus
  <2> QED BY <1>7, <2>1 DEF BlockForQuestion, askFrame, TypeInv, TypeOK, RunInHand
<1>8. CASE SeeAnswer
  <2>1. task' \in TaskRow
    BY <1>8 DEF SeeAnswer, HandleHumanReply, TypeInv, TypeOK, TaskRow, TaskStatus
  <2> QED BY <1>8, <2>1 DEF SeeAnswer, askFrame, TypeInv, TypeOK, RunInHand
<1> QED
  BY <1>1, <1>2, <1>3, <1>4, <1>5, <1>6, <1>7, <1>8

LEMMA MonitorType ==
    ASSUME TypeInv, UNCHANGED events, MonitorStep \/ MonitorNudge
    PROVE  TypeInv'
<1>0. /\ task \in TaskRow /\ rstat \in [Runs -> RunStatus] /\ old \subseteq Runs
      /\ mon \in MonitorRec
      /\ mon.pc \in {"revive", "nudge", "start"} => mon.run \in Runs
  BY DEF TypeInv, TypeOK, RunInHand
<1> DEFINE MonOK == mon \in MonitorRec
                    /\ (mon.pc \in {"revive", "nudge", "start"} => mon.run \in Runs)
<1>f. ASSUME rstat' \in [Runs -> RunStatus], old' \subseteq Runs, MonOK',
             UNCHANGED <<task, registered, handle, pc, monFrame>>
      PROVE  TypeInv'
  BY <1>f DEF TypeInv, TypeOK, RunInHand, monFrame
<1>w. ASSUME NEW where \in {"revive", "nudge"}, task.ptr # None,
             mon' = [pc |-> where, run |-> task.ptr]
      PROVE  MonOK'
  BY <1>0, <1>w DEF MonitorRec, TaskRow, MaybeRun
<1>z. mon' = Sleep => MonOK'
  BY IdleType DEF Sleep
<1>a. Activate(mon.run) /\ mon.run \in Runs
        => rstat' \in [Runs -> RunStatus] /\ old' \subseteq Runs
  BY <1>0 DEF Activate, RunStatus
<1>1. CASE MonitorTick
  <2>1. MonOK'
    BY <1>1 DEF MonitorTick, Sleep, MonitorRec, MaybeRun
  <2> QED BY <1>0, <1>1, <1>f, <2>1 DEF MonitorTick
<1>2. CASE MonitorMark
  <2>1. rstat' \in [Runs -> RunStatus]
    BY <1>0, <1>2 DEF MonitorMark, RunStatus
  <2> QED BY <1>0, <1>2, <1>f, <2>1 DEF MonitorMark
<1>3. CASE MonitorWatch
  BY <1>0, <1>3, <1>f, <1>w, <1>z DEF MonitorWatch, Watched
<1>4. CASE MonitorNudge
  BY <1>0, <1>4, <1>f, <1>w DEF MonitorNudge, Watched
<1>5. CASE MonitorNudged
  BY <1>0, <1>5, <1>f, <1>z, <1>a DEF MonitorNudged
<1>6. CASE MonitorRevive
  <2>1. MonOK'
    BY <1>0, <1>6, <1>z DEF MonitorRevive, MonitorRec
  <2>2. rstat' \in [Runs -> RunStatus] /\ old' \subseteq Runs
    BY <1>0, <1>6, <1>a DEF MonitorRevive
  <2> QED BY <1>6, <1>f, <2>1, <2>2 DEF MonitorRevive
<1>7. CASE MonitorStart
  <2>1. /\ registered' \subseteq Runs
        /\ handle' \in [Runs -> Slots \cup {None}]
        /\ pc' \in [Loops -> LoopPC]
    BY <1>0, <1>7, StartLoopType DEF MonitorStart, TypeInv
  <2>2. MonOK'
    BY <1>7, <1>z DEF MonitorStart
  <2> QED BY <1>7, <2>1, <2>2 DEF MonitorStart, TypeInv, TypeOK, RunInHand, monFrame
<1> QED
  BY <1>1, <1>2, <1>3, <1>4, <1>5, <1>6, <1>7 DEF MonitorStep

(* The process ends or starts.                                             *)
LEMMA ProcessType ==
    ASSUME TypeInv, events' \in 0..MaxEvents, ProcessGone \/ Boot
    PROVE  TypeInv'
<1>1. CASE ProcessGone
  <2>1. CallersOK' /\ mon' = Sleep
    BY <1>1, IdleType DEF ProcessGone, CallersOK
  <2>2. mon' \in MonitorRec /\ mon'.pc = "sleep"
    BY <2>1, IdleType DEF Sleep
  <2>3. handle' \in [Runs -> Slots \cup {None}] /\ pc' \in [Loops -> LoopPC]
    BY <1>1 DEF ProcessGone, LoopPC
  <2> QED BY <1>1, <2>1, <2>2, <2>3
          DEF ProcessGone, TypeInv, TypeOK, RunInHand, CallersOK, dbVars
<1>2. CASE Boot
  <2>1. rstat' \in [Runs -> RunStatus]
    <3>1. PICK retired \in SUBSET {r \in old : rstat[r] = "running"} :
            rstat' = [r \in Runs |-> IF r \in retired THEN "stale" ELSE rstat[r]]
      BY <1>2 DEF Boot
    <3> QED BY <3>1 DEF TypeInv, TypeOK, RunStatus
  <2>2. bootList' \subseteq Runs
    BY <1>2 DEF Boot, TypeInv, TypeOK, TaskRow, MaybeRun
  <2>3. CallersOK'
    <3>1. CallersOK
      BY DEF TypeInv, TypeOK, RunInHand, CallersOK
    <3>2. /\ [Idle EXCEPT !.pc = "begin"] \in CallerRec
          /\ HasRun([Idle EXCEPT !.pc = "begin"])
      BY IdleType DEF CallerRec, CallerPC, HasRun
    <3>3. CASE UNCHANGED caller
      BY <3>1, <3>3 DEF CallersOK
    <3>4. CASE \E c \in Callers :
                 caller' = [caller EXCEPT ![c] = [Idle EXCEPT !.pc = "begin"]]
      BY <3>1, <3>2, <3>4, CallerReplaced
    <3> QED BY <1>2, <3>3, <3>4 DEF Boot
  <2> QED BY <1>2, <2>1, <2>2, <2>3
          DEF Boot, TypeInv, TypeOK, RunInHand, CallersOK
<1> QED BY <1>1, <1>2

(* What comes from outside.                                                *)
LEMMA OutsideType ==
    ASSUME TypeInv, Outside, events' \in 0..MaxEvents
    PROVE  TypeInv'
<1>0. CallersOK /\ task \in TaskRow
  BY DEF TypeInv, TypeOK, RunInHand, CallersOK
<1>f. ASSUME question' \in BOOLEAN, CallersOK', UNCHANGED <<task, rstat, callerFrame>>
      PROVE  TypeInv'
  BY <1>f DEF TypeInv, TypeOK, RunInHand, CallersOK, callerFrame
<1>1. ASSUME NEW c \in Callers, ApiLoad(c)
      PROVE  TypeInv'
  <2> DEFINE rec == [Idle EXCEPT !.pc = "save", !.row = task]
  <2>1. rec \in CallerRec /\ HasRun(rec)
    BY <1>0, IdleType DEF CallerRec, CallerPC, HasRun
  <2> QED BY <1>0, <1>1, <1>f, <2>1, CallerReplaced DEF ApiLoad, TypeInv, TypeOK
<1>2. ASSUME NEW c \in Callers, Comment(c)
      PROVE  TypeInv'
  <2>1. PICK force \in BOOLEAN :
          caller' = [caller EXCEPT ![c] = [Idle EXCEPT !.pc = "unblock", !.force = force]]
    BY <1>2 DEF Comment
  <2> DEFINE rec == [Idle EXCEPT !.pc = "unblock", !.force = force]
  <2>2. rec \in CallerRec /\ HasRun(rec)
    BY IdleType DEF CallerRec, CallerPC, HasRun
  <2> QED BY <1>0, <1>2, <1>f, <2>1, <2>2, CallerReplaced DEF Comment
<1>3. ASSUME NEW c \in Callers, Process(c)
      PROVE  TypeInv'
  <2>1. PICK force \in BOOLEAN :
          caller' = [caller EXCEPT ![c] = [Idle EXCEPT !.pc = "begin", !.force = force]]
    BY <1>3 DEF Process
  <2> DEFINE rec == [Idle EXCEPT !.pc = "begin", !.force = force]
  <2>2. rec \in CallerRec /\ HasRun(rec)
    BY IdleType DEF CallerRec, CallerPC, HasRun
  <2> QED BY <1>0, <1>3, <1>f, <2>1, <2>2, CallerReplaced DEF Process, TypeInv, TypeOK
<1>4. ASSUME NEW r \in Runs, StopRun(r)
      PROVE  TypeInv'
  <2>1. handle' \in [Runs -> Slots \cup {None}] /\ <<r, handle[r]>> \in Loops
    BY <1>4 DEF StopRun, TypeInv, TypeOK, Loops
  <2> QED BY <1>4, <2>1 DEF StopRun, TypeInv, TypeOK, RunInHand, dbVars
<1>5. CASE AskHuman
  BY <1>5 DEF AskHuman, askFrame, TypeInv, TypeOK, RunInHand
<1>6. CASE BeginDrain
  BY <1>6 DEF BeginDrain, dbVars, localVars, TypeInv, TypeOK, RunInHand
<1>7. CASE Crash
  BY <1>7, ProcessType DEF Crash
<1> QED
  BY <1>1, <1>2, <1>3, <1>4, <1>5, <1>6, <1>7 DEF Outside

LEMMA TypeStep == TypeInv /\ [Next]_vars => TypeInv'
<1> SUFFICES ASSUME TypeInv, [Next]_vars PROVE TypeInv'
  OBVIOUS
<1>1. CASE Outside /\ events < MaxEvents /\ events' = events + 1
  <2>1. events' \in 0..MaxEvents
    BY <1>1, EventsAssumption DEF TypeInv, TypeOK
  <2> QED BY <1>1, <2>1, OutsideType
<1>2. CASE Inside /\ UNCHANGED events
  <2>1. events' \in 0..MaxEvents
    BY <1>2 DEF TypeInv, TypeOK
  <2> QED BY <1>2, <2>1, CallerStepType, LoopStepType, AroundLoopsType,
             MonitorType, ProcessType DEF Inside, DrainEnds
<1>3. CASE UNCHANGED vars
  BY <1>3 DEF vars, dbVars, localVars, TypeInv, TypeOK, RunInHand
<1> QED BY <1>1, <1>2, <1>3 DEF Next

(* Every reachable state is well formed: statuses, the lock and the        *)
(* orchestrator pointer of the task, the registry and the cancel funcs.    *)
THEOREM TypeCorrect == Spec => []TypeOK
<1>1. Spec => []TypeInv
  BY TypeInit, TypeStep, PTL DEF Spec
<1>2. TypeInv => TypeOK
  BY DEF TypeInv
<1> QED BY <1>1, <1>2, PTL

----------------------------------------------------------------------------
(* One loop per row.  The property is not inductive alone: what makes it   *)
(* so is that a loop in its body is registered, since startTaskOrchestrator *)
(* refuses a registered row and the goroutine leaves the registry with its *)
(* last step in the body.                                                  *)

Registry ==
    /\ \A r \in Runs : InBody(r) => r \in registered
    /\ OneLoopPerRow

(* No step that only moves loops inside or out of their bodies breaks it.  *)
LEMMA RegistryKept ==
    ASSUME Registry, registered' = registered,
           \A k \in Loops : pc'[k] \in Body => pc[k] \in Body
    PROVE  Registry'
  BY DEF Registry, OneLoopPerRow, InBody, Loops

LEMMA RegistryStarts ==
    ASSUME TypeOK, Registry, NEW r \in Runs, StartLoop(r)
    PROVE  Registry'
<1>1. CASE r \in registered
  BY <1>1, RegistryKept DEF StartLoop
<1>2. CASE r \notin registered
  <2>1. PICK s \in Slots :
          /\ registered' = registered \cup {r}
          /\ pc' = [pc EXCEPT ![<<r, s>>] = "enter"]
    BY <1>2 DEF StartLoop
  <2>2. \A t \in Slots : pc[<<r, t>>] \notin Body
    BY <1>2 DEF Registry, InBody
  <2>3. \A k \in Loops : k # <<r, s>> => pc'[k] = pc[k]
    BY <2>1 DEF TypeOK
  <2>4. ASSUME NEW q \in Runs, NEW t \in Slots, pc'[<<q, t>>] \in Body
        PROVE  q \in registered'
    <3>1. CASE q = r
      BY <2>1, <3>1
    <3>2. CASE q # r
      <4>1. pc[<<q, t>>] \in Body
        BY <2>3, <2>4, <3>2 DEF Loops
      <4> QED BY <2>1, <4>1 DEF Registry, InBody
    <3> QED BY <3>1, <3>2
  <2>5. ASSUME NEW q \in Runs, NEW t \in Slots, NEW u \in Slots,
               pc'[<<q, t>>] \in Body, pc'[<<q, u>>] \in Body
        PROVE  t = u
    <3>1. CASE q = r
      BY <2>2, <2>3, <2>5, <3>1 DEF Loops
    <3>2. CASE q # r
      <4>1. pc[<<q, t>>] \in Body /\ pc[<<q, u>>] \in Body
        BY <2>3, <2>5, <3>2 DEF Loops
      <4> QED BY <4>1 DEF Registry, OneLoopPerRow
    <3> QED BY <3>1, <3>2
  <2> QED BY <2>4, <2>5 DEF Registry, OneLoopPerRow, InBody
<1> QED BY <1>1, <1>2

(* The goroutine's only loop in the body leaves both at once.              *)
LEMMA RegistryExit ==
    ASSUME TypeOK, Registry, NEW l \in Loops, Exit(l)
    PROVE  Registry'
<1>1. PICK r \in Runs, s \in Slots : l = <<r, s>>
  BY DEF Loops
<1>2. /\ pc[<<r, s>>] \in Body
      /\ registered' = registered \ {r}
      /\ pc' = [pc EXCEPT ![<<r, s>>] = "drop"]
  BY <1>1 DEF Exit, LoopAt, LoopGoto, Body
<1>3. \A k \in Loops : pc'[k] \in Body => pc[k] \in Body /\ k # <<r, s>>
  BY <1>2 DEF TypeOK, Body
<1>4. \A t \in Slots : pc'[<<r, t>>] \notin Body
  BY <1>2, <1>3 DEF Registry, OneLoopPerRow, Loops
<1>5. \A q \in Runs, t \in Slots : pc'[<<q, t>>] \in Body => q \in registered'
  BY <1>2, <1>3, <1>4 DEF Registry, InBody, Loops
<1>6. OneLoopPerRow'
  BY <1>3 DEF Registry, OneLoopPerRow, Loops
<1> QED BY <1>5, <1>6 DEF Registry, InBody

(* Every other statement of a loop goes from its body to its body, or      *)
(* ends the goroutine.                                                     *)
LEMMA LoopStays ==
    ASSUME TypeOK, NEW l \in Loops, LoopStep(l), ~Exit(l)
    PROVE  /\ registered' = registered
           /\ \A k \in Loops : pc'[k] \in Body => pc[k] \in Body
<1>1. \A where : LoopGoto(l, where)
        => \A k \in Loops : pc'[k] = IF k = l THEN where ELSE pc[k]
  BY DEF TypeOK, LoopGoto
<1>2. CASE Drop(l)
  BY <1>1, <1>2 DEF Drop, Body
<1>3. CASE ~Drop(l)
  <2>1. registered' = registered /\ pc[l] \in Body /\ \E where : LoopGoto(l, where)
    BY <1>3 DEF LoopStep, EnterInterrupted, Enter, Dormant, SetupDone, SetupFails,
                PollInterrupted, Poll, Finish, Wait, TurnEnds, Settle, Abort,
                Unlock, LoopAt, loopFrame, Body
  <2> QED BY <1>1, <2>1
<1> QED BY <1>2, <1>3

LEMMA RegistryStep == TypeInv /\ Registry /\ [Next]_vars => Registry'
<1> SUFFICES ASSUME TypeInv, Registry, [Next]_vars PROVE Registry'
  OBVIOUS
<1>0. TypeOK
  BY DEF TypeInv
<1>f. UNCHANGED <<registered, pc>> => Registry'
  BY RegistryKept
<1>1. ASSUME NEW c \in Callers, CallerStep(c) PROVE Registry'
  <2>1. CASE CallerStart(c)
    <3>1. caller[c].run \in Runs
      BY <2>1 DEF CallerStart, At, TypeInv, RunInHand, HasRun
    <3> QED BY <1>0, <2>1, <3>1, RegistryStarts DEF CallerStart
  <2>2. CASE ~CallerStart(c)
    BY <1>1, <1>f, <2>2 DEF CallerStep, ApiSave, Unblock, Begin, Dedupe, Resolve,
       ResolveUnlock, Dispatch, ReuseRow, CreateRow, PreflightFails, Link, Claim,
       callerFrame
  <2> QED BY <2>1, <2>2
<1>2. ASSUME NEW l \in Loops, LoopStep(l) PROVE Registry'
  BY <1>0, <1>2, RegistryExit, LoopStays, RegistryKept
<1>3. ASSUME NEW l \in Loops,
             StartWorker(l) \/ FinishTask(l) \/ Heartbeat(l) \/ DrainCancel(l)
      PROVE  Registry'
  BY <1>3, <1>f DEF StartWorker, FinishTask, Heartbeat, DrainCancel, loopFrame
<1>4. ASSUME NEW r \in Runs, Age(r) \/ BootStart(r) PROVE Registry'
  BY <1>0, <1>4, <1>f, RegistryStarts DEF Age, BootStart, localVars
<1>5. CASE MonitorStep \/ MonitorNudge
  <2>1. CASE MonitorStart
    <3>1. mon.run \in Runs
      BY <2>1 DEF MonitorStart, TypeInv, RunInHand
    <3> QED BY <1>0, <2>1, <3>1, RegistryStarts DEF MonitorStart
  <2>2. CASE ~MonitorStart
    BY <1>5, <1>f, <2>2 DEF MonitorStep, MonitorTick, MonitorMark, MonitorWatch,
       MonitorNudge, MonitorNudged, MonitorRevive
  <2> QED BY <2>1, <2>2
<1>6. CASE BlockForQuestion \/ SeeAnswer
  BY <1>6, <1>f DEF BlockForQuestion, SeeAnswer, askFrame
<1>7. CASE ProcessGone
  BY <1>7 DEF ProcessGone, Registry, OneLoopPerRow, InBody, Body, Loops
<1>8. CASE Boot
  BY <1>8, <1>f DEF Boot
<1>9. CASE Outside
  BY <1>7, <1>9, <1>f DEF Outside, ApiLoad, Comment, Process, StopRun, AskHuman,
     BeginDrain, Crash, callerFrame, askFrame, localVars
<1>10. CASE UNCHANGED vars
  BY <1>10, <1>f DEF vars, localVars
<1> QED
  BY <1>1, <1>2, <1>3, <1>4, <1>5, <1>6, <1>7, <1>8, <1>9, <1>10
  DEF Next, Inside, DrainEnds

(* A row never has two loops, whether a caller, the boot scan or the       *)
(* watchdog starts it, and however often.                                  *)
THEOREM OneLoopPerRowHolds == Spec => []OneLoopPerRow
<1>1. Init => Registry
  BY DEF Init, Registry, OneLoopPerRow, InBody, Body, Loops
<1>2. Spec => [](TypeInv /\ Registry)
  BY <1>1, TypeInit, TypeStep, RegistryStep, PTL DEF Spec
<1>3. Registry => OneLoopPerRow
  BY DEF Registry
<1> QED BY <1>2, <1>3, PTL

----------------------------------------------------------------------------
(* Interruptions.  Only a stop and a drain cancel a loop's context, only a *)
(* cancelled loop is on its way to MarkInterrupted, and the drain never    *)
(* ends but with the process.                                              *)

Interruptions ==
    /\ \A l \in cancelled : l[1] \in stopped \/ server = "draining"
    /\ \A l \in Loops : pc[l] = "abort" => l \in cancelled
    /\ NoSpuriousCancel

(* A step that cancels nothing new, sends no loop to "abort" and cancels   *)
(* no row.                                                                 *)
LEMMA InterruptionsKept ==
    ASSUME Interruptions, stopped \subseteq stopped', server' = server,
           cancelled' \subseteq cancelled,
           \A k \in Loops : pc'[k] = "abort" => k \in cancelled',
           \A r \in Runs : rstat'[r] = "canceled" => rstat[r] = "canceled"
    PROVE  Interruptions'
  BY DEF Interruptions, NoSpuriousCancel

LEMMA StartLoopInterrupts ==
    ASSUME TypeOK, Interruptions, NEW r \in Runs, StartLoop(r)
    PROVE  \A k \in Loops : pc'[k] = "abort" => k \in cancelled
  BY DEF TypeOK, Interruptions, StartLoop, Loops

LEMMA LoopInterrupts ==
    ASSUME TypeOK, Interruptions, NEW l \in Loops, LoopStep(l)
    PROVE  Interruptions'
<1>1. \A where : LoopGoto(l, where)
        => \A k \in Loops : pc'[k] = IF k = l THEN where ELSE pc[k]
  BY DEF TypeOK, LoopGoto
<1>2. \A s : s # "canceled" /\ Write(l, s)
        => \A r \in Runs : rstat'[r] = "canceled" => rstat[r] = "canceled"
  BY DEF TypeOK, Write
<1>3. CASE EnterInterrupted(l) \/ Abort(l)
  <2>1. l \in cancelled /\ l[1] \in Runs
    BY <1>3 DEF EnterInterrupted, Abort, LoopAt, Interruptions, Loops
  <2>2. /\ UNCHANGED <<server, cancelled, stopped>>
        /\ \A k \in Loops : pc'[k] = "abort" => k \in cancelled'
    BY <1>1, <1>3, <2>1 DEF EnterInterrupted, Abort, loopFrame, Interruptions
  <2>3. \A r \in Runs : rstat'[r] = "canceled" => r \in stopped
    BY <1>3, <2>1 DEF EnterInterrupted, Abort, MarkInterrupted, TypeOK,
                      Interruptions, NoSpuriousCancel
  <2> QED BY <2>2, <2>3 DEF Interruptions, NoSpuriousCancel
<1>4. CASE Drop(l)
  <2>1. \A k \in Loops : pc'[k] = "abort" => k \in cancelled'
    BY <1>1, <1>4 DEF Drop, Interruptions
  <2> QED BY <1>4, <2>1, InterruptionsKept DEF Drop, dbVars
<1>5. CASE Exit(l)
  <2>1. \A k \in Loops : pc'[k] = "abort" => k \in cancelled'
    BY <1>1, <1>5 DEF Exit, Interruptions
  <2> QED BY <1>5, <2>1, InterruptionsKept DEF Exit, dbVars
<1>6. CASE ~(EnterInterrupted(l) \/ Abort(l) \/ Drop(l) \/ Exit(l))
  <2>1. UNCHANGED <<server, cancelled, stopped>>
    BY <1>6 DEF LoopStep, Enter, Dormant, SetupDone, SetupFails, PollInterrupted,
                Poll, Finish, Wait, TurnEnds, Settle, Unlock, loopFrame
  <2>2. \E where : LoopGoto(l, where) /\ (where = "abort" => l \in cancelled)
    BY <1>6 DEF LoopStep, Enter, Dormant, SetupDone, SetupFails, PollInterrupted,
                Poll, Finish, Wait, TurnEnds, Settle, Unlock
  <2>3. \/ rstat' = rstat
        \/ \E s \in {"running", "waiting", "completed", "failed"} : Write(l, s)
    BY <1>6 DEF LoopStep, Enter, Dormant, SetupDone, SetupFails, PollInterrupted,
                Poll, Finish, Wait, TurnEnds, Settle, Unlock
  <2>4. \A k \in Loops : pc'[k] = "abort" => k \in cancelled'
    BY <1>1, <2>1, <2>2 DEF Interruptions
  <2>5. \A r \in Runs : rstat'[r] = "canceled" => rstat[r] = "canceled"
    BY <1>2, <2>3
  <2> QED BY <2>1, <2>4, <2>5, InterruptionsKept
<1> QED BY <1>3, <1>4, <1>5, <1>6

LEMMA InterruptionsStep == TypeInv /\ Interruptions /\ [Next]_vars => Interruptions'
<1> SUFFICES ASSUME TypeInv, Interruptions, [Next]_vars PROVE Interruptions'
  OBVIOUS
<1>0. TypeOK /\ rstat \in [Runs -> RunStatus]
      /\ \A k \in Loops : pc[k] = "abort" => k \in cancelled
  BY DEF TypeInv, TypeOK, Interruptions
<1>f. UNCHANGED <<server, cancelled, stopped, pc, rstat>> => Interruptions'
  BY <1>0, InterruptionsKept
<1>s. ASSUME NEW r \in Runs, StartLoop(r),
             UNCHANGED <<server, cancelled, stopped, rstat>>
      PROVE  Interruptions'
  BY <1>0, <1>s, StartLoopInterrupts, InterruptionsKept
<1>r. ASSUME UNCHANGED <<server, cancelled, stopped, pc>>,
             NEW r \in Runs, NEW s \in RunStatus \ {"canceled"},
             rstat' = [rstat EXCEPT ![r] = s]
      PROVE  Interruptions'
  BY <1>0, <1>r, InterruptionsKept
<1>1. ASSUME NEW c \in Callers, CallerStep(c) PROVE Interruptions'
  <2>1. CASE CallerStart(c)
    <3>1. caller[c].run \in Runs
      BY <2>1 DEF CallerStart, At, TypeInv, RunInHand, HasRun
    <3> QED BY <1>s, <2>1, <3>1 DEF CallerStart, dbVars
  <2>2. CASE Resolve(c)
    <3>1. \A r \in Runs : rstat'[r] = "canceled" => rstat[r] = "canceled"
      BY <1>0, <2>2 DEF Resolve
    <3> QED BY <1>0, <2>2, <3>1, InterruptionsKept DEF Resolve, callerFrame
  <2>3. CASE CreateRow(c)
    <3>1. PICK r \in Runs : rstat' = [rstat EXCEPT ![r] = "running"]
      BY <2>3 DEF CreateRow
    <3> QED BY <1>r, <2>3, <3>1 DEF CreateRow, RunStatus, callerFrame
  <2>4. CASE PreflightFails(c)
    <3>1. PICK r \in Runs : rstat' = [rstat EXCEPT ![r] = "failed"]
      BY <2>4 DEF PreflightFails
    <3> QED BY <1>r, <2>4, <3>1 DEF PreflightFails, RunStatus, callerFrame
  <2>5. CASE ~(CallerStart(c) \/ Resolve(c) \/ CreateRow(c) \/ PreflightFails(c))
    BY <1>1, <1>f, <2>5 DEF CallerStep, ApiSave, Unblock, Begin, Dedupe,
       ResolveUnlock, Dispatch, ReuseRow, Link, Claim, callerFrame
  <2> QED BY <2>1, <2>2, <2>3, <2>4, <2>5
<1>2. ASSUME NEW l \in Loops, LoopStep(l) PROVE Interruptions'
  BY <1>0, <1>2, LoopInterrupts
<1>3. ASSUME NEW l \in Loops, StartWorker(l) \/ FinishTask(l) \/ Heartbeat(l)
      PROVE  Interruptions'
  BY <1>3, <1>f DEF StartWorker, FinishTask, Heartbeat, loopFrame, dbVars
<1>4. ASSUME NEW l \in Loops, DrainCancel(l) PROVE Interruptions'
  BY <1>4 DEF DrainCancel, Interruptions, NoSpuriousCancel, dbVars
<1>5. ASSUME NEW r \in Runs, Age(r) \/ BootStart(r) PROVE Interruptions'
  BY <1>5, <1>f, <1>s DEF Age, BootStart, localVars, dbVars
<1>6. CASE MonitorStep \/ MonitorNudge
  <2>r. mon.pc \in {"revive", "nudge", "start"} => mon.run \in Runs
    BY DEF TypeInv, RunInHand
  <2>a. ASSUME Activate(mon.run), mon.run \in Runs,
               UNCHANGED <<server, cancelled, stopped, pc>>
        PROVE  Interruptions'
    BY <1>f, <1>r, <2>a DEF Activate, RunStatus
  <2>1. CASE MonitorStart
    BY <1>s, <2>r, <2>1 DEF MonitorStart, monFrame
  <2>2. CASE MonitorMark
    <3>1. PICK r \in old : rstat' = [rstat EXCEPT ![r] = "stale"]
      BY <2>2 DEF MonitorMark, Silent
    <3>2. r \in Runs
      BY DEF TypeInv, TypeOK
    <3>3. "stale" \in RunStatus \ {"canceled"}
      BY DEF RunStatus
    <3>4. UNCHANGED <<server, cancelled, stopped, pc>>
      BY <2>2 DEF MonitorMark, monFrame
    <3> QED BY <1>r, <3>1, <3>2, <3>3, <3>4
  <2>3. CASE MonitorNudged
    BY <2>a, <2>r, <2>3 DEF MonitorNudged, monFrame
  <2>4. CASE MonitorRevive
    BY <1>f, <2>a, <2>r, <2>4 DEF MonitorRevive, monFrame
  <2>5. CASE MonitorTick \/ MonitorWatch \/ MonitorNudge
    BY <1>f, <2>5 DEF MonitorTick, MonitorWatch, MonitorNudge, monFrame
  <2> QED BY <1>6, <2>1, <2>2, <2>3, <2>4, <2>5 DEF MonitorStep
<1>7. CASE BlockForQuestion \/ SeeAnswer
  BY <1>7, <1>f DEF BlockForQuestion, SeeAnswer, askFrame
<1>8. CASE ProcessGone
  BY <1>8 DEF ProcessGone, Interruptions, NoSpuriousCancel, dbVars
<1>9. CASE Boot
  <2>1. \A r \in Runs : rstat'[r] = "canceled" => rstat[r] = "canceled"
    BY <1>9 DEF Boot
  <2> QED BY <1>9, <2>1 DEF Boot, Interruptions, NoSpuriousCancel
<1>10. CASE Outside
  <2>1. ASSUME NEW r \in Runs, StopRun(r) PROVE Interruptions'
    BY <2>1 DEF StopRun, Interruptions, NoSpuriousCancel, dbVars
  <2>2. CASE BeginDrain
    BY <2>2 DEF BeginDrain, Interruptions, NoSpuriousCancel, dbVars, localVars
  <2> QED BY <1>8, <1>10, <1>f, <2>1, <2>2 DEF Outside, ApiLoad, Comment, Process,
          AskHuman, Crash, callerFrame, askFrame
<1>11. CASE UNCHANGED vars
  BY <1>11, <1>f DEF vars, localVars, dbVars
<1> QED
  BY <1>1, <1>2, <1>3, <1>4, <1>5, <1>6, <1>7, <1>8, <1>9, <1>10, <1>11
  DEF Next, Inside, DrainEnds

(* A row ends canceled only if a user asked to stop it: neither a drain,   *)
(* nor a restart, nor the watchdog leaves a cancellation behind.           *)
THEOREM NoSpuriousCancelHolds == Spec => []NoSpuriousCancel
<1>1. Init => Interruptions
  BY DEF Init, Interruptions, NoSpuriousCancel
<1>2. Spec => [](TypeInv /\ Interruptions)
  BY <1>1, TypeInit, TypeStep, InterruptionsStep, PTL DEF Spec
<1>3. Interruptions => NoSpuriousCancel
  BY DEF Interruptions
<1> QED BY <1>2, <1>3, PTL

----------------------------------------------------------------------------
(* What an interrupted loop leaves to the next boot.                       *)

RowLeft(l) ==
    server = "draining" /\ l \in cancelled /\ pc'[l] # pc[l]
      => rstat'[l[1]] \in {rstat[l[1]], "waiting"}

(* A step that writes no row, or moves no goroutine but an idle one.       *)
LEMMA RowLeftAlone ==
    ASSUME NEW l \in Loops, rstat' = rstat \/ pc' = pc
    PROVE  RowLeft(l)
  BY DEF RowLeft

(* A cancelled context makes the loop's own writes fail; what is written   *)
(* under context.Background() says waiting while the process drains.       *)
LEMMA LoopLeaves ==
    ASSUME TypeOK, NEW k \in Loops, LoopStep(k), NEW l \in Loops
    PROVE  RowLeft(l)
<1>1. CASE k # l
  <2>1. \A where : LoopGoto(k, where) => pc'[l] = pc[l]
    BY <1>1 DEF TypeOK, LoopGoto
  <2>2. \E where : LoopGoto(k, where)
    BY DEF LoopStep, EnterInterrupted, Enter, Dormant, SetupDone, SetupFails,
           PollInterrupted, Poll, Finish, Wait, TurnEnds, Settle, Abort, Unlock,
           Exit, Drop
  <2> QED BY <2>1, <2>2 DEF RowLeft
<1>2. CASE k = l /\ l \in cancelled /\ server = "draining"
  <2>1. \A s : Write(l, s) => rstat' = rstat
    BY <1>2 DEF Write
  <2>2. MarkInterrupted(l) => rstat'[l[1]] = "waiting"
    BY <1>2 DEF MarkInterrupted, TypeOK, Loops
  <2>3. \/ rstat' = rstat \/ MarkInterrupted(l) \/ \E s : Write(l, s)
    BY <1>2 DEF LoopStep, EnterInterrupted, Enter, Dormant, SetupDone, SetupFails,
           PollInterrupted, Poll, Finish, Wait, TurnEnds, Settle, Abort, Unlock,
           Exit, Drop, dbVars
  <2> QED BY <2>1, <2>2, <2>3 DEF RowLeft
<1> QED BY <1>1, <1>2 DEF RowLeft

LEMMA StepLeaves ==
    ASSUME TypeInv, [Next]_vars, NEW l \in Loops
    PROVE  RowLeft(l)
<1>1. ASSUME NEW c \in Callers, CallerStep(c) PROVE RowLeft(l)
  BY <1>1, RowLeftAlone DEF CallerStep, CallerStart, ApiSave, Unblock, Begin, Dedupe,
     Resolve, ResolveUnlock, Dispatch, ReuseRow, CreateRow, PreflightFails, Link,
     Claim, callerFrame, dbVars
<1>2. ASSUME NEW k \in Loops, LoopStep(k) PROVE RowLeft(l)
  BY <1>2, LoopLeaves DEF TypeInv
<1>3. ASSUME NEW k \in Loops,
             StartWorker(k) \/ FinishTask(k) \/ Heartbeat(k) \/ DrainCancel(k)
      PROVE  RowLeft(l)
  BY <1>3, RowLeftAlone DEF StartWorker, FinishTask, Heartbeat, DrainCancel
<1>4. ASSUME NEW r \in Runs, Age(r) \/ BootStart(r) PROVE RowLeft(l)
  BY <1>4, RowLeftAlone DEF Age, BootStart, dbVars
<1>5. CASE MonitorStep \/ MonitorNudge
  BY <1>5, RowLeftAlone DEF MonitorStep, MonitorTick, MonitorMark, MonitorWatch,
     MonitorNudge, MonitorNudged, MonitorRevive, MonitorStart
<1>6. CASE BlockForQuestion \/ SeeAnswer \/ ProcessGone
  BY <1>6, RowLeftAlone DEF BlockForQuestion, SeeAnswer, ProcessGone, askFrame, dbVars
<1>7. CASE Boot
  BY <1>7, RowLeftAlone DEF Boot
<1>8. CASE Outside
  BY <1>6, <1>8, RowLeftAlone DEF Outside, ApiLoad, Comment, Process, StopRun, AskHuman,
     BeginDrain, Crash, callerFrame, askFrame, dbVars, localVars
<1>9. CASE UNCHANGED vars
  BY <1>9, RowLeftAlone DEF vars, dbVars
<1> QED
  BY <1>1, <1>2, <1>3, <1>4, <1>5, <1>6, <1>7, <1>8, <1>9
  DEF Next, Inside, DrainEnds

(* Whatever statement a drain interrupts a loop at, the loop leaves its    *)
(* row as it was or waiting: never failed, completed or canceled.          *)
THEOREM DrainKeepsRowsResumableHolds == Spec => DrainKeepsRowsResumable
<1>1. TypeInv /\ [Next]_vars => [\A l \in Loops : RowLeft(l)]_vars
  BY StepLeaves
<1>2. Spec => []TypeInv
  BY TypeInit, TypeStep, PTL DEF Spec
<1>3. Spec => [][\A l \in Loops : RowLeft(l)]_vars
  BY <1>1, <1>2, PTL DEF Spec
<1>4. [\A l \in Loops : RowLeft(l)]_vars
        => [\A l \in Loops :
             server = "draining" /\ l \in cancelled /\ pc'[l] # pc[l]
               => rstat'[l[1]] \in {rstat[l[1]], "waiting"}]_vars
  BY DEF RowLeft
<1> QED BY <1>3, <1>4, PTL DEF DrainKeepsRowsResumable

=============================================================================
