--------------------------- MODULE Orchestration ---------------------------
(***************************************************************************)
(* One board task, the orchestrator rows created for it, and everything    *)
(* that starts, stops and revives their loops:                             *)
(*                                                                         *)
(*   - callers: HTTP requests and reconcilers inside ProcessTask,          *)
(*     RerunTask, a card update or a human comment, each followed by the   *)
(*     goroutine `run` it spawns;                                          *)
(*   - loops: goroutines in runOrchestrator;                               *)
(*   - the liveness monitor: CheckStaleRuns, then WakeStalledOrchestrators;*)
(*   - the process: boot, graceful drain, crash.                           *)
(*                                                                         *)
(* The database (task, rows, comments) survives a crash; the run registry  *)
(* and every goroutine do not.  A step is one database statement or one    *)
(* registry call, except where an action's comment says that adjacent ones *)
(* are taken together.                                                     *)
(***************************************************************************)
EXTENDS Naturals

CONSTANTS
    Runs,         \* identifiers of orchestrator rows (a bound on creations)
    Slots,        \* goroutines one row may have at once, dying ones included
    Callers,      \* requests and reconcilers in flight at once
    ApiStatuses,  \* statuses a user moves the card to
    ConfigFails,  \* may the task-orchestrator model fail to resolve?
    Outsiders,    \* what may happen from outside in this instance
    MaxEvents,    \* and how many such things (both bounds of the model)
    None          \* SQL NULL, and "no goroutine"

TaskStatus == {"backlog", "to-do", "refinement", "depends-on-task",
               "in-progress", "blocked", "in-review", "done"}

OutsideKind == {"edit", "move", "comment", "process", "stop", "ask", "drain", "crash"}

(* The API refuses depends-on-task: only the dependency check sets it.      *)
ASSUME StatusAssumption == ApiStatuses \subseteq TaskStatus \ {"depends-on-task"}
ASSUME NoneAssumption   == None \notin Runs /\ None \notin Slots
ASSUME ConfigAssumption == ConfigFails \in BOOLEAN
ASSUME EventsAssumption == Outsiders \subseteq OutsideKind /\ MaxEvents \in Nat

VARIABLES
    task,        \* row of the task: status, run_id, orchestrator_run_id
    rstat,       \* status column of each orchestrator row
    old,         \* rows whose heartbeat is older than the stale threshold
    question,    \* an ask_user comment has no human comment after it
    asked,       \* some ask_user comment exists
    asker,       \* a worker session: none yet, working, having posted a
                 \* question, or waiting for its answer
    server,      \* "down", "up" or "draining"
    registered,  \* runRegistry.orchestrators
    handle,      \* runRegistry.cancelFuncs: the goroutine a stop would cancel
    cancelled,   \* goroutines whose context is done
    pc,          \* where each loop goroutine is
    caller,      \* where each caller is, and what it has read
    mon,         \* the liveness monitor
    bootList,    \* rows ResumeWaitingOrchestrators listed and has yet to start
    stopped,     \* history: rows a user asked to stop
    events       \* requests, questions, stops and process exits so far

dbVars    == <<task, rstat, old, question, asked>>
localVars == <<asker, registered, handle, cancelled, pc, caller, mon, bootList>>
vars      == <<dbVars, localVars, server, stopped, events>>

Loops     == Runs \X Slots
MaybeRun  == Runs \cup {None}
RunStatus == {"none", "running", "waiting", "stale", "completed", "failed",
              "canceled"}
TaskRow   == [status : TaskStatus, lock : MaybeRun, ptr : MaybeRun]

(* A loop is in its body from its start until it leaves the registry.      *)
Body   == {"enter", "dormant", "setup", "first", "poll", "wait", "turn",
           "settle", "finish", "abort", "unlock", "exit"}
LoopPC == Body \cup {"idle", "drop"}
(* The heartbeat ticker runs from setup until runOrchestrator returns.     *)
Beating == {"first", "poll", "wait", "turn", "settle", "finish", "abort",
            "unlock"}

CallerPC == {"idle", "save", "unblock", "begin", "dedupe", "resolve",
             "unlock", "dispatch", "run", "link", "claim", "start"}
CallerRec == [pc : CallerPC, force : BOOLEAN, row : TaskRow, run : MaybeRun,
              own : BOOLEAN]
MonitorRec == [pc : {"sleep", "mark", "revive", "nudge", "start"},
               run : MaybeRun]

NoRow == [status |-> "backlog", lock |-> None, ptr |-> None]
Idle  == [pc |-> "idle", force |-> FALSE, row |-> NoRow, run |-> None,
          own |-> FALSE]
Sleep == [pc |-> "sleep", run |-> None]

(* A loop in one of these may still take a model turn.                     *)
Acting == {"setup", "first", "poll", "wait", "turn", "settle"}

InBody(r) == \E s \in Slots : pc[<<r, s>>] \in Body
Serving   == server # "down"

TypeOK ==
    /\ task \in TaskRow
    /\ rstat \in [Runs -> RunStatus]
    /\ old \subseteq Runs
    /\ question \in BOOLEAN /\ asked \in BOOLEAN
    /\ asker \in {"none", "working", "posted", "waiting"}
    /\ server \in {"down", "up", "draining"}
    /\ registered \subseteq Runs
    /\ handle \in [Runs -> Slots \cup {None}]
    /\ cancelled \subseteq Loops
    /\ pc \in [Loops -> LoopPC]
    /\ caller \in [Callers -> CallerRec]
    /\ mon \in MonitorRec
    /\ bootList \subseteq Runs
    /\ stopped \subseteq Runs
    /\ events \in 0..MaxEvents

(* The card was just created in to-do, and ProcessTask called for it.      *)
Init ==
    /\ task = [status |-> "to-do", lock |-> None, ptr |-> None]
    /\ rstat = [r \in Runs |-> "none"]
    /\ old = {} /\ question = FALSE /\ asked = FALSE
    /\ asker = "none" /\ server = "up"
    /\ registered = {} /\ handle = [r \in Runs |-> None]
    /\ cancelled = {} /\ pc = [l \in Loops |-> "idle"]
    /\ \E c \in Callers :
         caller = [d \in Callers |-> [Idle EXCEPT !.pc = IF d = c THEN "begin" ELSE "idle"]]
    /\ mon = Sleep /\ bootList = {} /\ stopped = {} /\ events = 0

----------------------------------------------------------------------------
(* Starting a loop.                                                        *)

(* Mutation of StartLoop: the registry is not asked.                       *)
StartLoopUnguarded(r) ==
    \E s \in Slots :
        /\ pc[<<r, s>>] = "idle"
        /\ registered' = registered \cup {r}
        /\ handle' = [handle EXCEPT ![r] = s]
        /\ pc' = [pc EXCEPT ![<<r, s>>] = "enter"]

(* startTaskOrchestrator: nothing when the row is already registered,      *)
(* otherwise register, store the cancel func and spawn the goroutine.      *)
StartLoop(r) ==
    IF r \in registered
    THEN UNCHANGED <<registered, handle, pc>>
    ELSE \E s \in Slots :
           /\ pc[<<r, s>>] = "idle"
           /\ registered' = registered \cup {r}
           /\ handle' = [handle EXCEPT ![r] = s]
           /\ pc' = [pc EXCEPT ![<<r, s>>] = "enter"]

----------------------------------------------------------------------------
(* Callers.                                                                *)

At(c, where) == Serving /\ caller[c].pc = where
Goto(c, where) == caller' = [caller EXCEPT ![c].pc = where]
Done(c) == caller' = [caller EXCEPT ![c] = Idle]

(* UpdateTask saves the whole row the caller read, with a new status: the  *)
(* run_id and orchestrator_run_id columns go back to what it had read.     *)
Save(c, s) == task' = [caller[c].row EXCEPT !.status = s]

callerFrame == <<old, asked, asker, server, registered, handle, cancelled,
                 pc, mon, bootList, stopped>>

(* PUT /tasks/{id}: LoadTask reads the row before the handler runs.        *)
ApiLoad(c) ==
    /\ At(c, "idle")
    /\ caller' = [caller EXCEPT ![c] = [Idle EXCEPT !.pc = "save", !.row = task]]
    /\ UNCHANGED <<task, rstat, question, callerFrame>>

(* The handler saves it, with another field changed or with a new status.  *)
(* A status change leaves a human comment, which answers an open question, *)
(* and spawns ProcessTask.  Save and comment are taken together.           *)
SavedStatus(c) ==
    {s \in ApiStatuses : "move" \in Outsiders /\ s # caller[c].row.status}
    \cup {s \in {caller[c].row.status} : "edit" \in Outsiders}

ApiSave(c) ==
    /\ At(c, "save")
    /\ \E s \in SavedStatus(c) :
         /\ Save(c, s)
         /\ IF s # caller[c].row.status
            THEN question' = FALSE
                 /\ caller' = [caller EXCEPT ![c] = [Idle EXCEPT !.pc = "begin"]]
            ELSE UNCHANGED question /\ Done(c)
    /\ UNCHANGED <<rstat, callerFrame>>

(* POST /comments by a human, with or without the Run Agent flag.          *)
Comment(c) ==
    /\ At(c, "idle")
    /\ question' = FALSE
    /\ \E force \in BOOLEAN :
         caller' = [caller EXCEPT ![c] = [Idle EXCEPT !.pc = "unblock",
                                                      !.force = force]]
    /\ UNCHANGED <<task, rstat, callerFrame>>

(* Mutation of HandleHumanReply: it is left to the reply's own request.    *)
HandleHumanReplyOnce ==
    task' = IF asked /\ ~question /\ task.status = "blocked"
               /\ \E c \in Callers : caller[c].pc = "unblock"
            THEN [task EXCEPT !.status = "in-progress"] ELSE task

(* HandleHumanReply: once the last question has a later human comment, a   *)
(* blocked task goes back to in-progress by a narrow conditional update.   *)
HandleHumanReply ==
    task' = IF asked /\ ~question /\ task.status = "blocked"
            THEN [task EXCEPT !.status = "in-progress"] ELSE task

Unblock(c) ==
    /\ At(c, "unblock")
    /\ HandleHumanReply
    /\ IF caller[c].force /\ task'.status # "backlog"
       THEN Goto(c, "begin") ELSE Done(c)
    /\ UNCHANGED <<rstat, question, callerFrame>>

(* ProcessTask, or RerunTask when force, called by anything else.          *)
Process(c) ==
    /\ At(c, "idle")
    /\ \E force \in BOOLEAN :
         caller' = [caller EXCEPT ![c] = [Idle EXCEPT !.pc = "begin",
                                                      !.force = force]]
    /\ UNCHANGED <<task, rstat, question, callerFrame>>

Begin(c) ==
    /\ At(c, "begin")
    /\ IF server = "draining" THEN Done(c)
       ELSE caller' = [caller EXCEPT
              ![c].row = task,
              ![c].pc  = IF task.lock = None THEN "dispatch" ELSE "dedupe"]
    /\ UNCHANGED <<task, rstat, question, callerFrame>>

(* IsRunStale asks for five minutes, the monitor for two: a row in `old`   *)
(* may or may not have passed the longer one.                              *)
Dedupe(c) ==
    LET r == caller[c].row.lock IN
    /\ At(c, "dedupe")
    /\ \/ Done(c)
       \/ rstat[r] = "running" /\ r \in old /\ Goto(c, "resolve")
    /\ UNCHANGED <<task, rstat, question, callerFrame>>

(* resolveStaleRun: the row first, the task lock in a second statement.    *)
Resolve(c) ==
    /\ At(c, "resolve")
    /\ rstat' = [rstat EXCEPT ![caller[c].row.lock] = "failed"]
    /\ Goto(c, "unlock")
    /\ UNCHANGED <<task, question, callerFrame>>

ResolveUnlock(c) ==
    /\ At(c, "unlock")
    /\ task' = [task EXCEPT !.lock = None]
    /\ Goto(c, "dispatch")
    /\ UNCHANGED <<rstat, question, callerFrame>>

(* The status switch.  `ready` is what CanStartTask answers.               *)
SpawnRun(c) == caller' = [caller EXCEPT ![c] = [Idle EXCEPT !.pc = "run"]]

Dispatch(c) ==
    LET s == caller[c].row.status
        force == caller[c].force
    IN
    /\ At(c, "dispatch")
    /\ \E ready \in BOOLEAN :
         \/ /\ s \in {"refinement", "in-progress"}
            /\ SpawnRun(c) /\ UNCHANGED task
         \/ /\ s = "to-do" \/ (s \in {"in-review", "blocked", "done"} /\ force)
            /\ IF ready THEN Save(c, "in-progress") /\ SpawnRun(c)
                        ELSE Save(c, "depends-on-task") /\ Done(c)
         \/ /\ s = "depends-on-task" /\ ready
            /\ Save(c, "to-do") /\ Goto(c, "begin")
         \/ /\ \/ s = "depends-on-task" /\ ~ready
               \/ s \in {"in-review", "blocked", "done"} /\ ~force
               \/ s = "backlog"
            /\ Done(c) /\ UNCHANGED task
    /\ UNCHANGED <<rstat, question, callerFrame>>

(* createTaskOrchestrator, in the goroutine `run`.  A live row the task    *)
(* points at is reused and not started again.                              *)
LivePointer ==
    task.ptr # None /\ rstat[task.ptr] \in {"running", "waiting"}

ReuseRow(c) ==
    /\ At(c, "run")
    /\ LivePointer
    /\ caller' = [caller EXCEPT ![c].pc = "claim", ![c].run = task.ptr]
    /\ UNCHANGED <<task, rstat, question, callerFrame>>

(* Otherwise a row is inserted; the task points at it one statement later. *)
CreateRow(c) ==
    /\ At(c, "run")
    /\ ~LivePointer
    /\ \E r \in Runs :
         /\ rstat[r] = "none"
         /\ rstat' = [rstat EXCEPT ![r] = "running"]
         /\ caller' = [caller EXCEPT ![c].pc = "link", ![c].run = r,
                                     ![c].own = TRUE]
    /\ UNCHANGED <<task, question, callerFrame>>

(* No model configured: a failed row is linked and the task is blocked.    *)
(* The five statements of this error path are taken together.              *)
PreflightFails(c) ==
    /\ ConfigFails /\ At(c, "run")
    /\ \E r \in Runs :
         /\ rstat[r] = "none"
         /\ rstat' = [rstat EXCEPT ![r] = "failed"]
         /\ task' = [task EXCEPT !.ptr = r, !.status = "blocked"]
    /\ Done(c)
    /\ UNCHANGED <<question, callerFrame>>

(* SetTaskOrchestratorRun.                                                 *)
Link(c) ==
    /\ At(c, "link")
    /\ task' = [task EXCEPT !.ptr = caller[c].run]
    /\ Goto(c, "claim")
    /\ UNCHANGED <<rstat, question, callerFrame>>

(* ClaimTaskRun: UPDATE ... WHERE run_id IS NULL.                          *)
Claim(c) ==
    /\ At(c, "claim")
    /\ IF task.lock = None
       THEN /\ task' = [task EXCEPT !.lock = caller[c].run]
            /\ IF caller[c].own THEN Goto(c, "start") ELSE Done(c)
       ELSE UNCHANGED task /\ Done(c)
    /\ UNCHANGED <<rstat, question, callerFrame>>

CallerStart(c) ==
    /\ At(c, "start")
    /\ StartLoop(caller[c].run)
    /\ Done(c)
    /\ UNCHANGED <<dbVars, asker, server, cancelled, mon, bootList, stopped>>

CallerStep(c) ==
    \/ ApiSave(c) \/ Unblock(c) \/ Begin(c) \/ Dedupe(c) \/ Resolve(c)
    \/ ResolveUnlock(c) \/ Dispatch(c) \/ ReuseRow(c) \/ CreateRow(c)
    \/ PreflightFails(c) \/ Link(c) \/ Claim(c) \/ CallerStart(c)

----------------------------------------------------------------------------
(* runOrchestrator.                                                        *)

LoopAt(l, where) == Serving /\ pc[l] = where
LoopGoto(l, where) == pc' = [pc EXCEPT ![l] = where]
loopFrame == <<question, asked, asker, server, registered, handle, cancelled,
               caller, mon, bootList, stopped>>

(* Statements issued under the loop's own context fail silently once it is *)
(* done; those under context.Background() do not.                          *)
Write(l, s) ==
    rstat' = IF l \in cancelled THEN rstat ELSE [rstat EXCEPT ![l[1]] = s]

HumanGate == task.status = "blocked" /\ question

(* Mutations of MarkInterrupted: the draining flag is not read; the status *)
(* a paused session has is used for the row of an orchestrator.            *)
MarkInterruptedCanceled(l) == rstat' = [rstat EXCEPT ![l[1]] = "canceled"]
MarkInterruptedPaused(l) == rstat' = [rstat EXCEPT ![l[1]] = "paused"]

(* markDrained while draining, markCanceled otherwise.                     *)
MarkInterrupted(l) ==
    rstat' = [rstat EXCEPT ![l[1]] =
                IF server = "draining" THEN "waiting" ELSE "canceled"]

(* The context was done before the loop began: the row is marked and the   *)
(* goroutine returns; the deferred unlock is not registered yet.           *)
EnterInterrupted(l) ==
    /\ LoopAt(l, "enter") /\ l \in cancelled
    /\ MarkInterrupted(l) /\ LoopGoto(l, "exit")
    /\ UNCHANGED <<task, old, loopFrame>>

Enter(l) ==
    /\ LoopAt(l, "enter") /\ l \notin cancelled
    /\ LoopGoto(l, IF task.status = "in-progress" THEN "setup" ELSE "dormant")
    /\ UNCHANGED <<task, rstat, old, loopFrame>>

(* The task left in-progress before the loop began.                        *)
Dormant(l) ==
    /\ LoopAt(l, "dormant")
    /\ Write(l, IF HumanGate THEN "waiting" ELSE "completed")
    /\ LoopGoto(l, IF l \in cancelled THEN "exit" ELSE "unlock")
    /\ UNCHANGED <<task, old, loopFrame>>

(* Heartbeat started, log file, prompt and client built.                   *)
SetupDone(l) ==
    /\ LoopAt(l, "setup") /\ l \notin cancelled
    /\ old' = IF task.status = "in-progress" THEN old \ {l[1]} ELSE old
    /\ LoopGoto(l, "first")
    /\ UNCHANGED <<task, rstat, loopFrame>>

(* The log file cannot be opened (no unlock is deferred yet), or a later   *)
(* part of the setup fails.                                                *)
SetupFails(l) ==
    /\ LoopAt(l, "setup")
    /\ Write(l, "failed")
    /\ \E next \in {"exit", "unlock"} : LoopGoto(l, next)
    /\ UNCHANGED <<task, old, loopFrame>>

(* Mutation of PollInterrupted: the failure is written under a background  *)
(* context.                                                                *)
PollInterruptedFailed(l) ==
    /\ pc[l] \in {"first", "poll"} /\ Serving /\ l \in cancelled
    /\ rstat' = [rstat EXCEPT ![l[1]] = "failed"]
    /\ LoopGoto(l, "unlock")
    /\ UNCHANGED <<task, old, loopFrame>>

(* With its context done the session listing fails, and so does recording  *)
(* that failure.                                                           *)
PollInterrupted(l) ==
    /\ pc[l] \in {"first", "poll"} /\ Serving /\ l \in cancelled
    /\ LoopGoto(l, "unlock")
    /\ UNCHANGED <<task, rstat, old, loopFrame>>

(* One pass over the control plane.  Reading it and writing the row's own  *)
(* status are taken together, except when the task left in-progress.       *)
Poll(l) ==
    /\ pc[l] \in {"first", "poll"} /\ Serving /\ l \notin cancelled
    /\ \/ HumanGate /\ Write(l, "waiting") /\ LoopGoto(l, "wait")
       \/ /\ ~HumanGate /\ task.status # "in-progress"
          /\ LoopGoto(l, "finish") /\ UNCHANGED rstat
       \/ /\ task.status = "in-progress" /\ pc[l] = "poll"  \* nothing new
          /\ Write(l, "waiting") /\ LoopGoto(l, "wait")
       \/ /\ task.status = "in-progress"                    \* a model turn
          /\ Write(l, "running") /\ LoopGoto(l, "turn")
    /\ UNCHANGED <<task, old, loopFrame>>

Finish(l) ==
    /\ LoopAt(l, "finish")
    /\ Write(l, "completed") /\ LoopGoto(l, "unlock")
    /\ UNCHANGED <<task, old, loopFrame>>

Wait(l) ==
    /\ LoopAt(l, "wait")
    /\ LoopGoto(l, IF l \in cancelled THEN "abort" ELSE "poll")
    /\ UNCHANGED <<task, rstat, old, loopFrame>>

(* finish_task, a tool call inside a turn: refused while a human question  *)
(* is open; the sessions are terminal or not.  Reads and save together.    *)
FinishTask(l) ==
    /\ LoopAt(l, "turn") /\ l \notin cancelled
    /\ ~question
    /\ task' = [task EXCEPT !.status = "done"]
    /\ UNCHANGED <<pc, rstat, old, loopFrame>>

(* run_new_session, the tool call that creates worker sessions.            *)
StartWorker(l) ==
    /\ LoopAt(l, "turn") /\ l \notin cancelled
    /\ asker = "none" /\ asker' = "working"
    /\ UNCHANGED <<dbVars, server, registered, handle, cancelled, pc, caller,
                   mon, bootList, stopped>>

TurnEnds(l) ==
    /\ LoopAt(l, "turn")
    /\ \/ l \in cancelled /\ LoopGoto(l, "abort") /\ UNCHANGED rstat
       \/ l \notin cancelled /\ LoopGoto(l, "settle") /\ UNCHANGED rstat
       \/ l \notin cancelled /\ LoopGoto(l, "unlock") /\ Write(l, "failed")
    /\ UNCHANGED <<task, old, loopFrame>>

(* Events consumed, row back to waiting.                                   *)
Settle(l) ==
    /\ LoopAt(l, "settle")
    /\ Write(l, "waiting") /\ LoopGoto(l, "poll")
    /\ UNCHANGED <<task, old, loopFrame>>

Abort(l) ==
    /\ LoopAt(l, "abort")
    /\ MarkInterrupted(l) /\ LoopGoto(l, "unlock")
    /\ UNCHANGED <<task, old, loopFrame>>

(* UnlockTaskRun names the task only, not the row that holds the lock.     *)
Unlock(l) ==
    /\ LoopAt(l, "unlock")
    /\ task' = [task EXCEPT !.lock = None]
    /\ LoopGoto(l, "exit")
    /\ UNCHANGED <<rstat, old, loopFrame>>

(* The goroutine's deferred calls, last registered first: leave the        *)
(* registry, then delete whatever cancel func the row has.                 *)
Exit(l) ==
    /\ LoopAt(l, "exit")
    /\ registered' = registered \ {l[1]}
    /\ LoopGoto(l, "drop")
    /\ UNCHANGED <<dbVars, asker, server, handle, cancelled, caller, mon,
                   bootList, stopped>>

Drop(l) ==
    /\ LoopAt(l, "drop")
    /\ handle' = [handle EXCEPT ![l[1]] = None]
    /\ cancelled' = cancelled \ {l}
    /\ LoopGoto(l, "idle")
    /\ UNCHANGED <<dbVars, asker, server, registered, caller, mon, bootList,
                   stopped>>

LoopStep(l) ==
    \/ EnterInterrupted(l) \/ Enter(l) \/ Dormant(l) \/ SetupDone(l)
    \/ SetupFails(l) \/ PollInterrupted(l) \/ Poll(l) \/ Finish(l) \/ Wait(l)
    \/ TurnEnds(l) \/ Settle(l) \/ Abort(l) \/ Unlock(l) \/ Exit(l) \/ Drop(l)

(* A tick of the heartbeat: only while the task is in-progress.            *)
Heartbeat(l) ==
    /\ Serving /\ pc[l] \in Beating /\ task.status = "in-progress"
    /\ old' = old \ {l[1]}
    /\ UNCHANGED <<task, rstat, pc, loopFrame>>

----------------------------------------------------------------------------
(* Time, users and workers.                                                *)

(* A row goes without a heartbeat past the stale threshold.  A live loop   *)
(* ticks well inside it while the task is in progress; only a provider     *)
(* call or a wait lasts that long, and nobody stalls for minutes between   *)
(* two statements about the row.                                           *)
Age(r) ==
    /\ rstat[r] \in {"running", "waiting"} /\ r \notin old
    /\ \A s \in Slots :
         \/ pc[<<r, s>>] = "idle"
         \/ pc[<<r, s>>] \in {"wait", "turn"} /\ task.status # "in-progress"
    /\ mon.run # r /\ r \notin bootList
    /\ \A c \in Callers : caller[c].run # r
    /\ old' = old \cup {r}
    /\ UNCHANGED <<task, rstat, question, asked, localVars, server, stopped>>

(* POST /runs/{id}/stop: a running row only; LoadAndDelete, then cancel.   *)
(* Reading the row and cancelling are taken together; a row without a      *)
(* handle is left alone.                                                   *)
StopRun(r) ==
    /\ Serving /\ rstat[r] = "running" /\ handle[r] # None
    /\ cancelled' = cancelled \cup {<<r, handle[r]>>}
    /\ handle' = [handle EXCEPT ![r] = None]
    /\ stopped' = stopped \cup {r}
    /\ UNCHANGED <<dbVars, asker, server, registered, pc, caller, mon, bootList>>

(* askHuman, in a worker session: the comment first, then the task, by a   *)
(* read and a full-row save taken together; then it polls for an answer    *)
(* and handles it again, in case the reply came before the task blocked.   *)
askFrame == <<rstat, old, server, registered, handle, cancelled, pc, caller,
              mon, bootList, stopped>>

AskHuman ==
    /\ Serving /\ asker = "working"
    /\ asker' = "posted" /\ question' = TRUE /\ asked' = TRUE
    /\ UNCHANGED <<task, askFrame>>

BlockForQuestion ==
    /\ Serving /\ asker = "posted"
    /\ asker' = "waiting"
    /\ task' = IF task.status = "in-progress"
               THEN [task EXCEPT !.status = "blocked"] ELSE task
    /\ UNCHANGED <<question, asked, askFrame>>

SeeAnswer ==
    /\ Serving /\ asker = "waiting" /\ ~question
    /\ asker' = "working"
    /\ HandleHumanReply
    /\ UNCHANGED <<question, asked, askFrame>>

----------------------------------------------------------------------------
(* The liveness monitor: one goroutine, first tick a minute after boot.    *)

monFrame == <<question, asked, asker, server, cancelled, caller, bootList,
              stopped>>

(* The ticker stops with the signal that begins the drain.  The boot scan  *)
(* and a loop's first statements are long over a minute later.             *)
MonitorTick ==
    /\ server = "up" /\ mon.pc = "sleep" /\ bootList = {}
    /\ \A l \in Loops : pc[l] \notin {"enter", "setup"}
    /\ mon' = [Sleep EXCEPT !.pc = "mark"]
    /\ UNCHANGED <<task, rstat, old, registered, handle, pc, monFrame>>

(* Mutation of Silent: only the row the task points at is looked at.       *)
SilentPointed ==
    {r \in old : rstat[r] = "running" /\ task.status = "in-progress"
                   /\ task.ptr = r}

(* CheckStaleRuns: a running row without a recent heartbeat, of a task in  *)
(* progress, is retired by MarkRunStale's conditional update.  Listing,    *)
(* checking and marking one row are taken together.                        *)
Silent == {r \in old : rstat[r] = "running" /\ task.status = "in-progress"}

MonitorMark ==
    /\ Serving /\ mon.pc = "mark"
    /\ \E r \in Silent : rstat' = [rstat EXCEPT ![r] = "stale"]
    /\ UNCHANGED <<task, old, mon, registered, handle, pc, monFrame>>

(* Mutation of MonitorWatch: a stale row is taken for a live one.          *)
MonitorWatchFailed ==
    /\ Serving /\ mon.pc = "mark" /\ Silent = {}
    /\ mon' = IF /\ task.ptr # None /\ task.status = "in-progress"
                 /\ ~question /\ rstat[task.ptr] = "failed"
              THEN [pc |-> "revive", run |-> task.ptr] ELSE Sleep
    /\ UNCHANGED <<task, rstat, old, registered, handle, pc, monFrame>>

(* WakeStalledOrchestrators looks at the row the task points at: a failed  *)
(* or stale one is revived; a waiting one is nudged if its history is      *)
(* silent or a worker failed.  Human-gated and other tasks are left alone. *)
Watched == task.ptr # None /\ task.status = "in-progress" /\ ~question

MonitorWatch ==
    /\ Serving /\ mon.pc = "mark" /\ Silent = {}
    /\ mon' = IF Watched /\ rstat[task.ptr] \in {"failed", "stale"}
              THEN [pc |-> "revive", run |-> task.ptr] ELSE Sleep
    /\ UNCHANGED <<task, rstat, old, registered, handle, pc, monFrame>>

MonitorNudge ==
    /\ Serving /\ mon.pc = "mark" /\ Silent = {}
    /\ Watched /\ rstat[task.ptr] = "waiting"
    /\ mon' = [pc |-> "nudge", run |-> task.ptr]
    /\ UNCHANGED <<task, rstat, old, registered, handle, pc, monFrame>>

(* SetRunActive: conditional on a dormant status, with a new heartbeat.    *)
Activate(r) ==
    IF rstat[r] \in {"waiting", "failed", "stale"}
    THEN rstat' = [rstat EXCEPT ![r] = "running"] /\ old' = old \ {r}
    ELSE UNCHANGED <<rstat, old>>

MonitorNudged ==
    /\ Serving /\ mon.pc = "nudge"
    /\ Activate(mon.run)
    /\ mon' = Sleep
    /\ UNCHANGED <<task, registered, handle, pc, monFrame>>

(* A failed or stale orchestrator is made running and started, provided    *)
(* its model still resolves.                                               *)
MonitorRevive ==
    /\ Serving /\ mon.pc = "revive"
    /\ \/ Activate(mon.run) /\ mon' = [mon EXCEPT !.pc = "start"]
       \/ ConfigFails /\ mon' = Sleep /\ UNCHANGED <<rstat, old>>
    /\ UNCHANGED <<task, registered, handle, pc, monFrame>>

MonitorStart ==
    /\ Serving /\ mon.pc = "start"
    /\ StartLoop(mon.run)
    /\ mon' = Sleep
    /\ UNCHANGED <<task, rstat, old, monFrame>>

MonitorStep ==
    \/ MonitorTick \/ MonitorMark \/ MonitorWatch
    \/ MonitorNudged \/ MonitorRevive \/ MonitorStart

----------------------------------------------------------------------------
(* The process.                                                            *)

(* BeginDrain: the flag first, then the channel every sidecar listens to.  *)
BeginDrain ==
    /\ server = "up" /\ server' = "draining"
    /\ UNCHANGED <<dbVars, localVars, stopped>>

(* Mutation of DrainCancel: the drain is looked at only before the loop.   *)
DrainCancelEntering(l) ==
    /\ server = "draining" /\ pc[l] = "enter" /\ l \notin cancelled
    /\ cancelled' = cancelled \cup {l}
    /\ UNCHANGED <<dbVars, asker, server, registered, handle, pc, caller, mon,
                   bootList, stopped>>

(* contextWithDrain: the watcher goroutine of one loop cancels it.         *)
DrainCancel(l) ==
    /\ server = "draining" /\ pc[l] \in Body /\ l \notin cancelled
    /\ cancelled' = cancelled \cup {l}
    /\ UNCHANGED <<dbVars, asker, server, registered, handle, pc, caller, mon,
                   bootList, stopped>>

(* The process is gone; only the database is left.                         *)
ProcessGone ==
    /\ server' = "down"
    /\ asker' = (IF asker = "none" THEN "none" ELSE "working")
    /\ registered' = {} /\ cancelled' = {}
    /\ handle' = [r \in Runs |-> None]
    /\ pc' = [l \in Loops |-> "idle"]
    /\ caller' = [c \in Callers |-> Idle]
    /\ mon' = Sleep /\ bootList' = {}
    /\ UNCHANGED <<dbVars, stopped>>

(* WaitForActiveRuns returns once every loop's goroutine has ended.        *)
DrainEnds ==
    /\ server = "draining" /\ \A l \in Loops : pc[l] = "idle"
    /\ ProcessGone

(* A crash, or a drain that its timeout cut short.                         *)
Crash == Serving /\ ProcessGone

(* ListWaitingOrchestrators.  Mutation: rows that wait are not listed.     *)
ResumableRunning == {"running"}
Resumable == {"running", "waiting"}

(* main: recoverStaleRuns retires running rows silent for ten minutes,     *)
(* ResumeWaitingOrchestrators lists the live row the task points at, and   *)
(* ReconcileQueuedTasks processes the task if it is queued and unlocked.   *)
Boot ==
    /\ server = "down" /\ server' = "up"
    /\ \E retired \in SUBSET {r \in old : rstat[r] = "running"} :
         rstat' = [r \in Runs |-> IF r \in retired THEN "stale" ELSE rstat[r]]
    /\ bootList' = {r \in {task.ptr} \ {None} : rstat'[r] \in Resumable}
    /\ IF task.lock = None
          /\ task.status \in {"to-do", "in-progress", "depends-on-task"}
       THEN \E c \in Callers :
              caller' = [caller EXCEPT ![c] = [Idle EXCEPT !.pc = "begin"]]
       ELSE UNCHANGED caller
    /\ UNCHANGED <<task, old, question, asked, asker, registered, handle,
                   cancelled, pc, mon, stopped>>

BootStart(r) ==
    /\ Serving /\ r \in bootList
    /\ bootList' = bootList \ {r}
    /\ StartLoop(r) \/ (ConfigFails /\ UNCHANGED <<registered, handle, pc>>)
    /\ UNCHANGED <<dbVars, asker, server, cancelled, caller, mon, stopped>>

----------------------------------------------------------------------------
(* What nobody is obliged to do, and what the program and time do.  The    *)
(* bound on the former is the model's, not the program's.                  *)
Outside ==
    \/ Outsiders \cap {"edit", "move"} # {} /\ \E c \in Callers : ApiLoad(c)
    \/ "comment" \in Outsiders /\ \E c \in Callers : Comment(c)
    \/ "process" \in Outsiders /\ \E c \in Callers : Process(c)
    \/ "stop" \in Outsiders /\ \E r \in Runs : StopRun(r)
    \/ "ask" \in Outsiders /\ AskHuman
    \/ "drain" \in Outsiders /\ BeginDrain
    \/ "crash" \in Outsiders /\ Crash

Inside ==
    \/ \E c \in Callers : CallerStep(c)
    \/ \E l \in Loops :
         \/ LoopStep(l) \/ StartWorker(l) \/ FinishTask(l)
         \/ Heartbeat(l) \/ DrainCancel(l)
    \/ \E r \in Runs : Age(r) \/ BootStart(r)
    \/ MonitorStep \/ MonitorNudge \/ BlockForQuestion \/ SeeAnswer \/ DrainEnds \/ Boot

Next ==
    \/ Outside /\ events < MaxEvents /\ events' = events + 1
    \/ Inside /\ UNCHANGED events

Spec == Init /\ [][Next]_vars

(* Statements and registry calls complete, provider calls return, timers   *)
(* and heartbeats fire, time passes, a process that went down is started   *)
(* again.  Nothing obliges a user, a worker or a crash.                    *)
Fairness ==
    /\ \A c \in Callers : WF_vars(CallerStep(c) /\ UNCHANGED events)
    /\ \A l \in Loops : /\ WF_vars(LoopStep(l) /\ UNCHANGED events)
                       /\ WF_vars(Heartbeat(l) /\ UNCHANGED events)
                       /\ WF_vars(DrainCancel(l) /\ UNCHANGED events)
    /\ \A r \in Runs : /\ WF_vars(Age(r) /\ UNCHANGED events)
                      /\ WF_vars(BootStart(r) /\ UNCHANGED events)
    /\ WF_vars(MonitorStep /\ UNCHANGED events)
    /\ WF_vars(BlockForQuestion /\ UNCHANGED events)
    /\ WF_vars(SeeAnswer /\ UNCHANGED events)
    /\ WF_vars(DrainEnds /\ UNCHANGED events)
    /\ WF_vars(Boot /\ UNCHANGED events)

FairSpec == Spec /\ Fairness

----------------------------------------------------------------------------
(* Properties.                                                             *)

(* However a row is started (by the caller that created it, by the boot    *)
(* scan, by the watchdog after a failure) it never has two loops.          *)
OneLoopPerRow ==
    \A r \in Runs : \A s, t \in Slots :
        pc[<<r, s>>] \in Body /\ pc[<<r, t>>] \in Body => s = t

(* A row ends canceled only if a user asked to stop it: a graceful restart *)
(* that interrupts a loop never leaves a terminal cancellation behind.     *)
NoSpuriousCancel ==
    \A r \in Runs : rstat[r] = "canceled" => r \in stopped

(* While the process drains, an interrupted loop leaves its row as it was  *)
(* or waiting, which the next boot resumes, unless the task itself left    *)
(* in-progress.                                                            *)
DrainKeepsRowsResumable ==
    [][\A l \in Loops :
         server = "draining" /\ l \in cancelled /\ pc'[l] # pc[l]
           => rstat'[l[1]] \in {rstat[l[1]], "waiting"}]_vars

(* The loops of a draining process all end, so that the process leaves     *)
(* without the timeout of WaitForActiveRuns.                               *)
DrainSettles == server = "draining" ~> server = "down"

(* A task in progress is not stranded with a row that says running, stale  *)
(* or failed and no loop: boot, the monitor or the watchdog starts it      *)
(* again.  A user who stopped the row wants it left alone.                 *)
Stranded(r, statuses) ==
    /\ server = "up" /\ task.status = "in-progress" /\ ~question
    /\ task.ptr = r /\ r \notin stopped
    /\ rstat[r] \in statuses
    /\ ~InBody(r)
NeverStranded ==
    \A r \in Runs : []<>~Stranded(r, {"running", "stale", "failed"})

(* A row whose loop was lost with the process, drained or killed, has a    *)
(* loop again after the next start, unless by then a user or a worker has  *)
(* taken the task out of progress or another row has taken its place.      *)
Lost(r) ==
    /\ server = "down" /\ task.status = "in-progress" /\ task.ptr = r
    /\ rstat[r] \in {"running", "waiting"}
RestartResumes ==
    \A r \in Runs :
        Lost(r) ~> \/ InBody(r)
                   \/ task.status # "in-progress" \/ task.ptr # r \/ question

(* An answer frees the task even when it was handled between the question  *)
(* and the block: a task whose last question is answered is not left       *)
(* blocked while the worker that asked is there.                           *)
AnswerUnblocks ==
    (asker \in {"posted", "waiting"} /\ ~question /\ task.status = "blocked")
        ~> (task.status # "blocked" \/ server # "up")

(* A row that says running without a loop (the loser of a creation race,   *)
(* an interrupted loop) does not say so forever.                           *)
Ghost(r) ==
    /\ server = "up" /\ task.status = "in-progress"
    /\ rstat[r] = "running" /\ ~InBody(r)
NoGhostRuns == \A r \in Runs : []<>~Ghost(r)

(* ReconcileDependents says that repeated calls are safe because           *)
(* ProcessTask deduplicates runs: one task, one orchestrator loop.         *)
OneLoopPerTask ==
    \A k, l \in Loops : pc[k] \in Acting /\ pc[l] \in Acting => k = l
=============================================================================
