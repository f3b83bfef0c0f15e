-------------------------- MODULE TaskDependencies --------------------------
(***************************************************************************)
(* The board's hard dependencies: relations between tasks, the gate that    *)
(* keeps a queued task from running before its prerequisites are done, and  *)
(* the calls that look again when something changed.                        *)
(*                                                                          *)
(* A transaction is one step: the process has one database connection.      *)
(* ProcessTask is not a transaction: it reads the task, asks for its        *)
(* blockers, and saves the whole row it read, while other calls of it, the  *)
(* API and the agents go on.                                                *)
(***************************************************************************)
EXTENDS Naturals, FiniteSets

CONSTANTS
    Task,        \* task ids
    Unborn,      \* those that do not exist at the start
    Known,       \* the relations there are at the start
    Calls,       \* goroutines that may be inside ProcessTask at once (a bound)
    MaxEdits     \* relations, status changes and creations by others (a bound)

ASSUME BoardAssumption ==
    /\ Task \subseteq Nat \ {0} /\ IsFiniteSet(Task) /\ Unborn \subseteq Task
    /\ MaxEdits \in Nat
    /\ \A d \in Known : d[1] \in Task \ Unborn /\ d[2] \in Task \ Unborn /\ d[1] < d[2]

VARIABLES
    status,    \* of each task; "absent" when there is no row
    parent,    \* its parent, 0 for none
    deps,      \* depends_on relations <<source, target>>
    locked,    \* tasks whose run_id is set
    asked,     \* ProcessTask calls to come: <<task, forced>>
    call,      \* the calls under way: [pc, task, forced, seen]
    half,      \* tasks whose creation has not reached its relations
    edits,     \* how many edits there were
    odd        \* flips with every restart

boardVars == <<status, parent, deps, locked, asked, call, half, edits, odd>>

Idle == [pc |-> "idle", task |-> 0, forced |-> FALSE, seen |-> "absent"]
Exists(t) == t \in Task /\ status[t] # "absent"

BoardInit ==
    /\ status = [t \in Task |-> IF t \in Unborn THEN "absent" ELSE "backlog"]
    /\ parent = [t \in Task |-> 0] /\ deps = Known /\ locked = {} /\ asked = {}
    /\ call = [c \in Calls |-> Idle] /\ half = {} /\ edits = 0 /\ odd = FALSE

----------------------------------------------------------------------------
(* Queries.                                                                *)

(* What following the pairs of R once or more leads to from t: the walk and  *)
(* the search of the next two visit the least set that is closed.          *)
Reached(R, t) ==
    {u \in Task : \A S \in SUBSET Task :
        (\A d \in R : d[1] \in S \cup {t} => d[2] \in S) => u \in S}

(* taskIsAncestor(a, t).                                                   *)
Ancestors(t) == Reached({<<u, parent[u]>> : u \in {v \in Task : parent[v] # 0}}, t)

(* dependencyPathExists.                                                   *)
Reaches(t, u) == t = u \/ u \in Reached(deps, t)

Blockers(t) == {u \in Task : <<t, u>> \in deps /\ status[u] # "done"}
CanStartTask(t) == Blockers(t) = {}

(* ListDependentTasks.                                                     *)
Dependents(t) == {u \in Task : <<u, t>> \in deps}

(* Mutation of MayDepend: only the direct inverse is looked for.           *)
MayDependDirect(s, t) ==
    /\ s # t /\ Exists(s) /\ Exists(t) /\ s \notin locked
    /\ s \notin Ancestors(t) /\ t \notin Ancestors(s)
    /\ <<t, s>> \notin deps /\ <<s, t>> \notin deps

(* CreateTaskRelation's conditions.                                        *)
MayDepend(s, t) ==
    /\ s # t /\ Exists(s) /\ Exists(t) /\ s \notin locked
    /\ s \notin Ancestors(t) /\ t \notin Ancestors(s)
    /\ ~Reaches(t, s) /\ <<s, t>> \notin deps

----------------------------------------------------------------------------
(* The API.                                                                *)

Edit == edits < MaxEdits /\ edits' = edits + 1
Ask(S) == asked' = asked \cup (S \X {FALSE})

(* POST relations: the source is processed afterwards.                     *)
CreateTaskRelation(s, t) ==
    /\ Edit /\ MayDepend(s, t)
    /\ deps' = deps \cup {<<s, t>>} /\ Ask({s})
    /\ UNCHANGED <<status, parent, locked, call, half, odd>>

(* DELETE relations.                                                       *)
DeleteTaskRelation(s, t) ==
    /\ Edit /\ <<s, t>> \in deps
    /\ deps' = deps \ {<<s, t>>} /\ Ask({s})
    /\ UNCHANGED <<status, parent, locked, call, half, odd>>

(* PUT task: a status (depends-on-task is refused); when it becomes done    *)
(* its dependents are processed, and then the task itself.                 *)
UpdateTask(t, st) ==
    /\ Edit /\ Exists(t) /\ t \notin half /\ status[t] # st
    /\ status' = [status EXCEPT ![t] = st]
    /\ Ask({t} \cup IF st = "done" THEN Dependents(t) ELSE {})
    /\ UNCHANGED <<parent, deps, locked, call, half, odd>>

(* PUT task: a parent in the same company, whichever.                      *)
SetParent(t, p) ==
    /\ Edit /\ Exists(t) /\ Exists(p) /\ parent[t] # p
    /\ parent' = [parent EXCEPT ![t] = p]
    /\ UNCHANGED <<status, deps, locked, asked, call, half, odd>>

(* POST rerun.                                                             *)
Rerun(t) ==
    /\ Edit /\ Exists(t)
    /\ asked' = asked \cup {<<t, TRUE>>}
    /\ UNCHANGED <<status, parent, deps, locked, call, half, odd>>

----------------------------------------------------------------------------
(* Agents.                                                                 *)

(* create_task and create_subtask: the row first...                        *)
CreateTask(t, p, st) ==
    /\ Edit /\ status[t] = "absent" /\ (p # 0 => Exists(p) /\ st = "backlog")
    /\ status' = [status EXCEPT ![t] = st] /\ parent' = [parent EXCEPT ![t] = p]
    /\ half' = half \cup {t}
    /\ UNCHANGED <<deps, locked, asked, call, odd>>

(* ... then its relations, one of which may be refused: everything is       *)
(* taken back (a deleted task's relations go with it).  A queued task is    *)
(* processed last.                                                         *)
RelateCreated(t, T) ==
    /\ t \in half /\ half' = half \ {t}
    /\ IF \A u \in T : MayDepend(t, u)
       THEN /\ deps' = deps \cup ({t} \X T)
            /\ Ask(IF status[t] = "to-do" THEN {t} ELSE {})
            /\ UNCHANGED status
       ELSE /\ deps' = {d \in deps : t \notin {d[1], d[2]}}
            /\ status' = [status EXCEPT ![t] = "absent"]
            /\ UNCHANGED asked
    /\ UNCHANGED <<parent, locked, call, edits, odd>>

(* The run that holds the task ends it or puts it down.  The orchestrator's *)
(* finish_task does not look at the dependents; a session that owned its    *)
(* task does, after its own clean-up.                                      *)
FinishTask(t, st, reconcile) ==
    /\ t \in locked /\ status[t] = "in-progress"
    /\ status' = [status EXCEPT ![t] = st] /\ locked' = locked \ {t}
    /\ Ask(IF reconcile /\ st = "done" THEN Dependents(t) ELSE {})
    /\ UNCHANGED <<parent, deps, call, half, edits, odd>>

----------------------------------------------------------------------------
(* ProcessTask and RerunTask.                                              *)

Step(c, pc) == call' = [call EXCEPT ![c].pc = pc]

(* The task is read.  One with a live run is left alone, and so is one that *)
(* is not queued, unless a rerun is forced.                                *)
Begin(c, t, forced) ==
    /\ call[c].pc = "idle" /\ <<t, forced>> \in asked
    /\ asked' = asked \ {<<t, forced>>}
    /\ IF t \in locked \/ ~Exists(t)
          \/ (status[t] \in {"backlog", "in-review", "blocked", "done"} /\ ~(forced /\ status[t] # "backlog"))
       THEN UNCHANGED call
       ELSE call' = [call EXCEPT ![c] = [pc |-> "gate", task |-> t, forced |-> forced, seen |-> status[t]]]
    /\ UNCHANGED <<status, parent, deps, locked, half, edits, odd>>

(* CanStartTask; a task already in progress is not asked about.            *)
Gate(c) ==
    LET k == call[c] IN
    /\ k.pc = "gate"
    /\ \/ k.seen = "in-progress" /\ Step(c, "claim")
       \/ k.seen # "in-progress" /\ CanStartTask(k.task)
          /\ Step(c, IF k.seen = "depends-on-task" THEN "queue" ELSE "start")
       \/ k.seen # "in-progress" /\ ~CanStartTask(k.task)
          /\ IF k.seen = "depends-on-task" THEN call' = [call EXCEPT ![c] = Idle]
                                           ELSE Step(c, "hold")
    /\ UNCHANGED <<status, parent, deps, locked, asked, half, edits, odd>>

(* The row that was read is saved with a new status, its empty run_id       *)
(* included.  A task let out of depends-on-task is processed again.        *)
Save(c) ==
    LET k == call[c] IN
    /\ k.pc \in {"hold", "queue", "start"}
    /\ status' = [status EXCEPT ![k.task] =
            CASE k.pc = "hold"  -> "depends-on-task"
              [] k.pc = "queue" -> "to-do"
              [] k.pc = "start" -> "in-progress"]
    /\ locked' = locked \ {k.task}
    /\ call' = [call EXCEPT ![c] = IF k.pc = "start" THEN [k EXCEPT !.pc = "claim"] ELSE Idle]
    /\ asked' = asked \cup (IF k.pc = "queue" THEN {<<k.task, k.forced>>} ELSE {})
    /\ UNCHANGED <<parent, deps, half, edits, odd>>

(* run: the first to claim the task runs it.                               *)
Claim(c) ==
    /\ call[c].pc = "claim"
    /\ locked' = locked \cup {call[c].task}
    /\ call' = [call EXCEPT ![c] = Idle]
    /\ UNCHANGED <<status, parent, deps, asked, half, edits, odd>>

----------------------------------------------------------------------------
(* Mutation of Queued: waiting tasks are left out.                         *)
QueuedOnly == {t \in Task : status[t] \in {"to-do", "in-progress"}}

(* ListQueuedTasksForReconciliation.                                       *)
Queued == {t \in Task : status[t] \in {"to-do", "in-progress", "depends-on-task"}}

(* A restart: calls and runs are gone, and the queued tasks are processed.  *)
(* (What becomes of the runs is in Orchestration and Sessions.)            *)
Boot ==
    /\ locked' = {} /\ asked' = Queued \X {FALSE} /\ half' = {}
    /\ call' = [c \in Calls |-> Idle] /\ odd' = ~odd
    /\ UNCHANGED <<status, parent, deps, edits>>

CallStep(c) == Gate(c) \/ Save(c) \/ Claim(c)

BoardNext ==
    \/ \E s, t \in Task : CreateTaskRelation(s, t) \/ DeleteTaskRelation(s, t) \/ SetParent(s, t)
    \/ \E t \in Task, st \in {"to-do", "in-progress", "done"} : UpdateTask(t, st)
    \/ \E t \in Task : Rerun(t)
    \/ \E t \in Task, p \in Task \cup {0}, st \in {"backlog", "to-do"} : CreateTask(t, p, st)
    \/ \E t \in Task, T \in SUBSET Task : RelateCreated(t, T)
    \/ \E t \in Task, st \in {"done", "in-review", "blocked"}, r \in BOOLEAN : FinishTask(t, st, r)
    \/ \E c \in Calls, t \in Task, f \in BOOLEAN : Begin(c, t, f)
    \/ \E c \in Calls : CallStep(c)
    \/ Boot

(* A call that was made is scheduled and goes on.                          *)
BoardFairness ==
    /\ \A c \in Calls : WF_boardVars(CallStep(c))
    /\ \A t \in Task, f \in BOOLEAN : SF_boardVars(\E c \in Calls : Begin(c, t, f))

BoardSpec == BoardInit /\ [][BoardNext]_boardVars /\ BoardFairness

----------------------------------------------------------------------------
(* No set of relations, however added, deleted and added again next to      *)
(* changes of parent and creations, makes a task wait for itself: nobody    *)
(* would ever start it.                                                    *)
NoDependencyCycle == \A t \in Task : t \notin Reached(deps, t)

(* A task whose prerequisites are all done and stay so does not wait for    *)
(* good.                                                                   *)
Waiting(t) == status[t] = "depends-on-task" /\ CanStartTask(t)
DependentsStart == \A t \in Task : Waiting(t) ~> ~Waiting(t)

(* It is started by a restart at the latest (ReconcileQueuedTasks), however *)
(* the calls that should have seen to it raced or were never made, provided *)
(* there are restarts and the calls they make get to their end.            *)
Quiet == asked = {} /\ \A c \in Calls : call[c] = Idle
RestartStartsDependents == ([]<>odd /\ []<>~odd /\ []<>Quiet) => DependentsStart
=============================================================================
