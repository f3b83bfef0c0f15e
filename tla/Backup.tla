------------------------------- MODULE Backup -------------------------------
(***************************************************************************)
(* The operator's backup of the whole database and its restore, next to a    *)
(* server that goes on working.  A backup reads one table after another, no  *)
(* transaction around them, into an archive whose name is the second it was  *)
(* begun in.  A restore empties the tables and inserts the archived rows,    *)
(* parents first and by id, and goes on after a row the database refuses;   *)
(* no transaction is around them either.                                   *)
(*                                                                          *)
(* Sprints stand for what tasks refer to (projects, agents and companies    *)
(* too), runs for what refers to tasks.                                     *)
(***************************************************************************)
EXTENDS Naturals, Sequences, FiniteSets

CONSTANTS
    Backups,      \* concurrent backups: the scheduler's, an operator's request
    Keep,         \* archives that cleanupOldBackups leaves
    MaxOps,       \* changes to the board and backups begun (a bound)
    MaxSeconds,   \* (a bound)
    MaxFailures   \* backups that fail (a bound)

(* A clean-up leaves more archives than were cut off or may be underway      *)
(* next to the one that was just finished.                                  *)
ASSUME KeepAssumption ==
    /\ IsFiniteSet(Backups) /\ Keep \in Nat /\ MaxFailures \in Nat
    /\ Cardinality(Backups) + MaxFailures <= Keep

VARIABLES
    board,     \* [sprints, tasks, runs]: the database
    writes,    \* how many changes there were
    job,       \* of each backup: [pc, name, got, from]
    store,     \* the archives: a set of [name, whole, got, was, quiet]
    begun, second, failures,
    reported,  \* history: a backup was reported to have been made
    clash,     \* history: two backups took the same name
    restore    \* [pc, arch, from, todo]: todo are the tasks not inserted yet

backupVars == <<board, writes, job, store, begun, second, failures, reported, clash, restore>>

Empty == [sprints |-> {}, tasks |-> {}, runs |-> {}]
Idle == [pc |-> "idle", name |-> <<>>, got |-> Empty, was |-> Empty, from |-> 0]
NoRestore == [pc |-> "idle", arch |-> [name |-> <<>>, whole |-> FALSE, got |-> Empty, was |-> Empty, quiet |-> FALSE],
              from |-> 0, todo |-> {}]

BackupInit ==
    /\ board = [Empty EXCEPT !.sprints = {1}] /\ writes = 0
    /\ job = [b \in Backups |-> Idle] /\ store = {} /\ begun = 0 /\ second = 0 /\ failures = 0
    /\ reported = FALSE /\ clash = FALSE /\ restore = NoRestore

RowIds(R) == {r.id : r \in R}
Next1(R) == 1 + Cardinality(R)
Change == writes + begun < MaxOps /\ writes' = writes + 1
changeFrame == <<job, store, begun, second, failures, reported, clash, restore>>

----------------------------------------------------------------------------
(* The server at work (foreign keys are enforced).                         *)
NewSprint ==
    /\ Change /\ board' = [board EXCEPT !.sprints = @ \cup {1 + Cardinality(@)}]
    /\ UNCHANGED changeFrame

NewTask(s) ==
    LET id == Next1(board.tasks) IN
    /\ Change /\ s \in board.sprints /\ id \notin RowIds(board.tasks)
    /\ board' = [board EXCEPT !.tasks = @ \cup {[id |-> id, sprint |-> s, par |-> 0]}]
    /\ UNCHANGED changeFrame

(* UpdateTask, to another sprint or under another task.                    *)
MoveTask(t, s, p) ==
    /\ Change /\ s \in board.sprints /\ p \in {0} \cup (RowIds(board.tasks) \ {t.id})
    /\ <<s, p>> # <<t.sprint, t.par>>
    /\ board' = [board EXCEPT !.tasks = (@ \ {t}) \cup {[t EXCEPT !.sprint = s, !.par = p]}]
    /\ UNCHANGED changeFrame

(* The engine starts a session, and a session pauses.                      *)
StartRun(t) ==
    LET id == Next1(board.runs) IN
    /\ Change /\ id \notin RowIds(board.runs)
    /\ board' = [board EXCEPT !.runs = @ \cup {[id |-> id, task |-> t.id, st |-> "running"]}]
    /\ UNCHANGED changeFrame

PauseRun(r) ==
    /\ Change /\ r.st = "running"
    /\ board' = [board EXCEPT !.runs = (@ \ {r}) \cup {[r EXCEPT !.st = "paused"]}]
    /\ UNCHANGED changeFrame

(* Only the names of archives tell the time.                               *)
Tick ==
    /\ begun > 0 /\ second < MaxSeconds /\ second' = second + 1
    /\ UNCHANGED <<board, writes, job, store, begun, failures, reported, clash, restore>>

----------------------------------------------------------------------------
(* CreateBackup.                                                           *)

Names == {a.name : a \in store}
jobFrame == <<board, writes, second, restore>>

(* A free name, by looking at the directory: <<second, n>>.                *)
ChooseName(b) ==
    /\ job[b].pc = "idle"
    /\ writes + begun < MaxOps /\ begun' = begun + 1
    /\ LET n == CHOOSE k \in 1..(1 + Cardinality(store)) :
                    <<second, k>> \notin Names /\ \A j \in 1..(k - 1) : <<second, j>> \in Names
       IN  job' = [job EXCEPT ![b] = [pc |-> "create", name |-> <<second, n>>, got |-> Empty, was |-> Empty, from |-> 0]]
    /\ UNCHANGED <<store, failures, reported, clash, jobFrame>>

(* os.Create: what the name stood for is gone.                             *)
CreateArchive(b) ==
    LET taken == {a \in store : a.name = job[b].name} IN
    /\ job[b].pc = "create"
    /\ clash' = (clash \/ taken # {})
    /\ store' = (store \ taken) \cup {[name |-> job[b].name, whole |-> FALSE, got |-> Empty, was |-> Empty, quiet |-> FALSE]}
    /\ job' = [job EXCEPT ![b].pc = "sprints", ![b].was = board, ![b].from = writes]
    /\ UNCHANGED <<begun, failures, reported, jobFrame>>

(* exportEntities: readTable, in this order.                               *)
ReadTable(b, t, next) ==
    /\ job[b].pc = t
    /\ job' = [job EXCEPT ![b].pc = next, ![b].got[t] = board[t]]
    /\ UNCHANGED <<store, begun, failures, reported, clash, jobFrame>>

(* Names as strings: of one second the later ones sort before the first.   *)
Before(x, y) == x[1] < y[1] \/ (x[1] = y[1] /\ (IF x[2] = 1 THEN FALSE ELSE y[2] = 1 \/ x[2] < y[2]))

(* Mutation of Cleaned: off by one.                                        *)
CleanedMore(S) == {a \in S : 1 + Cardinality({c \in S : Before(a.name, c.name)}) < Keep}

(* cleanupOldBackups.                                                      *)
Cleaned(S) == {a \in S : Cardinality({c \in S : Before(a.name, c.name)}) < Keep}

(* Written and closed; rows whose task is not there are left out.          *)
FinishBackup(b) ==
    LET g == job[b].got
        got == [g EXCEPT !.runs = {r \in @ : r.task \in RowIds(g.tasks)}]
        a == [name |-> job[b].name, whole |-> TRUE, got |-> got, was |-> job[b].was, quiet |-> job[b].from = writes]
    IN  /\ job[b].pc = "close"
        /\ store' = Cleaned({x \in store : x.name # a.name} \cup {a})
        /\ reported' = TRUE /\ job' = [job EXCEPT ![b] = Idle]
        /\ UNCHANGED <<begun, failures, clash, jobFrame>>

(* A table cannot be read, or the process dies: the file stays.            *)
FailBackup(b) ==
    /\ job[b].pc \notin {"idle", "create"} /\ failures < MaxFailures /\ failures' = failures + 1
    /\ job' = [job EXCEPT ![b] = Idle]
    /\ UNCHANGED <<store, begun, reported, clash, jobFrame>>

----------------------------------------------------------------------------
(* RestoreBackup.                                                          *)

restoreFrame == <<job, store, begun, second, failures, reported, clash>>

(* The archive is extracted: one that was cut off cannot be.               *)
BeginRestore(a) ==
    /\ restore.pc = "idle" /\ a.whole
    /\ restore' = [pc |-> "wipe", arch |-> a, from |-> writes, todo |-> {}]
    /\ UNCHANGED <<board, writes, restoreFrame>>

(* The tables, children first.                                             *)
Wipe ==
    /\ restore.pc = "wipe" /\ board' = Empty /\ restore' = [restore EXCEPT !.pc = "sprints"]
    /\ UNCHANGED <<writes, restoreFrame>>

InsertSprints ==
    /\ restore.pc = "sprints"
    /\ board' = [board EXCEPT !.sprints = @ \cup restore.arch.got.sprints]
    /\ restore' = [restore EXCEPT !.pc = "tasks", !.todo = restore.arch.got.tasks]
    /\ UNCHANGED <<writes, restoreFrame>>

(* A row is refused when its id is taken or what it refers to is not there. *)
Accepted(T, t) ==
    /\ t.id \notin RowIds(T) /\ t.sprint \in board.sprints
    /\ t.par = 0 \/ t.par \in RowIds(T)

(* sortRowsByID, and the next row.                                         *)
InsertTask(t) ==
    /\ restore.pc = "tasks" /\ \A u \in restore.todo : t.id <= u.id
    /\ board' = [board EXCEPT !.tasks = IF Accepted(@, t) THEN @ \cup {t} ELSE @]
    /\ restore' = [restore EXCEPT !.todo = @ \ {t}]
    /\ UNCHANGED <<writes, restoreFrame>>

(* Mutation of Normalized: as archived.                                    *)
AsArchived(r) == r

(* normalizeRestoredRunRows.                                               *)
Normalized(r) == [r EXCEPT !.st = IF @ = "running" THEN "interrupted" ELSE @]

InsertRuns ==
    /\ restore.pc = "tasks" /\ restore.todo = {}
    /\ board' = [board EXCEPT !.runs = @ \cup
          {Normalized(r) : r \in {x \in restore.arch.got.runs : x.task \in RowIds(board.tasks) /\ x.id \notin RowIds(@)}}]
    /\ restore' = [restore EXCEPT !.pc = "done"]
    /\ UNCHANGED <<writes, restoreFrame>>

BackupNext ==
    \/ NewSprint \/ Tick \/ (\E s \in board.sprints : NewTask(s))
    \/ \E t \in board.tasks :
        \/ StartRun(t)
        \/ \E s \in board.sprints, p \in {0} \cup RowIds(board.tasks) : MoveTask(t, s, p)
    \/ \E r \in board.runs : PauseRun(r)
    \/ \E b \in Backups :
        \/ ChooseName(b) \/ CreateArchive(b) \/ FinishBackup(b) \/ FailBackup(b)
        \/ ReadTable(b, "sprints", "tasks") \/ ReadTable(b, "tasks", "runs") \/ ReadTable(b, "runs", "close")
    \/ \E a \in store : BeginRestore(a)
    \/ Wipe \/ InsertSprints \/ InsertRuns \/ \E t \in restore.todo : InsertTask(t)

BackupSpec == BackupInit /\ [][BackupNext]_backupVars

----------------------------------------------------------------------------
(* Tasks whose parents, and theirs, were all made before them; the others    *)
(* cannot be put back.                                                     *)
Rooted(S) == \A t \in S : t.par = 0 \/ \E q \in S : q.id = t.par /\ q.id < t.id
Restorable(T) == UNION {S \in SUBSET T : Rooted(S)}
Quiet == restore.arch.quiet /\ restore.from = writes

(* A restore of a backup that nobody worked beside gives the board back as  *)
(* it was when the backup began, sessions that ran at the time interrupted; *)
(* what a task refers to is there before it.                               *)
RestoreGivesBack ==
    restore.pc = "done" /\ Quiet =>
        LET was == restore.arch.was IN
        /\ board.sprints = was.sprints /\ board.tasks = Restorable(was.tasks)
        /\ \A r \in was.runs : r.task \in RowIds(board.tasks)
            => \E x \in board.runs : x.id = r.id /\ x.st = (IF r.st = "running" THEN "interrupted" ELSE r.st)

(* Once a backup was reported to have been made there is always one that     *)
(* can be restored, through the failures and clean-ups after it: fewer than *)
(* Keep archives are underway or were cut off (two backups that take the    *)
(* same name in the same instant excepted).                                *)
SomeBackupIsWhole == reported /\ ~clash => \E a \in store : a.whole
=============================================================================
