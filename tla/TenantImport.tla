---------------------------- MODULE TenantImport ----------------------------
(***************************************************************************)
(* Moving a team's data between databases.  An export takes the rows and     *)
(* the uploads of one team's companies; an import gives every row a new id,  *)
(* rewrites its references, merges it into a row of the importing team that *)
(* has the same domain key, and copies the files to the places the new ids  *)
(* name.  The export may be of the same database, with changes since, and   *)
(* an archive may be imported again.                                        *)
(*                                                                          *)
(* Of the twenty tables five are kept, one of each shape: companies have a  *)
(* key that an import makes unique, tasks refer to one another, runs have a  *)
(* key within their parent (as agents, projects, sprints and the rest have), *)
(* comments have none, attachments have the path of a file.  A short name is *)
(* the sequence of the suffixes added to one and the same name.             *)
(***************************************************************************)
EXTENDS Naturals, Sequences, FiniteSets

CONSTANTS
    Team,         \* each with one user, its owner
    Shorts,       \* suffixes of the short names users give to companies, 1 for none
    Files,        \* file names that are uploaded
    MaxWork,      \* what users do besides (a bound)
    MaxImports    \* imports (a bound)

Order == <<"companies", "tasks", "runs", "comments", "attachments">>
Table == {Order[i] : i \in DOMAIN Order}

VARIABLES
    rows,      \* the database: of each table, a set of [id, key, up, par, file]
    disk,      \* uploads: a set of [task, name, data]
    archive,   \* the last export, or NoArchive
    imp,       \* the import: [pc, team, todo, rows, map, fresh]
    work, imports

tenantVars == <<rows, disk, archive, imp, work, imports>>

NoFile == [task |-> 0, name |-> 0]
NoArchive == [rows |-> [t \in Table |-> {}], disk |-> {}]
NoImport == [pc |-> "idle", team |-> CHOOSE m \in Team : TRUE, todo |-> {}, rows |-> NoArchive.rows,
             map |-> [t \in Table |-> <<>>], fresh |-> {}]

TenantInit ==
    /\ rows = [t \in Table |-> {}] /\ disk = {}
    /\ archive = NoArchive /\ imp = NoImport /\ work = 0 /\ imports = 0

Ids(R) == {r.id : r \in R}
NextId(R) == 1 + Cardinality(Ids(R))   \* rows are never removed here
Row(id, key, up, par, file) == [id |-> id, key |-> key, up |-> up, par |-> par, file |-> file]
Insert(t, key, up, par, file) ==
    rows' = [rows EXCEPT ![t] = @ \cup {Row(NextId(@), key, up, par, file)}]

Resting == imp.pc \notin {"rows", "files"}
Work == Resting /\ work < MaxWork /\ work' = work + 1 /\ imp' = NoImport

----------------------------------------------------------------------------
(* What users and agents do.  Company short names are taken as given.      *)
CreateCompany(m, n) ==
    /\ Work /\ Insert("companies", IF n = 1 THEN <<>> ELSE <<n>>, m, 0, NoFile)
    /\ UNCHANGED <<disk, archive, imports>>

(* computeTaskRefKey: from the id of the task.                             *)
CreateTask(c, p) ==
    /\ Work /\ c \in rows["companies"]
    /\ p = 0 \/ \E t \in rows["tasks"] : t.id = p /\ t.up = c.id
    /\ Insert("tasks", NextId(rows["tasks"]), c.id, p, NoFile)
    /\ UNCHANGED <<disk, archive, imports>>

(* UpdateTask with another parent of the same company.                     *)
Reparent(t, p) ==
    /\ Work /\ t \in rows["tasks"] /\ p \in rows["tasks"]
    /\ p.up = t.up /\ p.id # t.id /\ p.par = 0 /\ t.par = 0
    /\ rows' = [rows EXCEPT !["tasks"] = (@ \ {t}) \cup {[t EXCEPT !.par = p.id]}]
    /\ UNCHANGED <<disk, archive, imports>>

(* assignRunName: numbered within the task.                                *)
CreateRun(t) ==
    /\ Work /\ t \in rows["tasks"]
    /\ Insert("runs", 1 + Cardinality({r \in rows["runs"] : r.up = t.id}), t.id, 0, NoFile)
    /\ UNCHANGED <<disk, archive, imports>>

CreateComment(t) ==
    /\ Work /\ t \in rows["tasks"] /\ Insert("comments", 0, t.id, 0, NoFile)
    /\ UNCHANGED <<disk, archive, imports>>

(* UploadAttachment: the name on the disk begins with the time, in the row   *)
(* it is as given.                                                         *)
UploadAttachment(t, name) ==
    LET f == work' IN
    /\ Work /\ t \in rows["tasks"]
    /\ Insert("attachments", name, t.id, 0, [task |-> t.id, name |-> f])
    /\ disk' = disk \cup {[task |-> t.id, name |-> f, data |-> f]}
    /\ UNCHANGED <<archive, imports>>

----------------------------------------------------------------------------
(* collectTenant: the companies of the user's team and what hangs below,     *)
(* with the uploads of its tasks.                                          *)
Export(m) ==
    LET co == {c \in rows["companies"] : c.up = m}
        ta == {t \in rows["tasks"] : t.up \in Ids(co)}
        below(t) == {r \in rows[t] : r.up \in Ids(ta)}
    IN  /\ Resting /\ co # {} /\ imports = 0
        /\ archive' = [rows |-> [t \in Table |-> IF t = "companies" THEN co ELSE IF t = "tasks" THEN ta ELSE below(t)],
                       disk |-> {f \in disk : f.task \in Ids(ta)}]
        /\ UNCHANGED <<rows, disk, work, imports>> /\ imp' = NoImport

(* The archive is taken to another installation.                           *)
OtherServer ==
    /\ archive # NoArchive /\ imports = 0 /\ rows # NoArchive.rows
    /\ rows' = NoArchive.rows /\ disk' = {} /\ imp' = NoImport
    /\ UNCHANGED <<archive, work, imports>>

----------------------------------------------------------------------------
(* ImportTenant: one transaction, in which the rows go in table by table and  *)
(* by their old ids.  Nobody else writes while it is open.                  *)

BeginImport(m) ==
    /\ Resting /\ archive # NoArchive /\ imports < MaxImports /\ imports' = imports + 1
    /\ imp' = [pc |-> "rows", team |-> m, rows |-> rows, map |-> NoImport.map, fresh |-> {},
               todo |-> UNION {{<<i, r>> : r \in archive.rows[Order[i]]} : i \in DOMAIN Order}]
    /\ UNCHANGED <<rows, disk, archive, work>>

Mapped(t, id) == IF id \in DOMAIN imp.map[t] THEN imp.map[t][id] ELSE 0
Parents(t) == IF t = "tasks" THEN "companies" ELSE "tasks"
Owner(t, r) == IF t = "companies" THEN imp.team ELSE Mapped(Parents(t), r.up)

(* Mutation of Remapped: a reference into the same table is left as it is.  *)
RemappedUp(t, r) == [r EXCEPT !.up = Owner(t, r)]

(* remapFKs and reowner: through the maps so far, or to nothing.           *)
Remapped(t, r) == [r EXCEPT !.up = Owner(t, r), !.par = IF @ = 0 THEN 0 ELSE Mapped(t, @)]

(* findExisting: same key, same parent; comments never.                    *)
Existing(t, r) == IF t = "comments" THEN {} ELSE {x \in imp.rows[t] : x.key = r.key /\ x.up = r.up}

(* ensureUniqueCompanyShort.                                               *)
UniqueShort(short) ==
    LET taken == {c.key : c \in imp.rows["companies"]} IN
    IF short \notin taken THEN short
    ELSE Append(short, CHOOSE n \in 2..(2 + Cardinality(taken)) :
            Append(short, n) \notin taken /\ \A k \in 2..(n - 1) : Append(short, k) \in taken)

Turn(i, old) ==
    /\ imp.pc = "rows" /\ \A q \in imp.todo : i < q[1] \/ (i = q[1] /\ old.id <= q[2].id)
    /\ UNCHANGED <<rows, disk, archive, work, imports>>
With(f, id, x) == [k \in DOMAIN f \cup {id} |-> IF k = id THEN x ELSE f[k]]

(* resolveOrInsertRow: a comment below a task that was there is left out,    *)
(* a row with the same key is taken for this one, or this one is new.       *)
SkipComment(i, old) ==
    /\ Turn(i, old) /\ Order[i] = "comments"
    /\ Owner("comments", old) # 0 /\ <<"tasks", Owner("comments", old)>> \notin imp.fresh
    /\ imp' = [imp EXCEPT !.todo = @ \ {<<i, old>>}]

MergeRow(i, old) ==
    LET t == Order[i]  same == Existing(t, Remapped(t, old))
        x == (CHOOSE y \in same : \A z \in same : y.id <= z.id).id
    IN  /\ Turn(i, old) /\ same # {}
        /\ imp' = [imp EXCEPT !.todo = @ \ {<<i, old>>}, !.map[t] = With(@, old.id, x),
                              !.fresh = IF t = "tasks" THEN @ \ {<<t, x>>} ELSE @]

InsertRow(i, old) ==
    LET t == Order[i]  r == Remapped(t, old)  id == NextId(imp.rows[t])
        new == [r EXCEPT !.id = id, !.key = IF t = "companies" THEN UniqueShort(@) ELSE @]
    IN  /\ Turn(i, old) /\ Existing(t, r) = {}
        /\ t = "comments" => r.up = 0 \/ <<"tasks", r.up>> \in imp.fresh
        /\ imp' = [imp EXCEPT !.todo = @ \ {<<i, old>>}, !.map[t] = With(@, old.id, id),
                              !.rows[t] = @ \cup {new}, !.fresh = @ \cup {<<t, id>>}]

(* A new row's path is in the directory of the task that its task became; of *)
(* attachments merged into one row, the last one's stays.                   *)
Sources(x) ==
    {s \in archive.rows["attachments"] :
        s.id \in DOMAIN imp.map["attachments"] /\ imp.map["attachments"][s.id] = x.id /\ s.up \in DOMAIN imp.map["tasks"]}
NewPath(x) ==
    LET s == CHOOSE s \in Sources(x) : \A o \in Sources(x) : o.id <= s.id
    IN  [task |-> imp.map["tasks"][s.up], name |-> s.file.name]
RewritePath(x) ==
    IF <<"attachments", x.id>> \in imp.fresh /\ Sources(x) # {} THEN [x EXCEPT !.file = NewPath(x)] ELSE x

CommitImport ==
    /\ imp.pc = "rows" /\ imp.todo = {}
    /\ rows' = [imp.rows EXCEPT !["attachments"] = {RewritePath(x) : x \in @}]
    /\ imp' = [imp EXCEPT !.pc = "files", !.rows = NoImport.rows]
    /\ UNCHANGED <<disk, archive, work, imports>>

(* Where the uploads go, when nothing is there.                            *)
Copies ==
    LET moved == {[f EXCEPT !.task = imp.map["tasks"][f.task]] : f \in {g \in archive.disk : g.task \in DOMAIN imp.map["tasks"]}}
    IN  {f \in moved : ~\E g \in disk : g.task = f.task /\ g.name = f.name}

(* restoreFiles, after the transaction.                                    *)
RestoreFiles ==
    /\ imp.pc = "files" /\ disk' = disk \cup Copies /\ imp' = [imp EXCEPT !.pc = "done"]
    /\ UNCHANGED <<rows, archive, work, imports>>

(* The process dies, in the transaction or before the files.               *)
ImportDies ==
    /\ ~Resting /\ imp' = NoImport /\ UNCHANGED <<rows, disk, archive, work, imports>>

TenantNext ==
    \/ \E m \in Team : Export(m) \/ BeginImport(m) \/ \E n \in Shorts : CreateCompany(m, n)
    \/ \E c \in rows["companies"], p \in {0} \cup Ids(rows["tasks"]) : CreateTask(c, p)
    \/ \E t \in rows["tasks"] :
        \/ \E p \in rows["tasks"] : Reparent(t, p)
        \/ \E f \in Files : UploadAttachment(t, f)
        \/ CreateRun(t) \/ CreateComment(t)
    \/ \E q \in imp.todo : SkipComment(q[1], q[2]) \/ MergeRow(q[1], q[2]) \/ InsertRow(q[1], q[2])
    \/ OtherServer \/ CommitImport \/ RestoreFiles \/ ImportDies

TenantSpec == TenantInit /\ [][TenantNext]_tenantVars

----------------------------------------------------------------------------
Image(t, r) == IF r.id \in DOMAIN imp.map[t] THEN {x \in rows[t] : x.id = imp.map[t][r.id]} ELSE {}
UpImage(t, r) == IF t = "companies" THEN imp.team ELSE imp.map[Parents(t)][r.up]

(* An import keeps the shape of what was exported.  Every archived row has  *)
(* its row in the importing team (a comment only below a task that is new), *)
(* below the row of its parent and with its key, but for the name of a new   *)
(* company; a new task hangs under the task its parent became, unless the   *)
(* parent is the younger of the two.  Once the files are copied, what was    *)
(* uploaded is where the paths of new attachments say.                     *)
RowsFollow ==
    \A t \in Table : \A r \in archive.rows[t] :
        /\ t = "comments" \/ Image(t, r) # {}
        /\ \A x \in Image(t, r) :
            /\ x.up = UpImage(t, r)
            /\ x.key = r.key \/ (t = "companies" /\ <<t, x.id>> \in imp.fresh)
            /\ t = "tasks" /\ <<t, x.id>> \in imp.fresh /\ r.par # 0 /\ r.par < r.id => x.par = imp.map[t][r.par]
PathsFollow ==
    \A r \in archive.rows["attachments"] :
        LET x == imp.map["attachments"][r.id] IN
        <<"attachments", x>> \in imp.fresh
            => \E s \in archive.rows["attachments"] : \E y \in Image("attachments", s) :
                    y.id = x /\ y.file = [task |-> UpImage("attachments", r), name |-> s.file.name]
FilesFollow ==
    \A r \in archive.rows["attachments"] :
        <<"attachments", imp.map["attachments"][r.id]>> \in imp.fresh
            => \E f \in disk : f.task = UpImage("attachments", r) /\ f.name = r.file.name /\ f.data = r.file.name

(* The rows after the transaction, the files once they are copied.         *)
ImportFaithful ==
    /\ imp.pc = "files" => RowsFollow
    /\ imp.pc = "done" => PathsFollow /\ FilesFollow
=============================================================================
