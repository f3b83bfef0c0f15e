------------------------------- MODULE Release ------------------------------
(***************************************************************************)
(* Self-update.  A supervisor starts the server as a child.  The child      *)
(* stages a candidate binary, writes it to the journal and exits; the       *)
(* supervisor takes a checkpoint of the database (SQLite) or a shadow copy   *)
(* of it (PostgreSQL) and starts the candidate, which migrates the          *)
(* database, binds its socket and is promoted.  One that fails is replaced  *)
(* by the build that ran before.  The journal, the migration manifest, the  *)
(* binaries and the database survive; child and supervisor may die between  *)
(* any two steps.                                                           *)
(*                                                                          *)
(* A build is also the path of its binary: 0 is the installed one, outside  *)
(* the release directory.                                                   *)
(***************************************************************************)
EXTENDS Integers, Sequences, FiniteSets

CONSTANTS
    Build,        \* 0 and the builds that can be deployed
    Mig,          \* the migrations of each build, oldest first
    Irreversible, \* migrations without a down migration
    Engines,      \* the databases explored: TRUE is PostgreSQL
    Histories,    \* TRUE: the database was adopted with a baseline marker
    Retention,    \* successfulReleaseRetention
    MaxDeploys,   \* deploys and restarts in place (a bound)
    MaxFaults,    \* crashes and startup failures (a bound)
    MaxWrites     \* writes by users (a bound)

ASSUME ReleaseAssumption ==
    /\ Build \subseteq Nat /\ 0 \in Build /\ IsFiniteSet(Build)
    /\ Retention \in Nat \ {0} /\ Engines \subseteq BOOLEAN /\ Histories \subseteq BOOLEAN
    /\ Mig \in [Build -> Seq(Nat)] /\ (TRUE \in Histories => Mig[0] # <<>>)

VARIABLES
    journal,   \* deploy/state.json
    files,     \* builds in the release directory
    db,        \* [revs, data]: the revision table, and how many writes it holds
    manifest,  \* the persisted migration manifest: a build's
    snap,      \* content of the checkpoint file, or NoDb
    shadow,    \* revisions in the shadow schema, or NoDb
    pg,        \* which database
    sup,       \* the supervisor: [pc, cur, cand]
    child,     \* the server: [pc, build, cand, pre, todo]
    upd,       \* its Updater: [dep, target, pending, restarts]
    acked,     \* history: writes acknowledged to users
    undone,    \* history: a promoted build's database was put back
    deploys, faults

releaseVars == <<journal, files, db, manifest, snap, shadow, pg, sup, child, upd,
                 acked, undone, deploys, faults>>

NoDb == [revs |-> <<>>, data |-> -1]
NoBuild == -1

NoJournal == [phase |-> "none", target |-> NoBuild, id |-> <<>>, cand |-> NoBuild, prev |-> NoBuild,
              snap |-> FALSE, schema |-> FALSE, succ |-> <<>>]

NoChild == [pc |-> "none", build |-> 0, cand |-> FALSE, pre |-> FALSE, todo |-> <<>>]
FreshUpdater == [dep |-> "no", target |-> NoBuild, pending |-> NoBuild, restarts |-> "no"]

(* A revision: its version, and the rendering of the SQL that was hashed.   *)
(* An adopted database has one marker without a hash for what it had.      *)
Rev(v, h) == [v |-> v, h |-> h]

ReleaseInit ==
    /\ journal = NoJournal /\ files = {} /\ manifest = NoBuild
    /\ \E l \in Histories :
        db = [revs |-> IF l THEN <<Rev(Mig[0][Len(Mig[0])], "baseline")>> ELSE <<>>, data |-> 0]
    /\ snap = NoDb /\ shadow = NoDb /\ pg \in Engines
    /\ sup = [pc |-> "down", cur |-> 0, cand |-> FALSE]
    /\ child = NoChild /\ upd = FreshUpdater
    /\ acked = 0 /\ undone = FALSE /\ deploys = 0 /\ faults = 0

Fault == faults < MaxFaults /\ faults' = faults + 1
CandidatePhase == journal.phase \in {"staged", "migrating", "starting"}
OnDisk(b) == b = 0 \/ b \in files
Serving == child.pc = "serving"

----------------------------------------------------------------------------
(* Migrations.                                                             *)

(* Where build b stands in the revisions: how many of them are its own, and *)
(* how many of its migrations they stand for.  A baseline marker stands for *)
(* everything up to its version.                                           *)
Baseline(revs, b) ==
    IF revs # <<>> /\ revs[1].h = "baseline" /\ \E i \in DOMAIN Mig[b] : Mig[b][i] = revs[1].v
    THEN [revs |-> 1, own |-> CHOOSE i \in DOMAIN Mig[b] : Mig[b][i] = revs[1].v]
    ELSE [revs |-> 0, own |-> 0]

SameVersion(revs, b, n) ==
    LET base == Baseline(revs, b) IN
    /\ base.revs + n <= Len(revs) /\ base.own + n <= Len(Mig[b])
    /\ \A i \in 1..n : revs[base.revs + i].v = Mig[b][base.own + i]

(* The common prefix.                                                      *)
Common(revs, b) ==
    CHOOSE n \in 0..Len(revs) : SameVersion(revs, b, n) /\ ~SameVersion(revs, b, n + 1)

(* HistoryMismatchError: same version, another hash.  A build that runs on  *)
(* the shadow schema hashes its SQL as rendered for it.                    *)
Mismatch(revs, b, render) ==
    \E i \in 1..Common(revs, b) : revs[Baseline(revs, b).revs + i].h # render

Contains(b, v) == b # NoBuild /\ \E i \in DOMAIN Mig[b] : Mig[b][i] = v

(* What is beyond the prefix, last first.                                  *)
Beyond(revs, b) ==
    LET k == Baseline(revs, b).revs + Common(revs, b)
        n == Len(revs) - k
    IN  [i \in 1..n |-> revs[Len(revs) + 1 - i].v]

(* PlanReconciliation: what to roll back, when its down migrations are in    *)
(* either manifest.                                                        *)
CanPlan(revs, b, other, render) ==
    /\ ~Mismatch(revs, b, render)
    /\ \A i \in DOMAIN Beyond(revs, b) :
        LET v == Beyond(revs, b)[i] IN (Contains(b, v) \/ Contains(other, v)) /\ v \notin Irreversible

(* What is left to apply once the rollback is done.                        *)
Pending(revs, b) == Baseline(revs, b).own + Common(revs, b) < Len(Mig[b])
NextUp(revs, b) == Mig[b][Baseline(revs, b).own + Common(revs, b) + 1]

----------------------------------------------------------------------------
(* The journal.                                                            *)

(* appendSuccessfulRelease.                                                *)
Appended(succ, id, path) ==
    LET at == {i \in DOMAIN succ : succ[i].id = id}
        all == IF at = {} THEN Append(succ, [id |-> id, path |-> path])
               ELSE [succ EXCEPT ![CHOOSE i \in at : TRUE] = [id |-> id, path |-> path]]
    IN  IF Len(all) > Retention THEN SubSeq(all, Len(all) + 1 - Retention, Len(all)) ELSE all

Released(succ) == {succ[i].path : i \in DOMAIN succ}

(* Mutation of Kept: the fallback is not looked at.                        *)
KeptForward(j) ==
    Released(j.succ) \cup (IF j.phase \in {"staged", "migrating", "starting", "promoted"} THEN {j.cand} ELSE {})

(* pruneReleases.                                                          *)
Kept(j) ==
    Released(j.succ)
    \cup (IF j.phase \in {"staged", "migrating", "starting", "promoted"} THEN {j.cand} ELSE {})
    \cup {j.prev}

(* activeCandidate: by the commit, whatever started the process.           *)
Active(b) == CandidatePhase /\ journal.cand # NoBuild /\ journal.target = b

(* The journal is synced beside the old one and renamed over it: after a     *)
(* crash it is the old one or the new one, whole.                          *)
SaveState(j) == journal' = j

(* A release is known by its commit and a digest.                          *)
deploymentID(b, digest) == <<b, digest>>

Mark(phase) ==
    IF Active(child.build) THEN SaveState([journal EXCEPT !.phase = phase]) ELSE UNCHANGED journal

(* The candidate is the newest release, and older ones are pruned.         *)
MarkPromoted ==
    IF Active(child.build)
    THEN /\ SaveState([journal EXCEPT !.phase = "promoted", !.succ = Appended(@, journal.id, journal.cand)])
         /\ files' = files \cap Kept(journal')
    ELSE UNCHANGED <<journal, files>>

(* Both look at the target, not at the phase: a restart of the build that    *)
(* was promoted fails under its own old entry.                             *)
Targeted == journal.cand # NoBuild /\ journal.target = child.build
RecordStartupFailure ==
    IF Targeted THEN SaveState([journal EXCEPT !.phase = "failed"]) ELSE UNCHANGED journal
MarkNeedsManualRecovery ==
    IF Targeted THEN SaveState([journal EXCEPT !.phase = "needs_manual_recovery"]) ELSE UNCHANGED journal

----------------------------------------------------------------------------
(* The child: boot.                                                        *)

At(pc) == child.pc = pc /\ sup.pc = "wait"
Goto(pc) == child' = [child EXCEPT !.pc = pc]
rest == <<pg, sup, upd, acked, undone, deploys>>

(* NewWithBasePath.                                                        *)
Boot ==
    /\ At("boot") /\ Goto("mark")
    /\ files' = IF journal.phase = "none" THEN files ELSE files \cap Kept(journal)
    /\ UNCHANGED <<journal, db, manifest, snap, shadow, faults, rest>>

MarkMigrating ==
    /\ At("mark") /\ Goto("plan")
    /\ Mark("migrating")
    /\ UNCHANGED <<files, db, manifest, snap, shadow, faults, rest>>

(* The database the child works on, and the manifest kept for it.          *)
Own == IF child.pre THEN shadow ELSE db
Render == IF child.pre THEN "shadow" ELSE "public"
OwnManifest == IF child.pre THEN NoBuild ELSE manifest
SetRevs(r) ==
    IF child.pre THEN shadow' = [shadow EXCEPT !.revs = r] /\ UNCHANGED db
                 ELSE db' = [db EXCEPT !.revs = r] /\ UNCHANGED shadow

Plan ==
    /\ At("plan")
    /\ child' = IF CanPlan(Own.revs, child.build, OwnManifest, Render)
                THEN [child EXCEPT !.pc = "down", !.todo = Beyond(Own.revs, child.build)]
                ELSE [child EXCEPT !.pc = "failed"]
    /\ UNCHANGED <<journal, files, db, manifest, snap, shadow, faults, rest>>

(* Mutation of Down: after a rollback nothing is applied.                  *)
DownOnly ==
    /\ At("down")
    /\ IF child.todo = <<>> THEN Goto("up") /\ UNCHANGED <<db, shadow>>
       ELSE /\ child' = [child EXCEPT !.todo = Tail(@), !.pc = IF Len(child.todo) = 1 THEN "starting" ELSE "down"]
            /\ SetRevs(SubSeq(Own.revs, 1, Len(Own.revs) - 1))
    /\ UNCHANGED <<journal, files, manifest, snap, faults, rest>>

(* ApplyDown: one transaction for each migration.                          *)
Down ==
    /\ At("down")
    /\ IF child.todo = <<>> THEN Goto("up") /\ UNCHANGED <<db, shadow>>
       ELSE /\ child' = [child EXCEPT !.todo = Tail(@)]
            /\ SetRevs(SubSeq(Own.revs, 1, Len(Own.revs) - 1))
    /\ UNCHANGED <<journal, files, manifest, snap, faults, rest>>

(* executeFileTransaction, for each pending migration; then the manifest.  *)
Up ==
    /\ At("up")
    /\ IF Pending(Own.revs, child.build)
       THEN /\ SetRevs(Append(Own.revs, Rev(NextUp(Own.revs, child.build), Render)))
            /\ UNCHANGED <<child, manifest>>
       ELSE /\ manifest' = IF child.pre THEN manifest ELSE child.build
            /\ Goto("starting") /\ UNCHANGED <<db, shadow>>
    /\ UNCHANGED <<journal, files, snap, faults, rest>>

MarkStarting ==
    /\ At("starting") /\ Goto("listen")
    /\ Mark("starting")
    /\ UNCHANGED <<files, db, manifest, snap, shadow, faults, rest>>

(* The socket is bound: MarkPromoted, and then the preflight is over or the *)
(* server serves.                                                          *)
Listen ==
    /\ At("listen") /\ MarkPromoted
    /\ Goto(IF child.pre THEN "exit76" ELSE "serving")
    /\ UNCHANGED <<db, manifest, snap, shadow, faults, rest>>

(* A step of the boot fails: a migration, the journal, the port.           *)
StartupFails ==
    /\ Fault /\ sup.pc = "wait" /\ child.pc \in {"mark", "plan", "down", "up", "starting", "listen"}
    /\ Goto("failed")
    /\ UNCHANGED <<journal, files, db, manifest, snap, shadow, rest>>

(* handleStartupFailure: the migrations go back to the persisted manifest   *)
(* (not forward to what it has more), and the journal says failed or, when  *)
(* that cannot be done, needs_manual_recovery.                             *)
RolledBack(revs) == SubSeq(revs, 1, Len(revs) - Len(Beyond(revs, OwnManifest)))
StartupFailure ==
    LET roll == OwnManifest # NoBuild
        ok == roll => CanPlan(Own.revs, OwnManifest, child.build, Render)
    IN  /\ At("failed")
        /\ IF roll /\ ok THEN SetRevs(RolledBack(Own.revs)) ELSE UNCHANGED <<db, shadow>>
        /\ IF ok THEN RecordStartupFailure ELSE MarkNeedsManualRecovery
        /\ child' = IF ~Targeted \/ journal.prev = NoBuild \/ child.cand \/ ~OnDisk(journal.prev)
                    THEN [child EXCEPT !.pc = "exit1"]
                    ELSE [NoChild EXCEPT !.pc = "boot", !.build = journal.prev]
        /\ UNCHANGED <<files, manifest, snap, faults, rest>>

----------------------------------------------------------------------------
(* The child: serving.                                                     *)

Write ==
    /\ Serving /\ db.data < MaxWrites
    /\ db' = [db EXCEPT !.data = @ + 1] /\ acked' = acked + 1
    /\ UNCHANGED <<journal, files, manifest, snap, shadow, pg, sup, child, upd, undone, deploys, faults>>

updFrame == <<db, manifest, snap, shadow, pg, sup, acked, undone, faults>>

(* The webhook, for another build: Deploy begins, unless one is under way.  *)
DeployBegins(b) ==
    /\ Serving /\ b # child.build /\ b # 0 /\ upd.dep = "no" /\ deploys < MaxDeploys
    /\ upd' = [upd EXCEPT !.dep = "fetching", !.target = b] /\ deploys' = deploys + 1
    /\ UNCHANGED <<journal, files, child, updFrame>>

(* Download, digest, rename: or it fails.                                  *)
DeployFails ==
    /\ Serving /\ upd.dep = "fetching" /\ upd' = [upd EXCEPT !.dep = "no"]
    /\ UNCHANGED <<journal, files, child, deploys, updFrame>>

(* Mutation of DeploySaves: the new journal entry inherits the old one's     *)
(* checkpoint.                                                             *)
DeploySavesOver ==
    LET b == upd.target IN
    /\ Serving /\ upd.dep = "fetching" /\ upd' = [upd EXCEPT !.dep = "saved"]
    /\ files' = files \cup {b}
    /\ journal' = [journal EXCEPT !.phase = "staged", !.target = b, !.id = deploymentID(b, "deploy"),
          !.cand = b, !.prev = child.build]
    /\ UNCHANGED <<child, deploys, updFrame>>

(* The verified binary is in its place: the journal is written anew.       *)
DeploySaves ==
    LET b == upd.target IN
    /\ Serving /\ upd.dep = "fetching" /\ upd' = [upd EXCEPT !.dep = "saved"]
    /\ files' = files \cup {b}
    /\ SaveState([NoJournal EXCEPT !.phase = "staged", !.target = b, !.id = deploymentID(b, "deploy"),
          !.cand = b, !.prev = child.build,
          !.succ = IF journal.phase = "promoted" THEN Appended(journal.succ, journal.id, journal.cand)
                   ELSE journal.succ])
    /\ UNCHANGED <<child, deploys, updFrame>>

DeployArms ==
    /\ Serving /\ upd.dep = "saved"
    /\ upd' = [upd EXCEPT !.dep = "armed", !.pending = upd.target]
    /\ UNCHANGED <<journal, files, child, deploys, updFrame>>

(* RestartInPlace, for delivered configuration: armed, then journaled.     *)
RestartArms ==
    /\ Serving /\ upd.pending = NoBuild /\ deploys < MaxDeploys
    /\ upd' = [upd EXCEPT !.pending = child.build, !.restarts = "armed"] /\ deploys' = deploys + 1
    /\ UNCHANGED <<journal, files, child, updFrame>>

RestartSaves ==
    LET b == child.build IN
    /\ Serving /\ upd.restarts = "armed" /\ upd' = [upd EXCEPT !.restarts = "saved"]
    /\ SaveState([NoJournal EXCEPT !.phase = "staged", !.target = b, !.id = deploymentID(b, "restart"),
          !.cand = b, !.prev = b, !.succ = journal.succ])
    /\ UNCHANGED <<files, child, deploys, updFrame>>

(* SIGTERM, of the updater or of the supervisor's own: drained, the child   *)
(* leaves with the code that asks for the hand-over, or with none.         *)
Shutdown ==
    /\ Serving
    /\ upd.dep = "armed" \/ upd.restarts = "saved"
    /\ Goto("exit75")
    /\ UNCHANGED <<journal, files, upd, deploys, updFrame>>

Stop ==
    /\ Serving /\ Fault
    /\ Goto(IF upd.pending # NoBuild THEN "exit75" ELSE "exit0")
    /\ UNCHANGED <<journal, files, upd, deploys, db, manifest, snap, shadow, pg, sup, acked, undone>>

(* The child dies, at any point.                                           *)
Crash ==
    /\ Fault /\ sup.pc = "wait" /\ child.pc \notin {"none", "exit0", "exit1", "exit75", "exit76"}
    /\ Goto("exit1")
    /\ UNCHANGED <<journal, files, db, manifest, snap, shadow, rest>>

----------------------------------------------------------------------------
(* The supervisor.                                                         *)

supFrame == <<pg, acked, deploys>>

(* RunSupervisor is started, by hand or by the process manager.            *)
Start ==
    /\ sup.pc = "down" /\ sup' = [pc |-> "choose", cur |-> 0, cand |-> FALSE]
    /\ UNCHANGED <<journal, files, db, manifest, snap, shadow, child, upd, undone, faults, supFrame>>

(* The next child: the journaled candidate, or what ran before.            *)
Choose ==
    /\ sup.pc = "choose"
    /\ LET c == CandidatePhase /\ journal.cand # NoBuild /\ OnDisk(journal.cand)
           b == IF c THEN journal.cand ELSE sup.cur
       IN  IF OnDisk(b)
           THEN /\ sup' = [pc |-> "wait", cur |-> b, cand |-> c]
                /\ child' = [NoChild EXCEPT !.pc = "boot", !.build = b, !.cand = c, !.pre = c /\ journal.schema]
                /\ upd' = FreshUpdater
           ELSE sup' = [sup EXCEPT !.pc = "down"] /\ UNCHANGED <<child, upd>>
    /\ UNCHANGED <<journal, files, db, manifest, snap, shadow, undone, faults, supFrame>>

Exited(code) == sup.pc = "wait" /\ child.pc = code /\ child' = NoChild

(* A clean exit ends the supervisor.                                       *)
Leave ==
    /\ Exited("exit0") /\ sup' = [sup EXCEPT !.pc = "down"]
    /\ UNCHANGED <<journal, files, db, manifest, snap, shadow, upd, undone, faults, supFrame>>

(* The preflight passed: the shadow goes and the candidate is started for   *)
(* good.                                                                   *)
PreflightPassed ==
    /\ Exited("exit76")
    /\ shadow' = NoDb /\ SaveState([journal EXCEPT !.schema = FALSE, !.phase = "staged"])
    /\ sup' = [sup EXCEPT !.pc = "choose"]
    /\ UNCHANGED <<files, db, manifest, snap, upd, undone, faults, supFrame>>

(* VACUUM INTO a file beside it, renamed over the last checkpoint.         *)
CreateSQLiteSnapshot == snap' = db

(* An update was asked for: the checkpoint or the shadow copy, once.       *)
UpdateRequested ==
    /\ Exited("exit75")
    /\ IF journal.cand = NoBuild \/ ~OnDisk(journal.cand) \/ (pg /\ ~journal.schema /\ shadow # NoDb)
       THEN sup' = [sup EXCEPT !.pc = "down"] /\ UNCHANGED <<journal, snap, shadow>>
       ELSE /\ IF ~pg /\ ~journal.snap THEN CreateSQLiteSnapshot ELSE UNCHANGED snap
            /\ shadow' = IF pg /\ ~journal.schema THEN db ELSE shadow
            /\ SaveState([journal EXCEPT !.snap = @ \/ ~pg, !.schema = @ \/ pg])
            /\ sup' = [sup EXCEPT !.pc = "choose", !.cur = journal.cand]
    /\ UNCHANGED <<files, db, manifest, upd, undone, faults, supFrame>>

(* Mutation of Restored: the database is left as the candidate left it.    *)
NotRestored == db

(* RestoreSQLiteSnapshot.                                                  *)
Restored == IF journal.snap /\ snap # NoDb THEN snap ELSE db

(* Any other exit: of a candidate, the shadow is dropped or the checkpoint  *)
(* is put back, and the build before it is next; of another, the end.      *)
ChildFailed ==
    /\ Exited("exit1")
    /\ IF ~sup.cand
       THEN sup' = [sup EXCEPT !.pc = "down"] /\ UNCHANGED <<journal, db, snap, shadow, undone>>
       ELSE /\ shadow' = IF pg /\ journal.schema THEN NoDb ELSE shadow
            /\ db' = Restored
            /\ undone' = (undone \/ (journal.phase = "promoted" /\ ~pg))
            /\ snap' = IF journal.snap THEN NoDb ELSE snap
            /\ IF journal.prev # NoBuild /\ OnDisk(journal.prev)
               THEN /\ SaveState([journal EXCEPT !.phase = "failed"])
                    /\ sup' = [sup EXCEPT !.pc = "choose", !.cur = journal.prev]
               ELSE UNCHANGED journal /\ sup' = [sup EXCEPT !.pc = "down"]
    /\ UNCHANGED <<files, manifest, upd, faults, supFrame>>

(* Both die: the machine goes down.                                        *)
PowerLoss ==
    /\ Fault /\ sup.pc # "down"
    /\ sup' = [sup EXCEPT !.pc = "down"] /\ child' = NoChild
    /\ UNCHANGED <<journal, files, db, manifest, snap, shadow, upd, undone, supFrame>>

ChildStep ==
    \/ Boot \/ MarkMigrating \/ Plan \/ Down \/ Up \/ MarkStarting \/ Listen
    \/ StartupFailure \/ Shutdown
UpdateStep == DeploySaves \/ DeployArms \/ RestartSaves
SupervisorStep ==
    \/ Start \/ Choose \/ Leave \/ PreflightPassed \/ UpdateRequested \/ ChildFailed

ReleaseNext ==
    \/ ChildStep \/ UpdateStep \/ SupervisorStep
    \/ StartupFails \/ Crash \/ PowerLoss \/ Stop
    \/ Write \/ DeployFails \/ RestartArms
    \/ \E b \in Build : DeployBegins(b)

(* Processes are scheduled, and the process manager starts the supervisor.  *)
ReleaseFairness ==
    WF_releaseVars(ChildStep) /\ WF_releaseVars(UpdateStep) /\ WF_releaseVars(SupervisorStep)

ReleaseSpec == ReleaseInit /\ [][ReleaseNext]_releaseVars /\ ReleaseFairness

----------------------------------------------------------------------------
(* The journal never points to a binary that was pruned: the build that     *)
(* runs, the candidate that is next and the build to fall back to are on    *)
(* the disk, through any sequence of deploys, failures and restarts.       *)
FallbackKept ==
    /\ child.pc # "none" => OnDisk(child.build)
    /\ CandidatePhase => OnDisk(journal.cand)
    /\ sup.pc = "wait" /\ sup.cand => OnDisk(journal.prev)

(* A server that serves has the migrations of its build and no others, also *)
(* when it came back after a candidate of another branch, and when its      *)
(* candidate died in the middle of a migration.                            *)
ServesOwnSchema ==
    Serving => Beyond(db.revs, child.build) = <<>> /\ ~Pending(db.revs, child.build)

(* A candidate that fails before it is promoted costs no user a write.     *)
WritesKept == undone \/ db.data = acked

(* With SQLite, whatever candidate fails and wherever it dies, some build   *)
(* serves again (a power loss between staging and the checkpoint, with a    *)
(* crash of the candidate on top, is too much for it).                     *)
ServesAgain == pg \/ <>(faults > 1) \/ <>[]Serving
=============================================================================
