------------------------------ MODULE MCRelease -----------------------------
(***************************************************************************)
(* What keeps an installation going: its updates and its backups, each      *)
(* explored with the other at rest: a backup reads rows, and an update       *)
(* changes the schema they are in.                                          *)
(***************************************************************************)
EXTENDS Release, Backup, TLC

VARIABLE focus

vars == <<focus, releaseVars, backupVars>>

(* Builds 1 and 2 come from two branches.                                  *)
Migrations == 0 :> <<1>> @@ 1 :> <<1, 2>> @@ 2 :> <<1, 3>>

Init ==
    /\ focus \in {"release", "backup"}
    /\ ReleaseInit /\ BackupInit
    /\ focus = "backup" => pg /\ db.revs = <<>>

MCNext ==
    /\ UNCHANGED focus
    /\ \/ focus = "release" /\ ReleaseNext
       \/ focus # "release" /\ UNCHANGED releaseVars
    /\ \/ focus = "backup" /\ BackupNext
       \/ focus # "backup" /\ UNCHANGED backupVars

Spec == Init /\ [][MCNext]_vars /\ (focus = "release" => ReleaseFairness)
=============================================================================
