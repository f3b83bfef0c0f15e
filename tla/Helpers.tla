------------------------------- MODULE Helpers ------------------------------
(***************************************************************************)
(* Helper workers: one-shot child runs that a session, or the orchestrator, *)
(* starts next to its own work, at most MaxActive at a time.  The limit and *)
(* the check that a parent leaves no helper behind both read the rows of    *)
(* its children; a restart takes helpers and parents out of "running" and   *)
(* back.                                                                    *)
(***************************************************************************)
EXTENDS Naturals, FiniteSets

CONSTANTS Helper, MaxActive

ASSUME HelpersAssumption == MaxActive \in Nat \ {0} /\ IsFiniteSet(Helper)

VARIABLES
    hst,       \* status of each helper's row
    pst,       \* status of the parent's row
    told,      \* helpers whose worker_finished row is in the parent's inbox
    revived    \* history: helpers that a restart had paused

helperVars == <<hst, pst, told, revived>>

HelperInit ==
    /\ hst = [h \in Helper |-> "absent"] /\ pst = "running"
    /\ told = {} /\ revived = {}

(* The children the limit and finish_task count.                           *)
Active == {h \in Helper : hst[h] \in {"running", "waiting"}}

CanRun == Cardinality(Active) < MaxActive

(* run_worker, or run_new_session for "worker": the row is created running. *)
RunWorker(h) ==
    /\ pst = "running" /\ hst[h] = "absent" /\ CanRun
    /\ hst' = [hst EXCEPT ![h] = "running"]
    /\ UNCHANGED <<pst, told, revived>>

(* prepareWorkerEnvironment or the model fails, or the helper ends without  *)
(* finish_work.                                                            *)
HelperFails(h) ==
    /\ hst[h] \in {"running", "waiting"}
    /\ hst' = [hst EXCEPT ![h] = "failed"]
    /\ UNCHANGED <<pst, told, revived>>

(* finish_work: the result, then a worker_finished row with one key per     *)
(* run; the row ends when the loop returns.                                *)
FinishWork(h) ==
    /\ hst[h] = "running"
    /\ told' = told \cup {h}
    /\ UNCHANGED <<hst, pst, revived>>

HelperEnds(h) ==
    /\ hst[h] = "running" /\ h \in told
    /\ hst' = [hst EXCEPT ![h] = "completed"]
    /\ UNCHANGED <<pst, told, revived>>

(* A resumed helper has an ordinary session's tools and may ask; waits and  *)
(* is answered.                                                            *)
HelperWaits(h) ==
    /\ h \in revived
    /\ \/ hst[h] = "running" /\ hst' = [hst EXCEPT ![h] = "waiting"]
       \/ hst[h] = "waiting" /\ hst' = [hst EXCEPT ![h] = "running"]
    /\ UNCHANGED <<pst, told, revived>>

(* stop_worker: of the parent's own children, and not of one that is over.  *)
StopWorker(h) ==
    /\ pst = "running" /\ hst[h] \notin {"absent", "completed", "failed", "canceled"}
    /\ hst' = [hst EXCEPT ![h] = "canceled"]
    /\ UNCHANGED <<pst, told, revived>>

(* Mutation of FinishTask: no look at the children.                        *)
FinishTaskUnchecked ==
    /\ pst = "running"
    /\ pst' = "completed"
    /\ UNCHANGED <<hst, told, revived>>

(* finish_task of the parent: refused while a child is active.             *)
FinishTask ==
    /\ pst = "running" /\ Active = {}
    /\ pst' = "completed"
    /\ UNCHANGED <<hst, told, revived>>

(* An update pauses sessions at a turn boundary and resumes them one by     *)
(* one, in any order (see Sessions).                                       *)
PauseHelper(h) ==
    /\ hst[h] = "running"
    /\ hst' = [hst EXCEPT ![h] = "paused"] /\ revived' = revived \cup {h}
    /\ UNCHANGED <<pst, told>>

ResumeHelper(h) ==
    /\ hst[h] = "paused"
    /\ hst' = [hst EXCEPT ![h] = "running"]
    /\ UNCHANGED <<pst, told, revived>>

PauseParent ==
    /\ \/ pst = "running" /\ pst' = "paused"
       \/ pst = "paused" /\ pst' = "running"
    /\ UNCHANGED <<hst, told, revived>>

HelperNext ==
    \/ \E h \in Helper :
        \/ RunWorker(h) \/ HelperFails(h) \/ FinishWork(h) \/ HelperEnds(h)
        \/ HelperWaits(h) \/ StopWorker(h) \/ PauseHelper(h) \/ ResumeHelper(h)
    \/ FinishTask \/ PauseParent

HelperSpec == HelperInit /\ [][HelperNext]_helperVars

----------------------------------------------------------------------------
(* A parent that finished left no helper at work, but for one that was      *)
(* paused when it finished: the check does not count paused rows.          *)
NoHelperLeftBehind == pst = "completed" => Active \subseteq revived
=============================================================================
