------------------------------ MODULE Sessions ------------------------------
(***************************************************************************)
(* The worker sessions of one task: rows of the runs table, the goroutines *)
(* in executeSession that work on them, and everything that puts a session *)
(* down and takes it up again:                                             *)
(*                                                                         *)
(*   - a drain, or a question to a human, pauses a session at the boundary *)
(*     between a model turn and its tools;                                 *)
(*   - the boot scan resumes what a drain paused, HandleHumanReply what a  *)
(*     question paused, both through the lease of ClaimRunForResume;       *)
(*   - a stop cancels a session through the registry of cancel funcs;      *)
(*   - the liveness monitor retires rows whose goroutine is gone.          *)
(*                                                                         *)
(* Rows and comments survive a crash; goroutines and the registry do not.  *)
(* A step is one database statement, read-and-conditional-update included, *)
(* or one registry call.  Sessions of an orchestrated task never touch the *)
(* task lock (SkipTaskLock), so the lock is not here.                      *)
(***************************************************************************)
EXTENDS Naturals

CONSTANTS
    Sess,       \* session rows of the task (a bound on creations)
    Asker,      \* the one whose agent may ask the human
    Slots,      \* goroutines one row may have at once, dying ones included
    Repliers,   \* human comments being handled at once
    Outsiders,  \* what may happen from outside in this instance
    MaxEvents,  \* and how many such things (both bounds of the model)
    None

ASSUME AskerAssumption == Asker \in Sess
ASSUME SlotsAssumption == None \notin Slots /\ None \notin Sess
ASSUME ReplierAssumption == "boot" \notin Repliers /\ "poll" \notin Repliers
ASSUME BoundAssumption == MaxEvents \in Nat

VARIABLES
    row,        \* status and recovery columns of each session row
    question,   \* an ask_user comment has no human comment after it
    server,     \* "down", "up" or "draining"
    pc,         \* where each goroutine is
    loc,        \* what it carries: the status before its resume, a pause reason
    handle,     \* runRegistry.cancelFuncs
    cancelled,  \* goroutines whose context is done
    claimer,    \* calls that resume sessions: the boot scan, human replies
    events

dbVars  == <<row, question>>
gorVars == <<pc, loc, handle, cancelled>>
vars    == <<dbVars, gorVars, server, claimer, events>>

Gors     == Sess \X Slots
Claimers == {"boot", "poll"} \cup Repliers
GorPC    == {"idle", "claimed", "enter", "setup", "history", "loop", "asked",
             "await", "reply", "pause", "park", "guard", "drop"}

NoRow   == [st |-> "none", prev |-> "none", reason |-> "none", owner |-> None,
            lease |-> "none"]
NoLocal == [prev |-> "none", why |-> "none"]
NoClaim == [pc |-> "idle", todo |-> {}, run |-> None, slot |-> None,
            prev |-> "none"]

(* A goroutine that holds the session: it may take turns, write its status *)
(* or is on its way to doing so.                                           *)
Holding == GorPC \ {"idle", "guard", "drop"}
Serving == server # "down"
Resumed(g) == loc[g].prev # "none"

Init ==
    /\ row = [r \in Sess |-> NoRow] /\ question = FALSE
    /\ server = "up" /\ pc = [g \in Gors |-> "idle"]
    /\ loc = [g \in Gors |-> NoLocal] /\ handle = [r \in Sess |-> None]
    /\ cancelled = {} /\ claimer = [c \in Claimers |-> NoClaim] /\ events = 0

Outside(kind) == kind \in Outsiders /\ events < MaxEvents /\ events' = events + 1

HasSlot(r)  == \E s \in Slots : pc[<<r, s>>] = "idle"
FreeSlot(r) == CHOOSE s \in Slots : pc[<<r, s>>] = "idle"
Goto(g, p)     == pc' = [pc EXCEPT ![g] = p]
SetStatus(r, s) == row' = [row EXCEPT ![r].st = s]

----------------------------------------------------------------------------
(* Leases: the repository's conditional updates.                           *)

(* Mutation of CanClaim: the lease alone is asked, not the status.         *)
CanClaimAnyStatus(r) == row[r].lease # "live" /\ row[r].st # "none"

(* ClaimRunForResume admits a paused row whose lease is not in the future. *)
(* (Only ResumeAfterUpdate and ResumeAfterHuman have callers.)             *)
CanClaim(r) == row[r].st = "paused" /\ row[r].lease # "live"

(* RecordResumeError: back to the status before the claim, unconditionally.*)
ResumeError(r, prev) ==
    row' = [row EXCEPT ![r].st = prev, ![r].owner = None, ![r].lease = "none"]

(* Mutation of SetRunActive: unconditional.                                *)
SetRunActiveAlways(r) == IF row[r].st = "none" THEN row ELSE [row EXCEPT ![r].st = "running"]

(* SetRunActive revives only a dormant row.                                *)
SetRunActive(r) ==
    IF row[r].st \in {"waiting", "failed", "stale", "resuming"}
    THEN [row EXCEPT ![r].st = "running"] ELSE row

----------------------------------------------------------------------------
(* ResumeSession, called by the boot scan and by HandleHumanReply.         *)

Cause(c) == IF c = "boot" THEN "binary_update" ELSE "human_input"

(* Mutation of ReclaimExpired: leases still running are reclaimed too.     *)
ReclaimAll ==
    /\ claimer["boot"].pc = "reclaim"
    /\ row' = [r \in Sess |->
                IF row[r].st = "resuming"
                THEN [row[r] EXCEPT !.st = row[r].prev, !.prev = "none",
                                    !.owner = None, !.lease = "none"]
                ELSE row[r]]
    /\ claimer' = [claimer EXCEPT !["boot"].pc = "list"]
    /\ UNCHANGED <<question, gorVars, server, events>>

(* ReclaimExpiredResumeLeases, at boot only.                               *)
ReclaimExpired ==
    /\ claimer["boot"].pc = "reclaim"
    /\ row' = [r \in Sess |->
                IF row[r].st = "resuming" /\ row[r].lease = "expired"
                THEN [row[r] EXCEPT !.st = row[r].prev, !.prev = "none",
                                    !.owner = None, !.lease = "none"]
                ELSE row[r]]
    /\ claimer' = [claimer EXCEPT !["boot"].pc = "list"]
    /\ UNCHANGED <<question, gorVars, server, events>>

(* HandleHumanReply, first half: only with the latest question answered;   *)
(* the asking run leaves its wait.                                         *)
Release(c) ==
    /\ claimer[c].pc = "release"
    /\ IF question
       THEN claimer' = [claimer EXCEPT ![c] = NoClaim] /\ UNCHANGED row
       ELSE claimer' = [claimer EXCEPT ![c].pc = "list"] /\ row' = SetRunActive(Asker)
    /\ UNCHANGED <<question, gorVars, server, events>>

(* Mutation of Eligible: the reason is compared the wrong way round.       *)
EligibleInverted(c) ==
    {r \in Sess : row[r].st = "paused"
                  /\ (c = "boot") = (row[r].reason = "human_input")}

(* GetRunsByRecoveryStates and the reason each caller selects: the boot     *)
(* scan leaves sessions paused for a human alone, the reply takes those.   *)
Eligible(c) ==
    {r \in Sess : row[r].st = "paused"
                  /\ (c = "boot") = (row[r].reason # "human_input")}

ListPaused(c) ==
    /\ claimer[c].pc = "list"
    /\ claimer' = [claimer EXCEPT ![c].pc = "next", ![c].todo = Eligible(c)]
    /\ UNCHANGED <<dbVars, gorVars, server, events>>

(* ResumeSession reads the row.                                            *)
ResumeSession(c, r) ==
    /\ claimer[c].pc = "next" /\ r \in claimer[c].todo
    /\ claimer' = [claimer EXCEPT ![c].pc = "claim", ![c].run = r,
                                  ![c].prev = row[r].st]
    /\ UNCHANGED <<dbVars, gorVars, server, events>>

(* The loop over the listed rows goes on.                                  *)
NextRow(c) ==
    [claimer EXCEPT ![c].pc = "next", ![c].run = None, ![c].slot = None,
                    ![c].prev = "none", ![c].todo = @ \ {claimer[c].run}]

(* A failed resume: the boot scan goes on, a reply gives up when the row is *)
(* still paused.                                                           *)
AfterError(c, st) ==
    IF c # "boot" /\ st = "paused" THEN [claimer EXCEPT ![c] = NoClaim] ELSE NextRow(c)

ClaimRunForResume(c) ==
    LET r == claimer[c].run IN
    /\ claimer[c].pc = "claim"
    /\ \/ /\ CanClaim(r)
          /\ HasSlot(r)
          /\ LET s == FreeSlot(r) IN
               /\ row' = [row EXCEPT ![r] =
                    [st |-> "resuming", prev |-> claimer[c].prev,
                     reason |-> Cause(c), owner |-> s, lease |-> "live"]]
               /\ Goto(<<r, s>>, "claimed")
               /\ loc' = [loc EXCEPT ![<<r, s>>].prev = claimer[c].prev]
               /\ claimer' = [claimer EXCEPT ![c].pc = "meta", ![c].slot = s]
       \/ /\ ~CanClaim(r)
          /\ claimer' = AfterError(c, row[r].st)
          /\ UNCHANGED <<row, pc, loc>>
    /\ UNCHANGED <<question, handle, cancelled, server, events>>

(* UpdateRunRecoveryMetadata and the goroutine.                            *)
StartResume(c) ==
    LET r == claimer[c].run IN
    /\ claimer[c].pc = "meta"
    /\ row' = [row EXCEPT ![r].reason =
                 IF c = "boot" THEN "binary_update" ELSE "input_received"]
    /\ Goto(<<r, claimer[c].slot>>, "enter")
    /\ claimer' = NextRow(c)
    /\ UNCHANGED <<question, loc, handle, cancelled, server, events>>

(* The task cannot be loaded: the claim is given back.                     *)
StartResumeFails(c) ==
    LET r == claimer[c].run IN
    /\ claimer[c].pc = "meta" /\ Outside("fault")
    /\ ResumeError(r, claimer[c].prev)
    /\ Goto(<<r, claimer[c].slot>>, "idle")
    /\ loc' = [loc EXCEPT ![<<r, claimer[c].slot>>] = NoLocal]
    /\ claimer' = AfterError(c, claimer[c].prev)
    /\ UNCHANGED <<question, handle, cancelled, server>>

ClaimerDone(c) ==
    /\ claimer[c].pc = "next" /\ claimer[c].todo = {}
    /\ claimer' = [claimer EXCEPT ![c] = NoClaim]
    /\ UNCHANGED <<dbVars, gorVars, server, events>>

----------------------------------------------------------------------------
(* executeSession.                                                         *)

(* An orchestrator creates the row and spawns the goroutine.               *)
Create(r) ==
    /\ server = "up" /\ row[r].st = "none" /\ HasSlot(r)
    /\ SetStatus(r, "running")
    /\ Goto(<<r, FreeSlot(r)>>, "enter")
    /\ UNCHANGED <<question, loc, handle, cancelled, server, claimer, events>>

(* The agent is gone or disabled: "failed" is returned before any guard is *)
(* in place, and the row keeps the status it had.                          *)
EnterFails(g) ==
    /\ pc[g] = "enter" /\ Outside("fault")
    /\ Goto(g, "idle") /\ loc' = [loc EXCEPT ![g] = NoLocal]
    /\ UNCHANGED <<dbVars, handle, cancelled, server, claimer>>

(* The cancel func is stored and the heartbeat started.                    *)
Enter(g) ==
    /\ pc[g] = "enter"
    /\ handle' = [handle EXCEPT ![g[1]] = g[2]]
    /\ Goto(g, "setup")
    /\ UNCHANGED <<dbVars, loc, cancelled, server, claimer, events>>

(* The environment or the gateway cannot be prepared.                      *)
SetupFails(g) ==
    /\ pc[g] = "setup" /\ Outside("fault")
    /\ SetStatus(g[1], "failed") /\ Goto(g, "guard")
    /\ UNCHANGED <<question, loc, handle, cancelled, server, claimer>>

(* MarkRunResumeStarted wants the claim this goroutine was given; without   *)
(* it the row goes back to what it was before the claim.                   *)
Setup(g) ==
    /\ pc[g] = "setup"
    /\ \/ /\ ~Resumed(g)
          /\ Goto(g, "loop") /\ UNCHANGED row
       \/ /\ Resumed(g) /\ row[g[1]].st = "resuming" /\ row[g[1]].owner = g[2]
          /\ row' = [row EXCEPT ![g[1]].st = "running", ![g[1]].owner = None,
                                ![g[1]].lease = "none"]
          /\ Goto(g, "history")
       \/ /\ Resumed(g) /\ ~(row[g[1]].st = "resuming" /\ row[g[1]].owner = g[2])
          /\ ResumeError(g[1], loc[g].prev)
          /\ Goto(g, "drop")
    /\ UNCHANGED <<question, loc, handle, cancelled, server, claimer, events>>

(* The saved conversation is read back.                                    *)
LoadHistory(g) ==
    /\ pc[g] = "history" /\ Goto(g, "loop")
    /\ UNCHANGED <<dbVars, loc, handle, cancelled, server, claimer, events>>

LoadHistoryFails(g) ==
    /\ pc[g] = "history" /\ Outside("fault")
    /\ ResumeError(g[1], loc[g].prev) /\ Goto(g, "guard")
    /\ UNCHANGED <<question, loc, handle, cancelled, server, claimer>>

PauseRequested == server = "draining" \/ question

(* A turn ended in tool calls and the pause is asked for.                  *)
TurnPauses(g) ==
    /\ pc[g] = "loop" /\ PauseRequested
    /\ Goto(g, "pause")
    /\ UNCHANGED <<dbVars, loc, handle, cancelled, server, claimer, events>>

(* The agent finishes, or fails; a resumed session that fails stays        *)
(* recoverable.                                                            *)
TurnEnds(g) ==
    /\ pc[g] = "loop" /\ g \notin cancelled
    /\ \/ SetStatus(g[1], "completed")
       \/ SetStatus(g[1], IF Resumed(g) THEN "recoverable_failed" ELSE "failed")
    /\ Goto(g, "guard")
    /\ UNCHANGED <<question, loc, handle, cancelled, server, claimer, events>>

TurnCanceled(g) ==
    /\ pc[g] = "loop" /\ g \in cancelled
    /\ SetStatus(g[1], "canceled") /\ Goto(g, "guard")
    /\ UNCHANGED <<question, loc, handle, cancelled, server, claimer, events>>

(* askHuman: the question, then the row's wait state, then polling.        *)
AskHuman(g) ==
    /\ pc[g] = "loop" /\ g[1] = Asker /\ ~PauseRequested /\ Outside("ask")
    /\ question' = TRUE /\ Goto(g, "asked")
    /\ UNCHANGED <<row, loc, handle, cancelled, server, claimer>>

WaitForAnswer(g) ==
    /\ pc[g] = "asked"
    /\ SetStatus(g[1], "waiting") /\ Goto(g, "await")
    /\ UNCHANGED <<question, loc, handle, cancelled, server, claimer, events>>

(* The poll sees the answer and handles the reply once more.               *)
SeeAnswer(g) ==
    /\ pc[g] = "await" /\ claimer["poll"].pc = "idle"
    /\ \/ ~question /\ Goto(g, "reply")
          /\ claimer' = [claimer EXCEPT !["poll"].pc = "release"]
       \/ g \in cancelled /\ Goto(g, "loop") /\ UNCHANGED claimer
    /\ UNCHANGED <<dbVars, loc, handle, cancelled, server, events>>

AnswerHandled(g) ==
    /\ pc[g] = "reply" /\ claimer["poll"].pc = "idle"
    /\ Goto(g, "loop")
    /\ UNCHANGED <<dbVars, loc, handle, cancelled, server, claimer, events>>

(* After ErrPaused: the reason is read ...                                 *)
PauseReason(g) ==
    /\ pc[g] = "pause"
    /\ loc' = [loc EXCEPT ![g].why = IF question THEN "human_input" ELSE "binary_update"]
    /\ Goto(g, "park")
    /\ UNCHANGED <<dbVars, handle, cancelled, server, claimer, events>>

(* ... or the log cannot be synced ...                                     *)
PauseFails(g) ==
    /\ pc[g] = "pause" /\ Outside("fault")
    /\ SetStatus(g[1], "failed") /\ Goto(g, "guard")
    /\ UNCHANGED <<question, loc, handle, cancelled, server, claimer>>

(* ... and PauseRunWithMetadata writes the checkpoint, whatever the row    *)
(* says by then.                                                           *)
PauseRun(g) ==
    /\ pc[g] = "park"
    /\ row' = [row EXCEPT ![g[1]] = [st |-> "paused", prev |-> "none",
                 reason |-> loc[g].why, owner |-> None, lease |-> "none"]]
    /\ Goto(g, "drop")
    /\ UNCHANGED <<question, loc, handle, cancelled, server, claimer, events>>

(* Deferred: a row left running or resuming is failed.                     *)
Guard(g) ==
    /\ pc[g] = "guard"
    /\ row' = IF row[g[1]].st \in {"running", "resuming"}
              THEN [row EXCEPT ![g[1]].st = "failed"] ELSE row
    /\ Goto(g, "drop")
    /\ UNCHANGED <<question, loc, handle, cancelled, server, claimer, events>>

(* Deferred: cancel, and delete the run's cancel func, whosever it is.     *)
Drop(g) ==
    /\ pc[g] = "drop"
    /\ Goto(g, "idle") /\ loc' = [loc EXCEPT ![g] = NoLocal]
    /\ handle' = [handle EXCEPT ![g[1]] = None]
    /\ cancelled' = cancelled \ {g}
    /\ UNCHANGED <<dbVars, server, claimer, events>>

----------------------------------------------------------------------------
(* People, time, the monitor and the process.                              *)

(* A human comment is saved and its reply handled.                         *)
Comment(h) ==
    /\ Serving /\ claimer[h].pc = "idle" /\ Outside("comment")
    /\ question' = FALSE
    /\ claimer' = [claimer EXCEPT ![h].pc = "release"]
    /\ UNCHANGED <<row, gorVars, server>>

(* LoadAndDelete the cancel func and call it.                              *)
StopRun(r) ==
    /\ Serving /\ row[r].st = "running" /\ handle[r] # None /\ Outside("stop")
    /\ cancelled' = cancelled \cup {<<r, handle[r]>>}
    /\ handle' = [handle EXCEPT ![r] = None]
    /\ UNCHANGED <<dbVars, pc, loc, server, claimer>>

(* Two minutes pass.  The boot scan reclaims as the process starts, within  *)
(* the lease of any claim this process has made.                           *)
LeaseExpires(r) ==
    /\ row[r].lease = "live"
    /\ claimer["boot"].pc = "reclaim" => \A s \in Slots : pc[<<r, s>>] = "idle"
    /\ row' = [row EXCEPT ![r].lease = "expired"]
    /\ UNCHANGED <<question, gorVars, server, claimer, events>>

(* The heartbeat stops with the goroutine's context.                       *)
Silent(r) ==
    /\ row[r].st = "running"
    /\ \A s \in Slots : pc[<<r, s>>] \in {"idle", "drop"} \/ <<r, s>> \in cancelled

(* CheckStaleRuns and, at boot, recoverStaleRuns.                          *)
MarkStale(r) ==
    /\ Serving /\ Silent(r)
    /\ SetStatus(r, "stale")
    /\ UNCHANGED <<question, gorVars, server, claimer, events>>

Drain ==
    /\ server = "up" /\ Outside("drain")
    /\ server' = "draining"
    /\ UNCHANGED <<dbVars, gorVars, claimer>>

Down ==
    /\ server' = "down"
    /\ pc' = [g \in Gors |-> "idle"] /\ loc' = [g \in Gors |-> NoLocal]
    /\ handle' = [r \in Sess |-> None] /\ cancelled' = {}
    /\ claimer' = [c \in Claimers |-> NoClaim]
    /\ UNCHANGED dbVars

(* WaitForActiveRuns: the drained process leaves when no session is left;   *)
(* one that has not entered executeSession is not counted yet.             *)
Leave ==
    /\ server = "draining"
    /\ \A g \in Gors : pc[g] \in {"idle", "claimed", "enter"}
    /\ Down /\ UNCHANGED events
(* The drain's deadline: an asker does not watch the drain while it polls   *)
(* for an answer.  (A deadline that cuts any other session is a crash.)     *)
DrainDeadline ==
    /\ server = "draining" /\ \E g \in Gors : pc[g] = "await"
    /\ Down /\ UNCHANGED events

Crash == Serving /\ Outside("crash") /\ Down

Boot ==
    /\ server = "down"
    /\ server' = "up"
    /\ claimer' = [claimer EXCEPT !["boot"].pc = "reclaim"]
    /\ UNCHANGED <<dbVars, gorVars, events>>

----------------------------------------------------------------------------
ClaimerStep(c) ==
    \/ ListPaused(c) \/ (\E r \in Sess : ResumeSession(c, r))
    \/ ClaimRunForResume(c) \/ StartResume(c) \/ ClaimerDone(c)

(* What a goroutine does by itself, its model's answers included.          *)
GorStep(g) ==
    \/ Enter(g) \/ Setup(g) \/ LoadHistory(g)
    \/ TurnPauses(g) \/ TurnEnds(g) \/ TurnCanceled(g)
    \/ WaitForAnswer(g) \/ SeeAnswer(g) \/ AnswerHandled(g)
    \/ PauseReason(g) \/ PauseRun(g) \/ Guard(g) \/ Drop(g)

Fault(g) == EnterFails(g) \/ SetupFails(g) \/ LoadHistoryFails(g) \/ PauseFails(g)

Next ==
    \/ ReclaimExpired
    \/ \E c \in Claimers \ {"boot"} : Release(c)
    \/ \E c \in Claimers : ClaimerStep(c) \/ StartResumeFails(c)
    \/ \E r \in Sess : Create(r)
    \/ \E g \in Gors : GorStep(g) \/ Fault(g) \/ AskHuman(g)
    \/ \E h \in Repliers : Comment(h)
    \/ \E r \in Sess : StopRun(r) \/ LeaseExpires(r) \/ MarkStale(r)
    \/ Drain \/ Leave \/ DrainDeadline \/ Crash \/ Boot

Spec == Init /\ [][Next]_vars

(* Goroutines and calls proceed; a session ends by itself (the agent loop   *)
(* is bounded by maxTurns and its tools by timeouts); the process is        *)
(* restarted by its supervisor; the monitor ticks and leases run out.       *)
FairSpec ==
    /\ Spec
    /\ WF_vars(ReclaimExpired) /\ WF_vars(Leave) /\ WF_vars(DrainDeadline) /\ WF_vars(Boot)
    /\ \A c \in Claimers : WF_vars(ClaimerStep(c))
    /\ \A c \in Claimers \ {"boot"} : WF_vars(Release(c))
    /\ \A g \in Gors : WF_vars(GorStep(g))
    /\ \A r \in Sess : WF_vars(LeaseExpires(r)) /\ WF_vars(MarkStale(r))

----------------------------------------------------------------------------
(* Properties.                                                             *)

Worker(r) == IF \E s \in Slots : pc[<<r, s>>] \in Holding
             THEN CHOOSE s \in Slots : pc[<<r, s>>] \in Holding ELSE None

Ownership == INSTANCE RunOwnership
    WITH open <- {r \in Sess : row[r].st \in {"none", "paused"}},
         worker <- [r \in Sess |-> Worker(r)]

(* The lease admits one: whichever of the boot scan, two replies to one     *)
(* question and the asker's own poll resume a session, however their        *)
(* statements interleave with a pause still being written, a session is     *)
(* worked on by one goroutine, and taken up only from a safe boundary.      *)
(* (ClaimRunForResume, MarkRunResumeStarted, PauseRunWithMetadata)          *)
OwnershipHolds == Ownership!Spec

(* The same as an invariant: two goroutines never hold one session.         *)
OneWorker ==
    \A r \in Sess, s, t \in Slots :
        pc[<<r, s>>] \in Holding /\ pc[<<r, t>>] \in Holding => s = t

(* A completed or canceled session is never run again, although the human   *)
(* reply, the monitor, the deferred guard and failed resumes all write the  *)
(* status of rows they do not hold.  (SetRunActive: "cannot accidentally    *)
(* revive a terminal run")                                                  *)
EndedStays ==
    [][\A r \in Sess : row[r].st \in {"completed", "canceled"}
          => row'[r].st = row[r].st]_vars

(* What a drain paused runs again after the restart.                        *)
(* (ResumeEligibleSessions)                                                 *)
UpdatePauseResumes ==
    \A r \in Sess :
        (server = "down" /\ row[r].st = "paused" /\ row[r].reason = "binary_update")
            ~> (row[r].st # "paused")
=============================================================================
