---------------------------- MODULE SessionsProofs ----------------------------
(***************************************************************************)
(* Theorems about Sessions, for any number of sessions, goroutines per      *)
(* session and concurrent replies, whatever happens from outside: a session *)
(* has one worker, what ended stays ended, and the lease implements         *)
(* RunOwnership.                                                            *)
(***************************************************************************)
EXTENDS Sessions, TLAPS

Status == {"none", "running", "waiting", "failed", "stale", "resuming", "paused",
           "completed", "canceled", "recoverable_failed"}
Ended  == {"completed", "canceled"}

Row == [st : Status, prev : Status,
        reason : {"none", "binary_update", "human_input", "input_received"},
        owner : Slots \cup {None}, lease : {"none", "live", "expired"}]
Local == [prev : Status, why : {"none", "human_input", "binary_update"}]
Claim == [pc : {"idle", "release", "reclaim", "list", "next", "claim", "meta"},
          todo : SUBSET Sess, run : Sess \cup {None}, slot : Slots \cup {None},
          prev : Status]

TypeOK ==
    /\ row \in [Sess -> Row] /\ question \in BOOLEAN
    /\ server \in {"up", "draining", "down"}
    /\ pc \in [Gors -> GorPC] /\ loc \in [Gors -> Local]
    /\ handle \in [Sess -> Slots \cup {None}] /\ cancelled \subseteq Gors
    /\ claimer \in [Claimers -> Claim] /\ events \in Nat

Holder(r, s) == pc[<<r, s>>] \in Holding

(* A session in hand is neither unborn, nor put down, nor over: no claim    *)
(* and no creation is admitted beside its worker.                           *)
HeldIsOpen ==
    \A r \in Sess, s \in Slots :
        Holder(r, s) => row[r].st \notin {"none", "paused"} \cup Ended

(* A call that has claimed a session has the goroutine it started waiting   *)
(* in "claimed", and no other call has that goroutine.                      *)
Grant(c) == <<claimer[c].run, claimer[c].slot>>
ClaimsGranted ==
    /\ \A c \in Claimers : claimer[c].pc \in {"claim", "meta"} => claimer[c].run \in Sess
    /\ \A c \in Claimers : claimer[c].pc = "meta" =>
            claimer[c].slot \in Slots /\ pc[Grant(c)] = "claimed"
    /\ \A c, d \in Claimers :
            claimer[c].pc = "meta" /\ claimer[d].pc = "meta" /\ Grant(c) = Grant(d) => c = d

(* What the boot scan is about to take back is nobody's: a lease that ran   *)
(* out is one of an earlier process.                                        *)
ReclaimIsSafe ==
    claimer["boot"].pc = "reclaim" =>
        \A r \in Sess, s \in Slots : row[r].lease = "expired" => ~Holder(r, s)

(* Goroutines and calls are of a running process.                           *)
DownIsQuiet ==
    server = "down" => /\ \A g \in Gors : pc[g] = "idle"
                       /\ \A c \in Claimers : claimer[c].pc = "idle"

(* A row that does not exist yet carries no lease.                          *)
UnbornUnleased == \A r \in Sess : row[r].st = "none" => row[r].lease = "none"

(* The inductive invariant.                                                 *)
Safe == OneWorker /\ HeldIsOpen /\ ClaimsGranted /\ ReclaimIsSafe /\ DownIsQuiet
IInv == TypeOK /\ Safe
Inv  == IInv /\ UnbornUnleased

----------------------------------------------------------------------------
(* Small facts.                                                            *)

(* A goroutine is a session and a slot.                                     *)
LEMMA GorParts == \A g \in Gors : g[1] \in Sess /\ g[2] \in Slots /\ g = <<g[1], g[2]>>
  BY DEF Gors

(* FreeSlot finds an idle slot when there is one.                           *)
LEMMA FreeSlotIdle ==
    ASSUME NEW r \in Sess, HasSlot(r)
    PROVE  FreeSlot(r) \in Slots /\ pc[<<r, FreeSlot(r)>>] = "idle"
  BY DEF HasSlot, FreeSlot

(* Records a step puts in place.                                            *)
LEMMA Blank == NoRow \in Row /\ NoLocal \in Local /\ NoClaim \in Claim
  BY DEF NoRow, NoLocal, NoClaim, Row, Local, Claim, Status

(* The row updates a step makes keep the rows well formed.                  *)
RowsOK == row \in [Sess -> Row]

LEMMA StatusSet ==
    ASSUME RowsOK, NEW r \in Sess, NEW st \in Status, SetStatus(r, st)
    PROVE  RowsOK' /\ row'[r].st = st /\ row'[r].lease = row[r].lease
           /\ \A q \in Sess \ {r} : row'[q] = row[q]
  BY DEF RowsOK, SetStatus, Row

LEMMA ResumeErrorSet ==
    ASSUME RowsOK, NEW r \in Sess, NEW st \in Status, ResumeError(r, st)
    PROVE  RowsOK' /\ row'[r].st = st /\ row'[r].lease = "none"
           /\ \A q \in Sess \ {r} : row'[q] = row[q]
  BY ZenonT(30) DEF RowsOK, ResumeError, Row

LEMMA ActiveSet ==
    ASSUME RowsOK, NEW r \in Sess, row' = SetRunActive(r)
    PROVE  RowsOK' /\ row'[r].lease = row[r].lease
           /\ \/ row'[r].st = row[r].st
              \/ /\ row'[r].st = "running"
                 /\ row[r].st \notin {"none", "paused"} \cup Ended
           /\ \A q \in Sess \ {r} : row'[q] = row[q]
<1>1. CASE row' = row
  BY <1>1 DEF RowsOK
<1>2. CASE row[r].st \in {"waiting", "failed", "stale", "resuming"}
           /\ row' = [row EXCEPT ![r].st = "running"]
  BY <1>2, StatusSet DEF SetStatus, Status, Ended
<1> QED BY <1>1, <1>2 DEF SetRunActive

(* The loop over the listed rows keeps a call well formed.                  *)
ClaimersOK == claimer \in [Claimers -> Claim]

LEMMA NextRowType ==
    ASSUME ClaimersOK, NEW c \in Claimers, NEW st
    PROVE  /\ NextRow(c) \in [Claimers -> Claim]
           /\ AfterError(c, st) \in [Claimers -> Claim]
           /\ \A d \in Claimers : d # c => NextRow(c)[d] = claimer[d]
                                        /\ AfterError(c, st)[d] = claimer[d]
           /\ NextRow(c)[c].pc = "next" /\ AfterError(c, st)[c].pc \in {"next", "idle"}
<1>1. NextRow(c) \in [Claimers -> Claim] /\ NextRow(c)[c].pc = "next"
      /\ \A d \in Claimers : d # c => NextRow(c)[d] = claimer[d]
  <2> DEFINE rec == [claimer[c] EXCEPT !.pc = "next", !.run = None, !.slot = None,
                        !.prev = "none", !.todo = @ \ {claimer[c].run}]
  <2>1. claimer[c] \in Claim
    BY DEF ClaimersOK
  <2>2. rec \in Claim /\ rec.pc = "next"
    BY <2>1 DEF Claim, Status
  <2>3. NextRow(c) = [claimer EXCEPT ![c] = rec]
    BY DEF NextRow
  <2> QED BY <2>2, <2>3 DEF ClaimersOK
<1>2. [claimer EXCEPT ![c] = NoClaim] \in [Claimers -> Claim]
      /\ [claimer EXCEPT ![c] = NoClaim][c].pc = "idle"
  BY Blank DEF ClaimersOK, NoClaim
<1> QED BY <1>1, <1>2 DEF AfterError, ClaimersOK

LEMMA CausesKnown == \A c \in Claimers : Cause(c) \in {"binary_update", "human_input"}
  BY DEF Cause

----------------------------------------------------------------------------
(* Type correctness, one lemma per actor.                                  *)

LEMMA TypeInit == Init => TypeOK
<1> SUFFICES ASSUME Init PROVE TypeOK
  OBVIOUS
<1>1. row \in [Sess -> Row] /\ loc \in [Gors -> Local] /\ claimer \in [Claimers -> Claim]
  BY Blank DEF Init
<1>2. pc \in [Gors -> GorPC]
  BY DEF Init, GorPC
<1>3. handle \in [Sess -> Slots \cup {None}] /\ cancelled \subseteq Gors
      /\ server \in {"up", "draining", "down"} /\ question \in BOOLEAN /\ events \in Nat
  BY DEF Init
<1> QED BY <1>1, <1>2, <1>3 DEF TypeOK

LEMMA TypeOutside ==
    ASSUME TypeOK, NEW kind, Outside(kind)
    PROVE  events' \in Nat
  BY DEF TypeOK, Outside

LEMMA TypeClaimer ==
    ASSUME TypeOK, NEW c \in Claimers, ClaimsGranted,
           ClaimerStep(c) \/ StartResumeFails(c)
    PROVE  TypeOK'
<1> USE DEF TypeOK, RowsOK, ClaimersOK
<1>1. CASE ListPaused(c)
  <2> DEFINE rec == [claimer[c] EXCEPT !.pc = "next", !.todo = Eligible(c)]
  <2>1. rec \in Claim
    BY DEF Eligible, Claim
  <2>2. claimer' = [claimer EXCEPT ![c] = rec]
    BY <1>1 DEF ListPaused
  <2> QED BY <1>1, <2>1, <2>2 DEF ListPaused, dbVars, gorVars
<1>2. ASSUME NEW r \in Sess, ResumeSession(c, r) PROVE TypeOK'
  <2> DEFINE rec == [claimer[c] EXCEPT !.pc = "claim", !.run = r, !.prev = row[r].st]
  <2>1. rec \in Claim
    BY DEF Claim, Row
  <2>2. claimer' = [claimer EXCEPT ![c] = rec]
    BY <1>2 DEF ResumeSession
  <2> QED BY <1>2, <2>1, <2>2 DEF ResumeSession, dbVars, gorVars
<1>3. CASE ClaimRunForResume(c)
  <2> DEFINE r == claimer[c].run
  <2>0. r \in Sess
    BY <1>3 DEF ClaimRunForResume, ClaimsGranted
  <2>1. CASE CanClaim(r) /\ HasSlot(r)
             /\ row' = [row EXCEPT ![r] =
                  [st |-> "resuming", prev |-> claimer[c].prev,
                   reason |-> Cause(c), owner |-> FreeSlot(r), lease |-> "live"]]
             /\ Goto(<<r, FreeSlot(r)>>, "claimed")
             /\ loc' = [loc EXCEPT ![<<r, FreeSlot(r)>>].prev = claimer[c].prev]
             /\ claimer' = [claimer EXCEPT ![c].pc = "meta", ![c].slot = FreeSlot(r)]
    <3>1. FreeSlot(r) \in Slots /\ claimer[c].prev \in Status
      BY <2>0, <2>1, FreeSlotIdle DEF Claim
    <3>2. RowsOK'
      BY <2>0, <2>1, <3>1, CausesKnown DEF Row, Status
    <3>3. pc' \in [Gors -> GorPC] /\ loc' \in [Gors -> Local]
      BY <2>0, <2>1, <3>1 DEF Goto, GorPC, Gors, Local
    <3>4. ClaimersOK'
      BY ZenonT(30), <2>1, <3>1 DEF Claim
    <3> QED BY <1>3, <3>2, <3>3, <3>4 DEF ClaimRunForResume
  <2>2. CASE claimer' = AfterError(c, row[r].st) /\ UNCHANGED <<row, pc, loc>>
    BY <1>3, <2>2, NextRowType DEF ClaimRunForResume
  <2> QED BY <1>3, <2>1, <2>2 DEF ClaimRunForResume
<1>4. CASE StartResume(c)
  <2> DEFINE r == claimer[c].run
  <2>1. r \in Sess /\ claimer[c].slot \in Slots
    BY <1>4 DEF StartResume, ClaimsGranted
  <2>2. RowsOK'
    BY <1>4, <2>1 DEF StartResume, Row
  <2>3. pc' \in [Gors -> GorPC]
    BY <1>4, <2>1 DEF StartResume, Goto, GorPC
  <2>4. ClaimersOK'
    BY <1>4, NextRowType DEF StartResume
  <2> QED BY <1>4, <2>2, <2>3, <2>4 DEF StartResume
<1>5. CASE ClaimerDone(c)
  BY <1>5, Blank DEF ClaimerDone, dbVars, gorVars
<1>6. CASE StartResumeFails(c)
  <2>1. claimer[c].run \in Sess /\ claimer[c].slot \in Slots /\ claimer[c].prev \in Status
    BY <1>6 DEF StartResumeFails, ClaimsGranted, Claim
  <2>2. RowsOK'
    BY <1>6, <2>1, ResumeErrorSet DEF StartResumeFails
  <2>3. pc' \in [Gors -> GorPC] /\ loc' \in [Gors -> Local]
    BY <1>6, <2>1, Blank DEF StartResumeFails, Goto, GorPC
  <2>4. ClaimersOK'
    BY <1>6, NextRowType DEF StartResumeFails
  <2>5. events' \in Nat
    BY <1>6, TypeOutside DEF StartResumeFails
  <2> QED BY <1>6, <2>2, <2>3, <2>4, <2>5 DEF StartResumeFails
<1> QED BY <1>1, <1>2, <1>3, <1>4, <1>5, <1>6 DEF ClaimerStep

LEMMA TypeGor ==
    ASSUME TypeOK, NEW g \in Gors, GorStep(g) \/ Fault(g) \/ AskHuman(g)
    PROVE  TypeOK'
<1> USE DEF TypeOK, RowsOK, dbVars
<1>0. g[1] \in Sess /\ g[2] \in Slots /\ loc[g].prev \in Status
  BY GorParts DEF Local
<1>a. \A p \in GorPC : Goto(g, p) => pc' \in [Gors -> GorPC]
  BY DEF Goto
<1> HIDE DEF GorPC
<1>b. {"idle", "enter", "setup", "history", "loop", "asked", "await", "reply", "pause",
       "park", "guard", "drop"} \subseteq GorPC
  BY DEF GorPC
<1>c. [loc EXCEPT ![g] = NoLocal] \in [Gors -> Local]
  BY Blank
<1>1. CASE Enter(g)
  BY <1>1, <1>0, <1>a, <1>b DEF Enter
<1>2. CASE Setup(g)
  <2>1. RowsOK'
    <3>1. CASE ResumeError(g[1], loc[g].prev)
      BY <3>1, <1>0, ResumeErrorSet
    <3>2. CASE row' = [row EXCEPT ![g[1]].st = "running", ![g[1]].owner = None,
                                ![g[1]].lease = "none"]
      BY <3>2, <1>0 DEF Row, Status
    <3> QED BY <1>2, <3>1, <3>2 DEF Setup
  <2>2. pc' \in [Gors -> GorPC]
    BY <1>2, <1>a, <1>b DEF Setup
  <2> QED BY <1>2, <2>1, <2>2 DEF Setup
<1>3. CASE LoadHistory(g) \/ TurnPauses(g) \/ AnswerHandled(g)
  BY <1>3, <1>a, <1>b DEF LoadHistory, TurnPauses, AnswerHandled
<1>4. CASE TurnEnds(g) \/ TurnCanceled(g) \/ WaitForAnswer(g)
  <2>1. PICK st \in Status : SetStatus(g[1], st)
    BY <1>4 DEF TurnEnds, TurnCanceled, WaitForAnswer, Status
  <2>2. RowsOK'
    BY <2>1, <1>0, StatusSet
  <2> QED BY <1>4, <2>2, <1>a, <1>b DEF TurnEnds, TurnCanceled, WaitForAnswer
<1>5. CASE SeeAnswer(g)
  BY <1>5, <1>a, <1>b DEF SeeAnswer, Claim
<1>6. CASE PauseReason(g)
  BY <1>6, <1>a, <1>b DEF PauseReason, Local
<1>7. CASE PauseRun(g)
  <2>1. RowsOK'
    BY <1>7, <1>0 DEF PauseRun, Row, Status, Local
  <2> QED BY <1>7, <2>1, <1>a, <1>b DEF PauseRun
<1>8. CASE Guard(g)
  <2>1. RowsOK'
    BY <1>8, <1>0 DEF Guard, Row, Status
  <2> QED BY <1>8, <2>1, <1>a, <1>b DEF Guard
<1>9. CASE Drop(g)
  BY <1>9, <1>0, <1>a, <1>b, <1>c DEF Drop
<1>10. CASE EnterFails(g)
  BY <1>10, <1>a, <1>b, <1>c, TypeOutside DEF EnterFails
<1>11. CASE SetupFails(g) \/ PauseFails(g)
  <2>1. RowsOK'
    BY <1>11, <1>0, StatusSet DEF SetupFails, PauseFails, Status
  <2> QED BY <1>11, <2>1, <1>a, <1>b, TypeOutside DEF SetupFails, PauseFails
<1>12. CASE LoadHistoryFails(g)
  <2>1. RowsOK'
    BY <1>12, <1>0, ResumeErrorSet DEF LoadHistoryFails
  <2> QED BY <1>12, <2>1, <1>a, <1>b, TypeOutside DEF LoadHistoryFails
<1>13. CASE AskHuman(g)
  BY <1>13, <1>a, <1>b, TypeOutside DEF AskHuman
<1> QED BY <1>1, <1>2, <1>3, <1>4, <1>5, <1>6, <1>7, <1>8, <1>9, <1>10, <1>11, <1>12, <1>13
        DEF GorStep, Fault

(* What is neither a goroutine's step nor a resuming call's.                *)
World ==
    \/ ReclaimExpired \/ (\E c \in Claimers \ {"boot"} : Release(c))
    \/ (\E r \in Sess : Create(r)) \/ (\E h \in Repliers : Comment(h))
    \/ (\E r \in Sess : StopRun(r) \/ LeaseExpires(r) \/ MarkStale(r))
    \/ Drain \/ Leave \/ DrainDeadline \/ Crash \/ Boot

(* The process going down leaves a well-formed state.                       *)
LEMMA DownType ==
    ASSUME TypeOK, Down, events' \in Nat
    PROVE  TypeOK'
<1>1. pc' \in [Gors -> GorPC]
  BY DEF Down, GorPC
<1>2. loc' \in [Gors -> Local] /\ claimer' \in [Claimers -> Claim]
  BY Blank DEF Down
<1> QED BY <1>1, <1>2 DEF Down, dbVars, TypeOK

LEMMA TypeWorld ==
    ASSUME TypeOK, World
    PROVE  TypeOK'
<1> USE DEF TypeOK, RowsOK, dbVars, gorVars
<1>0. "boot" \in Claimers /\ Repliers \subseteq Claimers
  BY DEF Claimers
<1>1. CASE ReclaimExpired
  <2>1. \A r \in Sess : [row[r] EXCEPT !.st = row[r].prev, !.prev = "none",
                           !.owner = None, !.lease = "none"] \in Row
    BY ZenonT(30) DEF Row, Status
  <2>2. RowsOK'
    BY <1>1, <2>1 DEF ReclaimExpired
  <2>3. claimer' \in [Claimers -> Claim]
    BY ZenonT(30), <1>1, <1>0 DEF ReclaimExpired, Claim
  <2> QED BY <1>1, <2>2, <2>3 DEF ReclaimExpired
<1>2. ASSUME NEW c \in Claimers \ {"boot"}, Release(c) PROVE TypeOK'
  <2>1. RowsOK'
    BY <1>2, ActiveSet, AskerAssumption DEF Release
  <2>2. claimer' \in [Claimers -> Claim]
    <3>1. CASE claimer' = [claimer EXCEPT ![c] = NoClaim]
      BY <3>1, Blank
    <3>2. CASE claimer' = [claimer EXCEPT ![c].pc = "list"]
      BY <3>2 DEF Claim
    <3> QED BY <1>2, <3>1, <3>2 DEF Release
  <2> QED BY <1>2, <2>1, <2>2 DEF Release
<1>3. ASSUME NEW r \in Sess, Create(r) PROVE TypeOK'
  <2>1. RowsOK'
    BY <1>3, StatusSet DEF Create, Status
  <2>2. pc' \in [Gors -> GorPC]
    BY <1>3 DEF Create, Goto, GorPC
  <2> QED BY <1>3, <2>1, <2>2 DEF Create
<1>4. ASSUME NEW h \in Repliers, Comment(h) PROVE TypeOK'
  <2>1. claimer' \in [Claimers -> Claim]
    BY <1>4, <1>0 DEF Comment, Claim
  <2> QED BY <1>4, <2>1, TypeOutside DEF Comment
<1>5. ASSUME NEW r \in Sess, StopRun(r) \/ LeaseExpires(r) \/ MarkStale(r) PROVE TypeOK'
  <2>1. CASE StopRun(r)
    <3>1. cancelled' \subseteq Gors
      BY <2>1 DEF StopRun, Gors
    <3>2. handle' \in [Sess -> Slots \cup {None}]
      BY <2>1 DEF StopRun
    <3> QED BY <2>1, <3>1, <3>2, TypeOutside DEF StopRun
  <2>2. CASE LeaseExpires(r)
    BY <2>2 DEF LeaseExpires, Row
  <2>3. CASE MarkStale(r)
    BY <2>3, StatusSet DEF MarkStale, Status
  <2> QED BY <1>5, <2>1, <2>2, <2>3
<1>6. CASE Drain
  BY <1>6, TypeOutside DEF Drain
<1>7. CASE Leave \/ DrainDeadline \/ Crash
  <2>1. Down /\ events' \in Nat
    BY <1>7, TypeOutside DEF Leave, DrainDeadline, Crash
  <2> QED BY <2>1, DownType
<1>8. CASE Boot
  <2>1. claimer' \in [Claimers -> Claim]
    BY <1>8, <1>0 DEF Boot, Claim
  <2> QED BY <1>8, <2>1 DEF Boot
<1> QED BY <1>1, <1>2, <1>3, <1>4, <1>5, <1>6, <1>7, <1>8 DEF World

LEMMA TypeStep ==
    ASSUME TypeOK, ClaimsGranted, Next
    PROVE  TypeOK'
  BY TypeClaimer, TypeGor, TypeWorld DEF Next, World

----------------------------------------------------------------------------
(* One worker: the shapes of step the inductive invariant survives.         *)

(* A goroutine moves on, writing its own row if at all.  The row may be     *)
(* closed only as the goroutine lets go of it.                              *)
LEMMA WorkerMoves ==
    ASSUME IInv, TypeOK', NEW g \in Gors, NEW p \in GorPC, Goto(g, p),
           pc[g] \notin {"idle", "claimed"}, p # "claimed",
           p \in Holding => pc[g] \in Holding,
           \A q \in Sess \ {g[1]} : row'[q] = row[q],
           row'[g[1]].st \in {"none", "paused"} \cup Ended
             => (pc[g] \in Holding /\ p \notin Holding) \/ row'[g[1]].st = row[g[1]].st,
           row'[g[1]].lease = "expired" => row[g[1]].lease = "expired",
           \A c \in Claimers : claimer'[c] = claimer[c] \/ claimer'[c].pc = "release",
           UNCHANGED server
    PROVE  IInv'
<1> USE DEF IInv, Safe, TypeOK
<1>1. g[1] \in Sess /\ g[2] \in Slots /\ g = <<g[1], g[2]>>
  BY GorParts
<1>2. \A h \in Gors : pc'[h] = IF h = g THEN p ELSE pc[h]
  BY DEF Goto
<1>3. \A r \in Sess, s \in Slots : <<r, s>> \in Gors
  BY DEF Gors
<1>4. \A r \in Sess, s \in Slots : Holder(r, s)' => Holder(r, s)
  BY <1>2, <1>3 DEF Holder
<1>5. OneWorker'
  BY <1>4 DEF OneWorker, Holder
<1>6. HeldIsOpen'
  <2> SUFFICES ASSUME NEW r \in Sess, NEW s \in Slots, Holder(r, s)'
               PROVE  row'[r].st \notin {"none", "paused"} \cup Ended
    BY DEF HeldIsOpen
  <2>1. Holder(r, s) /\ row[r].st \notin {"none", "paused"} \cup Ended
    BY <1>4 DEF HeldIsOpen
  <2>2. CASE r # g[1]
    BY <2>1, <2>2
  <2>3. CASE r = g[1] /\ pc[g] \in Holding /\ p \notin Holding
    <3>1. s = g[2]
      BY <1>1, <2>1, <2>3 DEF OneWorker, Holder
    <3> QED BY <1>1, <1>2, <2>3, <3>1 DEF Holder
  <2>4. CASE r = g[1] /\ row'[g[1]].st = row[g[1]].st
    BY <2>1, <2>4
  <2> QED BY <2>2, <2>3, <2>4
<1>7. ClaimsGranted'
  <2>1. \A c \in Claimers : claimer[c].pc = "meta" => Grant(c) \in Gors
    BY <1>3 DEF ClaimsGranted, Grant
  <2>2. \A c \in Claimers : claimer[c].pc = "meta" => pc'[Grant(c)] = "claimed"
    BY <1>2, <2>1 DEF ClaimsGranted
  <2>3. \A c \in Claimers : claimer'[c].pc \in {"claim", "meta"} => claimer'[c] = claimer[c]
    OBVIOUS
  <2> QED BY <2>2, <2>3 DEF ClaimsGranted, Grant
<1>8. ReclaimIsSafe'
  <2>0. claimer'["boot"].pc = "reclaim" => claimer["boot"].pc = "reclaim"
    BY DEF Claimers
  <2> SUFFICES ASSUME claimer["boot"].pc = "reclaim", NEW r \in Sess, NEW s \in Slots,
                      row'[r].lease = "expired", Holder(r, s)'
               PROVE  FALSE
    BY <2>0 DEF ReclaimIsSafe
  <2>1. row[r].lease = "expired"
    OBVIOUS
  <2> QED BY <1>4, <2>1 DEF ReclaimIsSafe
<1>9. DownIsQuiet'
  BY DEF DownIsQuiet
<1> QED BY <1>5, <1>6, <1>7, <1>8, <1>9

(* Somebody writes rows without closing one that is held or leaving an      *)
(* expired lease to the boot scan, and no goroutine or claim moves.         *)
LEMMA RowsChange ==
    ASSUME IInv, TypeOK', UNCHANGED pc,
           \A r \in Sess, s \in Slots : Holder(r, s) =>
              /\ row'[r].st \in {"none", "paused"} \cup Ended => row'[r].st = row[r].st
              /\ claimer["boot"].pc = "reclaim" /\ row'[r].lease = "expired"
                    => row[r].lease = "expired",
           \A c \in Claimers :
              /\ claimer'[c].pc = "meta" => claimer'[c] = claimer[c]
              /\ claimer'[c].pc \in {"claim", "meta"} => claimer'[c].run \in Sess
              /\ claimer'[c].pc = "reclaim" => claimer[c].pc = "reclaim",
           server' = "down" =>
              server = "down" /\ \A c \in Claimers : claimer'[c].pc = claimer[c].pc
    PROVE  IInv'
<1> USE DEF IInv, Safe
<1>1. \A r \in Sess, s \in Slots : Holder(r, s)' <=> Holder(r, s)
  BY DEF Holder
<1>2. OneWorker'
  BY DEF OneWorker
<1>3. HeldIsOpen'
  BY <1>1 DEF HeldIsOpen
<1>4. ClaimsGranted'
  <2>1. \A c \in Claimers : claimer'[c].pc = "meta" =>
           claimer[c].pc = "meta" /\ Grant(c)' = Grant(c) /\ claimer'[c].slot = claimer[c].slot
    BY DEF Grant
  <2> QED BY <2>1 DEF ClaimsGranted
<1>5. ReclaimIsSafe'
  <2>1. "boot" \in Claimers
    BY DEF Claimers
  <2> QED BY <1>1, <2>1 DEF ReclaimIsSafe
<1>6. DownIsQuiet'
  BY DEF DownIsQuiet
<1> QED BY <1>2, <1>3, <1>4, <1>5, <1>6

(* An idle slot takes up a session nobody works on.                         *)
LEMMA WorkerTakes ==
    ASSUME IInv, TypeOK', NEW r \in Sess, NEW s \in Slots, pc[<<r, s>>] = "idle",
           row[r].st \in {"none", "paused"}, server # "down", server' # "down",
           NEW p \in {"claimed", "enter"}, Goto(<<r, s>>, p),
           \A q \in Sess \ {r} : row'[q] = row[q],
           row'[r].st \notin {"none", "paused"} \cup Ended,
           claimer["boot"].pc # "reclaim" \/ row'[r].lease # "expired",
           \/ p = "enter" /\ UNCHANGED claimer
           \/ \E c \in Claimers :
                 /\ p = "claimed" /\ claimer[c].pc = "claim" /\ claimer[c].run = r
                 /\ claimer' = [claimer EXCEPT ![c].pc = "meta", ![c].slot = s]
    PROVE  IInv'
<1> USE DEF IInv, Safe, TypeOK
<1>1. \A q \in Sess, t \in Slots : <<q, t>> \in Gors
  BY DEF Gors
<1>2. \A q \in Sess, t \in Slots :
         pc'[<<q, t>>] = IF q = r /\ t = s THEN p ELSE pc[<<q, t>>]
  BY <1>1 DEF Goto
<1>3. \A t \in Slots : ~Holder(r, t)
  BY DEF HeldIsOpen
<1>4. \A q \in Sess, t \in Slots : Holder(q, t)' =>
         \/ q = r /\ t = s
         \/ q # r /\ Holder(q, t)
  BY <1>2, <1>3 DEF Holder
<1>5. OneWorker'
  BY <1>4 DEF OneWorker, Holder
<1>6. HeldIsOpen'
  BY <1>4 DEF HeldIsOpen
<1>a. \A c \in Claimers :
         \/ claimer'[c] = claimer[c]
         \/ /\ p = "claimed" /\ claimer[c].pc = "claim" /\ claimer'[c].pc = "meta"
            /\ claimer'[c].run = r /\ claimer'[c].slot = s
  <2>1. CASE UNCHANGED claimer
    BY <2>1
  <2>2. ASSUME NEW c \in Claimers, p = "claimed", claimer[c].pc = "claim",
               claimer[c].run = r,
               claimer' = [claimer EXCEPT ![c].pc = "meta", ![c].slot = s],
               NEW d \in Claimers
        PROVE  \/ claimer'[d] = claimer[d]
               \/ /\ p = "claimed" /\ claimer[d].pc = "claim" /\ claimer'[d].pc = "meta"
                  /\ claimer'[d].run = r /\ claimer'[d].slot = s
    BY <2>2 DEF Claim
  <2> QED BY <2>1, <2>2
<1>b. \A c, d \in Claimers : claimer'[c] # claimer[c] /\ claimer'[d] # claimer[d] => c = d
  OBVIOUS
<1>7. ClaimsGranted'
  <2>1. \A c \in Claimers : claimer[c].pc = "meta" =>
           Grant(c) # <<r, s>> /\ pc'[Grant(c)] = "claimed"
    BY <1>2 DEF ClaimsGranted, Grant
  <2>2. \A c \in Claimers : claimer'[c].pc \in {"claim", "meta"} => claimer'[c].run \in Sess
    BY <1>a DEF ClaimsGranted
  <2>3. \A c \in Claimers : claimer'[c].pc = "meta" =>
            claimer'[c].slot \in Slots /\ pc'[Grant(c)'] = "claimed"
    BY <1>2, <1>a, <2>1 DEF ClaimsGranted, Grant
  <2>4. \A c, d \in Claimers :
            claimer'[c].pc = "meta" /\ claimer'[d].pc = "meta" /\ Grant(c)' = Grant(d)' => c = d
    BY <1>a, <1>b, <2>1 DEF ClaimsGranted, Grant
  <2> QED BY <2>2, <2>3, <2>4 DEF ClaimsGranted
<1>8. ReclaimIsSafe'
  <2>1. claimer'["boot"].pc = "reclaim" => claimer["boot"].pc = "reclaim"
    BY <1>a DEF Claimers
  <2> QED BY <1>4, <2>1 DEF ReclaimIsSafe
<1>9. DownIsQuiet'
  BY DEF DownIsQuiet
<1> QED BY <1>5, <1>6, <1>7, <1>8, <1>9

(* A resuming call lets the goroutine it was granted go, or gives up.       *)
LEMMA GrantUsed ==
    ASSUME IInv, TypeOK', NEW c \in Claimers, claimer[c].pc = "meta",
           NEW p \in {"enter", "idle"}, Goto(Grant(c), p),
           \A q \in Sess \ {claimer[c].run} : row'[q] = row[q],
           p = "enter" => row'[claimer[c].run].st = row[claimer[c].run].st,
           row'[claimer[c].run].lease = "expired" => row[claimer[c].run].lease = "expired",
           \A d \in Claimers : d # c => claimer'[d] = claimer[d],
           claimer'[c].pc \in {"next", "idle"}, UNCHANGED server
    PROVE  IInv'
<1> DEFINE r == claimer[c].run
           s == claimer[c].slot
<1> USE DEF IInv, Safe, TypeOK
<1>0. r \in Sess /\ s \in Slots /\ pc[<<r, s>>] = "claimed" /\ Goto(<<r, s>>, p)
  BY DEF ClaimsGranted, Grant
<1> HIDE DEF r, s
<1>1. \A q \in Sess, t \in Slots :
         pc'[<<q, t>>] = IF q = r /\ t = s THEN p ELSE pc[<<q, t>>]
  BY <1>0 DEF Goto, Gors
<1>2. Holder(r, s)
  BY <1>0 DEF Holder, Holding, GorPC
<1>3. \A q \in Sess, t \in Slots : Holder(q, t)' =>
         Holder(q, t) /\ (q = r => t = s /\ p = "enter")
  <2> SUFFICES ASSUME NEW q \in Sess, NEW t \in Slots, Holder(q, t)'
               PROVE  Holder(q, t) /\ (q = r => t = s /\ p = "enter")
    OBVIOUS
  <2>1. CASE q = r /\ t = s
    BY <1>0, <1>1, <1>2, <2>1 DEF Holder, Holding
  <2>2. CASE ~(q = r /\ t = s)
    <3>1. Holder(q, t)
      BY <1>1, <2>2 DEF Holder
    <3> QED BY <1>0, <1>2, <2>2, <3>1 DEF OneWorker, Holder
  <2> QED BY <2>1, <2>2
<1>4. OneWorker'
  BY <1>3 DEF OneWorker, Holder
<1>5. HeldIsOpen'
  BY <1>0, <1>3 DEF HeldIsOpen, r
<1>6. ClaimsGranted'
  <2>1. \A d \in Claimers : claimer'[d].pc = "meta" =>
           d # c /\ claimer[d].pc = "meta" /\ Grant(d)' = Grant(d) /\ Grant(d) # <<r, s>>
    BY DEF ClaimsGranted, Grant, r, s
  <2>2. \A d \in Claimers : claimer'[d].pc = "meta" =>
           claimer'[d].slot \in Slots /\ pc'[Grant(d)'] = "claimed"
    BY <1>1, <2>1 DEF ClaimsGranted, Grant
  <2>3. \A d \in Claimers : claimer'[d].pc \in {"claim", "meta"} => claimer'[d].run \in Sess
    BY DEF ClaimsGranted
  <2> QED BY <2>1, <2>2, <2>3 DEF ClaimsGranted
<1>7. ReclaimIsSafe'
  <2>1. claimer'["boot"].pc = "reclaim" => claimer["boot"].pc = "reclaim"
    BY DEF Claimers
  <2> QED BY <1>0, <1>3, <2>1 DEF ReclaimIsSafe, r
<1>8. DownIsQuiet'
  BY DEF DownIsQuiet
<1> QED BY <1>4, <1>5, <1>6, <1>7, <1>8

(* The process goes down: nobody holds anything.                            *)
LEMMA EverybodyGone ==
    ASSUME IInv, TypeOK', Down
    PROVE  IInv'
<1>1. \A r \in Sess, s \in Slots : ~Holder(r, s)' /\ pc'[<<r, s>>] = "idle"
  BY DEF Down, Holder, Holding, Gors
<1>2. \A c \in Claimers : claimer'[c].pc = "idle"
  BY DEF Down, NoClaim
<1>3. "boot" \in Claimers
  BY DEF Claimers
<1>4. OneWorker' /\ HeldIsOpen' /\ ReclaimIsSafe' /\ ClaimsGranted'
  BY <1>1, <1>2, <1>3 DEF OneWorker, HeldIsOpen, ReclaimIsSafe, ClaimsGranted, Holder
<1>5. DownIsQuiet'
  BY <1>2 DEF DownIsQuiet, Down
<1> QED BY <1>4, <1>5 DEF IInv, Safe

----------------------------------------------------------------------------
(* The inductive invariant, one lemma per actor.                            *)

LEMMA SafeInit == Init => IInv
<1> SUFFICES ASSUME Init PROVE IInv
  OBVIOUS
<1>1. \A r \in Sess, s \in Slots : ~Holder(r, s)
  BY DEF Init, Holder, Holding, Gors
<1>2. \A c \in Claimers : claimer[c].pc = "idle"
  BY DEF Init, NoClaim
<1>3. "boot" \in Claimers
  BY DEF Claimers
<1>4. OneWorker /\ HeldIsOpen /\ ReclaimIsSafe /\ ClaimsGranted
  BY <1>1, <1>2, <1>3 DEF OneWorker, HeldIsOpen, ReclaimIsSafe, ClaimsGranted, Holder
<1>5. DownIsQuiet
  BY DEF DownIsQuiet, Init
<1> QED BY <1>4, <1>5, TypeInit DEF IInv, Safe

LEMMA SafeClaimer ==
    ASSUME IInv, TypeOK', NEW c \in Claimers, ClaimerStep(c) \/ StartResumeFails(c)
    PROVE  IInv'
<1> USE DEF IInv, Safe, TypeOK, RowsOK, ClaimersOK
<1>0. server = "down" => claimer[c].pc = "idle"
  BY DEF DownIsQuiet
<1>1. CASE ListPaused(c)
  <2>1. \A d \in Claimers : d # c => claimer'[d] = claimer[d]
    BY <1>1 DEF ListPaused
  <2>2. claimer'[c].pc = "next" /\ UNCHANGED <<row, pc, server>> /\ server # "down"
    BY <1>0, <1>1 DEF ListPaused, Claim, dbVars, gorVars
  <2> QED BY <2>1, <2>2, RowsChange DEF ClaimsGranted
<1>2. ASSUME NEW r \in Sess, ResumeSession(c, r) PROVE IInv'
  <2>1. \A d \in Claimers : d # c => claimer'[d] = claimer[d]
    BY <1>2 DEF ResumeSession
  <2>2. /\ claimer'[c].pc = "claim" /\ claimer'[c].run = r
        /\ UNCHANGED <<row, pc, server>> /\ server # "down"
    BY <1>0, <1>2 DEF ResumeSession, Claim, dbVars, gorVars
  <2> QED BY <2>1, <2>2, RowsChange DEF ClaimsGranted
<1>3. CASE ClaimRunForResume(c)
  <2> DEFINE r == claimer[c].run
             s == FreeSlot(r)
  <2>0. r \in Sess /\ server # "down" /\ UNCHANGED server
    BY <1>0, <1>3 DEF ClaimRunForResume, ClaimsGranted
  <2>1. CASE CanClaim(r) /\ HasSlot(r)
             /\ row' = [row EXCEPT ![r] =
                  [st |-> "resuming", prev |-> claimer[c].prev,
                   reason |-> Cause(c), owner |-> FreeSlot(r), lease |-> "live"]]
             /\ Goto(<<r, FreeSlot(r)>>, "claimed")
             /\ claimer' = [claimer EXCEPT ![c].pc = "meta", ![c].slot = FreeSlot(r)]
    <3>1. s \in Slots /\ pc[<<r, s>>] = "idle" /\ row[r].st = "paused"
      BY <2>0, <2>1, FreeSlotIdle DEF CanClaim
    <3>2. row'[r].st = "resuming" /\ row'[r].lease = "live"
          /\ \A q \in Sess \ {r} : row'[q] = row[q]
      BY <2>0, <2>1
    <3>3. claimer[c].pc = "claim"
      BY <1>3 DEF ClaimRunForResume
    <3> HIDE DEF r, s
    <3>4. \E d \in Claimers :
             /\ "claimed" = "claimed" /\ claimer[d].pc = "claim" /\ claimer[d].run = r
             /\ claimer' = [claimer EXCEPT ![d].pc = "meta", ![d].slot = s]
      BY <2>1, <3>3 DEF r, s
    <3>5. Goto(<<r, s>>, "claimed")
      BY <2>1 DEF r, s
    <3> HIDE DEF IInv, TypeOK
    <3> QED BY <2>0, <3>1, <3>2, <3>4, <3>5, WorkerTakes DEF Ended
  <2>2. CASE claimer' = AfterError(c, row[r].st) /\ UNCHANGED <<row, pc, loc>>
    <3>1. claimer'[c].pc \in {"next", "idle"}
          /\ \A d \in Claimers : d # c => claimer'[d] = claimer[d]
      BY <2>2, NextRowType
    <3> QED BY <2>0, <2>2, <3>1, RowsChange DEF ClaimsGranted
  <2> QED BY <1>3, <2>1, <2>2 DEF ClaimRunForResume
<1>4. CASE StartResume(c)
  <2>1. claimer[c].pc = "meta" /\ Goto(Grant(c), "enter") /\ UNCHANGED server
    BY <1>4 DEF StartResume, Grant
  <2>2. claimer[c].run \in Sess
    BY <2>1 DEF ClaimsGranted
  <2>3. /\ \A q \in Sess \ {claimer[c].run} : row'[q] = row[q]
        /\ row'[claimer[c].run].st = row[claimer[c].run].st
        /\ row'[claimer[c].run].lease = row[claimer[c].run].lease
    BY <1>4, <2>2 DEF StartResume, Row
  <2>4. claimer'[c].pc = "next" /\ \A d \in Claimers : d # c => claimer'[d] = claimer[d]
    BY <1>4, NextRowType DEF StartResume
  <2> HIDE DEF IInv, TypeOK
  <2> QED BY <2>1, <2>3, <2>4, GrantUsed
<1>5. CASE ClaimerDone(c)
  <2>1. \A d \in Claimers : d # c => claimer'[d] = claimer[d]
    BY <1>5 DEF ClaimerDone
  <2>2. claimer'[c].pc = "idle" /\ UNCHANGED <<row, pc, server>> /\ server # "down"
    BY <1>0, <1>5 DEF ClaimerDone, NoClaim, dbVars, gorVars
  <2> QED BY <2>1, <2>2, RowsChange DEF ClaimsGranted
<1>6. CASE StartResumeFails(c)
  <2>1. claimer[c].pc = "meta" /\ Goto(Grant(c), "idle") /\ UNCHANGED server
    BY <1>6 DEF StartResumeFails, Grant
  <2>2. claimer[c].run \in Sess /\ claimer[c].prev \in Status
    BY <2>1 DEF ClaimsGranted, Claim
  <2>3. /\ \A q \in Sess \ {claimer[c].run} : row'[q] = row[q]
        /\ row'[claimer[c].run].lease = "none"
    BY <1>6, <2>2, ResumeErrorSet DEF StartResumeFails
  <2>4. claimer'[c].pc \in {"next", "idle"}
        /\ \A d \in Claimers : d # c => claimer'[d] = claimer[d]
    BY <1>6, NextRowType DEF StartResumeFails
  <2> HIDE DEF IInv, TypeOK
  <2> QED BY <2>1, <2>3, <2>4, GrantUsed
<1> QED BY <1>1, <1>2, <1>3, <1>4, <1>5, <1>6 DEF ClaimerStep

LEMMA SafeGor ==
    ASSUME IInv, TypeOK', NEW g \in Gors, GorStep(g) \/ Fault(g) \/ AskHuman(g)
    PROVE  IInv'
<1> DEFINE Closed == {"none", "paused"} \cup Ended
<1>0. /\ g[1] \in Sess /\ RowsOK /\ loc[g].prev \in Status
      /\ \A p \in {"idle", "enter", "setup", "history", "loop", "asked", "await", "reply",
                   "pause", "park", "guard", "drop"} : p \in GorPC
  BY GorParts DEF IInv, TypeOK, RowsOK, Local, GorPC
<1>1. ASSUME NEW p \in {"setup", "loop", "asked", "reply", "pause", "park", "drop", "idle"},
             Goto(g, p), UNCHANGED <<row, claimer, server>>,
             pc[g] \notin {"idle", "claimed"}, p \in Holding => pc[g] \in Holding
      PROVE  IInv'
  BY <1>0, <1>1, WorkerMoves
<1>2. CASE Enter(g)
  BY <1>1, <1>2 DEF Enter, dbVars, Holding, GorPC
<1>3. CASE EnterFails(g)
  BY <1>1, <1>3 DEF EnterFails, dbVars, Holding, GorPC
<1>4. CASE LoadHistory(g) \/ TurnPauses(g) \/ AnswerHandled(g) \/ PauseReason(g) \/ AskHuman(g)
  BY <1>1, <1>4 DEF LoadHistory, TurnPauses, AnswerHandled, PauseReason, AskHuman, dbVars,
                    Holding, GorPC
<1>5. CASE Drop(g)
  BY <1>1, <1>5 DEF Drop, dbVars, Holding, GorPC
<1>6. ASSUME NEW st \in Status, SetStatus(g[1], st), Goto(g, "guard"), pc[g] \in Holding,
             pc[g] # "claimed", UNCHANGED <<claimer, server>>
      PROVE  IInv'
  <2>1. row'[g[1]].lease = row[g[1]].lease /\ \A q \in Sess \ {g[1]} : row'[q] = row[q]
    BY <1>0, <1>6, StatusSet
  <2>2. "guard" \notin Holding /\ "guard" # "claimed" /\ pc[g] # "idle"
    BY <1>6 DEF Holding
  <2> QED BY <1>0, <1>6, <2>1, <2>2, WorkerMoves
<1>7. CASE SetupFails(g) \/ PauseFails(g) \/ TurnEnds(g) \/ TurnCanceled(g)
  <2>1. /\ \E st \in Status : SetStatus(g[1], st)
        /\ Goto(g, "guard") /\ pc[g] \in {"setup", "pause", "loop"}
        /\ UNCHANGED <<claimer, server>>
    BY <1>7 DEF SetupFails, PauseFails, TurnEnds, TurnCanceled, Status
  <2>2. pc[g] \in Holding /\ pc[g] # "claimed"
    BY <2>1 DEF Holding, GorPC
  <2> QED BY <1>6, <2>1, <2>2
<1>8. ASSUME NEW p \in {"drop", "guard"}, ResumeError(g[1], loc[g].prev), Goto(g, p),
             pc[g] \in {"setup", "history"}, UNCHANGED <<claimer, server>>
      PROVE  IInv'
  <2>1. row'[g[1]].lease = "none" /\ \A q \in Sess \ {g[1]} : row'[q] = row[q]
    BY <1>0, <1>8, ResumeErrorSet
  <2>2. p \notin Holding /\ pc[g] \in Holding
    BY <1>8 DEF Holding, GorPC
  <2> QED BY <1>0, <1>8, <2>1, <2>2, WorkerMoves
<1>9. CASE LoadHistoryFails(g)
  BY <1>8, <1>9 DEF LoadHistoryFails
<1>10. CASE Setup(g)
  <2>1. CASE Goto(g, "loop") /\ UNCHANGED row
    BY <1>1, <1>10, <2>1 DEF Setup, Holding, GorPC
  <2>2. CASE row' = [row EXCEPT ![g[1]].st = "running", ![g[1]].owner = None,
                                ![g[1]].lease = "none"] /\ Goto(g, "history")
    <3>1. /\ row'[g[1]].lease = "none" /\ row'[g[1]].st = "running"
          /\ \A q \in Sess \ {g[1]} : row'[q] = row[q]
      BY <1>0, <2>2 DEF RowsOK, Row
    <3>2. pc[g] = "setup" /\ UNCHANGED <<claimer, server>> /\ "setup" \in Holding
      BY <1>10 DEF Setup, Holding, GorPC
    <3> QED BY <1>0, <2>2, <3>1, <3>2, WorkerMoves DEF Ended
  <2>3. CASE ResumeError(g[1], loc[g].prev) /\ Goto(g, "drop")
    BY <1>8, <1>10, <2>3 DEF Setup
  <2> QED BY <1>10, <2>1, <2>2, <2>3 DEF Setup
<1>11. CASE WaitForAnswer(g)
  <2>1. row'[g[1]].st = "waiting" /\ row'[g[1]].lease = row[g[1]].lease
        /\ \A q \in Sess \ {g[1]} : row'[q] = row[q]
    BY <1>0, <1>11, StatusSet DEF WaitForAnswer, Status
  <2>2. pc[g] = "asked" /\ Goto(g, "await") /\ UNCHANGED <<claimer, server>>
        /\ "asked" \in Holding
    BY <1>11 DEF WaitForAnswer, Holding, GorPC
  <2> QED BY <1>0, <2>1, <2>2, WorkerMoves DEF Ended
<1>12. CASE SeeAnswer(g)
  <2>1. PICK p \in {"reply", "loop"} : Goto(g, p)
    BY <1>12 DEF SeeAnswer
  <2>2. \A c \in Claimers : claimer'[c] = claimer[c] \/ claimer'[c].pc = "release"
    BY <1>12 DEF SeeAnswer, IInv, TypeOK, Claim
  <2>3. pc[g] = "await" /\ UNCHANGED <<row, server>> /\ "await" \in Holding
    BY <1>12 DEF SeeAnswer, Holding, GorPC, dbVars
  <2> QED BY <1>0, <2>1, <2>2, <2>3, WorkerMoves
<1>13. CASE PauseRun(g)
  <2>1. row'[g[1]].lease = "none" /\ \A q \in Sess \ {g[1]} : row'[q] = row[q]
    BY <1>0, <1>13 DEF PauseRun, RowsOK
  <2>2. pc[g] = "park" /\ Goto(g, "drop") /\ UNCHANGED <<claimer, server>>
        /\ "park" \in Holding /\ "drop" \notin Holding
    BY <1>13 DEF PauseRun, Holding, GorPC
  <2> QED BY <1>0, <2>1, <2>2, WorkerMoves
<1>14. CASE Guard(g)
  <2>1. /\ row'[g[1]].lease = row[g[1]].lease
        /\ row'[g[1]].st \in Closed => row'[g[1]].st = row[g[1]].st
        /\ \A q \in Sess \ {g[1]} : row'[q] = row[q]
    <3>1. CASE row' = row
      BY <3>1
    <3>2. CASE SetStatus(g[1], "failed")
      BY <1>0, <3>2, StatusSet DEF Status, Ended
    <3> QED BY <1>14, <3>1, <3>2 DEF Guard, SetStatus
  <2>2. pc[g] = "guard" /\ Goto(g, "drop") /\ UNCHANGED <<claimer, server>>
        /\ "drop" \notin Holding
    BY <1>14 DEF Guard, Holding
  <2> QED BY <1>0, <2>1, <2>2, WorkerMoves
<1> QED BY <1>2, <1>3, <1>4, <1>5, <1>7, <1>9, <1>10, <1>11, <1>12, <1>13, <1>14
        DEF GorStep, Fault

LEMMA SafeWorld ==
    ASSUME IInv, UnbornUnleased, TypeOK', World
    PROVE  IInv'
<1>0. /\ RowsOK /\ "boot" \in Claimers /\ Repliers \subseteq Claimers
      /\ claimer \in [Claimers -> Claim]
      /\ \A c \in Claimers : claimer[c].pc \in {"claim", "meta"} => claimer[c].run \in Sess
      /\ server = "down" => \A c \in Claimers : claimer[c].pc = "idle"
  BY DEF IInv, Safe, TypeOK, RowsOK, Claimers, ClaimsGranted, DownIsQuiet
<1>1. CASE ReclaimExpired
  <2>1. \A r \in Sess : row'[r] = row[r] \/ row[r].lease = "expired"
    BY <1>0, <1>1 DEF ReclaimExpired, RowsOK
  <2>2. \A r \in Sess, s \in Slots : Holder(r, s) => row'[r] = row[r]
    BY <1>1, <2>1 DEF IInv, Safe, ReclaimIsSafe, ReclaimExpired
  <2>3. claimer'["boot"].pc = "list" /\ \A c \in Claimers : c # "boot" => claimer'[c] = claimer[c]
    BY <1>0, <1>1 DEF ReclaimExpired, Claim
  <2>4. UNCHANGED <<pc, server>> /\ server # "down"
    BY <1>0, <1>1 DEF ReclaimExpired, gorVars
  <2> QED BY <1>0, <2>2, <2>3, <2>4, RowsChange
<1>2. ASSUME NEW c \in Claimers \ {"boot"}, Release(c) PROVE IInv'
  <2>1. \A r \in Sess : row'[r].lease = row[r].lease
           /\ (row'[r].st \in {"none", "paused"} \cup Ended => row'[r].st = row[r].st)
    <3>1. CASE row' = SetRunActive(Asker)
      BY <1>0, <3>1, ActiveSet, AskerAssumption DEF Ended
    <3> QED BY <1>2, <3>1 DEF Release
  <2>2. claimer'[c].pc \in {"list", "idle"} /\ \A d \in Claimers : d # c => claimer'[d] = claimer[d]
    BY <1>0, <1>2 DEF Release, Claim, NoClaim
  <2>3. UNCHANGED <<pc, server>> /\ server # "down"
    BY <1>0, <1>2 DEF Release, gorVars
  <2> QED BY <1>0, <2>1, <2>2, <2>3, RowsChange
<1>3. ASSUME NEW r \in Sess, Create(r) PROVE IInv'
  <2> DEFINE s == FreeSlot(r)
  <2>1. s \in Slots /\ pc[<<r, s>>] = "idle"
    BY <1>3, FreeSlotIdle DEF Create
  <2>2. row'[r].st = "running" /\ row'[r].lease = row[r].lease
        /\ \A q \in Sess \ {r} : row'[q] = row[q]
    BY <1>0, <1>3, StatusSet DEF Create, Status
  <2>3. row[r].st = "none" /\ server = "up" /\ Goto(<<r, s>>, "enter")
        /\ UNCHANGED <<claimer, server>>
    BY <1>3 DEF Create
  <2>4. row'[r].lease # "expired"
    BY <2>2, <2>3 DEF UnbornUnleased
  <2> HIDE DEF s
  <2> QED BY <2>1, <2>2, <2>3, <2>4, WorkerTakes DEF Ended
<1>4. ASSUME NEW h \in Repliers, Comment(h) PROVE IInv'
  <2>1. claimer'[h].pc = "release" /\ \A d \in Claimers : d # h => claimer'[d] = claimer[d]
    BY <1>0, <1>4 DEF Comment, Claim
  <2>2. UNCHANGED <<row, pc, server>> /\ server # "down"
    BY <1>4 DEF Comment, Serving, gorVars
  <2> QED BY <1>0, <2>1, <2>2, RowsChange
<1>5. ASSUME NEW r \in Sess, StopRun(r) \/ LeaseExpires(r) \/ MarkStale(r) PROVE IInv'
  <2>1. UNCHANGED <<pc, claimer, server>>
    BY <1>5 DEF StopRun, LeaseExpires, MarkStale, gorVars
  <2>2. CASE StopRun(r)
    BY <1>0, <2>1, <2>2, RowsChange DEF StopRun, dbVars
  <2>3. CASE LeaseExpires(r)
    <3>1. \A q \in Sess : row'[q].st = row[q].st /\ (q # r => row'[q] = row[q])
      BY <1>0, <2>3 DEF LeaseExpires, RowsOK, Row
    <3>2. claimer["boot"].pc = "reclaim" => \A s \in Slots : ~Holder(r, s)
      BY <2>3 DEF LeaseExpires, Holder, Holding
    <3> QED BY <1>0, <2>1, <3>1, <3>2, RowsChange
  <2>4. CASE MarkStale(r)
    <3>1. row'[r].st = "stale" /\ row'[r].lease = row[r].lease
          /\ \A q \in Sess \ {r} : row'[q] = row[q]
      BY <1>0, <2>4, StatusSet DEF MarkStale, Status
    <3> QED BY <1>0, <2>1, <3>1, RowsChange DEF Ended
  <2> QED BY <1>5, <2>2, <2>3, <2>4
<1>6. CASE Drain
  BY <1>0, <1>6, RowsChange DEF Drain, dbVars, gorVars
<1>7. CASE Leave \/ DrainDeadline \/ Crash
  BY <1>7, EverybodyGone DEF Leave, DrainDeadline, Crash
<1>8. CASE Boot
  <2>1. \A r \in Sess, s \in Slots : ~Holder(r, s)
    BY <1>8 DEF Boot, IInv, Safe, DownIsQuiet, Holder, Holding, Gors
  <2>2. claimer'["boot"].pc = "reclaim" /\ \A d \in Claimers : d # "boot" => claimer'[d] = claimer[d]
    BY <1>0, <1>8 DEF Boot, Claim
  <2>3. UNCHANGED <<row, pc>> /\ server' # "down"
    BY <1>8 DEF Boot, dbVars, gorVars
  <2>4. \A r \in Sess, s \in Slots : ~Holder(r, s)'
    BY <2>1, <2>3 DEF Holder
  <2>5. OneWorker' /\ HeldIsOpen' /\ ReclaimIsSafe' /\ DownIsQuiet'
    BY <2>3, <2>4 DEF OneWorker, HeldIsOpen, ReclaimIsSafe, DownIsQuiet, Holder
  <2>6. ClaimsGranted'
    BY <1>0, <1>8, <2>2 DEF ClaimsGranted, Boot
  <2> QED BY <2>5, <2>6 DEF IInv, Safe
<1> QED BY <1>1, <1>2, <1>3, <1>4, <1>5, <1>6, <1>7, <1>8 DEF World

(* No step gives a lease to a row that is not there.                        *)
LEMMA UnbornStep ==
    ASSUME IInv, UnbornUnleased, Next
    PROVE  UnbornUnleased'
<1>0. RowsOK /\ \A g \in Gors : g[1] \in Sess /\ loc[g].prev \in Status
  BY GorParts DEF IInv, TypeOK, RowsOK, Local
<1>1. CASE row' = row
  BY <1>1 DEF UnbornUnleased
<1>2. ASSUME NEW r \in Sess, NEW st \in Status \ {"none"}, SetStatus(r, st)
      PROVE  UnbornUnleased'
  BY <1>0, <1>2, StatusSet DEF UnbornUnleased
<1>3. ASSUME NEW r \in Sess, NEW st \in Status, ResumeError(r, st)
      PROVE  UnbornUnleased'
  BY <1>0, <1>3, ResumeErrorSet DEF UnbornUnleased
<1>4. ASSUME NEW r \in Sess, RowsOK', row'[r].st # "none" \/ row'[r].lease = "none",
             \A q \in Sess \ {r} : row'[q] = row[q]
      PROVE  UnbornUnleased'
  BY <1>4 DEF UnbornUnleased
<1>5. CASE ReclaimExpired
  <2>1. \A r \in Sess : row'[r] = row[r] \/ row'[r].lease = "none"
    BY <1>0, <1>5 DEF ReclaimExpired, RowsOK, Row
  <2> QED BY <2>1 DEF UnbornUnleased
<1>6. ASSUME NEW c \in Claimers, Release(c) PROVE UnbornUnleased'
  <2>1. CASE row' = SetRunActive(Asker)
    BY <1>0, <2>1, ActiveSet, AskerAssumption DEF UnbornUnleased
  <2> QED BY <1>1, <1>6, <2>1 DEF Release
<1>7. ASSUME NEW c \in Claimers, ClaimerStep(c) \/ StartResumeFails(c) PROVE UnbornUnleased'
  <2> DEFINE r == claimer[c].run
  <2>0. /\ claimer[c].pc \in {"claim", "meta"} => r \in Sess
        /\ claimer[c].prev \in Status
    BY DEF IInv, Safe, TypeOK, ClaimsGranted, Claim
  <2>1. CASE claimer[c].pc = "claim" /\ row' = [row EXCEPT ![r] =
                    [st |-> "resuming", prev |-> claimer[c].prev,
                     reason |-> Cause(c), owner |-> FreeSlot(r), lease |-> "live"]]
    BY <1>0, <2>0, <2>1 DEF UnbornUnleased, RowsOK
  <2>2. CASE StartResume(c)
    <3>1. row'[r].st = row[r].st /\ row'[r].lease = row[r].lease
          /\ \A q \in Sess \ {r} : row'[q] = row[q]
      BY <1>0, <2>0, <2>2 DEF StartResume, RowsOK, Row
    <3> QED BY <3>1 DEF UnbornUnleased
  <2>3. CASE StartResumeFails(c)
    BY <1>3, <2>0, <2>3 DEF StartResumeFails
  <2> QED BY <1>1, <1>7, <2>1, <2>2, <2>3
          DEF ClaimerStep, ListPaused, ResumeSession, ClaimRunForResume, ClaimerDone, dbVars
<1>8. ASSUME NEW g \in Gors, GorStep(g) \/ Fault(g) \/ AskHuman(g) PROVE UnbornUnleased'
  <2>1. CASE Setup(g)
    <3>1. CASE row' = [row EXCEPT ![g[1]].st = "running", ![g[1]].owner = None,
                                ![g[1]].lease = "none"]
      BY <1>0, <3>1 DEF UnbornUnleased, RowsOK, Row
    <3> QED BY <1>0, <1>1, <1>3, <2>1, <3>1 DEF Setup
  <2>2. CASE TurnEnds(g) \/ TurnCanceled(g) \/ WaitForAnswer(g) \/ SetupFails(g) \/ PauseFails(g)
    <3>1. \E st \in Status \ {"none"} : SetStatus(g[1], st)
      BY <2>2 DEF TurnEnds, TurnCanceled, WaitForAnswer, SetupFails, PauseFails, Status
    <3> QED BY <1>0, <1>2, <3>1
  <2>3. CASE PauseRun(g)
    BY <1>0, <2>3 DEF PauseRun, UnbornUnleased, RowsOK
  <2>4. CASE Guard(g)
    BY <1>0, <1>1, <1>2, <2>4 DEF Guard, SetStatus, Status
  <2>5. CASE LoadHistoryFails(g)
    BY <1>0, <1>3, <2>5 DEF LoadHistoryFails
  <2> QED BY <1>1, <1>8, <2>1, <2>2, <2>3, <2>4, <2>5
          DEF GorStep, Fault, Enter, LoadHistory, TurnPauses, SeeAnswer, AnswerHandled,
              PauseReason, Drop, EnterFails, AskHuman, dbVars
<1>9. ASSUME NEW r \in Sess, Create(r) \/ MarkStale(r) PROVE UnbornUnleased'
  <2>1. \E st \in Status \ {"none"} : SetStatus(r, st)
    BY <1>9 DEF Create, MarkStale, Status
  <2> QED BY <1>2, <2>1
<1>10. ASSUME NEW r \in Sess, LeaseExpires(r) PROVE UnbornUnleased'
  <2>1. \A q \in Sess : row'[q].st = row[q].st /\ (q # r => row'[q] = row[q])
    BY <1>0, <1>10 DEF LeaseExpires, RowsOK, Row
  <2>2. row[r].st # "none"
    BY <1>10 DEF LeaseExpires, UnbornUnleased
  <2> QED BY <2>1, <2>2 DEF UnbornUnleased
<1>11. CASE Leave \/ DrainDeadline \/ Crash
  BY <1>1, <1>11 DEF Leave, DrainDeadline, Crash, Down, dbVars
<1> QED BY <1>1, <1>5, <1>6, <1>7, <1>8, <1>9, <1>10, <1>11
        DEF Next, Comment, StopRun, Drain, Boot, dbVars

LEMMA InvStep == Inv /\ [Next]_vars => Inv'
<1> SUFFICES ASSUME Inv, [Next]_vars PROVE Inv'
  OBVIOUS
<1>1. CASE Next
  <2>1. TypeOK'
    BY <1>1, TypeStep DEF Inv, IInv, Safe
  <2>2. IInv'
    BY <1>1, <2>1, SafeClaimer, SafeGor, SafeWorld DEF Inv, Next, World
  <2> QED BY <1>1, <2>2, UnbornStep DEF Inv
<1>2. CASE UNCHANGED vars
  <2>1. TypeOK'
    BY <1>2 DEF Inv, IInv, TypeOK, vars, dbVars, gorVars
  <2>2. UnbornUnleased'
    BY <1>2 DEF Inv, UnbornUnleased, vars, dbVars
  <2>3. IInv'
    BY <1>2, <2>1, RowsChange DEF Inv, IInv, Safe, vars, dbVars, gorVars, ClaimsGranted
  <2> QED BY <2>2, <2>3 DEF Inv
<1> QED BY <1>1, <1>2

LEMMA InvAlways == Spec => []Inv
<1>1. Init => UnbornUnleased
  BY DEF Init, UnbornUnleased, NoRow
<1>2. Init => Inv
  BY <1>1, SafeInit DEF Inv
<1> QED BY <1>2, InvStep, PTL DEF Spec

----------------------------------------------------------------------------
(* The theorems.                                                           *)

(* Every step keeps the rows, goroutines, handles and calls well formed.    *)
THEOREM TypeCorrect == Spec => []TypeOK
<1>1. Inv => TypeOK
  BY DEF Inv, IInv
<1> QED BY <1>1, InvAlways, PTL

(* However the boot scan, human replies, an asker's poll, pauses, stops,    *)
(* faults and crashes interleave, two goroutines never hold one session.    *)
(* (ClaimRunForResume, MarkRunResumeStarted, PauseRunWithMetadata)          *)
THEOREM OneWorkerAlways == Spec => []OneWorker
<1>1. Inv => OneWorker
  BY DEF Inv, IInv, Safe
<1> QED BY <1>1, InvAlways, PTL

(* Whoever writes the status of a row that is over leaves it as it was.     *)
LEMMA EndedStep ==
    ASSUME Inv, [Next]_vars, NEW r \in Sess, row[r].st \in Ended
    PROVE  row'[r].st = row[r].st
<1>0. /\ RowsOK /\ \A g \in Gors : g[1] \in Sess /\ loc[g].prev \in Status
      /\ \A s \in Slots : ~Holder(r, s)
  BY GorParts DEF Inv, IInv, Safe, TypeOK, RowsOK, Local, HeldIsOpen
<1>1. \A g \in Gors : pc[g] \in Holding => g[1] # r
  BY <1>0, GorParts DEF Holder
<1>2. ASSUME NEW q \in Sess, NEW st \in Status, q # r, SetStatus(q, st) \/ ResumeError(q, st)
      PROVE  row'[r].st = row[r].st
  BY <1>0, <1>2, StatusSet, ResumeErrorSet
<1>3. CASE ReclaimExpired
  BY <1>0, <1>3 DEF ReclaimExpired, RowsOK, Ended
<1>4. ASSUME NEW c \in Claimers, Release(c) PROVE row'[r].st = row[r].st
  BY <1>0, <1>4, ActiveSet, AskerAssumption DEF Release, SetRunActive, Ended, RowsOK
<1>5. ASSUME NEW c \in Claimers, ClaimerStep(c) \/ StartResumeFails(c)
      PROVE  row'[r].st = row[r].st
  <2> DEFINE q == claimer[c].run
  <2>0. /\ claimer[c].pc \in {"claim", "meta"} => q \in Sess
        /\ claimer[c].prev \in Status
        /\ claimer[c].pc = "meta" => q # r
    <3>1. claimer[c].pc = "meta" => Holder(q, claimer[c].slot) /\ claimer[c].slot \in Slots
      BY DEF Inv, IInv, Safe, ClaimsGranted, Grant, Holder, Holding, GorPC
    <3> QED BY <1>0, <3>1 DEF Inv, IInv, Safe, TypeOK, ClaimsGranted, Claim
  <2>1. CASE claimer[c].pc = "claim" /\ CanClaim(q) /\ row' = [row EXCEPT ![q] =
                    [st |-> "resuming", prev |-> claimer[c].prev,
                     reason |-> Cause(c), owner |-> FreeSlot(q), lease |-> "live"]]
    BY <1>0, <2>0, <2>1 DEF CanClaim, RowsOK, Ended
  <2>2. CASE StartResume(c)
    BY <1>0, <2>0, <2>2 DEF StartResume, RowsOK, Row
  <2>3. CASE StartResumeFails(c)
    BY <1>2, <2>0, <2>3 DEF StartResumeFails
  <2> QED BY <1>5, <2>1, <2>2, <2>3
          DEF ClaimerStep, ListPaused, ResumeSession, ClaimRunForResume, ClaimerDone, dbVars
<1>6. ASSUME NEW g \in Gors, GorStep(g) \/ Fault(g) \/ AskHuman(g)
      PROVE  row'[r].st = row[r].st
  <2>0. {"setup", "history", "loop", "asked", "pause", "park"} \subseteq Holding
    BY DEF Holding, GorPC
  <2>1. CASE Setup(g)
    <3>1. g[1] # r
      BY <1>1, <2>0, <2>1 DEF Setup
    <3>2. CASE row' = [row EXCEPT ![g[1]].st = "running", ![g[1]].owner = None,
                                ![g[1]].lease = "none"]
      BY <1>0, <3>1, <3>2 DEF RowsOK
    <3> QED BY <1>0, <1>2, <2>1, <3>1, <3>2 DEF Setup
  <2>2. CASE TurnEnds(g) \/ TurnCanceled(g) \/ WaitForAnswer(g) \/ SetupFails(g) \/ PauseFails(g)
    <3>1. g[1] # r
      BY <1>1, <2>0, <2>2 DEF TurnEnds, TurnCanceled, WaitForAnswer, SetupFails, PauseFails
    <3>2. \E st \in Status : SetStatus(g[1], st)
      BY <2>2 DEF TurnEnds, TurnCanceled, WaitForAnswer, SetupFails, PauseFails, Status
    <3> QED BY <1>0, <1>2, <3>1, <3>2
  <2>3. CASE PauseRun(g)
    <3>1. g[1] # r
      BY <1>1, <2>0, <2>3 DEF PauseRun
    <3> QED BY <1>0, <2>3, <3>1 DEF PauseRun, RowsOK
  <2>4. CASE Guard(g)
    BY <1>0, <2>4 DEF Guard, RowsOK, Ended
  <2>5. CASE LoadHistoryFails(g)
    BY <1>0, <1>1, <1>2, <2>0, <2>5 DEF LoadHistoryFails
  <2> QED BY <1>6, <2>1, <2>2, <2>3, <2>4, <2>5
          DEF GorStep, Fault, Enter, LoadHistory, TurnPauses, SeeAnswer, AnswerHandled,
              PauseReason, Drop, EnterFails, AskHuman, dbVars
<1>7. ASSUME NEW q \in Sess, Create(q) \/ MarkStale(q) PROVE row'[r].st = row[r].st
  <2>1. q # r /\ \E st \in Status : SetStatus(q, st)
    BY <1>7 DEF Create, MarkStale, Silent, Status, Ended
  <2> QED BY <1>2, <2>1
<1>8. ASSUME NEW q \in Sess, LeaseExpires(q) PROVE row'[r].st = row[r].st
  BY <1>0, <1>8 DEF LeaseExpires, RowsOK, Row
<1>9. CASE Leave \/ DrainDeadline \/ Crash
  BY <1>9 DEF Leave, DrainDeadline, Crash, Down, dbVars
<1> QED BY <1>3, <1>4, <1>5, <1>6, <1>7, <1>8, <1>9
        DEF Next, Comment, StopRun, Drain, Boot, vars, dbVars

(* A completed or canceled session is never run again, although replies,    *)
(* the monitor, the deferred guard and failed resumes all write the status  *)
(* of rows they do not hold.  (SetRunActive, RecordResumeError)             *)
THEOREM EndedStaysAlways == Spec => EndedStays
<1>1. Inv /\ [Next]_vars =>
        [\A r \in Sess : row[r].st \in {"completed", "canceled"} => row'[r].st = row[r].st]_vars
  BY EndedStep DEF Ended
<1> QED BY <1>1, InvAlways, PTL DEF Spec, EndedStays

----------------------------------------------------------------------------
(* The lease implements RunOwnership.                                      *)

(* RunOwnership's variables, as Sessions instantiates it.                   *)
Open  == {r \in Sess : row[r].st \in {"none", "paused"}}
Hands == [r \in Sess |-> Worker(r)]
IsOpen(r) == row[r].st \in {"none", "paused"}

(* The worker of a session is its one holder.                               *)
LEMMA WorkerIs ==
    ASSUME OneWorker, NEW r \in Sess
    PROVE  /\ \A s \in Slots : Holder(r, s) => Worker(r) = s
           /\ (\A s \in Slots : ~Holder(r, s)) => Worker(r) = None
  BY DEF OneWorker, Worker, Holder

LEMMA WorkerIsNone ==
    ASSUME OneWorker, NEW r \in Sess
    PROVE  Worker(r) = None <=> \A s \in Slots : ~Holder(r, s)
  BY WorkerIs, SlotsAssumption

AbsStep == [Ownership!Next]_<<Open, Hands>>

LEMMA SameHands ==
    ASSUME OneWorker, OneWorker', NEW r \in Sess,
           \A s \in Slots : Holder(r, s)' <=> Holder(r, s)
    PROVE  Worker(r)' = Worker(r)
<1>1. CASE \E s \in Slots : Holder(r, s)
  <2>1. PICK s \in Slots : Holder(r, s) /\ Holder(r, s)'
    BY <1>1
  <2>2. Worker(r) = s
    BY <2>1, WorkerIs
  <2>3. Worker(r)' = s
    BY <2>1 DEF OneWorker, Worker, Holder
  <2> QED BY <2>2, <2>3
<1>2. CASE \A s \in Slots : ~Holder(r, s)
  <2>1. Worker(r) = None
    BY <1>2, WorkerIs
  <2>2. Worker(r)' = None
    BY <1>2 DEF Worker, Holder
  <2> QED BY <2>1, <2>2
<1> QED BY <1>1, <1>2

(* Nobody takes up or puts down a session: what was interrupted may open.   *)
LEMMA MapReopen ==
    ASSUME OneWorker, OneWorker',
           \A r \in Sess, s \in Slots : Holder(r, s)' <=> Holder(r, s),
           \A r \in Sess : IsOpen(r) => IsOpen(r)',
           \A r \in Sess : IsOpen(r)' /\ ~IsOpen(r) => \A s \in Slots : ~Holder(r, s)
    PROVE  AbsStep
<1> DEFINE rs == {r \in Sess : IsOpen(r)' /\ ~IsOpen(r)}
<1>1. Hands' = Hands
  BY SameHands DEF Hands
<1>2. rs \in SUBSET (Sess \ Open) /\ Open' = Open \cup rs
  BY DEF Open, IsOpen
<1>3. \A r \in rs : Ownership!Free(r)
  BY WorkerIs DEF Ownership!Free
<1>4. Ownership!Reopen
  BY <1>1, <1>2, <1>3 DEF Ownership!Reopen, Open, Hands
<1> QED BY <1>4 DEF AbsStep, Ownership!Next

(* A worker lets go of its session, which stays shut or opens.              *)
LEMMA MapPutDown ==
    ASSUME OneWorker, OneWorker', NEW r \in Sess, NEW s \in Slots, Holder(r, s),
           \A t \in Slots : ~Holder(r, t)',
           \A q \in Sess, t \in Slots : q # r => (Holder(q, t)' <=> Holder(q, t)),
           \A q \in Sess : q # r => (IsOpen(q)' <=> IsOpen(q)),
           ~IsOpen(r)
    PROVE  AbsStep
<1>1. Worker(r) = s /\ s # None
  BY WorkerIs, SlotsAssumption
<1>2. Worker(r)' = None
  BY DEF Worker, Holder
<1>3. \A q \in Sess : q # r => Worker(q)' = Worker(q)
  BY SameHands
<1>4. Hands' = [Hands EXCEPT ![r] = None]
  BY <1>2, <1>3 DEF Hands
<1>5. Open' \in {Open, Open \cup {r}}
  <2>1. CASE IsOpen(r)'
    BY <2>1 DEF Open, IsOpen
  <2>2. CASE ~IsOpen(r)'
    BY <2>2 DEF Open, IsOpen
  <2> QED BY <2>1, <2>2
<1>6. ~Ownership!Free(r)
  BY <1>1 DEF Ownership!Free
<1>7. Ownership!PutDown(r)
  BY <1>4, <1>5, <1>6 DEF Ownership!PutDown, Open, Hands
<1> QED BY <1>7 DEF AbsStep, Ownership!Next

(* An open session nobody works on is taken up.                             *)
LEMMA MapTake ==
    ASSUME OneWorker, OneWorker', NEW r \in Sess, NEW s \in Slots, Holder(r, s)',
           \A t \in Slots : ~Holder(r, t),
           \A q \in Sess, t \in Slots : q # r => (Holder(q, t)' <=> Holder(q, t)),
           \A q \in Sess : q # r => (IsOpen(q)' <=> IsOpen(q)),
           IsOpen(r), ~IsOpen(r)'
    PROVE  AbsStep
<1>1. Worker(r) = None
  BY WorkerIs
<1>2. Worker(r)' = s
  BY DEF OneWorker, Worker, Holder
<1>3. \A q \in Sess : q # r => Worker(q)' = Worker(q)
  BY SameHands
<1>4. Hands' = [Hands EXCEPT ![r] = s]
  BY <1>2, <1>3 DEF Hands
<1>5. Open' = Open \ {r} /\ r \in Open
  BY DEF Open, IsOpen
<1>6. Ownership!Free(r)
  BY <1>1 DEF Ownership!Free
<1>7. Ownership!Take(r, s)
  BY <1>4, <1>5, <1>6 DEF Ownership!Take, Open, Hands
<1> QED BY <1>7 DEF AbsStep, Ownership!Next

(* The process goes down with all its workers.                              *)
LEMMA MapCrash ==
    ASSUME Down
    PROVE  AbsStep
<1>1. \A r \in Sess, s \in Slots : ~Holder(r, s)'
  BY DEF Down, Holder, Holding, Gors
<1>2. \A r \in Sess : Worker(r)' = None
  BY <1>1 DEF Worker, Holder
<1>3. Hands' = [r \in Sess |-> None] /\ Open' = Open
  BY <1>2 DEF Hands, Open, Down, dbVars
<1> QED BY <1>3 DEF AbsStep, Ownership!Next, Ownership!Crash, Open, Hands

(* A goroutine that moves on keeps its session or puts it down.             *)
LEMMA MapMove ==
    ASSUME IInv, IInv', NEW g \in Gors, NEW p \in GorPC, Goto(g, p),
           p \in Holding => pc[g] \in Holding,
           \A q \in Sess \ {g[1]} : row'[q] = row[q],
           (pc[g] \in Holding /\ p \notin Holding) \/ (IsOpen(g[1])' <=> IsOpen(g[1]))
    PROVE  AbsStep
<1>1. g[1] \in Sess /\ g[2] \in Slots /\ g = <<g[1], g[2]>> /\ OneWorker /\ OneWorker'
  BY GorParts DEF IInv, Safe
<1>2. \A q \in Sess, t \in Slots :
         pc'[<<q, t>>] = IF q = g[1] /\ t = g[2] THEN p ELSE pc[<<q, t>>]
  BY <1>1 DEF Goto, IInv, TypeOK, Gors
<1>3. \A q \in Sess : q # g[1] => (IsOpen(q)' <=> IsOpen(q))
  BY DEF IsOpen
<1>4. CASE pc[g] \in Holding /\ p \notin Holding
  <2>1. Holder(g[1], g[2])
    BY <1>1, <1>4 DEF Holder
  <2>2. \A t \in Slots : ~Holder(g[1], t)'
    BY <1>1, <1>2, <1>4, <2>1 DEF OneWorker, Holder
  <2>3. \A q \in Sess, t \in Slots : q # g[1] => (Holder(q, t)' <=> Holder(q, t))
    BY <1>2 DEF Holder
  <2>4. ~IsOpen(g[1])
    BY <1>1, <2>1 DEF IInv, Safe, HeldIsOpen, IsOpen
  <2> QED BY <1>1, <1>3, <2>1, <2>2, <2>3, <2>4, MapPutDown
<1>5. CASE (IsOpen(g[1])' <=> IsOpen(g[1])) /\ (p \in Holding <=> pc[g] \in Holding)
  <2>1. \A q \in Sess, t \in Slots : Holder(q, t)' <=> Holder(q, t)
    BY <1>1, <1>2, <1>5 DEF Holder
  <2>2. \A q \in Sess : IsOpen(q)' <=> IsOpen(q)
    BY <1>3, <1>5
  <2> QED BY <1>1, <2>1, <2>2, MapReopen
<1> QED BY <1>4, <1>5

(* Rows change, and only the boot scan opens one: nobody's.                 *)
LEMMA MapRows ==
    ASSUME IInv, IInv', UNCHANGED pc,
           \A r \in Sess : IsOpen(r) => IsOpen(r)',
           \A r \in Sess, s \in Slots : Holder(r, s) => ~IsOpen(r)'
    PROVE  AbsStep
<1>1. \A r \in Sess, s \in Slots : Holder(r, s)' <=> Holder(r, s)
  BY DEF Holder
<1> QED BY <1>1, MapReopen DEF IInv, Safe

(* An idle slot takes up an open session.                                   *)
LEMMA MapSlot ==
    ASSUME IInv, IInv', NEW r \in Sess, NEW s \in Slots, NEW p \in {"claimed", "enter"},
           Goto(<<r, s>>, p), IsOpen(r), ~IsOpen(r)',
           \A q \in Sess \ {r} : row'[q] = row[q]
    PROVE  AbsStep
<1>0. OneWorker /\ OneWorker' /\ pc \in [Gors -> GorPC]
  BY DEF IInv, Safe, TypeOK
<1>1. \A q \in Sess, t \in Slots :
         pc'[<<q, t>>] = IF q = r /\ t = s THEN p ELSE pc[<<q, t>>]
  BY <1>0 DEF Goto, Gors
<1>2. Holder(r, s)' /\ \A q \in Sess, t \in Slots : q # r => (Holder(q, t)' <=> Holder(q, t))
  BY <1>1 DEF Holder, Holding, GorPC
<1>3. \A t \in Slots : ~Holder(r, t)
  BY DEF IInv, Safe, HeldIsOpen, IsOpen
<1>4. \A q \in Sess : q # r => (IsOpen(q)' <=> IsOpen(q))
  BY DEF IsOpen
<1> QED BY <1>0, <1>2, <1>3, <1>4, MapTake

LEMMA MapClaimer ==
    ASSUME IInv, IInv', NEW c \in Claimers, ClaimerStep(c) \/ StartResumeFails(c)
    PROVE  AbsStep
<1>0. /\ RowsOK /\ pc \in [Gors -> GorPC]
      /\ claimer[c].pc \in {"claim", "meta"} => claimer[c].run \in Sess
      /\ claimer[c].pc = "meta" => Grant(c) \in Gors /\ pc[Grant(c)] = "claimed"
      /\ claimer[c].prev \in Status
      /\ "claimed" \in Holding /\ "enter" \in Holding /\ "idle" \notin Holding
      /\ "enter" \in GorPC /\ "idle" \in GorPC
  BY DEF IInv, Safe, TypeOK, RowsOK, ClaimsGranted, Grant, Claim, Gors, Holding, GorPC
<1>1. CASE UNCHANGED <<row, pc>>
  BY <1>1, MapRows DEF IInv, Safe, HeldIsOpen, IsOpen
<1>2. ASSUME NEW r \in Sess, CanClaim(r), HasSlot(r), NEW s, s = FreeSlot(r),
             row' = [row EXCEPT ![r] =
                [st |-> "resuming", prev |-> claimer[c].prev,
                 reason |-> Cause(c), owner |-> FreeSlot(r), lease |-> "live"]],
             Goto(<<r, s>>, "claimed")
      PROVE  AbsStep
  <2>1. s \in Slots /\ IsOpen(r)
    BY <1>2, FreeSlotIdle DEF CanClaim, IsOpen
  <2>2. row'[r].st = "resuming" /\ \A q \in Sess \ {r} : row'[q] = row[q]
    BY <1>0, <1>2 DEF RowsOK
  <2>3. ~IsOpen(r)'
    BY <2>2 DEF IsOpen
  <2> QED BY <1>2, <2>1, <2>2, <2>3, MapSlot
<1>3. CASE StartResume(c)
  <2>1. PICK r \in Sess : r = claimer[c].run
    BY <1>0, <1>3 DEF StartResume
  <2>2. PICK g \in Gors : g = Grant(c)
    BY <1>0, <1>3 DEF StartResume
  <2>3. row'[r].st = row[r].st /\ \A q \in Sess \ {r} : row'[q] = row[q]
    BY <1>0, <1>3, <2>1 DEF StartResume, RowsOK, Row
  <2>4. Goto(g, "enter") /\ pc[g] = "claimed" /\ g[1] = r
    BY <1>0, <1>3, <2>1, <2>2 DEF StartResume, Grant
  <2>5. IsOpen(g[1])' <=> IsOpen(g[1])
    BY <2>3, <2>4 DEF IsOpen
  <2> QED BY <1>0, <2>3, <2>4, <2>5, MapMove
<1>4. CASE StartResumeFails(c)
  <2>1. PICK r \in Sess : r = claimer[c].run
    BY <1>0, <1>4 DEF StartResumeFails
  <2>2. PICK g \in Gors : g = Grant(c)
    BY <1>0, <1>4 DEF StartResumeFails
  <2>3. \A q \in Sess \ {r} : row'[q] = row[q]
    BY <1>0, <1>4, <2>1, ResumeErrorSet DEF StartResumeFails
  <2>4. Goto(g, "idle") /\ pc[g] = "claimed" /\ g[1] = r
    BY <1>0, <1>4, <2>1, <2>2 DEF StartResumeFails, Grant
  <2> QED BY <1>0, <2>3, <2>4, MapMove
<1>5. CASE ClaimRunForResume(c)
  BY <1>0, <1>1, <1>2, <1>5 DEF ClaimRunForResume
<1> QED BY <1>1, <1>3, <1>4, <1>5
        DEF ClaimerStep, ListPaused, ResumeSession, ClaimerDone, dbVars, gorVars

LEMMA MapGor ==
    ASSUME IInv, IInv', NEW g \in Gors, GorStep(g) \/ Fault(g) \/ AskHuman(g)
    PROVE  AbsStep
<1>0. /\ g[1] \in Sess /\ RowsOK /\ loc[g].prev \in Status
      /\ \A p \in {"idle", "enter", "setup", "history", "loop", "asked", "await", "reply",
                   "pause", "park", "guard", "drop"} : p \in GorPC
      /\ pc[g] \in Holding => ~IsOpen(g[1])
  BY GorParts DEF IInv, Safe, TypeOK, RowsOK, Local, GorPC, HeldIsOpen, IsOpen, Holder
<1>h. {"enter", "setup", "history", "loop", "asked", "await", "reply", "pause", "park"}
         \subseteq Holding /\ {"idle", "guard", "drop"} \intersect Holding = {}
  BY DEF Holding, GorPC
<1>1. ASSUME NEW p \in {"setup", "loop", "asked", "reply", "pause", "park", "drop", "idle"},
             Goto(g, p), UNCHANGED row, p \in Holding => pc[g] \in Holding
      PROVE  AbsStep
  BY <1>0, <1>1, MapMove DEF IsOpen
<1>2. CASE Enter(g) \/ LoadHistory(g) \/ TurnPauses(g) \/ SeeAnswer(g) \/ AnswerHandled(g)
           \/ PauseReason(g) \/ Drop(g) \/ EnterFails(g) \/ AskHuman(g)
  BY <1>1, <1>2, <1>h DEF Enter, LoadHistory, TurnPauses, SeeAnswer, AnswerHandled,
                          PauseReason, Drop, EnterFails, AskHuman, dbVars
<1>3. ASSUME NEW p \in {"guard", "drop"}, Goto(g, p), pc[g] \in Holding,
             \A q \in Sess \ {g[1]} : row'[q] = row[q]
      PROVE  AbsStep
  BY <1>0, <1>3, <1>h, MapMove
<1>4. CASE SetupFails(g) \/ PauseFails(g) \/ TurnEnds(g) \/ TurnCanceled(g)
  <2>1. (\E st \in Status : SetStatus(g[1], st)) /\ Goto(g, "guard") /\ pc[g] \in Holding
    BY <1>4, <1>h DEF SetupFails, PauseFails, TurnEnds, TurnCanceled, Status
  <2>2. \A q \in Sess \ {g[1]} : row'[q] = row[q]
    BY <1>0, <2>1, StatusSet
  <2> QED BY <1>3, <2>1, <2>2
<1>5. CASE LoadHistoryFails(g)
  BY <1>0, <1>3, <1>5, <1>h, ResumeErrorSet DEF LoadHistoryFails
<1>6. CASE PauseRun(g)
  BY <1>0, <1>3, <1>6, <1>h DEF PauseRun, RowsOK
<1>7. ASSUME NEW p \in {"history", "await"}, Goto(g, p), pc[g] \in Holding,
             NEW st \in {"running", "waiting"}, row'[g[1]].st = st,
             \A q \in Sess \ {g[1]} : row'[q] = row[q]
      PROVE  AbsStep
  BY <1>0, <1>7, MapMove DEF IsOpen
<1>8. CASE Setup(g)
  <2>1. pc[g] \in Holding
    BY <1>8, <1>h DEF Setup
  <2>2. CASE UNCHANGED row /\ Goto(g, "loop")
    BY <1>1, <2>1, <2>2
  <2>3. CASE row' = [row EXCEPT ![g[1]].st = "running", ![g[1]].owner = None,
                                ![g[1]].lease = "none"] /\ Goto(g, "history")
    <3>1. row'[g[1]].st = "running" /\ \A q \in Sess \ {g[1]} : row'[q] = row[q]
      BY <1>0, <2>3 DEF RowsOK, Row
    <3> QED BY <1>7, <2>1, <2>3, <3>1
  <2>4. CASE ResumeError(g[1], loc[g].prev) /\ Goto(g, "drop")
    BY <1>0, <1>3, <2>1, <2>4, ResumeErrorSet
  <2> QED BY <1>8, <2>2, <2>3, <2>4 DEF Setup
<1>9. CASE WaitForAnswer(g)
  BY <1>0, <1>7, <1>9, <1>h, StatusSet DEF WaitForAnswer, Status
<1>10. CASE Guard(g)
  <2>1. (IsOpen(g[1])' <=> IsOpen(g[1])) /\ \A q \in Sess \ {g[1]} : row'[q] = row[q]
    <3>1. CASE row' = row
      BY <3>1 DEF IsOpen
    <3>2. CASE row[g[1]].st \in {"running", "resuming"} /\ SetStatus(g[1], "failed")
      BY <1>0, <3>2, StatusSet DEF Status, IsOpen
    <3> QED BY <1>10, <3>1, <3>2 DEF Guard, SetStatus
  <2> QED BY <1>0, <1>10, <1>h, <2>1, MapMove DEF Guard
<1> QED BY <1>2, <1>4, <1>5, <1>6, <1>8, <1>9, <1>10 DEF GorStep, Fault

LEMMA MapWorld ==
    ASSUME IInv, IInv', World
    PROVE  AbsStep
<1>0. /\ RowsOK /\ OneWorker /\ OneWorker' /\ pc \in [Gors -> GorPC]
      /\ \A q \in Sess, t \in Slots : Holder(q, t) => ~IsOpen(q)
  BY DEF IInv, Safe, TypeOK, RowsOK, HeldIsOpen, IsOpen
<1>1. CASE UNCHANGED <<row, pc>>
  <2>1. \A q \in Sess : IsOpen(q)' <=> IsOpen(q)
    BY <1>1 DEF IsOpen
  <2> QED BY <1>0, <1>1, <2>1, MapRows
<1>2. CASE ReclaimExpired
  <2>1. \A r \in Sess : \/ row'[r] = row[r]
                        \/ row[r].st = "resuming" /\ row[r].lease = "expired"
    BY <1>0, <1>2 DEF ReclaimExpired, RowsOK
  <2>2. \A r \in Sess : IsOpen(r) => IsOpen(r)'
    BY <2>1 DEF IsOpen
  <2>3. \A r \in Sess, s \in Slots : Holder(r, s) => ~IsOpen(r)'
    BY <1>0, <1>2, <2>1 DEF IInv, Safe, ReclaimIsSafe, ReclaimExpired, IsOpen
  <2>4. UNCHANGED pc
    BY <1>2 DEF ReclaimExpired, gorVars
  <2> QED BY <2>2, <2>3, <2>4, MapRows
<1>3. ASSUME NEW c \in Claimers, Release(c) PROVE AbsStep
  <2>1. \A q \in Sess : IsOpen(q)' <=> IsOpen(q)
    BY <1>0, <1>3, ActiveSet, AskerAssumption DEF Release, IsOpen
  <2>2. UNCHANGED pc
    BY <1>3 DEF Release, gorVars
  <2> QED BY <1>0, <2>1, <2>2, MapRows
<1>4. ASSUME NEW r \in Sess, Create(r) PROVE AbsStep
  <2>1. PICK s \in Slots : s = FreeSlot(r)
    BY <1>4, FreeSlotIdle DEF Create
  <2>2. row'[r].st = "running" /\ \A q \in Sess \ {r} : row'[q] = row[q]
    BY <1>0, <1>4, StatusSet DEF Create, Status
  <2>3. IsOpen(r) /\ ~IsOpen(r)'
    BY <1>4, <2>2 DEF Create, IsOpen
  <2>4. Goto(<<r, s>>, "enter")
    BY <1>4, <2>1 DEF Create
  <2> QED BY <2>2, <2>3, <2>4, MapSlot
<1>5. ASSUME NEW r \in Sess, LeaseExpires(r) \/ MarkStale(r) PROVE AbsStep
  <2>1. \A q \in Sess : IsOpen(q)' <=> IsOpen(q)
    <3>1. CASE LeaseExpires(r)
      BY <1>0, <3>1 DEF LeaseExpires, IsOpen, RowsOK, Row
    <3>2. CASE MarkStale(r)
      BY <1>0, <3>2, StatusSet DEF MarkStale, Silent, Status, IsOpen
    <3> QED BY <1>5, <3>1, <3>2
  <2>2. UNCHANGED pc
    BY <1>5 DEF LeaseExpires, MarkStale, gorVars
  <2> QED BY <1>0, <2>1, <2>2, MapRows
<1>6. CASE Leave \/ DrainDeadline \/ Crash
  BY <1>6, MapCrash DEF Leave, DrainDeadline, Crash
<1> QED BY <1>1, <1>2, <1>3, <1>4, <1>5, <1>6
        DEF World, Comment, StopRun, Drain, Boot, dbVars, gorVars

LEMMA MapInit == Init => Ownership!Init
<1> SUFFICES ASSUME Init PROVE Ownership!Init
  OBVIOUS
<1>1. \A r \in Sess : Worker(r) = None
  BY DEF Init, Worker, Holding, Gors
<1> QED BY <1>1 DEF Ownership!Init

LEMMA MapStep == Inv /\ Inv' /\ [Next]_vars => AbsStep
<1> SUFFICES ASSUME Inv, Inv', [Next]_vars PROVE AbsStep
  OBVIOUS
<1>1. CASE Next
  BY <1>1, MapClaimer, MapGor, MapWorld DEF Inv, Next, World
<1>2. CASE UNCHANGED vars
  BY <1>2, MapRows DEF Inv, IInv, Safe, HeldIsOpen, IsOpen, vars, dbVars, gorVars
<1> QED BY <1>1, <1>2

(* The lease implements RunOwnership: a session is taken up only when it is *)
(* open and free, put down by its one worker, and opened again only when    *)
(* nobody works on it.  (ClaimRunForResume, MarkRunResumeStarted,           *)
(* PauseRunWithMetadata, ReclaimExpiredResumeLeases)                        *)
THEOREM LeaseImplementsOwnership == Spec => OwnershipHolds
<1>1. Inv /\ Inv' /\ [Next]_vars => [Ownership!Next]_<<Open, Hands>>
  BY MapStep DEF AbsStep
<1> QED BY <1>1, MapInit, InvAlways, PTL DEF Spec, OwnershipHolds, Ownership!Spec, Open, Hands
=============================================================================
