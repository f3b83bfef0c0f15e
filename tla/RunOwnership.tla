---------------------------- MODULE RunOwnership ----------------------------
(***************************************************************************)
(* What the resume lease promises: a run is worked on by one goroutine at a *)
(* time, and only a run that is open, not yet begun or put down at a safe   *)
(* boundary, can be taken up.  A crash takes the goroutines away and opens  *)
(* nothing by itself.                                                       *)
(***************************************************************************)
CONSTANTS Sess, Slots, None

VARIABLES open,    \* runs that may be taken up
          worker   \* the goroutine working on each run

Free(r) == worker[r] = None

Init == /\ open \subseteq Sess
        /\ worker = [r \in Sess |-> None]

(* A goroutine takes up an open run nobody works on.                       *)
Take(r, s) ==
    /\ r \in open /\ Free(r)
    /\ open' = open \ {r}
    /\ worker' = [worker EXCEPT ![r] = s]

(* The worker puts its run down, open for another attempt or for good.     *)
PutDown(r) ==
    /\ ~Free(r)
    /\ worker' = [worker EXCEPT ![r] = None]
    /\ open' \in {open, open \cup {r}}

(* Interrupted attempts are opened again; nobody works on them.            *)
Reopen ==
    /\ \E rs \in SUBSET (Sess \ open) :
          (\A r \in rs : Free(r)) /\ open' = open \cup rs
    /\ UNCHANGED worker

Crash ==
    /\ worker' = [r \in Sess |-> None]
    /\ UNCHANGED open

Next ==
    \/ \E r \in Sess, s \in Slots : Take(r, s)
    \/ \E r \in Sess : PutDown(r)
    \/ Reopen \/ Crash

Spec == Init /\ [][Next]_<<open, worker>>
=============================================================================
