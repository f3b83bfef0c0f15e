----------------------------- MODULE BoardProofs -----------------------------
(***************************************************************************)
(* Theorems about TaskDependencies and EventHub, for any tasks, relations,  *)
(* calls, browsers and events: no task waits for itself, and a connection   *)
(* that stands has no hole in its stream.                                   *)
(***************************************************************************)
EXTENDS TaskDependencies, EventHub, TLAPS

----------------------------------------------------------------------------
(* Reached.                                                                *)

(* Where the pairs of R begin and end.                                      *)
Within(R) == \A d \in R : d[1] \in Task /\ d[2] \in Task

(* What is reached is closed.                                               *)
LEMMA ReachedClosed ==
    ASSUME NEW R, Within(R), NEW t \in Task
    PROVE  /\ Reached(R, t) \in SUBSET Task
           /\ \A d \in R : d[1] \in Reached(R, t) \cup {t} => d[2] \in Reached(R, t)
<1>1. ASSUME NEW d \in R, d[1] \in Reached(R, t) \cup {t}
      PROVE  d[2] \in Reached(R, t)
  <2>1. ASSUME NEW S \in SUBSET Task, \A e \in R : e[1] \in S \cup {t} => e[2] \in S
        PROVE  d[2] \in S
    <3>1. d[1] \in S \cup {t}
      BY <1>1, <2>1 DEF Reached
    <3> QED BY <2>1, <3>1
  <2> QED BY <2>1 DEF Reached, Within
<1> QED BY <1>1 DEF Reached

(* What any closed set leaves out is not reached.                           *)
LEMMA ReachedLeast ==
    ASSUME NEW R, NEW t, NEW S \in SUBSET Task,
           \A d \in R : d[1] \in S \cup {t} => d[2] \in S
    PROVE  Reached(R, t) \subseteq S
BY DEF Reached

(* What is reached from something reached is reached.                       *)
LEMMA ReachedOn ==
    ASSUME NEW R, Within(R), NEW t \in Task, NEW u \in Reached(R, t) \cup {t}
    PROVE  Reached(R, u) \subseteq Reached(R, t)
<1>1. /\ Reached(R, t) \in SUBSET Task
      /\ \A d \in R : d[1] \in Reached(R, t) \cup {u} => d[2] \in Reached(R, t)
  BY ReachedClosed
<1> QED BY <1>1, ReachedLeast

(* Fewer pairs lead to no more.                                             *)
LEMMA ReachedFewer ==
    ASSUME NEW R, NEW Q \in SUBSET R, Within(R), NEW t \in Task
    PROVE  Reached(Q, t) \subseteq Reached(R, t)
<1>1. /\ Reached(R, t) \in SUBSET Task
      /\ \A d \in Q : d[1] \in Reached(R, t) \cup {t} => d[2] \in Reached(R, t)
  BY ReachedClosed
<1> QED BY <1>1, ReachedLeast

(* Pairs from one task to tasks that do not lead back to it close no cycle.  *)
LEMMA NoNewCycle ==
    ASSUME NEW R, Within(R), \A x \in Task : x \notin Reached(R, x),
           NEW s \in Task, NEW T \in SUBSET Task,
           \A u \in T : s # u /\ s \notin Reached(R, u),
           NEW x \in Task
    PROVE  x \notin Reached(R \cup ({s} \X T), x)
<1>1. /\ Reached(R, x) \in SUBSET Task
      /\ \A d \in R : d[1] \in Reached(R, x) \cup {x} => d[2] \in Reached(R, x)
  BY ReachedClosed
<1>2. \A d \in {s} \X T : d[1] = s /\ d[2] \in T
  OBVIOUS
<1>3. CASE s \notin Reached(R, x) \cup {x}
  <2>1. \A d \in R \cup ({s} \X T) : d[1] \in Reached(R, x) \cup {x} => d[2] \in Reached(R, x)
    BY <1>1, <1>2, <1>3
  <2> HIDE DEF Reached
  <2>2. Reached(R \cup ({s} \X T), x) \subseteq Reached(R, x)
    BY <1>1, <2>1, ReachedLeast
  <2> QED BY <2>2
<1>4. CASE s \in Reached(R, x) \cup {x}
  <2> DEFINE S == Reached(R, x) \cup T \cup UNION {Reached(R, u) : u \in T}
  <2>1. S \in SUBSET Task
    BY <1>1, ReachedClosed
  <2>2. ASSUME NEW d \in R \cup ({s} \X T), d[1] \in S \cup {x} PROVE d[2] \in S
    <3>1. CASE d \in {s} \X T
      BY <1>2, <3>1
    <3>2. CASE d \in R /\ d[1] \in Reached(R, x) \cup {x}
      BY <1>1, <3>2
    <3>3. ASSUME d \in R, NEW u \in T, d[1] \in Reached(R, u) \cup {u} PROVE d[2] \in S
      <4>1. d[2] \in Reached(R, u)
        BY <3>3, ReachedClosed
      <4> QED BY <4>1
    <3> QED BY <2>2, <3>1, <3>2, <3>3
  <2>3. x \notin S
    <3>1. ASSUME NEW u \in T, x \in Reached(R, u) \cup {u} PROVE FALSE
      <4>1. Reached(R, x) \subseteq Reached(R, u)
        BY <3>1, ReachedOn
      <4>2. s \in Reached(R, u) \cup {u}
        BY <1>4, <3>1, <4>1
      <4> QED BY <4>2
    <3> QED BY <3>1
  <2>4. Reached(R \cup ({s} \X T), x) \subseteq S
    <3> HIDE DEF S
    <3> QED BY <2>1, <2>2, ReachedLeast
  <2> QED BY <2>3, <2>4
<1> QED BY <1>3, <1>4

----------------------------------------------------------------------------
(* Relations.                                                              *)

RelationsInv == Within(deps) /\ NoDependencyCycle

(* Relations taken away, or added from one task as CreateTaskRelation       *)
(* allows.                                                                  *)
LEMMA RelationsGoAway ==
    ASSUME RelationsInv, deps' \in SUBSET deps
    PROVE  RelationsInv'
<1>1. Within(deps)'
  BY DEF Within, RelationsInv
<1>2. ASSUME NEW t \in Task PROVE t \notin Reached(deps', t)
  <2>1. Reached(deps', t) \subseteq Reached(deps, t)
    BY ReachedFewer DEF RelationsInv
  <2> QED BY <2>1 DEF RelationsInv, NoDependencyCycle
<1>3. NoDependencyCycle'
  BY <1>2 DEF NoDependencyCycle
<1> QED BY <1>1, <1>3 DEF RelationsInv

(* Dependencies that MayDepend allows close no cycle.                       *)
LEMMA RelationsAdded ==
    ASSUME RelationsInv, NEW s \in Task, NEW T \in SUBSET Task,
           \A u \in T : MayDepend(s, u), deps' = deps \cup ({s} \X T)
    PROVE  RelationsInv'
<1>1. Within(deps)'
  BY DEF Within, RelationsInv
<1>2. \A u \in T : s # u /\ s \notin Reached(deps, u)
  BY DEF MayDepend, Reaches
<1>3. ASSUME NEW x \in Task PROVE x \notin Reached(deps', x)
  <2>1. Within(deps) /\ \A y \in Task : y \notin Reached(deps, y)
    BY DEF RelationsInv, NoDependencyCycle
  <2>2. x \notin Reached(deps \cup ({s} \X T), x)
    BY <1>2, <2>1, NoNewCycle
  <2> QED BY <2>2
<1>4. NoDependencyCycle'
  BY <1>3 DEF NoDependencyCycle
<1> QED BY <1>1, <1>4 DEF RelationsInv

(* No relations, no cycle.                                                  *)
LEMMA RelationsInit ==
    ASSUME BoardInit
    PROVE  RelationsInv
<1>1. Within(Known)
  BY BoardAssumption DEF Within
<1>2. ASSUME NEW t \in Task PROVE t \notin Reached(Known, t)
  <2> DEFINE S == {u \in Task : t < u}
  <2>1. ASSUME NEW d \in Known, d[1] \in S \cup {t} PROVE d[2] \in S
    <3>1. d[1] \in Nat /\ d[2] \in Nat /\ d[2] \in Task /\ d[1] < d[2] /\ t \in Nat
      BY BoardAssumption
    <3>2. t = d[1] \/ t < d[1]
      BY <2>1
    <3> QED BY <3>1, <3>2
  <2>2. Reached(Known, t) \subseteq S
    <3>1. S \in SUBSET Task
      OBVIOUS
    <3> HIDE DEF S
    <3> QED BY <2>1, <3>1, ReachedLeast
  <2>3. t \notin S
    <3>1. ~(t < t)
      BY BoardAssumption
    <3> QED BY <3>1
  <2> QED BY <2>2, <2>3
<1> QED BY <1>1, <1>2 DEF RelationsInv, NoDependencyCycle, BoardInit

(* Every operation on relations keeps the invariant.                        *)
LEMMA RelationsStep ==
    ASSUME RelationsInv, [BoardNext]_boardVars
    PROVE  RelationsInv'
<1>1. ASSUME NEW s \in Task, NEW t \in Task, CreateTaskRelation(s, t) PROVE RelationsInv'
  <2> DEFINE T == {t}
  <2>1. deps' = deps \cup ({s} \X T) /\ T \in SUBSET Task /\ \A u \in T : MayDepend(s, u)
    <3>1. {s} \X {t} = {<<s, t>>}
      OBVIOUS
    <3>2. deps' = deps \cup {<<s, t>>} /\ MayDepend(s, t)
      BY <1>1 DEF CreateTaskRelation
    <3> HIDE DEF MayDepend
    <3> QED BY <3>1, <3>2
  <2> HIDE DEF T
  <2> QED BY <2>1, RelationsAdded
<1>2. ASSUME NEW t \in Task, NEW T \in SUBSET Task, RelateCreated(t, T) PROVE RelationsInv'
  <2>1. CASE \A u \in T : MayDepend(t, u)
    <3>1. deps' = deps \cup ({t} \X T)
      BY <1>2, <2>1 DEF RelateCreated
    <3> QED BY <2>1, <3>1, RelationsAdded
  <2>2. CASE ~\A u \in T : MayDepend(t, u)
    <3>1. deps' \in SUBSET deps
      BY <1>2, <2>2 DEF RelateCreated
    <3> QED BY <3>1, RelationsGoAway
  <2> QED BY <2>1, <2>2
<1>3. ASSUME NEW s \in Task, NEW t \in Task, DeleteTaskRelation(s, t) PROVE RelationsInv'
  BY <1>3, RelationsGoAway DEF DeleteTaskRelation
<1>4. CASE UNCHANGED deps
  BY <1>4, RelationsGoAway
<1>5. ASSUME BoardNext, deps' # deps
      PROVE  \/ \E s, t \in Task : CreateTaskRelation(s, t) \/ DeleteTaskRelation(s, t)
             \/ \E t \in Task, T \in SUBSET Task : RelateCreated(t, T)
  BY <1>5 DEF BoardNext, SetParent, UpdateTask, Rerun, CreateTask, FinishTask, Begin, CallStep,
              Gate, Save, Claim, Boot
<1> QED BY <1>1, <1>2, <1>3, <1>4, <1>5 DEF boardVars

(* No set of relations, however added, deleted and added again next to      *)
(* changes of parent and creations, makes a task wait for itself.           *)
THEOREM NoDependencyCycleAlways == BoardSpec => []NoDependencyCycle
<1>1. RelationsInv => NoDependencyCycle
  BY DEF RelationsInv
<1> QED BY <1>1, RelationsInit, RelationsStep, PTL DEF BoardSpec

----------------------------------------------------------------------------
(* The hub.                                                                *)

Frame == Event \cup {Heartbeat}

HubTypeOK ==
    /\ conn \in [Client -> {"gone", "open", "half", "closing"}] /\ clients \in SUBSET Client
    /\ send \in [Client -> Seq(Frame)]
    /\ member \in SUBSET Browser /\ cache \in [hit : BOOLEAN, users : SUBSET Browser]
    /\ cast \in [Event -> [pc : {"none", "resolve", "snapshot", "deliver"}, to : SUBSET Client]]
    /\ aimed \in [Event -> SUBSET Browser] /\ known \in [Browser -> SUBSET Event]
    /\ syncing \in SUBSET Browser

(* Client c should have been sent e and has not lost it.                     *)
Has(c, e) == e \in known[c[1]] \/ \E i \in DOMAIN send[c] : send[c][i] = e

(* Queues.                                                                  *)
LEMMA AppendHas ==
    ASSUME NEW s \in Seq(Frame), NEW x \in Frame
    PROVE  /\ Append(s, x) \in Seq(Frame)
           /\ \A i \in DOMAIN s : i \in DOMAIN Append(s, x) /\ Append(s, x)[i] = s[i]
           /\ Len(s) + 1 \in DOMAIN Append(s, x) /\ Append(s, x)[Len(s) + 1] = x
OBVIOUS

(* What a sequence holds is its head or in its tail.                        *)
LEMMA TailHas ==
    ASSUME NEW s \in Seq(Frame), s # <<>>
    PROVE  /\ Tail(s) \in Seq(Frame) /\ Head(s) \in Frame
           /\ \A i \in DOMAIN s : s[i] = Head(s) \/ \E j \in DOMAIN Tail(s) : Tail(s)[j] = s[i]
<1>1. Tail(s) \in Seq(Frame) /\ Head(s) \in Frame /\ Head(s) = s[1]
  OBVIOUS
<1>2. ASSUME NEW i \in DOMAIN s, i # 1
      PROVE  i - 1 \in DOMAIN Tail(s) /\ Tail(s)[i - 1] = s[i]
  BY <1>2
<1> QED BY <1>1, <1>2

(* Queuing a frame for a client, or closing it, loses nothing of another.    *)
LEMMA OfferLosesNothing ==
    ASSUME HubTypeOK, NEW c \in Client, NEW x \in Frame, Offer(c, x), UNCHANGED known
    PROVE  /\ conn' \in [Client -> {"gone", "open", "half", "closing"}]
           /\ clients' \in SUBSET clients /\ send' \in [Client -> Seq(Frame)]
           /\ \A d \in Client : conn'[d] = "open" => conn[d] = "open"
           /\ \A d \in Client, e \in Event : Has(d, e) => Has(d, e)'
           /\ c \in clients' /\ x \in Event => Has(c, x)'
<1>1. CASE Len(send[c]) < SendBuffer
  <2>1. send' = [send EXCEPT ![c] = Append(@, x)] /\ UNCHANGED <<conn, clients>>
    BY <1>1 DEF Offer
  <2>2. send[c] \in Seq(Frame)
    BY DEF HubTypeOK
  <2>3. /\ Append(send[c], x) \in Seq(Frame)
        /\ \A i \in DOMAIN send[c] : i \in DOMAIN Append(send[c], x) /\ Append(send[c], x)[i] = send[c][i]
        /\ Len(send[c]) + 1 \in DOMAIN Append(send[c], x) /\ Append(send[c], x)[Len(send[c]) + 1] = x
    BY <2>2, AppendHas
  <2>4. send'[c] = Append(send[c], x) /\ \A d \in Client : d # c => send'[d] = send[d]
    BY <2>1 DEF HubTypeOK
  <2>5. send' \in [Client -> Seq(Frame)]
    BY <2>1, <2>3 DEF HubTypeOK
  <2>6. ASSUME NEW d \in Client, NEW e \in Event, Has(d, e) PROVE Has(d, e)'
    BY <2>3, <2>4, <2>6 DEF Has
  <2>7. Has(c, x)'
    BY <2>3, <2>4 DEF Has
  <2> QED BY <2>1, <2>5, <2>6, <2>7 DEF HubTypeOK
<1>2. CASE ~(Len(send[c]) < SendBuffer)
  <2>1. conn' = Closed(conn, {c}) /\ clients' = clients \ {c} /\ UNCHANGED send
    BY <1>2 DEF Offer
  <2>2. \A d \in Client : conn'[d] = conn[d] \/ conn'[d] = "closing"
    BY <2>1 DEF Closed
  <2>3. conn' \in [Client -> {"gone", "open", "half", "closing"}]
    BY <2>1 DEF Closed, HubTypeOK
  <2> QED BY <2>1, <2>2, <2>3 DEF HubTypeOK, Has
<1> QED BY <1>1, <1>2

(* The stream that NoSilentGap promises to client c of event e.             *)
Owed(c, e) ==
    /\ cast[e].pc = "deliver" /\ c \notin cast[e].to /\ c[1] \in aimed[e]
    /\ conn[c] = "open" /\ c[1] \notin syncing /\ c[1] \in member

(* Steps that neither take a promise away nor make one.                     *)
LEMMA NoNewPromise ==
    ASSUME HubTypeOK, NoSilentGap, clients' \in SUBSET clients,
           \A c \in clients', e \in Event : Owed(c, e)' => Owed(c, e),
           \A c \in clients, e \in Event : Has(c, e) => Has(c, e)'
    PROVE  NoSilentGap'
BY DEF NoSilentGap, Owed, Has

(* The hub starts with the invariant,                                       *)
LEMMA HubInitial ==
    ASSUME HubInit
    PROVE  HubTypeOK /\ NoSilentGap
BY DEF HubInit, HubTypeOK, NoSilentGap, NoEntry

HubInv == HubTypeOK /\ NoSilentGap

(* The broadcast of an event.                                               *)
LEMMA CastKeepsHub ==
    ASSUME HubInv, NEW e \in Event,
           \/ Commit(e) \/ Snapshot(e) \/ (\E ok \in BOOLEAN : Resolve(e, ok))
           \/ (\E c \in Client : Deliver(e, c))
    PROVE  HubInv'
<1> USE DEF HubInv
<1>1. CASE Commit(e)
  <2>1. HubTypeOK'
    BY <1>1 DEF Commit, HubTypeOK
  <2> QED BY <1>1, <2>1 DEF Commit, NoSilentGap, HubTypeOK
<1>2. ASSUME NEW ok \in BOOLEAN, Resolve(e, ok) PROVE HubInv'
  <2> DEFINE users == IF cache.hit THEN cache.users ELSE IF ok THEN member ELSE {}
  <2>1. users \in SUBSET Browser
    BY DEF HubTypeOK
  <2>2. aimed' = [aimed EXCEPT ![e] = users] /\ cache' = [hit |-> TRUE, users |-> users]
    BY <1>2 DEF Resolve
  <2> HIDE DEF users
  <2>3. HubTypeOK'
    <3>1. cache' \in [hit : BOOLEAN, users : SUBSET Browser]
      BY <2>1, <2>2
    <3>2. aimed' \in [Event -> SUBSET Browser]
      BY <2>1, <2>2 DEF HubTypeOK
    <3>3. cast' \in [Event -> [pc : {"none", "resolve", "snapshot", "deliver"}, to : SUBSET Client]]
      BY <1>2 DEF Resolve, HubTypeOK
    <3> QED BY <1>2, <3>1, <3>2, <3>3 DEF Resolve, HubTypeOK
  <2>4. \A c \in clients', f \in Event : Owed(c, f)' => Owed(c, f)
    BY <1>2, <2>2 DEF Resolve, Owed, HubTypeOK
  <2> QED BY <1>2, <2>3, <2>4, NoNewPromise DEF Resolve, HubTypeOK, Has
<1>3. CASE Snapshot(e)
  <2> DEFINE to == {c \in clients : c[1] \in aimed[e]}
  <2>1. to \in SUBSET Client
    BY DEF HubTypeOK
  <2>2. cast' = [cast EXCEPT ![e] = [pc |-> "deliver", to |-> to]]
    BY <1>3 DEF Snapshot
  <2>3. ASSUME NEW c \in clients', NEW f \in Event, Owed(c, f)' PROVE Owed(c, f)
    BY <1>3, <2>2, <2>3 DEF Snapshot, Owed, HubTypeOK
  <2> HIDE DEF to
  <2>4. HubTypeOK'
    BY <1>3, <2>1, <2>2 DEF Snapshot, HubTypeOK
  <2> QED BY <1>3, <2>3, <2>4, NoNewPromise DEF Snapshot, HubTypeOK, Has
<1>4. ASSUME NEW c \in Client, Deliver(e, c) PROVE HubInv'
  <2>1. /\ conn' \in [Client -> {"gone", "open", "half", "closing"}]
        /\ clients' \in SUBSET clients /\ send' \in [Client -> Seq(Frame)]
        /\ \A d \in Client : conn'[d] = "open" => conn[d] = "open"
        /\ \A d \in Client, f \in Event : Has(d, f) => Has(d, f)'
        /\ c \in clients' => Has(c, e)'
    BY <1>4, OfferLosesNothing DEF Deliver, Frame
  <2>2. HubTypeOK'
    BY <1>4, <2>1 DEF Deliver, HubTypeOK
  <2>3. ASSUME NEW d \in clients', NEW f \in Event, Owed(d, f)' PROVE Owed(d, f) \/ (d = c /\ f = e)
    BY <1>4, <2>1, <2>3 DEF Deliver, Owed, HubTypeOK
  <2>4. ASSUME NEW d \in clients', NEW f \in Event, Owed(d, f)' PROVE Has(d, f)'
    <3>1. d \in clients /\ d \in Client
      BY <2>1 DEF HubTypeOK
    <3>2. CASE Owed(d, f)
      BY <2>1, <3>1, <3>2 DEF NoSilentGap, Owed, Has
    <3>3. CASE d = c /\ f = e
      BY <2>1, <3>3
    <3> QED BY <2>3, <2>4, <3>2, <3>3
  <2>5. NoSilentGap'
    BY <2>4 DEF NoSilentGap, Owed, Has
  <2> QED BY <2>2, <2>5
<1> QED BY <1>1, <1>2, <1>3, <1>4

(* The connections.                                                         *)
LEMMA ClientKeepsHub ==
    ASSUME HubInv, NEW c \in Client,
           SendHeartbeat(c) \/ Write(c) \/ Hangup(c) \/ GoDead(c) \/ Connect(c)
    PROVE  HubInv'
<1> USE DEF HubInv
<1>0. c[1] \in Browser
  BY DEF Client
<1>1. CASE SendHeartbeat(c)
  <2>1. /\ conn' \in [Client -> {"gone", "open", "half", "closing"}]
        /\ clients' \in SUBSET clients /\ send' \in [Client -> Seq(Frame)]
        /\ \A d \in Client : conn'[d] = "open" => conn[d] = "open"
        /\ \A d \in Client, f \in Event : Has(d, f) => Has(d, f)'
    BY <1>1, OfferLosesNothing DEF SendHeartbeat, Frame
  <2>2. HubTypeOK'
    BY <1>1, <2>1 DEF SendHeartbeat, HubTypeOK
  <2>3. \A d \in clients', f \in Event : Owed(d, f)' => Owed(d, f)
    BY <1>1, <2>1 DEF SendHeartbeat, Owed, HubTypeOK
  <2> QED BY <2>1, <2>2, <2>3, NoNewPromise DEF HubTypeOK
<1>2. CASE Write(c)
  <2>1. send[c] \in Seq(Frame) /\ send[c] # <<>>
    BY <1>2 DEF Write, HubTypeOK
  <2>2. /\ Tail(send[c]) \in Seq(Frame) /\ Head(send[c]) \in Frame
        /\ \A i \in DOMAIN send[c] : \/ send[c][i] = Head(send[c])
                                     \/ \E j \in DOMAIN Tail(send[c]) : Tail(send[c])[j] = send[c][i]
    BY <2>1, TailHas
  <2>3. send'[c] = Tail(send[c]) /\ \A d \in Client : d # c => send'[d] = send[d]
    BY <1>2 DEF Write, HubTypeOK
  <2>4. /\ known' \in [Browser -> SUBSET Event]
        /\ \A b \in Browser : known[b] \subseteq known'[b]
        /\ conn[c] # "half" /\ Head(send[c]) \in Event => Head(send[c]) \in known'[c[1]]
    <3>1. CASE conn[c] # "half" /\ Head(send[c]) # Heartbeat
      <4>1. known' = [known EXCEPT ![c[1]] = @ \cup {Head(send[c])}]
        BY <1>2, <3>1 DEF Write
      <4>2. Head(send[c]) \in Event
        BY <2>2, <3>1 DEF Frame
      <4> QED BY <1>0, <4>1, <4>2 DEF HubTypeOK
    <3>2. CASE ~(conn[c] # "half" /\ Head(send[c]) # Heartbeat)
      <4>1. known' = known
        BY <1>2, <3>2 DEF Write
      <4> QED BY <3>2, <4>1, HubAssumption DEF HubTypeOK
    <3> QED BY <3>1, <3>2
  <2>5. HubTypeOK'
    BY <1>2, <2>2, <2>4 DEF Write, HubTypeOK
  <2>6. ASSUME NEW d \in clients', NEW f \in Event, Owed(d, f)' PROVE Has(d, f)'
    <3>1. d \in clients /\ d \in Client /\ d[1] \in Browser /\ conn[d] = "open" /\ Owed(d, f)
      BY <1>2, <2>6 DEF Write, Owed, HubTypeOK, Client
    <3>2. Has(d, f)
      BY <3>1 DEF NoSilentGap, Owed, Has
    <3>3. CASE f \in known[d[1]]
      BY <2>4, <3>1, <3>3 DEF Has
    <3>4. CASE d # c /\ \E i \in DOMAIN send[d] : send[d][i] = f
      BY <2>3, <3>1, <3>4 DEF Has
    <3>5. CASE d = c /\ \E i \in DOMAIN send[c] : send[c][i] = f
      <4>1. f = Head(send[c]) \/ \E j \in DOMAIN Tail(send[c]) : Tail(send[c])[j] = f
        BY <2>2, <3>5
      <4> QED BY <2>3, <2>4, <3>1, <3>5, <4>1 DEF Has
    <3> QED BY <3>2, <3>3, <3>4, <3>5 DEF Has
  <2>7. NoSilentGap'
    BY <2>6 DEF NoSilentGap, Owed, Has
  <2> QED BY <2>5, <2>7
<1>3. CASE Hangup(c) \/ GoDead(c)
  <2>1. HubTypeOK'
    BY <1>3 DEF Hangup, GoDead, HubTypeOK
  <2>2. clients' \in SUBSET clients /\ \A d \in Client : conn'[d] = "open" => conn[d] = "open"
    BY <1>3 DEF Hangup, GoDead, HubTypeOK
  <2>3. \A d \in clients', f \in Event : Owed(d, f)' => Owed(d, f)
    BY <1>3, <2>2 DEF Hangup, GoDead, Owed, HubTypeOK
  <2> QED BY <1>3, <2>1, <2>2, <2>3, NoNewPromise DEF Hangup, GoDead, Has
<1>4. CASE Connect(c)
  <2>1. HubTypeOK'
    BY <1>0, <1>4 DEF Connect, HubTypeOK, Frame
  <2>2. ASSUME NEW d \in clients', NEW f \in Event, Owed(d, f)' PROVE Has(d, f)'
    <3>1. d # c /\ d \in clients /\ d \in Client
      BY <1>4, <2>2 DEF Connect, Owed, HubTypeOK
    <3>2. Owed(d, f)
      BY <1>4, <2>2, <3>1 DEF Connect, Owed, HubTypeOK
    <3>3. Has(d, f)
      BY <3>1, <3>2 DEF NoSilentGap, Owed, Has
    <3> QED BY <1>4, <3>1, <3>3 DEF Connect, Has, HubTypeOK
  <2>3. NoSilentGap'
    BY <2>2 DEF NoSilentGap, Owed, Has
  <2> QED BY <2>1, <2>3
<1> QED BY <1>1, <1>2, <1>3, <1>4

(* and every step keeps it.                                                 *)
LEMMA HubInductive ==
    ASSUME HubInv, [HubNext]_hubVars
    PROVE  HubInv'
<1> USE DEF HubInv
<1>1. ASSUME NEW b \in Browser, Fetch(b) PROVE HubInv'
  <2>1. HubTypeOK'
    BY <1>1 DEF Fetch, HubTypeOK, Committed
  <2>2. ASSUME NEW d \in clients', NEW f \in Event, Owed(d, f)' PROVE f \in known'[d[1]] \/ Has(d, f)'
    <3>1. d \in clients /\ d[1] \in Browser
      BY <1>1 DEF Fetch, HubTypeOK, Client
    <3>2. CASE d[1] = b
      BY <1>1, <2>2, <3>1, <3>2 DEF Fetch, Owed, HubTypeOK, Committed
    <3>3. CASE d[1] # b
      BY <1>1, <2>2, <3>1, <3>3 DEF Fetch, Owed, HubTypeOK, NoSilentGap, Has
    <3> QED BY <3>2, <3>3
  <2>3. NoSilentGap'
    BY <2>2 DEF NoSilentGap, Owed, Has
  <2> QED BY <2>1, <2>3
<1>2. ASSUME NEW b \in Browser, Leave(b) PROVE HubInv'
  BY <1>2 DEF Leave, HubTypeOK, NoSilentGap
<1>3. CASE CloseHub
  BY <1>3 DEF CloseHub, Closed, HubTypeOK, NoSilentGap
<1>4. CASE Expire
  BY <1>4 DEF Expire, NoEntry, HubTypeOK, NoSilentGap
<1>5. CASE UNCHANGED hubVars
  BY <1>5 DEF hubVars, HubTypeOK, NoSilentGap
<1> QED BY <1>1, <1>2, <1>3, <1>4, <1>5, CastKeepsHub, ClientKeepsHub DEF HubNext

(* A browser whose connection stands and that has fetched has, or has in    *)
(* its queue, every event that was meant for it and whose broadcast passed  *)
(* it, whatever queues overflowed and connections died on the way.          *)
THEOREM NoSilentGapAlways == HubSpec => []NoSilentGap
<1>1. HubInit => HubInv
  BY HubInitial DEF HubInv
<1>2. HubInv => NoSilentGap
  BY DEF HubInv
<1> QED BY <1>1, <1>2, HubInductive, PTL DEF HubSpec
=============================================================================
