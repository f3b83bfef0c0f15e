------------------------------ MODULE EventHub ------------------------------
(***************************************************************************)
(* The event hub: board changes are committed to the database and then      *)
(* broadcast to the WebSocket clients of the company's members.  A client   *)
(* that cannot keep up is disconnected, and its browser connects again and  *)
(* reads the board over HTTP; that, and not the socket, is what makes the   *)
(* browser complete.  A broadcaster takes the list of clients under the     *)
(* lock and sends to them after it, next to the other broadcasters, the     *)
(* clients' write pumps and the browsers' reconnections.                    *)
(***************************************************************************)
EXTENDS Naturals, Sequences, FiniteSets

CONSTANTS
    Browser,     \* one per user
    Slots,       \* connections of a browser that can be in use at once (a bound)
    Event,       \* changes to the board, each broadcast once
    SendBuffer   \* sendBufferSize

Client == Browser \X Slots

VARIABLES
    conn,      \* of each client: gone, open, half (dead, not noticed), closing
    clients,   \* h.clients
    send,      \* each client's queue
    member,    \* users of the company's team
    cache,     \* the resolver's entry for the company: [hit, users]
    cast,      \* of each event: [pc, to]: who is still to be sent it
    aimed,     \* history: the members each event was meant for
    known,     \* what each browser has shown
    syncing    \* browsers that connected and have not fetched yet

hubVars == <<conn, clients, send, member, cache, cast, aimed, known, syncing>>

Heartbeat == "hub_heartbeat"

ASSUME HubAssumption ==
    SendBuffer \in Nat \ {0} /\ IsFiniteSet(Event) /\ Heartbeat \notin Event

NoEntry == [hit |-> FALSE, users |-> {}]

HubInit ==
    /\ conn = [c \in Client |-> "gone"] /\ clients = {}
    /\ send = [c \in Client |-> <<>>]
    /\ member = Browser /\ cache = NoEntry
    /\ cast = [e \in Event |-> [pc |-> "none", to |-> {}]]
    /\ aimed = [e \in Event |-> {}]
    /\ known = [b \in Browser |-> {}] /\ syncing = {}

Committed == {e \in Event : cast[e].pc # "none"}

----------------------------------------------------------------------------
(* Client.close: out of the map and closed, once.                          *)
Closed(cn, S) == [c \in Client |-> IF c \in S /\ cn[c] \in {"open", "half"} THEN "closing" ELSE cn[c]]

(* A handler's database write, and then its broadcast.                     *)
Commit(e) ==
    /\ cast[e].pc = "none"
    /\ cast' = [cast EXCEPT ![e].pc = "resolve"]
    /\ UNCHANGED <<conn, clients, send, member, aimed, known, syncing, cache>>

(* BroadcastEventForCompany: the members of the owning team, as the cache    *)
(* has them or else as the database does; a company that cannot be resolved *)
(* has none, and that is cached as well.                                   *)
Resolve(e, ok) ==
    LET users == IF cache.hit THEN cache.users ELSE IF ok THEN member ELSE {} IN
    /\ cast[e].pc = "resolve"
    /\ aimed' = [aimed EXCEPT ![e] = users]
    /\ cache' = [hit |-> TRUE, users |-> users]
    /\ cast' = [cast EXCEPT ![e].pc = "snapshot"]
    /\ UNCHANGED <<conn, clients, send, member, known, syncing>>

(* Its time to live is over.                                               *)
Expire ==
    /\ cache.hit /\ cache' = NoEntry
    /\ UNCHANGED <<conn, clients, send, member, cast, aimed, known, syncing>>

(* broadcastRawToUsers: their clients, under the read lock.                *)
Snapshot(e) ==
    /\ cast[e].pc = "snapshot"
    /\ cast' = [cast EXCEPT ![e] = [pc |-> "deliver", to |-> {c \in clients : c[1] \in aimed[e]}]]
    /\ UNCHANGED <<conn, clients, send, member, aimed, known, syncing, cache>>

(* Mutation of Offer: a full queue drops the event.                        *)
OfferOrDrop(c, x) ==
    /\ send' = IF Len(send[c]) < SendBuffer THEN [send EXCEPT ![c] = Append(@, x)] ELSE send
    /\ UNCHANGED <<conn, clients>>

(* deliver, to one client: queued, or the client is closed.                *)
Offer(c, x) ==
    IF Len(send[c]) < SendBuffer
    THEN send' = [send EXCEPT ![c] = Append(@, x)] /\ UNCHANGED <<conn, clients>>
    ELSE conn' = Closed(conn, {c}) /\ clients' = clients \ {c} /\ UNCHANGED send

Deliver(e, c) ==
    /\ cast[e].pc = "deliver" /\ c \in cast[e].to
    /\ cast' = [cast EXCEPT ![e].to = @ \ {c}]
    /\ Offer(c, e)
    /\ UNCHANGED <<member, aimed, known, syncing, cache>>

(* Run: a heartbeat to every client (its delivery to each is independent).  *)
SendHeartbeat(c) ==
    /\ c \in clients /\ Offer(c, Heartbeat)
    /\ UNCHANGED <<member, cast, aimed, known, syncing, cache>>

(* Hub.Close at shutdown.                                                  *)
CloseHub ==
    /\ clients # {} /\ conn' = Closed(conn, clients) /\ clients' = {}
    /\ UNCHANGED <<send, member, cast, aimed, known, syncing, cache>>

----------------------------------------------------------------------------
(* writePump: its select takes either when both a message and the close     *)
(* signal are there.                                                       *)
Write(c) ==
    /\ conn[c] # "gone" /\ send[c] # <<>>
    /\ send' = [send EXCEPT ![c] = Tail(@)]
    /\ known' = IF conn[c] # "half" /\ Head(send[c]) # Heartbeat
                THEN [known EXCEPT ![c[1]] = @ \cup {Head(send[c])}] ELSE known
    /\ UNCHANGED <<conn, clients, member, cast, aimed, syncing, cache>>

(* The close frame, a write that fails, a read that fails or times out: the *)
(* client is closed and its connection too.                                *)
Hangup(c) ==
    /\ conn[c] # "gone"
    /\ conn' = [conn EXCEPT ![c] = "gone"] /\ clients' = clients \ {c}
    /\ UNCHANGED <<send, member, cast, aimed, known, syncing, cache>>

(* The network stops carrying anything; nobody is told.                    *)
GoDead(c) ==
    /\ conn[c] = "open" /\ conn' = [conn EXCEPT ![c] = "half"]
    /\ UNCHANGED <<clients, send, member, cast, aimed, known, syncing, cache>>

----------------------------------------------------------------------------
(* The browser: it connects when it has no connection, or when nothing,     *)
(* heartbeats included, came for a while.  Connecting makes a new client    *)
(* and fetches the board.                                                  *)
Live(b) == \E g \in Slots : conn[<<b, g>>] = "open"

Free(c) == conn[c] = "gone" /\ \A e \in Event : c \notin cast[e].to

(* Mutation of Connect: no re-fetch.                                       *)
ConnectQuietly(c) ==
    /\ ~Live(c[1]) /\ Free(c)
    /\ conn' = [conn EXCEPT ![c] = "open"] /\ clients' = clients \cup {c}
    /\ send' = [send EXCEPT ![c] = <<>>]
    /\ UNCHANGED <<member, cast, aimed, known, syncing, cache>>

(* Serve registers the client; onConnect then fetches.                     *)
Connect(c) ==
    /\ ~Live(c[1]) /\ Free(c)
    /\ conn' = [conn EXCEPT ![c] = "open"] /\ clients' = clients \cup {c}
    /\ send' = [send EXCEPT ![c] = <<>>]
    /\ syncing' = syncing \cup {c[1]}
    /\ UNCHANGED <<member, cast, aimed, known, cache>>

(* The board over HTTP, for a member.                                      *)
Fetch(b) ==
    /\ b \in syncing /\ syncing' = syncing \ {b}
    /\ known' = [known EXCEPT ![b] = IF b \in member THEN @ \cup Committed ELSE @]
    /\ UNCHANGED <<conn, clients, send, member, cast, aimed, cache>>

(* The team's membership changes.                                          *)
Leave(b) ==
    /\ b \in member /\ member' = member \ {b}
    /\ UNCHANGED <<conn, clients, send, cast, aimed, known, syncing, cache>>

HubNext ==
    \/ \E e \in Event :
        \/ Commit(e) \/ Snapshot(e)
        \/ \E ok \in BOOLEAN : Resolve(e, ok)
        \/ \E c \in Client : Deliver(e, c)
    \/ \E c \in Client :
        \/ SendHeartbeat(c) \/ Write(c) \/ Hangup(c) \/ GoDead(c) \/ Connect(c)
    \/ \E b \in Browser : Fetch(b) \/ Leave(b)
    \/ CloseHub \/ Expire

HubSpec == HubInit /\ [][HubNext]_hubVars

(* Goroutines are scheduled; a closed or dead connection is hung up (close  *)
(* frame, pong deadline); a browser keeps reconnecting, and its fetch ends. *)
HubFairness ==
    /\ \A e \in Event :
        /\ WF_hubVars(Snapshot(e) \/ \E ok \in BOOLEAN : Resolve(e, ok))
        /\ \A c \in Client : WF_hubVars(Deliver(e, c))
    /\ \A c \in Client :
        /\ WF_hubVars(Write(c))
        /\ WF_hubVars(conn[c] \in {"closing", "half"} /\ Hangup(c))
    /\ \A b \in Browser :
        /\ WF_hubVars(\E g \in Slots : Connect(<<b, g>>))
        /\ WF_hubVars(Fetch(b))

----------------------------------------------------------------------------
(* A browser whose connection stands and that has fetched reads no stream   *)
(* with a hole in it: an event whose broadcast is over, and that was meant  *)
(* for it, it has, or has in its queue.  A hole means a disconnection.     *)
NoSilentGap ==
    \A c \in clients, e \in Event :
        /\ cast[e].pc = "deliver" /\ c \notin cast[e].to /\ c[1] \in aimed[e]
        /\ conn[c] = "open" /\ c[1] \notin syncing /\ c[1] \in member
        => \/ e \in known[c[1]]
           \/ \E i \in DOMAIN send[c] : send[c][i] = e

(* A change meant for a member reaches its browser, through the socket or   *)
(* through a re-fetch, whatever queues overflow and connections die on the  *)
(* way.                                                                    *)
ChangesReachBrowsers ==
    \A e \in Event, b \in Browser :
        (b \in aimed[e] /\ b \in member) ~> (e \in known[b] \/ b \notin member)
=============================================================================
