------------------------------ MODULE McpTools ------------------------------
(***************************************************************************)
(* The MCP servers of an agent session and the code index one of them       *)
(* serves.  A project's codegraph row is written by the requests that       *)
(* create and update the project, by the goroutines that run                *)
(* "codegraph init" and by the sweep at startup.  A session starts a        *)
(* process for each server it calls and talks to it over stdin and stdout:  *)
(* one request at a time, each given up after two minutes, its answer read  *)
(* or left in the pipe for a later one to find.                             *)
(*                                                                          *)
(* A send is numbered over the whole session; an answer carries the id it   *)
(* was asked under, which is all the client sees, and the number of the     *)
(* send it was made for.                                                    *)
(***************************************************************************)
EXTENDS Naturals, Sequences, FiniteSets

CONSTANTS
    Editors,     \* requests on the project at once
    Dirs,        \* where the project's repository may lie: a rename moves it
    MaxEdits,    \* requests on the project (a bound)
    MaxSends,    \* messages sent to servers in the session (a bound)
    MaxRenewals  \* tokens renewed in the session (a bound)

ASSUME McpAssumption == MaxSends \in Nat /\ MaxRenewals \in Nat

VARIABLES
    project,    \* does the project's row exist
    graph,      \* the codegraph row: [status, dir]
    inits,      \* directories in which "codegraph init" is running
    indexed,    \* directories in which it has succeeded
    editor,     \* what each request is doing
    edits,      \* requests so far
    swept,      \* has the startup sweep run since the process started
    session,    \* "none", "open" or "closed"
    servers,    \* the servers the session was given
    client,     \* the process behind each server
    token,      \* how often the store's token has been renewed
    wait,       \* what the session is waiting for
    sent,       \* messages sent so far
    answer      \* the send that was last answered and the one the answer was made for

indexVars == <<project, graph, inits, indexed, editor, edits, swept>>
sessionVars == <<session, servers, client, token, wait, sent, answer>>
mcpVars == <<indexVars, sessionVars>>

Server == {"graph", "github"}
NoServer == [status |-> "none"]
NoEditor == [pc |-> "none"]
NoClient == [up |-> FALSE]
NoWait == [pc |-> "none"]
NoAnswer == [to |-> 0, made |-> 0]

(* The project is new, or its index was built before.                       *)
McpInit ==
    /\ project \in BOOLEAN
    /\ IF project THEN \E d \in Dirs : graph = [status |-> "ready", dir |-> d] /\ indexed = {d}
                  ELSE graph = NoServer /\ indexed = {}
    /\ inits = {} /\ editor = [e \in Editors |-> NoEditor] /\ edits = 0 /\ swept = FALSE
    /\ session = "none" /\ servers = {} /\ client = [s \in Server |-> NoClient] /\ token = 0
    /\ wait = NoWait /\ sent = 0 /\ answer = NoAnswer

----------------------------------------------------------------------------
(* Requests on the project.  One that updates it saves its row at the end,  *)
(* whether or not the row is still there.                                  *)
EditAt(e, pc) == editor' = [editor EXCEPT ![e].pc = pc]
EndEdit(e) == editor' = [editor EXCEPT ![e] = NoEditor]
LeaveEdit(e) == IF editor[e].saves THEN EditAt(e, "save") ELSE EndEdit(e)

BeginEdit(e, pc, d) ==
    /\ editor[e].pc = "none" /\ edits < MaxEdits /\ edits' = edits + 1
    /\ editor' = [editor EXCEPT ![e] = [pc |-> pc, dir |-> d, saves |-> pc = "fetch"]]

CreateProject(e, d) ==
    /\ ~project /\ project' = TRUE
    /\ BeginEdit(e, "clone", d)
    /\ UNCHANGED <<graph, inits, indexed, swept>>

(* The clone of a new project: without a token for it the row is deleted,   *)
(* with what refers to it; when git fails it stays, without a server.       *)
PrepareNew(e) ==
    /\ editor[e].pc = "clone"
    /\ \/ EditAt(e, "create") /\ UNCHANGED <<project, graph>>
       \/ EndEdit(e) /\ UNCHANGED <<project, graph>>
       \/ EndEdit(e) /\ project' = FALSE /\ graph' = NoServer
    /\ UNCHANGED <<inits, indexed, edits, swept>>

UpdateProject(e, d) ==
    /\ project /\ BeginEdit(e, "fetch", d)
    /\ UNCHANGED <<project, graph, inits, indexed, swept>>

PrepareAgain(e) ==
    /\ editor[e].pc = "fetch"
    /\ EditAt(e, "find") \/ EndEdit(e)
    /\ UNCHANGED <<project, graph, inits, indexed, edits, swept>>

FindServer(e) ==
    /\ editor[e].pc = "find"
    /\ editor' = [editor EXCEPT ![e] =
         IF graph = NoServer THEN [@ EXCEPT !.pc = "create"]
         ELSE IF graph.dir = @.dir THEN [@ EXCEPT !.pc = "check"]
         ELSE [pc |-> "move", dir |-> @.dir, saves |-> @.saves, row |-> graph]]
    /\ UNCHANGED <<project, graph, inits, indexed, edits, swept>>

(* The row's name is unique and its project must exist.  A new project may  *)
(* have no repository to index.                                             *)
CreateServer(e) ==
    /\ editor[e].pc = "create"
    /\ IF graph = NoServer /\ project
       THEN /\ graph' = [status |-> "pending", dir |-> editor[e].dir]
            /\ EditAt(e, "check") \/ (~editor[e].saves /\ EndEdit(e))
       ELSE LeaveEdit(e) /\ UNCHANGED graph
    /\ UNCHANGED <<project, inits, indexed, edits, swept>>

(* The whole row as it was read, with the new directory.                    *)
MoveServer(e) ==
    /\ editor[e].pc = "move" /\ EditAt(e, "check")
    /\ graph' = IF project THEN [editor[e].row EXCEPT !.dir = editor[e].dir] ELSE graph
    /\ UNCHANGED <<project, inits, indexed, edits, swept>>

SaveProject(e) ==
    /\ editor[e].pc = "save" /\ project' = TRUE /\ EndEdit(e)
    /\ UNCHANGED <<graph, inits, indexed, edits, swept>>

----------------------------------------------------------------------------
(* startCodegraphInit: the check and the mark are two statements.           *)
CheckInit(e) ==
    /\ editor[e].pc = "check"
    /\ IF graph.status \in {"ready", "initializing"} THEN LeaveEdit(e) ELSE EditAt(e, "mark")
    /\ UNCHANGED <<project, graph, inits, indexed, edits, swept>>

UpdateStatus(status) == graph' = IF graph = NoServer THEN graph ELSE [graph EXCEPT !.status = status]

MarkInit(e) ==
    /\ editor[e].pc = "mark" /\ UpdateStatus("initializing")
    /\ inits' = inits \cup {<<editor[e].dir, e>>} /\ LeaveEdit(e)
    /\ UNCHANGED <<project, indexed, edits, swept>>

InitEnds(i, ok) ==
    /\ i \in inits /\ inits' = inits \ {i}
    /\ UpdateStatus(IF ok THEN "ready" ELSE "failed")
    /\ indexed' = IF ok THEN indexed \cup {i[1]} ELSE indexed
    /\ UNCHANGED <<project, editor, edits, swept>>

Pending == graph # NoServer /\ graph.status # "ready"

SweepIndexes(e) ==
    /\ ~swept /\ swept' = TRUE /\ editor[e].pc = "none"
    /\ editor' = [editor EXCEPT ![e] = IF Pending THEN [pc |-> "check", dir |-> graph.dir, saves |-> FALSE] ELSE @]
    /\ UNCHANGED <<project, graph, inits, indexed, edits>>

----------------------------------------------------------------------------
(* A process and what goes over its pipes.                                  *)
NewClient(t) == [up |-> TRUE, next |-> 0, kept |-> FALSE, token |-> t, asked |-> {}, lines |-> << >>]

(* A message to a process that has died is never answered.                  *)
SendOn(s, c, w) ==
    /\ sent < MaxSends /\ sent' = sent + 1
    /\ client' = [client EXCEPT ![s] = [c EXCEPT !.next = @ + 1,
                                                 !.asked = IF c.up THEN @ \cup {<<c.next + 1, sent + 1>>} ELSE @]]
    /\ wait' = [w EXCEPT !.id = c.next + 1, !.no = sent + 1]

Waiting(s, pc, why) == [pc |-> pc, server |-> s, for |-> why, id |-> 0, no |-> 0, again |-> FALSE]

Connect(s, t, w) == SendOn(s, NewClient(t), [w EXCEPT !.pc = "initialize"])

KeepStore == UNCHANGED <<session, servers, token, answer>>
Drop(s) == client' = [client EXCEPT ![s] = NoClient]

(* A session registers the tools its index server lists; when the server    *)
(* cannot be started, those it is known to have.                            *)
OpenSession(github) ==
    LET given == (IF graph.status = "ready" THEN {"graph"} ELSE {}) \cup (IF github THEN {"github"} ELSE {})
    IN  /\ session = "none" /\ session' = "open" /\ servers' = given
        /\ \/ "graph" \in given /\ Connect("graph", token, Waiting("graph", "initialize", "register"))
           \/ UNCHANGED <<client, wait, sent>>
        /\ UNCHANGED <<token, answer>>

Kept(s) == "kept" \in DOMAIN client[s] /\ client[s].kept

CallTool(s) ==
    /\ session = "open" /\ wait = NoWait /\ s \in servers
    /\ IF Kept(s) THEN SendOn(s, client[s], Waiting(s, "call", "call")) ELSE Connect(s, token, Waiting(s, "initialize", "call"))
    /\ KeepStore

DiscoverTool ==
    /\ session = "open" /\ wait = NoWait /\ "github" \in servers /\ ~Kept("github")
    /\ Connect("github", token, Waiting("github", "initialize", "discover")) /\ KeepStore

----------------------------------------------------------------------------
(* The server: it answers what it was asked, in any order and as late as it *)
(* likes, and dies.                                                         *)
Answer(s, q, kind) ==
    /\ client[s] # NoClient /\ q \in client[s].asked
    /\ client' = [client EXCEPT ![s].asked = @ \ {q}, ![s].lines = Append(@, [id |-> q[1], no |-> q[2], kind |-> kind])]
    /\ UNCHANGED <<session, servers, token, wait, sent, answer>>

Die(s) ==
    /\ client[s] # NoClient /\ client[s].up
    /\ client' = [client EXCEPT ![s].up = FALSE, ![s].asked = {}]
    /\ UNCHANGED <<session, servers, token, wait, sent, answer>>

----------------------------------------------------------------------------
(* Mutation: the first line of the pipe is taken for the answer.            *)
MatchesFirst(line) == TRUE

Matches(line) == line.id = wait.id

(* What the session does once its message is answered.                      *)
Return == wait' = NoWait /\ UNCHANGED sent

Proceed(s, c) ==
    CASE wait.pc = "initialize" /\ s = "github" -> SendOn(s, c, [wait EXCEPT !.pc = "list"])
      [] wait.pc = "initialize" /\ s = "graph" ->
            SendOn(s, [c EXCEPT !.kept = TRUE], [wait EXCEPT !.pc = IF wait.for = "register" THEN "list" ELSE "call"])
      [] wait.pc = "list" /\ wait.for = "call" -> SendOn(s, [c EXCEPT !.kept = TRUE], [wait EXCEPT !.pc = "call"])
      [] wait.pc = "list" /\ wait.for # "call" -> client' = [client EXCEPT ![s] = [c EXCEPT !.kept = TRUE]] /\ Return
      [] wait.pc = "call" -> client' = [client EXCEPT ![s] = c] /\ Return

(* A handshake that fails closes its process; a failed call keeps it, dead  *)
(* or slow as it may be, for the rest of the session.                       *)
Fails(s, c) == client' = [client EXCEPT ![s] = IF c.kept THEN c ELSE NoClient] /\ Return

(* A refused call of GitHub's server renews the token and is sent once more *)
(* to a new process; when that cannot be had it stays refused.              *)
Renew(s, c) ==
    \/ /\ token < MaxRenewals /\ token' = token + 1
       /\ Connect(s, token', [wait EXCEPT !.again = TRUE]) \/ (Drop(s) /\ Return)
    \/ Fails(s, c) /\ UNCHANGED token

ReadLine ==
    LET s == wait.server
        line == Head(client[s].lines)
        c == [client[s] EXCEPT !.lines = Tail(@)]
    IN  /\ wait # NoWait /\ client[s].lines # << >>
        /\ IF ~Matches(line)
           THEN client' = [client EXCEPT ![s] = c] /\ UNCHANGED <<token, wait, sent, answer>>
           ELSE /\ answer' = [to |-> wait.no, made |-> line.no]
                /\ CASE line.kind = "ok" -> Proceed(s, c) /\ UNCHANGED token
                     [] line.kind = "refused" /\ wait.pc = "call" /\ s = "github" /\ ~wait.again -> Renew(s, c)
                     [] OTHER -> Fails(s, c) /\ UNCHANGED token
        /\ UNCHANGED <<session, servers>>

(* The message's context ends, or the process has closed its output.        *)
AbandonWait ==
    /\ wait # NoWait /\ answer' = NoAnswer
    /\ Fails(wait.server, client[wait.server]) /\ UNCHANGED <<session, servers, token>>

(* The codegraph process is stopped; GitHub's is left running.              *)
CloseSession ==
    /\ session = "open" /\ wait = NoWait /\ session' = "closed"
    /\ Drop("graph") /\ UNCHANGED <<servers, token, wait, sent, answer>>

----------------------------------------------------------------------------
RestartProcess ==
    /\ swept /\ edits < MaxEdits /\ swept' = FALSE
    /\ inits' = {} /\ editor' = [e \in Editors |-> NoEditor]
    /\ session' = "closed" /\ client' = [s \in Server |-> NoClient] /\ wait' = NoWait
    /\ UNCHANGED <<project, graph, indexed, edits, servers, token, sent, answer>>

IndexNext ==
    \/ \E e \in Editors :
          \/ \E d \in Dirs : CreateProject(e, d) \/ UpdateProject(e, d)
          \/ PrepareNew(e) \/ PrepareAgain(e) \/ FindServer(e) \/ CreateServer(e) \/ MoveServer(e) \/ SaveProject(e)
          \/ CheckInit(e) \/ MarkInit(e) \/ SweepIndexes(e)
    \/ \E i \in inits, ok \in BOOLEAN : InitEnds(i, ok)

SessionNext ==
    \/ \E github \in BOOLEAN : OpenSession(github)
    \/ \E s \in Server : CallTool(s) \/ Die(s)
    \/ \E s \in Server, kind \in {"ok", "refused"} : client[s] # NoClient /\ \E q \in client[s].asked : Answer(s, q, kind)
    \/ DiscoverTool \/ ReadLine \/ AbandonWait \/ CloseSession

McpNext ==
    \/ IndexNext /\ UNCHANGED sessionVars
    \/ SessionNext /\ UNCHANGED indexVars
    \/ RestartProcess

McpSpec == McpInit /\ [][McpNext]_mcpVars

----------------------------------------------------------------------------
(* The text a tool call returns was made for that very call, though answers *)
(* of calls given up on are still in the pipe and ids start again with      *)
(* every process; a repeated call goes to a process that has the renewed    *)
(* token; and a session is only given a code index that has been built,     *)
(* whatever requests and restarts interleaved with building it              *)
(* (stdioClient.send, CallMCPTool.Execute, startCodegraphInit).             *)
ToolAnswersSound ==
    /\ answer.made = answer.to
    /\ wait # NoWait /\ wait.again => client[wait.server].token = token /\ token > 0
    /\ "graph" \in servers => indexed # {}
=============================================================================
