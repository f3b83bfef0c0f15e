----------------------------- MODULE AgentLoop ------------------------------
(***************************************************************************)
(* One session's agent loop (aicli.Agent) and its trajectory: the JSONL     *)
(* file that is the conversation's only durable copy, the mirror of its     *)
(* entries in the database, pauses, resumes, crashes and forks.             *)
(*                                                                          *)
(* A log entry has a sequence number from a counter shared by the process;  *)
(* a new process seeds it from the entries it finds in the database.  The   *)
(* file is written through, the database by a queue of its own.  Only       *)
(* "message" entries make a conversation; others advance the counter.       *)
(* Messages keep their structure (tool calls and the results that answer    *)
(* them), not their text.                                                   *)
(***************************************************************************)
EXTENDS Integers, Sequences, FiniteSets

CONSTANTS
    Calls,       \* tool call identifiers (a bound on tool calls)
    MaxTurns,    \* turns of the model over the session's life (a bound)
    MaxPauses,   \* pauses (a bound)
    Backlog,     \* log steps the channel to the database holds (a bound: 256 entries)
    Crashes      \* may the process crash?

ASSUME LoopAssumption == /\ MaxTurns \in Nat /\ MaxPauses \in Nat
                         /\ Backlog \in Nat \ {0} /\ Crashes \in BOOLEAN

VARIABLES
    file,     \* message lines of the JSONL file, in file order: [seq, msg]
    mirror,   \* log entries in the database: how many, and the highest seq
    queue,    \* entries waiting to be written to the database, by log step: [len, max]
    counter,  \* the process's counter for this run; 0 when not yet seeded
    lost,     \* history: a crash took entries the database did not have yet
    lrow,     \* status of the row
    cursor,   \* checkpoint_sequence
    hist,     \* the conversation in memory
    lpc,      \* where the loop is
    batch,    \* tool results not yet in the conversation
    ran,      \* history: how often each tool call was executed (the workspace)
    turns, pauses,
    forced,   \* the follow-up that asks for finish_task is under way
    notice,   \* ResumeNotice is still to be said
    fork      \* the last fork, until the session goes on

logVars   == <<file, mirror, queue, counter, lost>>
loopVars  == <<hist, lpc, batch, forced, notice>>
agentVars == <<logVars, loopVars, lrow, cursor, ran, turns, pauses, fork>>

Text         == [kind |-> "text"]
Assistant(c) == [kind |-> "assistant", calls |-> c]
Result(c)    == [kind |-> "tool", call |-> c]
NoFork       == [at |-> 0, conv |-> <<>>]

Executed == {c \in Calls : ran[c] > 0}
IsCall(m) == m.kind = "assistant" /\ m.calls # <<>>
Elems(s)  == {s[i] : i \in DOMAIN s}

AgentInit ==
    /\ file = <<>> /\ mirror = [len |-> 0, max |-> 0] /\ queue = <<>>
    /\ counter = 0 /\ lost = FALSE /\ lrow = "running" /\ cursor = 0
    /\ hist = <<>> /\ lpc = "start" /\ batch = <<>>
    /\ ran = [c \in Calls |-> 0] /\ turns = 0 /\ pauses = 0
    /\ forced = FALSE /\ notice = FALSE /\ fork = NoFork

----------------------------------------------------------------------------
(* Logging.                                                                *)

(* highestPersistedSeq: entries without a seq count by position.           *)
SeedSeq == IF mirror.len > mirror.max THEN mirror.len ELSE mirror.max

(* NextRunLogSeq.                                                          *)
LastSeq == IF counter = 0 THEN SeedSeq ELSE counter

(* Messages as entries, numbered after n.                                  *)
Numbered(n, ms) == [i \in 1..Len(ms) |-> [seq |-> n + i, msg |-> ms[i]]]

(* The channel to the database holds so many, and logging waits when it is   *)
(* full.                                                                   *)
RoomToLog == Len(queue) < Backlog

(* logEntry: `other` entries of other kinds, then the messages ms: to the   *)
(* file at once, to the database through the channel.                      *)
LogEntries(other, ms) ==
    LET n == LastSeq + other
        m == n + Len(ms)
    IN  /\ RoomToLog
        /\ file' = file \o Numbered(n, ms)
        /\ counter' = m
        /\ queue' = Append(queue, [len |-> m - LastSeq, max |-> m])
        /\ UNCHANGED <<mirror, lost>>

LogConversationMessage(m) == LogEntries(0, <<m>>)

(* LogRequest and LogResponse, then the messages of the turn.               *)
LogTurn(said) == LogEntries(2, said)

(* One statement or one transaction for each entry: none is lost to another *)
(* that is appended meanwhile.                                             *)
AppendRunLogEntry(n, max) == mirror' = [len |-> mirror.len + n, max |-> max]

(* persistWorker.                                                          *)
PersistEntry ==
    /\ queue # <<>>
    /\ AppendRunLogEntry(Head(queue).len, Head(queue).max)
    /\ queue' = Tail(queue)
    /\ UNCHANGED <<file, counter, lost, loopVars, lrow, cursor, ran, turns, pauses, fork>>

----------------------------------------------------------------------------
(* Reading a trajectory back.                                              *)

(* The message lines at or before seq, in file order.                      *)
Kept(seq) == {i \in DOMAIN file : file[i].seq <= seq}
Nth(S, k) == CHOOSE i \in S : Cardinality({j \in S : j <= i}) = k
Upto(seq) ==
    LET kept == Kept(seq) IN [k \in 1..Cardinality(kept) |-> file[Nth(kept, k)]]
Conversation(es) == [i \in 1..Len(es) |-> es[i].msg]

(* Mutation of LoadMessageHistory: the message at the cursor is left out.  *)
LoadHistoryBefore(seq) == Conversation(SelectSeq(file, LAMBDA e : e.seq < seq))

(* The messages through the cursor, in file order.                         *)
LoadMessageHistory(seq) == Conversation(Upto(seq))

Asked(conv)    == UNION {Elems(conv[i].calls) : i \in {j \in DOMAIN conv : IsCall(conv[j])}}
Answered(conv) == {conv[i].call : i \in {j \in DOMAIN conv : conv[j].kind = "tool"}}
Pending(conv)  == Asked(conv) \ Answered(conv)

(* Every result answers a call that is open: what a provider accepts, and   *)
(* what a fork insists on when it reads the file.                          *)
Paired(conv) ==
    \A i \in DOMAIN conv : conv[i].kind = "tool" =>
        conv[i].call \in Pending(SubSeq(conv, 1, i - 1))

(* Lengths of the prefixes at or before seq with no tool call open.        *)
SafeLengths(seq) ==
    LET conv == LoadMessageHistory(seq)
    IN  {n \in 1..Len(conv) : Pending(SubSeq(conv, 1, n)) = {}}

(* Mutation of SafeHistory: cut at the requested message, wherever it is.  *)
SafeHistoryAt(seq) == LoadMessageHistory(seq)

(* LoadSafeMessageHistoryAtOrBefore: the longest of them.                  *)
SafeHistory(seq) ==
    LET ns == SafeLengths(seq)
    IN  SubSeq(LoadMessageHistory(seq), 1, CHOOSE n \in ns : \A k \in ns : k <= n)

----------------------------------------------------------------------------
(* The loop.                                                               *)

(* The task, its comments and the results of earlier runs: no tool calls.    *)
buildInitialMessages == <<Text>>

(* A fresh session logs its opening messages once.                         *)
Begin ==
    /\ lpc = "start"
    /\ hist' = buildInitialMessages /\ LogEntries(0, hist')
    /\ lpc' = "turn"
    /\ UNCHANGED <<lrow, cursor, batch, forced, notice, ran, turns, pauses, fork>>

(* One provider call: the request and the response are logged, then the     *)
(* assistant's message, with its tool calls.  BeforeTurn may put a message  *)
(* in front of it.  (The engine's Interrupt hook never returns a message.)  *)
ModelTurn(calls, before) ==
    LET said == Append(before, Assistant(calls)) IN
    /\ lpc = "turn" /\ ~notice /\ turns < MaxTurns
    /\ turns' = turns + 1
    /\ hist' = hist \o said
    /\ LogTurn(said)
    /\ lpc' = IF calls = <<>> THEN "over" ELSE "boundary"
    /\ UNCHANGED <<lrow, cursor, batch, forced, notice, ran, pauses, fork>>

(* Identifiers are fresh.                                                  *)
NewCalls == {<<>>} \cup {<<c>> : c \in Calls \ Asked(Conversation(file))}
                   \cup {<<p[1], p[2]>> : p \in {q \in (Calls \ Asked(Conversation(file)))
                                                     \X (Calls \ Asked(Conversation(file))) :
                                                 q[1] # q[2]}}

(* Not paused: the tools of the turn are run.                              *)
GoOn ==
    /\ lpc = "boundary"
    /\ lpc' = "tools" /\ batch' = <<>>
    /\ UNCHANGED <<logVars, hist, forced, notice, lrow, cursor, ran, turns, pauses, fork>>

(* executeToolCalls: one call, in order; its two entries in the database    *)
(* carry no seq.                                                           *)
ExecuteTool ==
    LET calls == hist[Len(hist)].calls IN
    /\ lpc = "tools" /\ Len(batch) < Len(calls)
    /\ ran' = [ran EXCEPT ![calls[Len(batch) + 1]] = @ + 1]
    /\ batch' = Append(batch, calls[Len(batch) + 1])
    /\ AppendRunLogEntry(2, mirror.max)
    /\ UNCHANGED <<file, queue, counter, lost, hist, lpc, forced, notice, lrow, cursor, turns, pauses, fork>>

(* The results enter the conversation together and are logged one by one;   *)
(* the tool_response entries come first.                                   *)
ToolsDone ==
    /\ lpc = "tools" /\ Len(batch) = Len(hist[Len(hist)].calls)
    /\ LogEntries(Len(batch), <<Result(batch[1])>>)
    /\ hist' = hist \o [i \in 1..Len(batch) |-> Result(batch[i])]
    /\ batch' = Tail(batch) /\ lpc' = "results"
    /\ UNCHANGED <<forced, notice, lrow, cursor, ran, turns, pauses, fork>>

LogResult ==
    /\ lpc = "results" /\ batch # <<>>
    /\ LogConversationMessage(Result(batch[1]))
    /\ batch' = Tail(batch)
    /\ UNCHANGED <<hist, lpc, forced, notice, lrow, cursor, ran, turns, pauses, fork>>

(* After the tools the loop goes on, or a terminal tool has ended it.      *)
AfterTools ==
    /\ lpc = "results" /\ batch = <<>>
    /\ \/ lpc' = "turn" \/ lpc' = "over"
    /\ UNCHANGED <<logVars, hist, batch, forced, notice, lrow, cursor, ran, turns, pauses, fork>>

(* The loop returned: without finish_task one follow-up of a conversation   *)
(* of its own, its opening not logged; then the final status is written.   *)
FollowUp ==
    /\ lpc = "over" /\ ~forced
    /\ forced' = TRUE /\ hist' = <<Text>> /\ lpc' = "turn"
    /\ UNCHANGED <<logVars, batch, notice, lrow, cursor, ran, turns, pauses, fork>>

Finish ==
    /\ lpc = "over"
    /\ lrow' = "ended" /\ lpc' = "close"
    /\ UNCHANGED <<logVars, hist, batch, forced, notice, cursor, ran, turns, pauses, fork>>

(* The turn cap, a provider or hook failure, a stop.                       *)
Fail ==
    /\ lpc \in {"turn", "results"}
    /\ lrow' = "ended" /\ lpc' = "close"
    /\ UNCHANGED <<logVars, hist, batch, forced, notice, cursor, ran, turns, pauses, fork>>

(* ErrPaused: the file is synced and the cursor saved with the row.  The    *)
(* follow-up never pauses.                                                 *)
Pause ==
    /\ lpc = "boundary" /\ ~forced /\ pauses < MaxPauses
    /\ pauses' = pauses + 1
    /\ cursor' = counter /\ lrow' = "paused" /\ lpc' = "close"
    /\ UNCHANGED <<logVars, hist, batch, forced, notice, ran, turns, fork>>

(* ProxyLogger.Close drains the queue before the session is gone.          *)
Close ==
    /\ lpc = "close" /\ queue = <<>>
    /\ lpc' = "off" /\ hist' = <<>> /\ batch' = <<>> /\ forced' = FALSE /\ notice' = FALSE
    /\ UNCHANGED <<logVars, lrow, cursor, ran, turns, pauses, fork>>

(* Mutation of Resume: the tool calls of the last message are not replayed.*)
ResumeWithoutReplay ==
    /\ lrow = "paused" /\ lpc = "off"
    /\ lrow' = "running" /\ hist' = LoadMessageHistory(cursor) /\ batch' = <<>>
    /\ lpc' = "turn" /\ notice' = TRUE
    /\ UNCHANGED <<logVars, forced, cursor, ran, turns, pauses, fork>>

(* A paused row is claimed and its conversation read back.  When its last   *)
(* message asks for tools they are run first, without a pause check.       *)
Resume ==
    /\ lrow = "paused" /\ lpc = "off" /\ LoadMessageHistory(cursor) # <<>>
    /\ lrow' = "running" /\ hist' = LoadMessageHistory(cursor) /\ batch' = <<>>
    /\ lpc' = IF IsCall(hist'[Len(hist')]) THEN "tools" ELSE "turn"
    /\ notice' = TRUE /\ fork' = NoFork
    /\ UNCHANGED <<logVars, forced, cursor, ran, turns, pauses>>

(* Then the loop is told that it was resumed.                              *)
ResumeNotice ==
    /\ lpc = "turn" /\ notice
    /\ hist' = Append(hist, Text) /\ LogConversationMessage(Text)
    /\ notice' = FALSE
    /\ UNCHANGED <<lpc, batch, forced, lrow, cursor, ran, turns, pauses, fork>>

(* Mutation of Crash: the row is paused again, as if nothing had been run. *)
CrashKeepsCheckpoint ==
    /\ Crashes /\ lpc \notin {"off", "start"}
    /\ lpc' = "off" /\ hist' = <<>> /\ batch' = <<>> /\ forced' = FALSE /\ notice' = FALSE
    /\ queue' = <<>> /\ counter' = 0 /\ lost' = (lost \/ queue # <<>>)
    /\ lrow' = IF lrow = "running" THEN (IF cursor > 0 THEN "paused" ELSE "stale") ELSE lrow
    /\ UNCHANGED <<file, mirror, cursor, ran, turns, pauses, fork>>

(* A crash leaves the file, the row and what reached the database.  A row   *)
(* left running is retired as stale, which nothing resumes by itself.      *)
Crash ==
    /\ Crashes /\ lpc \notin {"off", "start"}
    /\ lpc' = "off" /\ hist' = <<>> /\ batch' = <<>> /\ forced' = FALSE /\ notice' = FALSE
    /\ queue' = <<>> /\ counter' = 0 /\ lost' = (lost \/ queue # <<>>)
    /\ lrow' = IF lrow = "running" THEN "stale" ELSE lrow
    /\ UNCHANGED <<file, mirror, cursor, ran, turns, pauses, fork>>

(* A restart while the session is put down: the counter is forgotten.      *)
Restart ==
    /\ lpc = "off" /\ counter # 0
    /\ counter' = 0
    /\ UNCHANGED <<file, mirror, queue, lost, loopVars, lrow, cursor, ran, turns, pauses, fork>>

(* orchestratorFork at a message of a session that is over or paused: the   *)
(* conversation up to a safe boundary.                                     *)
Fork(seq) ==
    /\ lpc = "off" /\ lrow # "running"
    /\ Paired(LoadMessageHistory(seq)) /\ SafeLengths(seq) # {}
    /\ fork' = [at |-> seq, conv |-> SafeHistory(seq)]
    /\ UNCHANGED <<logVars, loopVars, lrow, cursor, ran, turns, pauses>>

----------------------------------------------------------------------------
AgentNext ==
    \/ PersistEntry \/ Begin
    \/ \E calls \in NewCalls, before \in {<<>>, <<Text>>} : ModelTurn(calls, before)
    \/ GoOn \/ ExecuteTool \/ ToolsDone \/ LogResult \/ AfterTools
    \/ FollowUp \/ Finish \/ Fail
    \/ Pause \/ Close \/ Resume \/ ResumeNotice \/ Crash \/ Restart
    \/ \E i \in DOMAIN file : Fork(file[i].seq)

AgentSpec == AgentInit /\ [][AgentNext]_agentVars

----------------------------------------------------------------------------
(* Properties.                                                             *)

(* Whenever the loop calls the provider, through pauses, restarts and      *)
(* replays (runMessageHistory), each tool call of the conversation is       *)
(* answered exactly once.  After a crash that took entries from the queue   *)
(* sequence numbers repeat, and a later pause's cursor may cut messages     *)
(* out of the middle of the conversation: see SeqNeverRepeats.              *)
RequestsWellFormed == lpc = "turn" /\ ~lost => Paired(hist) /\ Pending(hist) = {}

(* A tool call has an effect on the workspace once: a pause before the      *)
(* tools, a resume that replays them and a crash never run it twice.       *)
ToolOnce == \A c \in Calls : ran[c] <= 1

(* A paused row can be taken up from its file and cursor alone: the        *)
(* conversation read back is the one the loop had, whole but for the calls  *)
(* of its last message, none of which has been run ("resuming is            *)
(* indistinguishable from having never paused").  After a crash that took   *)
(* entries from the queue, sequence numbers repeat and the cursor may be    *)
(* short.                                                                  *)
PausedIsWhole ==
    lrow = "paused" /\ ~lost =>
        LET conv == LoadMessageHistory(cursor)
        IN  /\ conv # <<>> /\ IsCall(conv[Len(conv)]) /\ Paired(conv)
            /\ Len(conv) = Len(file)
            /\ Pending(conv) = Elems(conv[Len(conv)].calls)
            /\ Pending(conv) \cap Executed = {}

(* Sequence numbers "never repeat within a run" and keep growing "across    *)
(* server restarts" (NextRunLogSeq).  The counter of a new process is       *)
(* seeded from the database, which the file may be ahead of.                *)
SeqNeverRepeats ==
    \A i, j \in DOMAIN file : file[i].seq = file[j].seq => i = j

(* A fork starts from a conversation no tool call of which is open, also    *)
(* after a crash that made sequence numbers repeat.                        *)
ForkSafe == Pending(fork.conv) = {} /\ Paired(fork.conv)
=============================================================================
