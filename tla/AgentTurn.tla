----------------------------- MODULE AgentTurn -----------------------------
(***************************************************************************)
(* The turns of one scenario as an agent adapter runs them: the CLI as a   *)
(* child process with two pipes, the loop that reads its output under two  *)
(* caps and copies it to the turn stream, the thread that drains stderr,   *)
(* the wait with its time limit, and the results of each turn.             *)
(***************************************************************************)
EXTENDS Adapters, Lists, FiniteSets

CONSTANTS
  Agents,     (* the adapters to look at                                   *)
  Turns,      (* turns of the scenario                                     *)
  MaxLines,   (* lines a child prints in a turn (bound of the model)       *)
  MaxErr,     (* lines it writes to stderr (bound of the model)            *)
  PipeCap,    (* lines a pipe holds                                        *)
  LineMax,    (* SUBPROCESS_STDOUT_LINE_MAX                                *)
  StreamMaxes, (* SUBPROCESS_STDOUT_MAX_BYTES, one of these                *)
  SinkMax,    (* TURN_NDJSON_MAX_BYTES                                     *)
  MainThread, (* the scenario runs in the main thread (--workers 1)        *)
  BeltName    (* the session name that goose is given                      *)

ASSUME AgentTurnAssumption ==
  /\ Agents \subseteq Adapters /\ BeltName # None /\ MainThread \in BOOLEAN
  /\ {Turns, MaxLines, MaxErr, PipeCap, LineMax, SinkMax} \union StreamMaxes \subseteq Nat

VARIABLES
  adapter, (* which adapter                                                *)
  streamMax,  (* the cap on what a turn reads                              *)
  turn,    (* the turn that runs, from 1                                   *)
  at,      (* ready, reading, draining, waiting, joining, fetching, over,  *)
           (* end                                                          *)
  session, (* the adapter's _session_id                                    *)
  child,   (* none, up, gone (with code rc) or killed                      *)
  rc,      (* none, zero or nonzero                                        *)
  left,    (* lines the child has still to print                           *)
  moan,    (* lines it has still to write to stderr                        *)
  tone,    (* the failure patterns in them                                 *)
  out, outOpen, err,  (* the pipes, and whether stdout has a writer left    *)
  lines, errLines,               (* what was read of them                  *)
  sink, tripped,                 (* the turn stream file, and its cap      *)
  raw,     (* raw_output                                                   *)
  ttft,    (* the line that set _ttft; 0: None                             *)
  result,  (* the last TurnOutput; None before there is one                *)
  unread,  (* it stands for a fetch_results that raised (history)          *)
  resumed, (* the session that this turn resumed (history)                 *)
  named,   (* sessions that earlier turns' outputs named (history)         *)
  cutOff   (* turns whose reading raised, or a Ctrl-C ended (history)      *)

pipeVars == <<out, outOpen, err>>
readVars == <<lines, errLines, sink, tripped, ttft>>
turnVars == <<adapter, streamMax, turn, session, raw, result, unread, resumed, named>>
agentVars == <<turnVars, at, child, rc, left, moan, tone, pipeVars, readVars, cutOff>>

-----------------------------------------------------------------------------
(* What the CLIs print: the events the adapters know, of each a sample.    *)

Junk == Line("junk")
Big(l) == [l EXCEPT !.size = LineMax + 2]
Part(t, p, id) == [Line(t) EXCEPT !.part = p, !.id = id]
Names(t, s) == [Line(t) EXCEPT !.sess = s]
Ends(t, s, bad, label) == [Names(t, s) EXCEPT !.bad = bad, !.label = label]

Vocabulary(a) ==
  {Big(Junk)} \union
  CASE a = "claude" -> {Part("assistant", "text", NoId), Ends("result", None, "true", None)} \union
         {Ends("result", s, "false", None) : s \in Sessions} \union
         UNION {{Part("assistant", "tool_use", i), Part("user", "tool_result", i)} : i \in CallIds}
    [] a = "codex" -> {Part("item.completed", "agent_message", NoId), Line("turn.completed"),
         [Line("turn.failed") EXCEPT !.marks = {"auth", "rate"}]} \union
         {Names("thread.started", s) : s \in Sessions} \union
         {Part("item.completed", "command_execution", i) : i \in CallIds}
    [] a = "copilot" -> {Part("assistant.message", "text", NoId), Ends("result", None, "true", None),
         Ends("result", None, "none", "vendor")} \union
         {Ends("result", s, "false", None) : s \in Sessions} \union
         UNION {{Part("assistant.message", "toolRequests", i),
                 Part("tool.execution_start", "none", i)} : i \in CallIds}
    [] a = "cursor" -> {[Ends("result", None, "true", None) EXCEPT !.part = "text"]} \union
         {[Ends("result", s, "false", None) EXCEPT !.part = "text"] : s \in Sessions} \union
         UNION {{Part("tool_call", "started", i), Part("tool_call", "completed", i)} : i \in CallIds}
    [] a = "goose" -> {Part("message", "text", NoId), [Line("error") EXCEPT !.label = "vendor"],
         Line("complete")} \union
         UNION {{Part("message", "toolRequest", i), Part("message", "toolResponse", i)} : i \in CallIds}
    [] a = "opencode" -> {Part("text", "text", NoId), Line("step_finish"),
         [Line("error") EXCEPT !.label = "vendor"]} \union
         {Names("step_start", s) : s \in Sessions} \union
         UNION {{Part("tool_use", "none", i), Part("tool_use", "output", i)} : i \in CallIds}
    [] a = "gemini" -> {Part("message", "text", NoId), Ends("result", None, "true", "vendor"),
         Ends("result", None, "false", None)} \union
         {Names("init", s) : s \in Sessions} \union
         {Part("message", "functionCall", i) : i \in CallIds}

(* What a child's stderr is about.                                         *)
Tones == {{"error", "model", "auth"}}

(* The event with which a CLI says that it is done; it prints one.         *)
Closes(l) == l.type \in {"result", "turn.completed", "turn.failed", "complete", "step_finish"}

-----------------------------------------------------------------------------
AgentInit ==
  /\ adapter \in Agents /\ streamMax \in StreamMaxes /\ turn = 1 /\ session = None
  /\ at = IF Turns = 0 THEN "over" ELSE "ready"
  /\ child = "none" /\ rc = "none" /\ left = 0 /\ moan = 0 /\ tone = {}
  /\ out = <<>> /\ outOpen = FALSE /\ err = <<>>
  /\ lines = <<>> /\ errLines = <<>> /\ sink = <<>> /\ tripped = FALSE
  /\ ttft = 0 /\ raw = <<>> /\ result = None /\ unread = FALSE /\ resumed = None /\ named = {} /\ cutOff = {}

(* What is particular to each adapter's _execute_streaming, the rest being *)
(* the actions below: whether an exception from the loop is logged and the *)
(* turn goes on, which (type, part) the line has that sets `ttft`, and     *)
(* whether the line is parsed for it or its text is searched, which may    *)
(* find the words in a line that was cut.                                  *)
ClaudeStreaming == [swallows |-> FALSE, search |-> TRUE, first |-> {"assistant"} \X {"text", "tool_use"}]
CodexStreaming == [swallows |-> TRUE, search |-> FALSE, first |-> {<<"item.completed", "agent_message">>}]
CopilotStreaming == [swallows |-> FALSE, search |-> FALSE, first |-> {"assistant.message"} \X {"text", "toolRequests"}]
CursorStreaming == [swallows |-> FALSE, search |-> FALSE, first |-> {}]
GooseStreaming == [swallows |-> TRUE, search |-> TRUE, first |-> {"message"} \X {"text", "toolRequest", "toolResponse"}]
OpenCodeStreaming == [swallows |-> TRUE, search |-> TRUE, first |-> {<<"text", "text">>}]
GeminiStreaming == [swallows |-> FALSE, search |-> TRUE, first |-> {"message"} \X {"text", "functionCall"}]

Streaming ==
  [claude |-> ClaudeStreaming, codex |-> CodexStreaming, copilot |-> CopilotStreaming,
   cursor |-> CursorStreaming, goose |-> GooseStreaming, opencode |-> OpenCodeStreaming,
   gemini |-> GeminiStreaming]

(* The lines that begin the reply.                                         *)
First(l) == <<l.type, l.part>> \in Streaming[adapter].first

(* The turn stream starts with the message, if that is within the cap.     *)
SinkStart ==
  LET message == Line("user_input")
  IN  /\ tripped' = (message.size > SinkMax)
      /\ sink' = <<IF tripped' THEN Line("__truncated") ELSE message>>

(* execute: the command with the session to resume; goose is told a name   *)
(* for the session before the child is started.                            *)
Spawn ==
  /\ at = "ready"
  /\ resumed' = session
  /\ session' = IF adapter = "goose" THEN BeltName ELSE session
  /\ SinkStart
  /\ raw' = <<>> /\ result' = None /\ unread' = FALSE /\ ttft' = 0
  /\ \/ /\ at' = "reading" /\ child' = "up" /\ outOpen' = TRUE /\ left' = MaxLines
        /\ moan' \in {0, MaxErr} /\ tone' \in IF moan' = 0 THEN {{}} ELSE Tones
        /\ named' = IF adapter = "goose" THEN named \union {BeltName} ELSE named
     \/ /\ at' = "over"
        /\ UNCHANGED <<child, left, moan, tone, outOpen, named>>
  /\ UNCHANGED <<adapter, streamMax, turn, rc, out, err, lines, errLines, cutOff>>

(* What execute() has of a turn goes when it is left, its pipes too.       *)
ForgetOutput ==
  /\ left' = 0 /\ moan' = 0 /\ tone' = {}
  /\ out' = <<>> /\ outOpen' = FALSE /\ err' = <<>>
  /\ lines' = <<>> /\ errLines' = <<>> /\ sink' = <<>> /\ tripped' = FALSE /\ UNCHANGED ttft

Forget == ForgetOutput /\ child' = "none" /\ rc' = "none"

-----------------------------------------------------------------------------
(* The child.                                                              *)

(* What a child does that belt no longer looks at is not followed.         *)
Followed == at \in {"reading", "draining", "waiting", "joining"}

ChildPrints ==
  /\ child = "up" /\ outOpen /\ left > 0 /\ Len(out) < PipeCap
  /\ \E l \in Vocabulary(adapter) :
        /\ out' = Append(out, l)
        /\ left' = IF Closes(l) THEN 0 ELSE left - 1
  /\ UNCHANGED <<turnVars, at, child, rc, moan, tone, outOpen, err, readVars, cutOff>>

ChildComplains ==
  /\ child = "up" /\ moan > 0 /\ Len(err) < PipeCap
  /\ err' = Append(err, [Junk EXCEPT !.marks = tone])
  /\ moan' = moan - 1
  /\ UNCHANGED <<turnVars, at, child, rc, left, tone, out, outOpen, readVars, cutOff>>

ChildClosesOutput ==
  /\ child = "up" /\ outOpen /\ left = 0
  /\ outOpen' = FALSE
  /\ UNCHANGED <<turnVars, at, child, rc, left, moan, tone, out, err, readVars, cutOff>>

(* With all written, or at any time with a failure.  A process that the    *)
(* child started may keep its stdout open.                                  *)
Leave(code) ==
  /\ child = "up"
  /\ child' = "gone" /\ rc' = code
  /\ outOpen' \in {FALSE, outOpen}
  /\ UNCHANGED <<turnVars, at, left, moan, tone, out, err, readVars, cutOff>>

ChildEnds == left = 0 /\ moan = 0 /\ (Leave("zero") \/ Leave("nonzero"))

ChildCrashes == Leave("nonzero")

HeirEnds ==
  /\ child = "gone" /\ outOpen
  /\ outOpen' = FALSE
  /\ UNCHANGED <<turnVars, at, child, rc, left, moan, tone, out, err, readVars, cutOff>>

-----------------------------------------------------------------------------
(* The reading loop.                                                       *)

SizeOf(ls) == SumOf([i \in DOMAIN ls |-> ls[i].size])

(* A line that is too long is cut, and no longer parses.                   *)
Clip(l) == IF l.size > LineMax
           THEN [Junk EXCEPT !.size = LineMax + 1, !.marks = l.marks] ELSE l

(* Mutant: what still fits is written after the marker.                    *)
SinkWriteOn(l) ==
  IF SizeOf(sink) + l.size <= SinkMax
    THEN /\ sink' = Append(sink, l) /\ UNCHANGED tripped
    ELSE /\ sink' = Append(sink, Line("__truncated")) /\ tripped' = TRUE

SinkWrite(l) ==
  IF tripped THEN UNCHANGED <<sink, tripped>>
  ELSE IF SizeOf(sink) + l.size <= SinkMax
    THEN /\ sink' = Append(sink, l) /\ UNCHANGED tripped
    ELSE /\ sink' = Append(sink, Line("__truncated")) /\ tripped' = TRUE

FirstToken(y) ==
  \/ ttft = 0 /\ (First(y) \/ (Streaming[adapter].search /\ y.type = "junk")) /\ ttft' = Len(lines) + 1
  \/ (ttft = 0 => ~First(y)) /\ UNCHANGED ttft

(* iter_bounded_stream yields the line, or its marker and then nothing.    *)
ReadLine ==
  /\ at = "reading" /\ out # <<>>
  /\ LET l == Clip(Head(out))
         fits == SizeOf(lines) + l.size <= streamMax
         y == IF fits THEN l ELSE Junk
     IN  /\ lines' = Append(lines, y)
         /\ SinkWrite(y) /\ FirstToken(y)
         /\ at' = IF fits THEN "reading" ELSE "draining"
  /\ out' = Tail(out)
  /\ UNCHANGED <<turnVars, child, rc, left, moan, tone, outOpen, err, errLines, cutOff>>

(* Bytes that do not decode, or a turn stream that cannot be written.      *)
ReadBreaks ==
  /\ at = "reading" /\ out # <<>>
  /\ at' = IF Streaming[adapter].swallows THEN "joining" ELSE "over"
  /\ cutOff' = cutOff \union {turn}
  /\ out' = Tail(out)
  /\ UNCHANGED <<turnVars, child, rc, left, moan, tone, outOpen, err, readVars>>

(* What comes after the cap is read and dropped.                           *)
DropLine ==
  /\ at = "draining" /\ out # <<>>
  /\ out' = Tail(out)
  /\ UNCHANGED <<turnVars, at, child, rc, left, moan, tone, outOpen, err, readVars, cutOff>>

EndOfOutput ==
  /\ at \in {"reading", "draining"} /\ out = <<>> /\ ~outOpen
  /\ at' = "waiting"
  /\ UNCHANGED <<turnVars, child, rc, left, moan, tone, pipeVars, readVars, cutOff>>

(* Mutant: stderr is read when the child has ended.                        *)
DrainStderrLate ==
  /\ at = "joining" /\ err # <<>>
  /\ errLines' = Append(errLines, Head(err)) /\ err' = Tail(err)
  /\ UNCHANGED <<turnVars, at, child, rc, left, moan, tone, out, outOpen, lines, sink, tripped, ttft, cutOff>>

(* _drain_stderr, in a thread of its own.                                  *)
DrainStderr ==
  /\ at \in {"reading", "draining", "waiting", "joining"} /\ err # <<>>
  /\ errLines' = Append(errLines, Head(err)) /\ err' = Tail(err)
  /\ UNCHANGED <<turnVars, at, child, rc, left, moan, tone, out, outOpen, lines, sink, tripped, ttft, cutOff>>

Wait ==
  /\ at = "waiting" /\ child = "gone"
  /\ at' = "joining"
  /\ UNCHANGED <<turnVars, child, rc, left, moan, tone, pipeVars, readVars, cutOff>>

(* Mutant: the time limit is reported and the child is not killed.         *)
TimeOutOnly ==
  /\ at = "waiting" /\ child = "up"
  /\ at' = "over"
  /\ UNCHANGED <<turnVars, child, rc, left, moan, tone, pipeVars, readVars, cutOff>>

(* proc.wait(timeout=300) and _kill_process_tree: the child's whole group. *)
TimeOut ==
  /\ at = "waiting" /\ child = "up"
  /\ at' = "over" /\ child' = "killed" /\ outOpen' = FALSE
  /\ UNCHANGED <<turnVars, rc, left, moan, tone, out, err, readVars, cutOff>>

(* Ctrl-C, which only the main thread hears, in the reading loop or one of *)
(* the waits.  The child is in a session of its own and hears nothing, and *)
(* only TimeoutExpired is caught and kills it.                             *)
KeyboardInterrupt ==
  /\ MainThread /\ Followed
  /\ at' = "over"
  /\ cutOff' = cutOff \union {turn}
  /\ ForgetOutput
  /\ UNCHANGED <<turnVars, child, rc>>

(* The thread has ended or five seconds have passed; stderr is added to    *)
(* the output of a child that failed or whose code is not known.           *)
Join ==
  /\ at = "joining"
  /\ raw' = IF rc = "zero" /\ child = "gone" THEN lines ELSE lines \o errLines
  /\ at' = "fetching"
  /\ UNCHANGED <<adapter, streamMax, turn, session, result, unread, resumed, named,
                 child, rc, left, moan, tone, pipeVars, readVars, cutOff>>

-----------------------------------------------------------------------------
(* The results, and the turn after.                                        *)

SessionsOn(ls) == {l.sess : l \in ToSet(ls)} \ {None}

Fetch ==
  /\ at = "fetching"
  /\ \E a \in {Folded(adapter, raw)}, marks \in {RawMarks(raw)},
        replyFile \in IF adapter = "codex" THEN BOOLEAN ELSE {FALSE} :
        /\ result' = FetchResults(adapter, a, marks, replyFile) /\ unread' = FALSE
        /\ session' = NextSession(adapter, session, a.session)
  /\ named' = named \union SessionsOn(raw)
  /\ turn' = turn + 1
  /\ at' = IF turn = Turns THEN "over" ELSE "ready"
  /\ Forget
  /\ UNCHANGED <<adapter, streamMax, raw, resumed, cutOff>>

(* fetch_results raises on an event it did not expect: the turn counts as  *)
(* failed, of no type, and the next turn comes.                            *)
Unread == [reply |-> FALSE, calls |-> <<>>, session |-> None, bad |-> "true", type |-> None, count |-> 0]

FetchFails ==
  /\ at = "fetching" /\ raw # <<>>
  /\ result' = Unread /\ unread' = TRUE
  /\ turn' = turn + 1
  /\ at' = IF turn = Turns THEN "over" ELSE "ready"
  /\ Forget
  /\ UNCHANGED <<adapter, streamMax, session, named, raw, resumed, cutOff>>

TearDown ==
  /\ at = "over"
  /\ at' = "end" /\ session' = None
  /\ UNCHANGED <<adapter, streamMax, turn, raw, result, unread, resumed, named,
                 child, rc, left, moan, tone, pipeVars, readVars, cutOff>>

Done == at = "end" /\ UNCHANGED agentVars

ChildStep ==
  /\ Followed
  /\ \/ ChildPrints \/ ChildComplains \/ ChildClosesOutput \/ ChildEnds \/ ChildCrashes
     \/ HeirEnds

BeltStep ==
  \/ Spawn \/ ReadLine \/ ReadBreaks \/ DropLine \/ EndOfOutput \/ Wait \/ TimeOut \/ Join
  \/ Fetch \/ FetchFails \/ TearDown

AgentNext == ChildStep \/ BeltStep \/ DrainStderr \/ KeyboardInterrupt \/ Done

AgentSpec == AgentInit /\ [][AgentNext]_agentVars

(* The interpreter's threads are scheduled; nothing is known of the CLI.   *)
BeltFairSpec == AgentSpec /\ WF_agentVars(BeltStep) /\ WF_agentVars(DrainStderr)

(* A CLI that writes what it has to write, when it can, and then ends.  Of *)
(* the processes that it leaves behind nothing is assumed: no read of      *)
(* stdout has a time limit.                                                *)
FairSpec ==
  /\ BeltFairSpec
  /\ WF_agentVars(Followed /\ ChildPrints) /\ WF_agentVars(Followed /\ ChildComplains)
  /\ WF_agentVars(Followed /\ ChildEnds)

-----------------------------------------------------------------------------
(* Properties.                                                             *)

(* The turn stream shows the output from its start without a gap: a prefix *)
(* of the lines read, then the marker if anything was left out, whatever   *)
(* the sizes of the lines after it (_BoundedStreamWriter.write).           *)
SinkShowsAPrefix ==
  LET shown == IF tripped THEN Front(sink) ELSE sink
  IN  sink = <<>> \/
      /\ shown = <<>> \/ IsPrefix(Tail(shown), lines)
      /\ SizeOf(shown) <= SinkMax
      /\ tripped <=> Len(shown) <= Len(lines)

(* A turn resumes a session that this scenario's agent has named, if it    *)
(* has named one in a turn whose results could be read: turns in which the *)
(* CLI says nothing of a session, fails or is cut off do not make the      *)
(* agent forget the conversation, nor does the last one, after which a     *)
(* further turn would resume `session` (fetch_results, execute).           *)
SessionKept ==
  LET continues(s) == IF named = {} THEN s = None ELSE s \in named
  IN  /\ at \in {"reading", "draining", "waiting", "joining", "fetching"} /\ turn > 1
           => continues(resumed)
      /\ at = "over" /\ turn > Turns => continues(session)

Requests(a) ==
  CASE a = "codex" -> {"command_execution"}
    [] a = "copilot" -> {"toolRequests"}
    [] a \in {"opencode"} -> {"none", "output"}
    [] OTHER -> {"tool_use", "started", "toolRequest", "functionCall"}

Responses == {"tool_result", "completed", "toolResponse"}

(* Every result hangs at the call that it answers, every answer to a call  *)
(* that was made is there, and copilot's calls, announced and started, are *)
(* each in the list once; a reply's time to first token is that of the     *)
(* line of this turn that began the reply, or of a cut line before it that *)
(* a search took for one (fetch_results, _execute_streaming).              *)
ResultsBelong ==
  LET calls == result.calls
      answered(id) == \E i, j \in DOMAIN raw :
        /\ i < j /\ raw[i].part \in Requests(adapter) /\ raw[i].id = id
        /\ raw[j].part \in Responses /\ raw[j].id = id
  IN  result # None /\ ~unread =>
        /\ \A c \in ToSet(calls) : c.result \in {NoId, c.id}
        /\ \A id \in CallIds : answered(id) => \E c \in ToSet(calls) : c.id = id /\ c.result = id
        /\ result.reply /\ Streaming[adapter].first # {} =>
             \/ /\ ttft \in DOMAIN raw
                /\ First(raw[ttft]) \/ (Streaming[adapter].search /\ raw[ttft].type = "junk")
                /\ \A i \in 1..(ttft - 1) : ~First(raw[i])
             \/ adapter = "codex" /\ ttft = 0
        /\ adapter = "copilot" =>
             \A id \in CallIds : Cardinality({i \in DOMAIN calls : calls[i].id = id}) <= 1

(* The line with the CLI's own last word on the turn.                      *)
LastWord(ls) ==
  SelectLastInSeq(ls, LAMBDA l : l.type \in {"turn.failed", "error"} \/
                                 (l.type = "result" /\ (l.bad # "none" \/ l.label # None)))

(* A failure that the CLI reports, and of the adapters that look for them  *)
(* a failure pattern in a turn without a reply, makes has_error true.  And *)
(* has_error has no type exactly when it is not the adapter's word, but    *)
(* that of run_scenario_turns on a fetch_results that raised, which it     *)
(* counts among the agent's errors as unknown.                             *)
FailuresAreTyped ==
  result # None =>
    LET w == LastWord(raw)
    IN  /\ result.bad = "true" /\ result.type \notin ErrorTypes <=> unread
        /\ ~unread /\ w # 0 /\ (raw[w].bad = "true" \/ raw[w].label # None \/ raw[w].type = "turn.failed")
             => result.bad = "true"
        /\ ~unread /\ adapter \notin {"claude", "copilot", "cursor"} /\ ~result.reply
             /\ ClassifyError(RawMarks(raw)) # None /\ w = 0 => result.bad = "true"

(* A child runs on while nobody waits for it only if its turn's reading    *)
(* loop raised, or a Ctrl-C came in the loop or in the wait: one that runs *)
(* into the time limit is killed, and any other has been waited for when   *)
(* the results of its turn are fetched (_execute_streaming).               *)
ChildrenAreOver ==
  at \in {"joining", "fetching", "over"} /\ child = "up" => turn \in cutOff

(* If the CLI writes what it has to write and then ends, the turn is over: *)
(* the pipes are emptied while it runs, so that no full one keeps it.      *)
(* Unless, that is, a process that the CLI started holds its stdout open   *)
(* for ever, on which the reading loop waits without a time limit.         *)
TurnEnds ==
  []<>~(child = "gone" /\ outOpen) => (at = "reading" ~> at \in {"ready", "over"})

=============================================================================
