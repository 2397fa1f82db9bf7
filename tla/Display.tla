------------------------------- MODULE Display -------------------------------
(***************************************************************************)
(* What a reader of the turn streams is shown: how an event is rendered    *)
(* (StreamParser of src/belt/commands/watch.py, the adapters'              *)
(* parse_stream_event) and how the panels of the live view and the progress *)
(* counters are filled (src/belt/progress.py).  An event is a Line of      *)
(* Adapters with a `shape`: the schema of its tool result, the reason of a *)
(* finished step, or the role of a message.                                *)
(***************************************************************************)
EXTENDS Adapters, Lists, FiniteSets

(* Renderings: a kind of row, or "none".  "pass" is parse_stream_event's   *)
(* None, after which the generic rendering has its turn.                   *)

CopilotShown(e) ==
  CASE e.type = "tool.execution_start" -> "tool"
    [] e.type = "assistant.message" /\ e.part = "text" -> "text"
    [] OTHER -> "pass"

(* The payload of a completed call may say error, success or neither.      *)
CursorResultShown(shape) == IF shape = "error" THEN "fail" ELSE "done"

CursorShown(e, shape) ==
  CASE e.type # "tool_call" \/ shape = "unnamed" -> "pass"
    [] e.type = "tool_call" /\ shape # "unnamed" /\ e.part = "completed" -> CursorResultShown(shape)
    [] OTHER -> "tool"

GooseShown(e, shape) ==
  CASE e.type = "message" /\ e.part = "toolRequest" -> "tool"
    [] e.type = "message" /\ e.part = "toolResponse" -> "none"
    [] e.type = "message" /\ e.part = "text" /\ shape = "assistant" -> "text"
    [] e.type = "message" /\ e.part = "thinking" -> "thought"
    [] e.type = "message" /\ shape = "user" -> "none"
    [] e.type = "notification" -> IF e.part = "text" THEN "notice" ELSE "none"
    [] e.type = "model_change" -> "notice"
    [] e.type = "error" -> "fail"
    [] e.type = "complete" -> "done"
    [] OTHER -> "pass"

OpenCodeShown(e, shape) ==
  CASE e.type = "tool_use" -> "tool"
    [] e.type = "text" -> "text"
    [] e.type = "step_start" -> "none"
    [] e.type = "step_finish" -> IF shape = "stop" THEN "done" ELSE "none"
    [] e.type = "error" -> "fail"
    [] OTHER -> "pass"

AdapterShown(adapter, e, shape) ==
  CASE adapter = "copilot" -> CopilotShown(e)
    [] adapter = "cursor" -> CursorShown(e, shape)
    [] adapter = "goose" -> GooseShown(e, shape)
    [] adapter = "opencode" -> OpenCodeShown(e, shape)
    [] OTHER -> "pass"

-----------------------------------------------------------------------------
(* The generic rendering.                                                  *)

(* Mutant: only blocks of Claude's type are calls.                         *)
ContentBlockTools(part) ==
  CASE part = "text" -> "text" [] part = "thinking" -> "thought" [] part = "tool_use" -> "tool"
    [] OTHER -> "none"

ContentBlock(part) ==
  CASE part = "text" -> "text" [] part = "thinking" -> "thought"
    [] part \in {"tool_use", "functionCall"} -> "tool"
    [] OTHER -> "none"

GeminiMessage(part) == IF part = "thinking" THEN "none" ELSE ContentBlock(part)

(* Claude's three schemas of a tool's result: what a skill says is left    *)
(* out, a search names tools, and the rest shows counts, content or the    *)
(* text of the message's own block.                                        *)
ToolResult(shape) ==
  CASE shape \in {"absent", "commandName", "empty"} -> "none"
    [] shape = "matches" -> "search"
    [] OTHER -> "result"

GenericToolResult(e) == IF e.bad = "true" THEN "fail" ELSE "result"
ResultRow(e) == IF e.bad = "true" THEN "fail" ELSE "done"

GenericShown(e, shape) ==
  CASE e.type = "user_input" -> "user"
    [] e.type \in {"tool_use", "tool_call", "function_call"} -> "tool"
    [] e.type = "tool_result" -> GenericToolResult(e)
    [] e.type = "assistant" -> ContentBlock(e.part)
    [] e.type = "message" ->
         CASE shape = "model" -> GeminiMessage(e.part)
           [] shape \in {"assistant", "none"} -> ContentBlock(e.part)
           [] OTHER -> "none"
    [] e.type = "result" -> ResultRow(e)
    [] e.type = "user" -> ToolResult(shape)
    [] e.type = "system" -> IF shape = "init" THEN "notice" ELSE "none"
    [] OTHER -> "none"

(* parse_line and _render_event.  `agent` is the adapter that the reader   *)
(* resolved for the file, "" if it knows none; a rendering that `raises`   *)
(* in the adapter is followed by the generic one.                          *)
Shown(agent, e, shape, raises) ==
  LET own == IF agent = "" \/ raises THEN "pass" ELSE AdapterShown(agent, e, shape)
  IN  IF e.type = "junk" THEN "none"
      ELSE IF own = "pass" THEN GenericShown(e, shape) ELSE own

-----------------------------------------------------------------------------
(* Whose stream it is.  `watch` knows one adapter for the run directory,   *)
(* that of run_meta.json; the live view has one per group, looked up from  *)
(* the group's path upwards.                                               *)

(* A group's path is the sequence of its directories; `agents` maps the    *)
(* paths of the groups of this run.                                        *)
AgentForPath(path, agents, single) ==
  LET above == {n \in 0..Len(path) : SubSeq(path, 1, n) \in DOMAIN agents}
      n == CHOOSE i \in above : \A j \in above : j <= i
  IN  IF above = {} THEN single ELSE agents[SubSeq(path, 1, n)]

-----------------------------------------------------------------------------
(* The panels: per scenario its events, those at the indices in `pins`     *)
(* first and the last `most` of the others after a line with how many of   *)
(* them are not shown.                                                     *)

MaxPer(lines, scenarios) ==
  LET n == lines \div scenarios IN IF n > 3 THEN n ELSE 3

LastOf(events, most) ==
  IF Len(events) > most THEN SubSeq(events, Len(events) - most + 1, Len(events)) ELSE events

(* The events at these places.                                             *)
Picked(events, which) ==
  LET at == Kept([i \in DOMAIN events |-> i], which)
  IN  [k \in DOMAIN at |-> events[at[k]]]

(* Mutant: what is pinned is counted among the last ones.                  *)
StreamPanelUnpinned(events, pins, most) ==
  [pinned |-> Picked(events, pins),
   tail |-> LastOf(events, most),
   earlier |-> IF Len(events) > most THEN Len(events) - most ELSE 0]

StreamPanel(events, pins, most) ==
  LET others == Picked(events, DOMAIN events \ pins)
  IN  [pinned |-> Picked(events, pins),
       tail |-> LastOf(others, most),
       earlier |-> Len(others) - Len(LastOf(others, most))]

ScorerPanel(events, most) == StreamPanel(events, {}, most)

-----------------------------------------------------------------------------
(* The run's counters: scenario_done adds one to the total and to the      *)
(* scenario's group.  A group that was not announced has no counter.       *)

Announced(groups) == [completed |-> 0, groupCompleted |-> [g \in groups |-> 0]]

ScenarioDone(counters, group) ==
  [completed |-> counters.completed + 1,
   groupCompleted |-> [g \in DOMAIN counters.groupCompleted |->
                         counters.groupCompleted[g] + IF g = group THEN 1 ELSE 0]]

(* What they show after the scenarios of these groups, in this order.      *)
Progress(groups, done) ==
  LET counters[i \in 0..Len(done)] ==
        IF i = 0 THEN Announced(groups) ELSE ScenarioDone(counters[i - 1], done[i])
  IN  counters[Len(done)]

(* The headline after a run: a failure of the infrastructure, else one     *)
(* that an agent reported, else none; results of a failed group setup are  *)
(* counted with the first and listed by group.  A result is [error, agent, *)
(* group], error "none", "raised" or "setup".                              *)
Erred(results, e) == {i \in DOMAIN results : results[i].error = e}

SkippedGroups(results) ==
  {[group |-> results[i].group,
    skipped |-> Cardinality({j \in Erred(results, "setup") : results[j].group = results[i].group})]
   : i \in Erred(results, "setup")}

RunSummary(results) ==
  LET failed == Erred(results, "raised") \union Erred(results, "setup")
      agent == {i \in DOMAIN results : results[i].agent}
  IN  IF failed # {} THEN [head |-> "errors", count |-> Cardinality(failed),
                           listed |-> Erred(results, "raised"), groups |-> SkippedGroups(results)]
      ELSE IF agent # {} THEN [head |-> "agent", count |-> Cardinality(agent), listed |-> agent, groups |-> {}]
      ELSE [head |-> "ok", count |-> 0, listed |-> {}, groups |-> {}]
=============================================================================
