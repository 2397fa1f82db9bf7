------------------------------- MODULE MCChecks -------------------------------
(***************************************************************************)
(* The pure parts of belt for TLC.  A behaviour asks one question and gets *)
(* the answer that the code computes: how a CLI and its judges are made    *)
(* ready (MCStart), what a reader is shown, what the checks of a turn say, *)
(* which scenarios a command line selects (here), and what the scores of a *)
(* run and of two runs come to (MCNumbers).  The inputs are bounded by the *)
(* definitions named Some...                                               *)
(***************************************************************************)
EXTENDS MCStart, MCNumbers, Grading, Selection

D == INSTANCE Display WITH CallIds <- {"c1"}, Sessions <- {"s1"}, NoId <- "no id"

-----------------------------------------------------------------------------
(* Watching.                                                               *)

(* The roles, reasons and schemas that go with a type of event.            *)
SomeShapes(adapter, type) ==
  CASE type = "message" -> IF adapter = "gemini" THEN {"assistant", "model"} ELSE {"assistant"}
    [] type = "tool_call" /\ adapter = "cursor" -> {"named", "error", "ok"}
    [] OTHER -> {"none"}

SomeTypes ==
  [claude |-> {"assistant", "tool_use", "user", "result", "system"},
   codex |-> {"thread.started", "item.completed", "turn.completed", "turn.failed"},
   copilot |-> {"assistant.turn_start", "assistant.message", "tool.execution_start", "tool_use",
                "function_call", "assistant", "result"},
   cursor |-> {"assistant", "tool_use", "tool_call", "result"},
   gemini |-> {"init", "message", "tool_call", "result"},
   goose |-> {"message", "notification", "error", "complete"},
   opencode |-> {"step_start", "text", "tool_use", "step_finish", "error"}]

(* A message of gemini's that calls a function, and the others' blocks.    *)
SomeParts == {"none", "text", "thinking", "tool_use", "toolRequest", "toolRequests",
              "functionCall", "completed", "started", "agent_message", "command_execution"}

AskShown ==
  /\ asked = About("shown")
  /\ \E a \in DOMAIN SomeTypes : \E type \in SomeTypes[a], part \in SomeParts, bad \in {"none", "true", "false"} :
       \E shape \in SomeShapes(a, type), label \in {None, "vendor"} :
         LET e == [D!Line(type) EXCEPT !.part = part, !.bad = bad, !.label = label, !.id = "c1"]
         IN  /\ asked' = [family |-> "shown", adapter |-> a, event |-> e, shape |-> shape]
             /\ answer' = [row |-> D!Shown(a, e, shape, FALSE), turn |-> D!Event(a, D!Fresh, e)]

SomePanels == SeqsUpTo({"user", "other"}, 7)

AskPanel ==
  /\ asked = About("panel")
  /\ \E kinds \in SomePanels, lines \in {0, 9, 15}, scenarios \in {1, 3} :
       LET events == [i \in DOMAIN kinds |-> <<i, kinds[i]>>]
           most == D!MaxPer(lines, scenarios)
       IN  /\ asked' = [family |-> "panel", events |-> events, most |-> most]
           /\ answer' = [run |-> D!StreamPanel(events, {i \in DOMAIN kinds : kinds[i] = "user"}, most),
                         score |-> D!ScorerPanel(events, most)]

(* The live view of a run over nested groups, some of them not announced.  *)
SomePaths == {<<>>, <<"a">>, <<"a", "b">>, <<"a", "b", "c">>}

AskProgress ==
  /\ asked = About("progress")
  /\ \E groups \in SUBSET SomePaths, done \in SeqsUpTo(SomePaths, 3), path \in SomePaths :
       /\ asked' = [family |-> "progress", groups |-> groups, done |-> done, path |-> path]
       /\ answer' = [counters |-> D!Progress(groups, done),
                     agent |-> D!AgentForPath(path, [g \in groups |-> Append(g, "agent")], <<"single">>)]

SomeResults ==
  SeqsUpTo([error : {"none", "raised", "setup"}, agent : BOOLEAN, group : {"g", "h"}], 3)

AskSummary ==
  /\ asked = About("summary")
  /\ \E results \in {r \in SomeResults : \A i \in DOMAIN r : r[i].error # "none" => ~r[i].agent} :
       /\ asked' = [family |-> "summary", results |-> results]
       /\ answer' = D!RunSummary(results)

(* What a turn counts and a reader is not shown: all of codex, of whose    *)
(* event types the generic rendering knows none, and a call that copilot   *)
(* announces in a message, before it starts.                               *)
Unseen(adapter, e) ==
  adapter = "codex" \/ (adapter = "copilot" /\ e.type = "assistant.message" /\ e.part = "toolRequests")

(* The text that cursor repeats in its result shows as the result, and     *)
(* copilot's failure of which a label alone tells as a success.            *)
EventShown ==
  asked.family = "shown" =>
    LET e == asked.event
        told(row) == answer.row = IF Unseen(asked.adapter, e) THEN "none" ELSE row
    IN  /\ answer.turn.calls # <<>> => told("tool")
        /\ answer.turn.spoke =>
             told(IF asked.adapter = "cursor" /\ e.type = "result" THEN D!ResultRow(e) ELSE "text")
        /\ answer.turn.bad = "true" => told(IF e.bad = "true" \/ e.type = "error" THEN "fail" ELSE "done")

PanelComplete ==
  asked.family = "panel" =>
    LET of(k) == Kept(asked.events, {e \in ToSet(asked.events) : e[2] = k})
        run == answer.run
    IN  /\ run.pinned = of("user") /\ answer.score.pinned = <<>>
        /\ IsSuffix(run.tail, of("other")) /\ IsSuffix(answer.score.tail, asked.events)
        /\ Len(run.tail) = Min({Len(of("other")), asked.most})
        /\ Len(run.pinned) + Len(run.tail) + run.earlier = Len(asked.events)
        /\ Len(answer.score.tail) + answer.score.earlier = Len(asked.events)
        /\ Len(run.tail) < 3 => run.earlier = 0

(* The agent of the nearest group above; every scenario counted once, in   *)
(* its own group.                                                          *)
ProgressRight ==
  asked.family = "progress" =>
    LET above == {g \in asked.groups : IsPrefix(g, asked.path)}
        shown == answer.counters
    IN  /\ shown.completed = Len(asked.done) /\ DOMAIN shown.groupCompleted = asked.groups
        /\ \A g \in asked.groups :
             shown.groupCompleted[g] = Cardinality({i \in DOMAIN asked.done : asked.done[i] = g})
        /\ \A g \in above : IsPrefix(g, Front(answer.agent))
        /\ above = {} <=> answer.agent = <<"single">>

SummaryHonest ==
  asked.family = "summary" =>
    LET bad == {i \in DOMAIN asked.results : asked.results[i].error # "none"}
        agent == {i \in DOMAIN asked.results : asked.results[i].agent}
        skipped == {g.group : g \in answer.groups}
    IN  /\ answer.head = "ok" <=> bad \union agent = {}
        /\ bad # {} => /\ answer.count = Cardinality(bad)
                       /\ \A i \in bad : i \in answer.listed \/ asked.results[i].group \in skipped

(* What the fold of a turn's events records, a call, a reply or a failure, *)
(* a reader of the stream is shown as such, of every adapter but codex: of *)
(* that one a reader is shown nothing of it, where a table of the docs has *)
(* generic live progress.  Two of copilot's events are shown otherwise: an *)
(* announced call not before it starts, a failure that has a label and no  *)
(* flag as a success (parse_line, fetch_results).  The live panel keeps    *)
(* every message of the user and accounts for every event, its counters    *)
(* for every scenario, and a stream goes with the right agent; the summary *)
(* of a run is good only if no scenario failed and names what failed.      *)
DisplayShowsWhatCounts == EventShown /\ PanelComplete /\ ProgressRight /\ SummaryHonest

-----------------------------------------------------------------------------
(* Grading a turn.                                                         *)

SomeTools == {"Read", "Edit"}
CallOf(t) == [name |-> t, args |-> [a \in {"path"} |-> {"x"}], result |-> <<{"w"}>>]
SomeOutputs ==
  {[NoOutput EXCEPT !.calls = [i \in DOMAIN ts |-> CallOf(ts[i])], !.raw = raw, !.reply = reply,
                      !.hasReply = reply # {}, !.cost = cost, !.error = error] :
     ts \in SeqsUpTo(SomeTools, 3), raw \in {{}, {"error", "Read"}}, reply \in {{}, {"w"}},
     cost \in {None, 2}, error \in {None, "no", "yes"}}

(* One key of an expectation each, of those that the output may violate.   *)
SomeExpects ==
  LET e == [DefaultExpect EXCEPT !.no_errors = FALSE, !.has_reply = FALSE]
  IN  {e, [e EXCEPT !.no_errors = TRUE], [e EXCEPT !.has_reply = TRUE],
       [e EXCEPT !.tools_invoked = {"Read", "Edit"}], [e EXCEPT !.tools_invoked_any = {{"Read", "Bash"}}],
       [e EXCEPT !.only_used_tools = {"Read"}], [e EXCEPT !.forbidden_tools = {"Edit"}],
       [e EXCEPT !.tool_args_contain = {[tool |-> "Read", args |-> [a \in {"path"} |-> {"x"}]]}],
       [e EXCEPT !.tool_result_contains = {[tool |-> "Edit", word |-> "w"]}],
       [e EXCEPT !.contains = {"w"}], [e EXCEPT !.reply_pattern = {"w"}],
       [e EXCEPT !.has_thinking = "yes"], [e EXCEPT !.has_thinking = "no"],
       [e EXCEPT !.max_tool_calls = 1], [e EXCEPT !.max_cost_usd = 1], [e EXCEPT !.max_cost_usd = 2],
       [e EXCEPT !.max_seconds = {[field |-> "total", most |-> 1]}],
       [e EXCEPT !.files_modified_any = {"f"}], [e EXCEPT !.files_not_modified = {"f"}],
       [e EXCEPT !.files_exist = {"f"}], [e EXCEPT !.files_not_exist = {"f"}]}
      \union {[e EXCEPT !.tools_invoked_in_order = s] : s \in SeqsUpTo(SomeTools, 3) \ {<<>>}}

(* The turns' outputs may end before the scenario's turns do.              *)
AskGrade ==
  /\ asked = About("grade")
  /\ \E e \in SomeExpects, o \in SomeOutputs, t \in SomeTools, n \in 0..1 :
       LET more == [o EXCEPT !.calls = Append(@, CallOf(t))]
           outputs(x) == IF n = 0 THEN <<>> ELSE <<x>>
       IN  /\ n = 0 => t = "Read" /\ o = NoOutput
           /\ asked' = [family |-> "grade", expect |-> e, output |-> o, lost |-> n = 0]
           /\ answer' = [now |-> ScoreRules(<<e>>, outputs(o)), more |-> ScoreRules(<<e>>, outputs(more))]

(* The tools of an ordered expectation are found in this order, each at a  *)
(* place of its own; a turn without an output passes nothing but what      *)
(* forbids; one more call of a tool never spoils what was to be done and   *)
(* never mends what was not to be done; nothing is within a cost budget    *)
(* without a cost; and a scenario passes only if every check does.         *)
GradesMeanWhatTheySay ==
  asked.family = "grade" =>
    LET e == asked.expect
        o == asked.output
        now == answer.now.checks[1]
        more == answer.more.checks[1]
    IN  /\ ~asked.lost /\ o.sequence = <<>> =>
             \A c \in now : c.check = <<"tools_invoked_in_order">> =>
               (c.passed <=> Embeds(e.tools_invoked_in_order, [i \in DOMAIN o.calls |-> o.calls[i].name]))
        /\ asked.lost => \A c \in now : c.passed => Forbids(c)
        /\ \A c \in now : \E d \in more :
             d.check = c.check /\ IF Forbids(c) THEN d.passed => c.passed ELSE c.passed => d.passed
        /\ \A c \in now : c.check = <<"max_cost_usd">> /\ c.passed => ~asked.lost /\ o.cost # None
        /\ answer.now.passed <=> \A c \in now : c.passed

-----------------------------------------------------------------------------
(* Selecting scenarios.                                                    *)

SomeDirs == {<<>>, <<"a">>, <<"a", "b">>, <<"c">>}
File(n, tags, keys, values) ==
  [name |-> n, tags |-> tags, keys |-> keys, values |-> values, asset |-> FALSE]
Config(keys, values) == [tags |-> {"group"}, agent |-> "claude", keys |-> keys, values |-> values]

(* What may be wrong with a scenario, or only odd: typos at three depths, a *)
(* plugin's key, a judge's override, a bad value.                          *)
SomeOddFiles ==
  {File("s", {"slow"}, {}, {}),
   File("s", {}, {<<"turns", "expect", "tools_invoke">>}, {}),
   File("s", {}, {<<"turns", "expect", "max_handoffs">>}, {}),
   File("s", {}, {<<"turns", "mesage">>}, {}),
   File("s", {}, {<<"turns", "llm_judges", "llm">>, <<"turns", "llm_judges", "llm", "skip">>}, {}),
   File("s", {}, {<<"turns", "llm_judges", "skip">>, <<"turns", "llm_judges", "skip", "skpi">>}, {}),
   File("s", {}, {}, {<<"reply_pattern", "bad regex">>})}
SomeOddConfigs ==
  {Config({}, {}), Config({<<"agnet">>}, {}), Config({<<"sandbox", "provider">>, <<"sandbox", "imgae">>}, {}),
   Config({}, {<<"env_passthrough", "wildcard">>})}

(* The odd file and the odd configuration are those of one group.          *)
SuiteOf(groups, odd, file, config) ==
  [name |-> "root", dirs |-> SomeDirs, groups |-> groups,
   config |-> [g \in groups |-> IF g = odd THEN config ELSE Config({}, {})],
   files |-> [g \in groups |->
     {File("t", {"slow"}, {}, {}), [File("x", {}, {}, {}) EXCEPT !.asset = TRUE],
      IF g = odd THEN file ELSE File("s", {}, {}, {})}]]

SomeFilters ==
  Small({<<"a">>, <<"a", "b">>, <<"a", "s">>, <<"a", "b", "s">>, <<"s">>, <<"root", "s">>, <<"c", "typo">>}, 2)
SomePlugins == {<<"TurnExpectation", "max_handoffs">>, <<"GroupConfig", "tags">>}

SomeSuites ==
  UNION {{SuiteOf(gs, odd, file, Config({}, {})) : odd \in gs, file \in SomeOddFiles}
         \union {SuiteOf(gs, odd, File("s", {"slow"}, {}, {}), config) : odd \in gs, config \in SomeOddConfigs} :
         gs \in SUBSET SomeDirs \ {{}}}

AskSelect ==
  /\ asked.family = "suite"
  /\ \E filter \in SomeFilters, tags \in {{}, {"slow", "group"}}, strict \in {"no", "files", "config"} :
       LET opts == [tags |-> tags, scenarios |-> filter, strict |-> strict = "files",
                    strictConfig |-> strict = "config", agent |-> None]
       IN  /\ asked' = [family |-> "select", suite |-> asked.suite, opts |-> opts]
           /\ answer' = ParseAndFilter(asked.suite, opts, SomePlugins)

(* What is selected is what was asked for, see there.                      *)
SelectionIsWhatWasAsked ==
  asked.family = "select" => SelectedAsAsked(asked.suite, asked.opts, SomePlugins, answer)

-----------------------------------------------------------------------------
Topics == {"flags", "command", "spawn", "binary", "judges", "token", "groups", "shown", "panel", "progress", "summary",
           "grade", "statistics", "costs", "compare"}

(* A suite is read before the command line is.                             *)
ChecksInit ==
  /\ asked \in {About(topic) : topic \in Topics} \union {[family |-> "suite", suite |-> u] : u \in SomeSuites}
  /\ answer = None

ChecksNext == AskFlags \/ AskCommand \/ AskSpawn \/ AskBinary \/ AskJudges \/ AskToken \/ AskGroups \/ AskShown \/ AskPanel
              \/ AskProgress \/ AskSummary \/ AskGrade \/ AskStatistics \/ AskCosts \/ AskCompare \/ AskSelect
=============================================================================
