------------------------------- MODULE Grading -------------------------------
(***************************************************************************)
(* The rule-based scorer (src/belt/scorer/rules): what a turn's output is  *)
(* checked for, given the turn's expectations.                             *)
(*                                                                         *)
(* A text is the set of the words that can be found in it, letter case     *)
(* aside.  An output is                                                    *)
(*   [calls, sequence, raw, reply, hasReply, error, errorType, llmTurns,   *)
(*    cost, timing, thinking, files, modified, diff]                       *)
(* with calls a sequence of [name, args, result]: args maps an argument to *)
(* its text, result is None or a tree of texts flattened to a sequence     *)
(* (_iter_result_strings).  None stands for what the agent did not report. *)
(***************************************************************************)
EXTENDS Naturals, Sequences, FiniteSets, SequencesExt, PyNone

(* TurnOutput(raw_cli=""): what a turn without an output is given.         *)
NoOutput ==
  [calls |-> <<>>, sequence |-> <<>>, raw |-> {}, reply |-> {}, hasReply |-> FALSE, error |-> None,
   errorType |-> None, llmTurns |-> None, cost |-> None, timing |-> None, thinking |-> FALSE,
   files |-> [p \in {} |-> None], modified |-> {}, diff |-> {}]

(* TurnExpectation and StateExpectation as they are without a key.         *)
DefaultExpect ==
  [no_errors |-> TRUE, not_contains |-> {}, error_type_is |-> None,
   tools_invoked |-> {}, tools_invoked_any |-> {}, tools_invoked_in_order |-> <<>>,
   only_used_tools |-> {}, forbidden_tools |-> {}, tool_args_contain |-> {},
   tool_result_contains |-> {}, skills_invoked |-> {}, has_thinking |-> None,
   has_reply |-> TRUE, contains |-> {}, reply_pattern |-> {},
   max_llm_turns |-> None, max_tool_calls |-> None, max_cost_usd |-> None, max_seconds |-> {},
   files_modified_any |-> {}, files_modified_exact |-> {}, files_not_modified |-> {},
   git_diff_contains |-> {}, files_exist |-> {}, files_contain |-> {}, files_not_exist |-> {}]

ErrorPatterns == {"error"}

Check(dim, name, passed) == [dim |-> dim, check |-> name, passed |-> passed]

-----------------------------------------------------------------------------
(* helpers.py                                                              *)

(* Mutant: an item may match where an earlier one did.                     *)
IsSubsequenceBag(needle, haystack) == ToSet(needle) \subseteq ToSet(haystack)

(* Each item is looked for behind the place where the one before it was    *)
(* found, the first time it occurs there.                                  *)
After(haystack, at, item) ==
  LET found == {i \in 1..Len(haystack) : i > at /\ haystack[i] = item}
  IN  IF found = {} THEN Len(haystack) + 1 ELSE CHOOSE i \in found : \A j \in found : i <= j

IsSubsequence(needle, haystack) ==
  LET at[k \in 0..Len(needle)] == IF k = 0 THEN 0 ELSE After(haystack, at[k - 1], needle[k])
  IN  at[Len(needle)] <= Len(haystack)

CallsOf(o, name) == {c \in ToSet(o.calls) : c.name = name}
ToolNames(o) == {c.name : c \in ToSet(o.calls)}
ToolNameInCli(tool, o) == tool \in o.raw

ArgsMatch(args, expected) ==
  \A k \in DOMAIN expected : k \in DOMAIN args /\ expected[k] \subseteq args[k]

ResultContains(call, word) == call.result # None /\ \E i \in DOMAIN call.result : word \in call.result[i]

(* The Skill tool, with or without the plugin's prefix; the skill's path   *)
(* in an argument of any tool, or in the output.                           *)
SkillInvoked(skill, o) ==
  \/ \E c \in CallsOf(o, "Skill") : "skill" \in DOMAIN c.args /\ <<"name", skill>> \in c.args["skill"]
  \/ \E c \in ToSet(o.calls) : \E k \in DOMAIN c.args : <<"path", skill>> \in c.args[k]
  \/ <<"path", skill>> \in o.raw

-----------------------------------------------------------------------------
(* The check categories.                                                   *)

CheckExecution(o, e) ==
  LET error == IF o.error # None THEN o.error = "yes" ELSE ErrorPatterns \intersect o.raw # {}
  IN  {Check("execution", <<"no_errors">>, ~error) : x \in {y \in {e.no_errors} : y}}
      \union {Check("execution", <<"not_contains", w>>, w \notin o.raw) : w \in e.not_contains}
      \union {Check("execution", <<"error_type_is">>, o.errorType = t) : t \in {e.error_type_is} \ {None}}

(* Of the calls of one tool one must match; without a call the check fails.*)
CheckCalls(o, e) ==
  {Check("trajectory", <<"tool_args_contain", x.tool>>,
         \E c \in CallsOf(o, x.tool) : ArgsMatch(c.args, x.args)) : x \in e.tool_args_contain}
  \union
  {Check("trajectory", <<"tool_result_contains", x.tool>>,
         \E c \in CallsOf(o, x.tool) : ResultContains(c, x.word)) : x \in e.tool_result_contains}

CheckTrajectory(o, e) ==
  LET used(t) == t \in ToolNames(o) \/ ToolNameInCli(t, o)
      seq == IF o.sequence # <<>> THEN o.sequence ELSE [i \in DOMAIN o.calls |-> o.calls[i].name]
  IN  {Check("trajectory", <<"tool_invoked", t>>, used(t)) : t \in e.tools_invoked}
      \union {Check("trajectory", <<"tool_invoked_any", a>>, \E t \in a : used(t)) : a \in e.tools_invoked_any}
      \union {Check("trajectory", <<"tools_invoked_in_order">>, IsSubsequence(s, seq)) :
                s \in {e.tools_invoked_in_order} \ {<<>>}}
      \union {Check("trajectory", <<"only_used_tools">>, ToolNames(o) \subseteq s) :
                s \in {e.only_used_tools} \ {{}}}
      \union {Check("trajectory", <<"forbidden_tools">>, ToolNames(o) \intersect s = {}) :
                s \in {e.forbidden_tools} \ {{}}}
      \union CheckCalls(o, e)
      \union {Check("trajectory", <<"skill_invoked", s>>, SkillInvoked(s, o)) : s \in e.skills_invoked}
      \union {Check("trajectory", <<"has_thinking", w>>, (w = "yes") = o.thinking) : w \in {e.has_thinking} \ {None}}

(* A word may be in the output of the command, a pattern must be in the    *)
(* reply.                                                                  *)
CheckResponse(o, e) ==
  {Check("response", <<"has_reply">>, o.hasReply) : x \in {y \in {e.has_reply} : y}}
  \union {Check("response", <<"contains", w>>, w \in o.reply \union o.raw) : w \in e.contains}
  \union {Check("response", <<"reply_pattern", p>>, p \in o.reply) : p \in e.reply_pattern}

(* A count that was not reported is 0; a cost that was not reported fails. *)
CheckEfficiency(o, e) ==
  {Check("efficiency", <<"max_llm_turns">>, (IF o.llmTurns = None THEN 0 ELSE o.llmTurns) <= n) :
     n \in {e.max_llm_turns} \ {None}}
  \union {Check("efficiency", <<"max_tool_calls">>, Len(o.calls) <= n) : n \in {e.max_tool_calls} \ {None}}

(* Mutant: what was not reported cost nothing.                             *)
CheckCostLenient(o, e) ==
  {Check("cost", <<"max_cost_usd">>, o.cost = None \/ o.cost <= n) : n \in {e.max_cost_usd} \ {None}}

CheckCost(o, e) ==
  {Check("cost", <<"max_cost_usd">>, o.cost # None /\ o.cost <= n) : n \in {e.max_cost_usd} \ {None}}

(* ttfe, ttft, ttlt and total, each a dimension.                           *)
CheckPerformance(o, e) ==
  {Check(<<"performance", x.field>>, <<"max_seconds", x.field>>,
         /\ o.timing # None /\ o.timing[x.field] # None
         /\ o.timing[x.field] <= x.most) : x \in e.max_seconds}

CheckFileDiff(o, e) ==
  {Check("file_diff", <<"files_modified_any">>, s \intersect o.modified # {}) :
     s \in {e.files_modified_any} \ {{}}}
  \union {Check("file_diff", <<"files_modified_exact">>, s = o.modified) : s \in {e.files_modified_exact} \ {{}}}
  \union {Check("file_diff", <<"file_not_modified", p>>, p \notin o.modified) : p \in e.files_not_modified}
  \union {Check("file_diff", <<"git_diff_contains", w>>, w \in o.diff) : w \in e.git_diff_contains}

(* Files were captured after the turn; one that could not be read is None. *)
CheckState(o, e) ==
  LET there(p) == p \in DOMAIN o.files /\ o.files[p] # None
  IN  {Check("state", <<"file_exists", p>>, there(p)) : p \in e.files_exist}
      \union {Check("state", <<"file_contains", x.path>>, there(x.path) /\ x.word \in o.files[x.path]) :
                x \in e.files_contain}
      \union {Check("state", <<"file_not_exists", p>>, ~there(p)) : p \in e.files_not_exist}

CheckTurn(o, e) ==
  CheckExecution(o, e) \union CheckTrajectory(o, e) \union CheckResponse(o, e)
  \union CheckEfficiency(o, e) \union CheckPerformance(o, e) \union CheckCost(o, e)
  \union CheckFileDiff(o, e) \union CheckState(o, e)

(* RuleBasedScorer.score: turns behind the last output get none.           *)
ScoreRules(expects, outputs) ==
  LET checks == [i \in DOMAIN expects |->
                   CheckTurn(IF i \in DOMAIN outputs THEN outputs[i] ELSE NoOutput, expects[i])]
  IN  [checks |-> checks, passed |-> \A i \in DOMAIN checks : \A c \in checks[i] : c.passed]

-----------------------------------------------------------------------------
(* What the checks should mean, for the properties.                        *)

(* There are places for the items of the one sequence in the other, in     *)
(* order.                                                                  *)
Embeds(needle, haystack) ==
  \E at \in [DOMAIN needle -> DOMAIN haystack] :
    /\ \A i \in DOMAIN needle : haystack[at[i]] = needle[i]
    /\ \A i, j \in DOMAIN needle : i < j => at[i] < at[j]

(* Checks that forbid something, against those that say that it was done.  *)
Forbids(c) ==
  \/ c.check[1] \in {"no_errors", "not_contains", "only_used_tools", "forbidden_tools", "max_llm_turns",
                     "max_tool_calls", "file_not_modified", "file_not_exists"}
  \/ c.check = <<"has_thinking", "no">>
=============================================================================
