------------------------------ MODULE Adapters ------------------------------
(***************************************************************************)
(* What the agent adapters (src/belt/agent) make of what a CLI printed:    *)
(* the events of its stream folded into a TurnOutput, one step per event,  *)
(* and the verdict on the turn.  A printed line is a record; its text is   *)
(* the set of the failure patterns it contains, and a message has at most  *)
(* one content block.                                                      *)
(***************************************************************************)
EXTENDS Naturals, Sequences, SequencesExt

CONSTANTS
  CallIds,    (* ids a CLI gives to tool calls                             *)
  Sessions,   (* ids a CLI gives to its sessions                           *)
  NoId,       (* a missing or empty id                                     *)
  None        (* Python's None                                             *)

(* ERROR_TYPES, in the order in which classify_error looks for their       *)
(* patterns; UNKNOWN has none.                                             *)
Patterns == <<"model", "auth", "rate", "timeout", "refused">>
ErrorTypes == ToSet(Patterns) \union {"unknown"}

(* A vendor's own label is not among the ErrorTypes and matches nothing.   *)
Labels == ErrorTypes \union {"vendor"}

ASSUME AdaptersAssumption == NoId \notin CallIds /\ None \notin Sessions \union Labels

(* The event's type, the block or item it carries, its call or session id, *)
(* whether its status says failure, its error label, the patterns in its   *)
(* text and its size.  "junk" is a line that parse_ndjson skips.           *)
Line(t) == [type |-> t, part |-> "none", id |-> NoId, sess |-> None, bad |-> "none",
            label |-> None, marks |-> {}, size |-> 1]

ClassifyError(marks) ==
  LET p == SelectInSeq(Patterns, LAMBDA x : x \in marks)
  IN  IF p = 0 THEN None ELSE Patterns[p]

(* A vendor label is scanned for patterns as well and has none.            *)
NormalizeErrorType(label, texts) ==
  IF label \in ErrorTypes THEN label
  ELSE LET hit == SelectInSeq(texts, LAMBDA x : ClassifyError(x) # None)
       IN  IF hit = 0 THEN None ELSE ClassifyError(texts[hit])

OrUnknown(t) == IF t = None THEN "unknown" ELSE t

(* parse_ndjson: whether a line is an event.                               *)
ParseNdjson(l) == l.type # "junk"

(* `raw_output.lower()`: what is looked for in all that was printed.       *)
RawMarks(lines) == UNION {l.marks : l \in ToSet(lines)}

-----------------------------------------------------------------------------
(* The accumulators of fetch_results.                                      *)

Fresh == [spoke |-> FALSE, reply |-> {}, calls |-> <<>>, session |-> None,
          bad |-> "none", label |-> None, why |-> {}, count |-> 0]

Speak(a, e) == [a EXCEPT !.spoke = TRUE, !.reply = @ \union e.marks]
Call(id) == [id |-> id, result |-> NoId]
Called(a, id) == [a EXCEPT !.calls = Append(@, Call(id))]
Counted(a) == [a EXCEPT !.count = @ + 1]

(* The position of the first and of the last call with an id; 0: none.     *)
FirstCall(calls, id) == SelectInSeq(calls, LAMBDA c : c.id = id)
LastCall(calls, id) == SelectLastInSeq(calls, LAMBDA c : c.id = id)

(* Mutant: a result is given to the call made last, whatever its id.       *)
AnswerNewest(calls, i, id) ==
  IF calls = <<>> THEN calls ELSE [calls EXCEPT ![Len(calls)].result = id]

Answer(calls, i, id) == IF i = 0 THEN calls ELSE [calls EXCEPT ![i].result = id]

ClaudeEvent(a, e) ==
  CASE e.type = "assistant" ->
         LET b == Counted(a)
         IN  CASE e.part = "text" -> Speak(b, e)
               [] e.part = "tool_use" -> Called(b, e.id)
               [] OTHER -> b
    [] e.type = "tool_use" -> Called(a, e.id)
    [] e.type = "user" /\ e.part = "tool_result" ->
         [a EXCEPT !.calls = Answer(@, IF e.id = NoId THEN 0 ELSE LastCall(@, e.id), e.id)]
    [] e.type = "result" ->
         [a EXCEPT !.session = e.sess, !.bad = IF e.bad = "none" THEN "false" ELSE e.bad,
                   !.label = IF e.label = None THEN @ ELSE e.label]
    [] OTHER -> a

CodexEvent(a, e) ==
  CASE e.type = "thread.started" -> IF e.sess = None THEN a ELSE [a EXCEPT !.session = e.sess]
    [] e.type = "item.completed" /\ e.part = "agent_message" -> Counted(Speak(a, e))
    [] e.type = "item.completed" /\ e.part = "command_execution" -> Called(a, e.id)
    [] e.type = "turn.failed" -> [a EXCEPT !.bad = "true", !.why = e.marks]
    [] OTHER -> a

(* Mutant: the announcement and the start of one call count twice.         *)
CopilotCallTwice(a, id) == Called(a, id)

(* A call is announced in the message, when it starts, or both.            *)
CopilotCall(a, id) ==
  [a EXCEPT !.calls = IF id # NoId /\ FirstCall(@, id) # 0 THEN @ ELSE Append(@, Call(id))]

CopilotEvent(a, e) ==
  CASE e.type = "assistant.turn_start" -> Counted(a)
    [] e.type = "assistant.message" ->
         IF e.part = "text" THEN Speak(a, e)
         ELSE IF e.part = "toolRequests" THEN CopilotCall(a, e.id) ELSE a
    [] e.type \in {"tool.execution_start", "tool_use", "function_call"} -> CopilotCall(a, e.id)
    [] e.type = "result" ->
         [a EXCEPT !.session = IF e.sess = None THEN @ ELSE e.sess,
                   !.bad = IF e.label # None THEN "true" ELSE IF e.bad = "none" THEN @ ELSE e.bad,
                   !.label = IF e.label = None THEN @ ELSE e.label]
    [] e.type = "assistant" ->
         LET b == Counted(a)
         IN  CASE e.part = "text" -> Speak(b, e)
               [] e.part = "tool_use" -> CopilotCall(b, e.id)
               [] OTHER -> b
    [] OTHER -> a

CursorToolCall(a, e) ==
  IF e.part = "completed" THEN [a EXCEPT !.calls = Answer(@, FirstCall(@, e.id), e.id)] ELSE Called(a, e.id)

CursorEvent(a, e) ==
  CASE e.type = "assistant" ->
         CASE e.part = "text" -> Speak(a, e)
           [] e.part = "tool_use" -> Called(a, e.id)
           [] OTHER -> a
    [] e.type = "tool_use" -> Called(a, e.id)
    [] e.type = "tool_call" -> CursorToolCall(a, e)
    [] e.type = "result" ->
         LET b == [a EXCEPT !.session = e.sess, !.bad = IF e.bad = "none" THEN "false" ELSE e.bad]
         IN  IF e.part = "text" /\ ~a.spoke THEN Speak(b, e) ELSE b
    [] OTHER -> a

GooseEvent(a, e) ==
  CASE e.type = "message" ->
         LET b == Counted(a)
         IN  CASE e.part = "text" -> Speak(b, e)
               [] e.part = "toolRequest" -> Called(b, e.id)
               [] e.part = "toolResponse" -> [b EXCEPT !.calls = Answer(@, FirstCall(@, e.id), e.id)]
               [] OTHER -> b
    [] e.type = "error" -> [a EXCEPT !.bad = "true", !.label = IF e.label = None THEN "unknown" ELSE e.label]
    [] OTHER -> a

OpenCodeEvent(a, e) ==
  CASE e.type = "step_start" -> [a EXCEPT !.session = IF @ = None THEN e.sess ELSE @]
    [] e.type = "text" -> Speak(a, e)
    [] e.type = "tool_use" ->
         LET b == Called(a, e.id)
         IN  IF e.part = "output" THEN [b EXCEPT !.calls = Answer(@, Len(@), e.id)] ELSE b
    [] e.type = "step_finish" -> Counted(a)
    [] e.type = "error" -> [a EXCEPT !.bad = "true", !.label = e.label]
    [] OTHER -> a

GeminiEvent(a, e) ==
  CASE e.type = "init" -> [a EXCEPT !.session = e.sess]
    [] e.type = "message" ->
         CASE e.part = "text" -> Speak(a, e)
           [] e.part = "functionCall" -> Called(a, e.id)
           [] OTHER -> a
    [] e.type = "tool_call" -> Called(a, e.id)
    [] e.type = "result" /\ e.bad = "true" -> [a EXCEPT !.bad = "true", !.label = e.label]
    [] e.type = "result" /\ e.bad = "false" -> [a EXCEPT !.bad = "false"]
    [] OTHER -> a

-----------------------------------------------------------------------------
(* has_error and error_type, from the accumulators, whether there is a     *)
(* reply, and all that was printed.                                        *)

(* Mutant: the vendor's label is passed on as it is.                       *)
TypedByVendor(bad, label, reply, raw) ==
  [bad |-> bad, type |-> IF bad = "true" /\ label = None THEN OrUnknown(ClassifyError(raw)) ELSE label]

Typed(bad, label, reply, raw) ==
  [bad |-> bad,
   type |-> IF bad = "true" THEN OrUnknown(NormalizeErrorType(label, <<reply, raw>>)) ELSE label]

(* claude: without a result event, the word "error" anywhere decides.      *)
ClaudeVerdict(a, raw) ==
  Typed(IF a.bad # "none" THEN a.bad ELSE IF "error" \in raw THEN "true" ELSE "false",
        a.label, a.reply, raw)

CopilotVerdict(a, raw) ==
  Typed(IF a.bad # "none" THEN a.bad
        ELSE IF ~a.spoke /\ "error" \in raw THEN "true" ELSE "false",
        a.label, a.reply, raw)

CursorVerdict(a, raw) ==
  Typed(IF a.bad # "none" THEN a.bad
        ELSE IF "error" \in raw /\ ~a.spoke THEN "true" ELSE "false",
        None, a.reply, raw)

CodexVerdict(a, raw) ==
  CASE a.bad = "true" -> Typed("true", None, a.why, raw)
    [] a.bad # "true" /\ a.spoke -> [bad |-> "false", type |-> None]
    [] OTHER -> [bad |-> IF ClassifyError(raw) = None THEN "false" ELSE "true",
                 type |-> ClassifyError(raw)]

(* goose, opencode and gemini: no event, no reply and no pattern is None.  *)
ProbingVerdict(a, raw) ==
  LET found == ClassifyError(raw)
  IN  CASE a.bad # "none" -> Typed(a.bad, a.label, a.reply, raw)
        [] a.bad = "none" /\ a.spoke -> [bad |-> "false", type |-> a.label]
        [] OTHER -> Typed(IF found = None THEN "none" ELSE "true",
                          IF a.label = None THEN found ELSE a.label, a.reply, raw)

-----------------------------------------------------------------------------
(* The seven adapters: the fold, the verdict, and the session that a turn  *)
(* leaves: the one that it named, codex the first ever named, goose the    *)
(* name belt chose.                                                        *)

Adapters == {"claude", "codex", "copilot", "cursor", "goose", "opencode", "gemini"}

Event(adapter, a, e) ==
  CASE adapter = "claude" -> ClaudeEvent(a, e)
    [] adapter = "codex" -> CodexEvent(a, e)
    [] adapter = "copilot" -> CopilotEvent(a, e)
    [] adapter = "cursor" -> CursorEvent(a, e)
    [] adapter = "goose" -> GooseEvent(a, e)
    [] adapter = "opencode" -> OpenCodeEvent(a, e)
    [] adapter = "gemini" -> GeminiEvent(a, e)

Verdict(adapter, a, raw) ==
  CASE adapter = "claude" -> ClaudeVerdict(a, raw)
    [] adapter = "codex" -> CodexVerdict(a, raw)
    [] adapter = "copilot" -> CopilotVerdict(a, raw)
    [] adapter = "cursor" -> CursorVerdict(a, raw)
    [] OTHER -> ProbingVerdict(a, raw)

(* The accumulators after the events among the lines.                      *)
Folded(adapter, lines) ==
  LET acc[i \in 0..Len(lines)] ==
        IF i = 0 THEN Fresh
        ELSE IF ParseNdjson(lines[i]) THEN Event(adapter, acc[i - 1], lines[i]) ELSE acc[i - 1]
  IN  acc[Len(lines)]

(* fetch_results, from the accumulators, what to look for in all that was  *)
(* printed, and whether codex left a reply in its --output-last-message    *)
(* file (the other adapters have none).                                    *)
FetchResults(adapter, a, marks, replyFile) ==
  LET b == IF replyFile THEN [a EXCEPT !.spoke = TRUE] ELSE a
      v == Verdict(adapter, b, marks)
  IN  [reply |-> b.spoke, calls |-> a.calls, session |-> a.session, bad |-> v.bad,
       type |-> v.type, count |-> a.count]

(* Mutant: a turn that names no session forgets the one there was.         *)
NextSessionNamed(adapter, session, named) ==
  CASE adapter = "codex" -> IF session = None THEN named ELSE session
    [] adapter = "goose" -> session
    [] OTHER -> named

NextSession(adapter, session, named) ==
  CASE adapter = "codex" -> IF session = None THEN named ELSE session
    [] adapter = "goose" -> session
    [] OTHER -> IF named = None THEN session ELSE named

=============================================================================
