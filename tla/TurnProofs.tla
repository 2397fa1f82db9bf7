----------------------------- MODULE TurnProofs -----------------------------
(***************************************************************************)
(* Theorems about AgentTurn, for any of the adapters, any number of turns, *)
(* any lines a CLI prints and any sizes of pipes and caps.                 *)
(***************************************************************************)
EXTENDS AgentTurn, ListLemmas, FiniteSetTheorems

Looking == {"reading", "draining", "waiting", "joining"}

(* A turn begins without a child, and a child that is up while belt is    *)
(* past its wait is one of a turn that was cut off.                        *)
ChildInv ==
  /\ at = "ready" => child = "none"
  /\ at \in {"joining", "fetching", "over"} /\ child = "up" => turn \in cutOff

-----------------------------------------------------------------------------
(* The child and its heirs neither start a process that belt would have to *)
(* wait for nor move belt's own side.                                      *)
LEMMA ChildKeepsAway ==
  ASSUME ChildStep
  PROVE  /\ at \in Looking /\ UNCHANGED <<at, turn, cutOff>>
         /\ child' = "up" => child = "up"
<1> USE DEF turnVars, pipeVars, readVars
<1>1. at \in Looking
  BY DEF ChildStep, Followed, Looking
<1>2. CASE ChildPrints BY <1>1, <1>2 DEF ChildPrints
<1>3. CASE ChildComplains BY <1>1, <1>3 DEF ChildComplains
<1>4. CASE ChildClosesOutput BY <1>1, <1>4 DEF ChildClosesOutput
<1>5. CASE ChildEnds BY <1>1, <1>5 DEF ChildEnds, Leave
<1>6. CASE ChildCrashes BY <1>1, <1>6 DEF ChildCrashes, Leave
<1>7. CASE HeirEnds BY <1>1, <1>7 DEF HeirEnds
<1> QED
  BY <1>2, <1>3, <1>4, <1>5, <1>6, <1>7 DEF ChildStep

(* No child of a turn is up when belt is done with the turn, unless the    *)
(* turn was cut off.                                                       *)
LEMMA ChildFollows == AgentSpec => []ChildInv
<1>1. AgentInit => ChildInv
  BY DEF AgentInit, ChildInv
<1>2. ASSUME ChildInv, [AgentNext]_agentVars PROVE ChildInv'
  <2> USE <1>2 DEF ChildInv, turnVars, pipeVars, readVars
  <2>1. CASE ChildStep BY <2>1, ChildKeepsAway DEF Looking
  <2>2. CASE Spawn BY <2>2 DEF Spawn
  <2>3. CASE ReadLine
    <3>1. at = "reading" /\ at' \in {"reading", "draining"} /\ UNCHANGED <<turn, child, cutOff>>
      BY <2>3 DEF ReadLine
    <3> QED BY <3>1
  <2>4. CASE ReadBreaks \/ KeyboardInterrupt
    <3>1. at' \in {"joining", "over"} /\ UNCHANGED <<turn, child>> /\ turn \in cutOff'
      BY <2>4 DEF ReadBreaks, KeyboardInterrupt
    <3> QED BY <3>1
  <2>5. CASE DropLine BY <2>5 DEF DropLine
  <2>6. CASE EndOfOutput BY <2>6 DEF EndOfOutput
  <2>7. CASE Wait BY <2>7 DEF Wait
  <2>8. CASE TimeOut BY <2>8 DEF TimeOut
  <2>9. CASE Join BY <2>9 DEF Join
  <2>10. CASE Fetch
    <3>1. child' = "none"
      BY <2>10 DEF Fetch, Forget, ForgetOutput
    <3> QED BY <3>1
  <2>11. CASE FetchFails
    <3>1. child' = "none"
      BY <2>11 DEF FetchFails, Forget, ForgetOutput
    <3> QED BY <3>1
  <2>12. CASE TearDown BY <2>12 DEF TearDown
  <2>13. CASE DrainStderr BY <2>13 DEF DrainStderr
  <2>14. CASE Done \/ UNCHANGED agentVars BY <2>14 DEF Done, agentVars
  <2> QED
    BY <2>1, <2>2, <2>3, <2>4, <2>5, <2>6, <2>7, <2>8, <2>9, <2>10, <2>11, <2>12, <2>13, <2>14
       DEF AgentNext, BeltStep
<1> QED
  BY <1>1, <1>2, PTL DEF AgentSpec

(* A child that outlives its turn is one whose output could not be read, or*)
(* whose turn a Ctrl-C cut off: the time limit kills the child's group, and*)
(* results are fetched of a child that has been waited for, whatever the   *)
(* CLI prints or leaves open.                                              *)
THEOREM ChildrenAreAlwaysOver == AgentSpec => []ChildrenAreOver
<1>1. ChildInv => ChildrenAreOver
  BY DEF ChildInv, ChildrenAreOver
<1> QED
  BY <1>1, ChildFollows, PTL

-----------------------------------------------------------------------------
(* What the CLIs print, as records.                                        *)

Words ==
  {"junk", "none", "assistant", "user", "result", "item.completed", "turn.completed", "turn.failed",
   "thread.started", "assistant.message", "tool.execution_start", "tool_call", "message", "error",
   "complete", "step_finish", "step_start", "init", "user_input", "__truncated", "text", "tool_use",
   "tool_result", "agent_message", "command_execution", "toolRequests", "started", "completed",
   "toolRequest", "toolResponse", "output", "functionCall", "true", "false", "vendor", "unknown",
   "model", "auth", "rate"}

LineSet ==
  [type : Words, part : Words, id : CallIds \union {NoId}, sess : Sessions \union {None},
   bad : Words, label : Words \union {None}, marks : SUBSET Words, size : Nat]

Say(t, p, i, s, b, l, m, z) ==
  [type |-> t, part |-> p, id |-> i, sess |-> s, bad |-> b, label |-> l, marks |-> m, size |-> z]

(* A line that is no event, and one that says nothing in its place.        *)
Cut == {Say("junk", "none", NoId, None, "none", None, m, z) : m \in SUBSET Words, z \in Nat}

LEMMA Saying ==
  /\ \A t : Line(t) = Say(t, "none", NoId, None, "none", None, {}, 1)
  /\ \A t, m : [Line(t) EXCEPT !.marks = m] = Say(t, "none", NoId, None, "none", None, m, 1)
  /\ \A t, l : [Line(t) EXCEPT !.label = l] = Say(t, "none", NoId, None, "none", l, {}, 1)
  /\ \A t, p, i : Part(t, p, i) = Say(t, p, i, None, "none", None, {}, 1)
  /\ \A t, s : Names(t, s) = Say(t, "none", NoId, s, "none", None, {}, 1)
  /\ \A t, s, b, l : Ends(t, s, b, l) = Say(t, "none", NoId, s, b, l, {}, 1)
  /\ \A t, s, b, l, p : [Ends(t, s, b, l) EXCEPT !.part = p] = Say(t, p, NoId, s, b, l, {}, 1)
  /\ Big(Junk) = Say("junk", "none", NoId, None, "none", None, {}, LineMax + 2)
<1>1. \A t : Line(t) = Say(t, "none", NoId, None, "none", None, {}, 1)
  BY DEF Line, Say
<1>2. \A t, m : [Line(t) EXCEPT !.marks = m] = Say(t, "none", NoId, None, "none", None, m, 1)
  BY DEF Line, Say
<1>3. \A t, l : [Line(t) EXCEPT !.label = l] = Say(t, "none", NoId, None, "none", l, {}, 1)
  BY DEF Line, Say
<1>4. \A t, p, i : Part(t, p, i) = Say(t, p, i, None, "none", None, {}, 1)
  <2> TAKE t, p, i
  <2>1. Part(t, p, i) = [[Line(t) EXCEPT !.part = p] EXCEPT !.id = i]
    BY DEF Part, Line
  <2>2. [Line(t) EXCEPT !.part = p] = Say(t, p, NoId, None, "none", None, {}, 1)
    BY DEF Line, Say
  <2> QED BY ZenonT(40), <2>1, <2>2 DEF Say
<1>5. \A t, s : Names(t, s) = Say(t, "none", NoId, s, "none", None, {}, 1)
  BY DEF Line, Say, Names
<1>6. \A t, s, b, l : Ends(t, s, b, l) = Say(t, "none", NoId, s, b, l, {}, 1)
  <2> TAKE t, s, b, l
  <2>1. Ends(t, s, b, l) = [[Names(t, s) EXCEPT !.bad = b] EXCEPT !.label = l]
    BY <1>5 DEF Ends, Say
  <2>2. [Names(t, s) EXCEPT !.bad = b] = Say(t, "none", NoId, s, b, None, {}, 1)
    BY <1>5 DEF Say
  <2> QED BY ZenonT(40), <2>1, <2>2 DEF Say
<1>7. \A t, s, b, l, p : [Ends(t, s, b, l) EXCEPT !.part = p] = Say(t, p, NoId, s, b, l, {}, 1)
  BY <1>6 DEF Say
<1>8. Big(Junk) = Say("junk", "none", NoId, None, "none", None, {}, LineMax + 2)
  BY <1>1 DEF Say, Big, Junk
<1> QED BY <1>1, <1>2, <1>3, <1>4, <1>5, <1>6, <1>7, <1>8

LEMMA ClaudeSays ==
  ASSUME NEW e \in Vocabulary("claude")
  PROVE  \/ e = Say("junk", "none", NoId, None, "none", None, {}, LineMax + 2)
         \/ e = Say("assistant", "text", NoId, None, "none", None, {}, 1)
         \/ e = Say("result", "none", NoId, None, "true", None, {}, 1)
         \/ \E s \in Sessions : e = Say("result", "none", NoId, s, "false", None, {}, 1)
         \/ \E i \in CallIds : \/ e = Say("assistant", "tool_use", i, None, "none", None, {}, 1)
                               \/ e = Say("user", "tool_result", i, None, "none", None, {}, 1)
<1>1. \/ e \in {Big(Junk), Part("assistant", "text", NoId), Ends("result", None, "true", None)}
      \/ e \in {Ends("result", s, "false", None) : s \in Sessions}
      \/ e \in UNION {{Part("assistant", "tool_use", i), Part("user", "tool_result", i)} : i \in CallIds}
  BY DEF Vocabulary
<1> QED BY <1>1, Saying

-----------------------------------------------------------------------------
(* What an event does to the accumulators.                                 *)

CallSet == [id : CallIds \union {NoId}, result : CallIds \union {NoId}]

Accs ==
  [spoke : BOOLEAN, reply : SUBSET Words, calls : Seq(CallSet), session : Sessions \union {None},
   bad : Words, label : Words \union {None}, why : SUBSET Words, count : Nat]

Has(calls, id) == \E k \in DOMAIN calls : calls[k].id = id

Settled(calls, k, id) == [calls EXCEPT ![k].result = id]

(* A call is added, one with the event's id gets its result, or neither    *)
(* was asked for.                                                          *)
CallsMove(ad, c, e, d) ==
  \/ /\ d = c
     /\ e.part \in Requests(ad) /\ e.id \in CallIds => Has(c, e.id)
     /\ e.part \in Responses /\ e.id \in CallIds => ~Has(c, e.id)
  \/ /\ \E r \in {NoId, e.id} : d = Append(c, [id |-> e.id, result |-> r])
     /\ e.part \notin Responses
     /\ ad = "copilot" /\ e.id \in CallIds => ~Has(c, e.id)
  \/ \E k \in DOMAIN c : c[k].id = e.id /\ d = Settled(c, k, e.id)

(* The lines that LastWord looks for, and those that tell of a failure.    *)
IsWord(l) ==
  l.type \in {"turn.failed", "error"} \/ (l.type = "result" /\ (l.bad # "none" \/ l.label # None))

BadWord(l) == l.bad = "true" \/ l.label # None \/ l.type = "turn.failed"

Moves(ad, a, e, b) ==
  /\ b \in Accs
  /\ b.spoke = a.spoke \/ ad = "cursor" \/ <<e.type, e.part>> \in Streaming[ad].first
  /\ CallsMove(ad, a.calls, e, b.calls)
  /\ e.sess # None => b.session = e.sess \/ (b.session = a.session /\ a.session # None)
  /\ e.sess = None => b.session = a.session \/ (b.session = None /\ ad \in {"claude", "cursor"} /\ Closes(e))
  /\ IsWord(e) /\ BadWord(e) => b.bad = "true"
  /\ ~IsWord(e) => b.bad = a.bad

LEMMA Speaking ==
  ASSUME NEW a \in Accs, NEW e \in LineSet
  PROVE  /\ Speak(a, e) \in Accs /\ Speak(a, e).calls = a.calls
         /\ Speak(a, e).session = a.session /\ Speak(a, e).bad = a.bad
<1>1. a.reply \union e.marks \in SUBSET Words
  BY DEF Accs, LineSet
<1>2. [a EXCEPT !.spoke = TRUE] \in Accs
  BY DEF Accs
<1>3. Speak(a, e) = [[a EXCEPT !.spoke = TRUE] EXCEPT !.reply = a.reply \union e.marks]
  BY DEF Speak, Accs
<1> QED BY <1>1, <1>2, <1>3 DEF Accs

LEMMA Counting ==
  ASSUME NEW a \in Accs
  PROVE  /\ Counted(a) \in Accs /\ Counted(a).calls = a.calls /\ Counted(a).spoke = a.spoke
         /\ Counted(a).session = a.session /\ Counted(a).bad = a.bad
BY DEF Counted, Accs

LEMMA Calling ==
  ASSUME NEW a \in Accs, NEW id \in CallIds \union {NoId}
  PROVE  /\ Called(a, id) \in Accs /\ Called(a, id).calls = Append(a.calls, [id |-> id, result |-> NoId])
         /\ Called(a, id).spoke = a.spoke
         /\ Called(a, id).session = a.session /\ Called(a, id).bad = a.bad
<1>1. [id |-> id, result |-> NoId] \in CallSet
  BY DEF CallSet
<1>2. Append(a.calls, [id |-> id, result |-> NoId]) \in Seq(CallSet)
  BY <1>1 DEF Accs
<1> QED BY <1>2 DEF Called, Call, Accs

(* The call with an id, the first one or the last one, is looked for.      *)
LEMMA Finding ==
  ASSUME NEW calls \in Seq(CallSet), NEW id,
         NEW k \in {FirstCall(calls, id), LastCall(calls, id)}
  PROVE  IF Has(calls, id) THEN k \in DOMAIN calls /\ calls[k].id = id ELSE k = 0
<1> DEFINE I == {i \in 1..Len(calls) : calls[i].id = id}
<1>1. I \subseteq Nat /\ (Has(calls, id) <=> I # {}) /\ DOMAIN calls = 1..Len(calls)
  BY DEF Has
<1>2. FirstCall(calls, id) = IF I # {} THEN Min(I) ELSE 0
  BY DEF FirstCall, SelectInSeq
<1>3. LastCall(calls, id) = IF I # {} THEN Max(I) ELSE 0
  BY DEF LastCall, SelectLastInSeq
<1>4. ASSUME I # {} PROVE Min(I) \in I /\ Max(I) \in I
  <2> DEFINE n == Len(calls)
             J == {n - i : i \in I}
  <2>0. n \in Nat /\ I \subseteq 1..n
    OBVIOUS
  <2>1. \E x \in I : \A y \in I : x <= y
    <3> HIDE DEF I
    <3> QED BY <1>1, <1>4, LeastElement
  <2>2. PICK x \in J : \A y \in J : x <= y
    <3>1. J \subseteq Nat /\ J # {}
      BY <2>0, <1>4
    <3> HIDE DEF J
    <3> QED BY <3>1, LeastElement
  <2>3. PICK i \in I : x = n - i
    OBVIOUS
  <2>4. \A j \in I : i >= j
    <3> TAKE j \in I
    <3>1. n - j \in J
      OBVIOUS
    <3> HIDE DEF J
    <3>2. n - i <= n - j
      BY <3>1, <2>2, <2>3
    <3> QED BY <3>2, <2>0
  <2> HIDE DEF I
  <2> QED BY <2>1, <2>4 DEF Min, Max
<1> QED BY <1>1, <1>2, <1>3, <1>4

LEMMA Answering ==
  ASSUME NEW calls \in Seq(CallSet), NEW id \in CallIds, NEW k \in DOMAIN calls
  PROVE  Answer(calls, k, id) = Settled(calls, k, id) /\ Settled(calls, k, id) \in Seq(CallSet)
<1>1. k \in 1..Len(calls)
  OBVIOUS
<1>2. [calls[k] EXCEPT !.result = id] \in CallSet
  <2>1. calls[k] \in CallSet
    BY <1>1
  <2> QED BY <2>1 DEF CallSet
<1>3. Settled(calls, k, id) \in Seq(CallSet)
  BY <1>1, <1>2 DEF Settled
<1> QED BY <1>1, <1>3 DEF Answer, Settled

LEMMA Relisting ==
  ASSUME NEW a \in Accs, NEW calls \in Seq(CallSet), NEW b, b = [a EXCEPT !.calls = calls]
  PROVE  b \in Accs /\ b.spoke = a.spoke /\ b.session = a.session /\ b.bad = a.bad /\ b.calls = calls
BY DEF Accs

-----------------------------------------------------------------------------
(* Each adapter.                                                           *)

LEMMA Wording ==
  /\ "junk" \in Words /\ "none" \in Words /\ "assistant" \in Words
  /\ "user" \in Words /\ "result" \in Words /\ "item.completed" \in Words
  /\ "turn.completed" \in Words /\ "turn.failed" \in Words /\ "thread.started" \in Words
  /\ "assistant.message" \in Words /\ "tool.execution_start" \in Words /\ "tool_call" \in Words
  /\ "message" \in Words /\ "error" \in Words /\ "complete" \in Words
  /\ "step_finish" \in Words /\ "step_start" \in Words /\ "init" \in Words
  /\ "user_input" \in Words /\ "__truncated" \in Words /\ "text" \in Words
  /\ "tool_use" \in Words /\ "tool_result" \in Words /\ "agent_message" \in Words
  /\ "command_execution" \in Words /\ "toolRequests" \in Words /\ "started" \in Words
  /\ "completed" \in Words /\ "toolRequest" \in Words /\ "toolResponse" \in Words
  /\ "output" \in Words /\ "functionCall" \in Words /\ "true" \in Words
  /\ "false" \in Words /\ "vendor" \in Words /\ "unknown" \in Words
  /\ {"auth", "rate"} \subseteq Words
BY DEF Words

(* What an event says when it is not its session, its call or a last word. *)
Plain(e) == e.sess = None /\ e.bad = "none" /\ e.label = None

LEMMA PartIs ==
  ASSUME NEW t \in Words, NEW p \in Words, NEW i \in CallIds \union {NoId}
  PROVE  LET e == Say(t, p, i, None, "none", None, {}, 1)
         IN  e \in LineSet /\ e.type = t /\ e.part = p /\ e.id = i /\ Plain(e)
<1>1. 1 \in Nat /\ {} \in SUBSET Words /\ "none" \in Words
  BY Wording
<1> QED BY <1>1 DEF Plain, Say, LineSet

LEMMA EndIs ==
  ASSUME NEW t \in Words, NEW p \in Words, NEW s \in Sessions \union {None}, NEW w \in Words,
         NEW l \in Words \union {None}
  PROVE  LET e == Say(t, p, NoId, s, w, l, {}, 1)
         IN  /\ e \in LineSet /\ e.type = t /\ e.part = p /\ e.id = NoId /\ e.sess = s
             /\ e.bad = w /\ e.label = l
<1>1. 1 \in Nat /\ {} \in SUBSET Words
  OBVIOUS
<1> QED BY <1>1 DEF Say, LineSet

(* An event that is about no call.                                         *)
LEMMA Silent ==
  ASSUME NEW ad, NEW a \in Accs, NEW e \in LineSet, NEW b \in Accs, b.calls = a.calls, e.id = NoId,
         b.spoke = a.spoke \/ ad = "cursor" \/ <<e.type, e.part>> \in Streaming[ad].first,
         e.sess # None => b.session = e.sess \/ (b.session = a.session /\ a.session # None),
         e.sess = None => b.session = a.session \/ (b.session = None /\ ad \in {"claude", "cursor"} /\ Closes(e)),
         IsWord(e) /\ BadWord(e) => b.bad = "true",
         ~IsWord(e) => b.bad = a.bad
  PROVE  Moves(ad, a, e, b)
BY AdaptersAssumption DEF Moves, CallsMove

LEMMA Talking ==
  ASSUME NEW ad, NEW a \in Accs, NEW e \in LineSet, NEW b, Plain(e), e.id = NoId,
         e.type \notin {"turn.failed", "error"},
         \/ b \in {a, Counted(a)}
         \/ /\ b \in {Speak(a, e), Speak(Counted(a), e), Counted(Speak(a, e))}
            /\ <<e.type, e.part>> \in Streaming[ad].first
  PROVE  Moves(ad, a, e, b)
<1>1. b \in Accs /\ b.calls = a.calls /\ b.session = a.session /\ b.bad = a.bad
  BY Counting, Speaking
<1>2. b.spoke = a.spoke \/ <<e.type, e.part>> \in Streaming[ad].first
  BY Counting
<1>3. ~IsWord(e) /\ e.sess = None
  BY DEF IsWord, Plain
<1> QED BY <1>1, <1>2, <1>3, Silent

(* b differs from a in nothing that Moves looks at but s and w.            *)
Sets(a, b, s, w) ==
  b \in Accs /\ b.spoke = a.spoke /\ b.calls = a.calls /\ b.session = s /\ b.bad = w

LEMMA Setting ==
  ASSUME NEW a \in Accs, NEW s \in Sessions \union {None}, NEW w \in Words,
         NEW l \in Words \union {None}, NEW m \in SUBSET Words
  PROVE  /\ Sets(a, [a EXCEPT !.session = s], s, a.bad)
         /\ Sets(a, [a EXCEPT !.bad = w], a.session, w)
         /\ Sets(a, [a EXCEPT !.bad = w, !.why = m], a.session, w)
         /\ Sets(a, [a EXCEPT !.bad = w, !.label = l], a.session, w)
         /\ Sets(a, [a EXCEPT !.session = s, !.bad = w], s, w)
         /\ Sets(a, [a EXCEPT !.session = s, !.bad = w, !.label = l], s, w)
<1>1. ASSUME NEW c \in Accs PROVE Sets(c, [c EXCEPT !.session = s], s, c.bad)
  BY <1>1 DEF Accs, Sets
<1>2. ASSUME NEW c \in Accs PROVE Sets(c, [c EXCEPT !.bad = w], c.session, w)
  BY <1>2 DEF Accs, Sets
<1>3. ASSUME NEW c \in Accs PROVE Sets(c, [c EXCEPT !.label = l], c.session, c.bad)
  BY <1>3 DEF Accs, Sets
<1>4. ASSUME NEW c \in Accs PROVE Sets(c, [c EXCEPT !.why = m], c.session, c.bad)
  BY <1>4 DEF Accs, Sets
<1> DEFINE ab == [a EXCEPT !.bad = w]
           as == [a EXCEPT !.session = s]
           asb == [as EXCEPT !.bad = w]
<1>5. /\ [a EXCEPT !.bad = w, !.why = m] = [ab EXCEPT !.why = m]
      /\ [a EXCEPT !.bad = w, !.label = l] = [ab EXCEPT !.label = l]
      /\ [a EXCEPT !.session = s, !.bad = w] = asb
      /\ [a EXCEPT !.session = s, !.bad = w, !.label = l] = [asb EXCEPT !.label = l]
  OBVIOUS
<1>6. Sets(a, ab, a.session, w) /\ Sets(a, as, s, a.bad)
  BY <1>1, <1>2
<1> HIDE DEF ab, as
<1>7. Sets(as, asb, s, w)
  BY <1>2, <1>6 DEF Sets
<1> HIDE DEF asb
<1>8. Sets(ab, [ab EXCEPT !.why = m], a.session, w) /\ Sets(ab, [ab EXCEPT !.label = l], a.session, w)
  BY <1>3, <1>4, <1>6 DEF Sets
<1>9. Sets(asb, [asb EXCEPT !.label = l], s, w)
  BY <1>3, <1>7 DEF Sets
<1> QED BY <1>5, <1>6, <1>7, <1>8, <1>9 DEF Sets, ab, as

(* An event that makes a call, and one that brings its result.             *)
LEMMA Asking ==
  ASSUME NEW ad, NEW a \in Accs, NEW e \in LineSet, NEW c, NEW b,
         Plain(e), e.type \notin {"turn.failed", "error"}, e.part \notin Responses, e.id \in CallIds,
         c \in {a, Counted(a)}, b = Called(c, e.id), ad = "copilot" => ~Has(a.calls, e.id)
  PROVE  Moves(ad, a, e, b)
<1>1. c \in Accs /\ c.calls = a.calls /\ c.session = a.session /\ c.bad = a.bad /\ c.spoke = a.spoke
  BY Counting
<1>2. /\ b \in Accs /\ b.session = a.session /\ b.bad = a.bad /\ b.spoke = a.spoke
      /\ b.calls = Append(a.calls, [id |-> e.id, result |-> NoId])
  <2>1. /\ b \in Accs /\ b.session = c.session /\ b.bad = c.bad /\ b.spoke = c.spoke
        /\ b.calls = Append(c.calls, [id |-> e.id, result |-> NoId])
    BY <1>1, Calling
  <2> QED BY <1>1, <2>1
<1>3. ~IsWord(e) /\ e.sess = None
  BY DEF IsWord, Plain
<1>4. CallsMove(ad, a.calls, e, b.calls)
  BY <1>2 DEF CallsMove
<1> QED BY <1>2, <1>3, <1>4 DEF Moves

LEMMA Hearing ==
  ASSUME NEW ad, NEW a \in Accs, NEW e \in LineSet, NEW c, NEW k, NEW b,
         Plain(e), e.type \notin {"turn.failed", "error"}, e.part \notin Requests(ad), e.id \in CallIds,
         c \in {a, Counted(a)}, k \in {FirstCall(c.calls, e.id), LastCall(c.calls, e.id)},
         b = [c EXCEPT !.calls = Answer(@, k, e.id)]
  PROVE  Moves(ad, a, e, b)
<1>1. c \in Accs /\ c.calls = a.calls /\ c.session = a.session /\ c.bad = a.bad /\ c.spoke = a.spoke
  BY Counting
<1>2. c.calls \in Seq(CallSet)
  BY <1>1 DEF Accs
<1>3. IF Has(c.calls, e.id) THEN k \in DOMAIN c.calls /\ c.calls[k].id = e.id ELSE k = 0
  BY <1>2, Finding
<1>4. ~IsWord(e) /\ e.sess = None
  BY DEF IsWord, Plain
<1>5. b = [c EXCEPT !.calls = Answer(c.calls, k, e.id)]
  OBVIOUS
<1>6. CASE Has(c.calls, e.id)
  <2>1. k \in DOMAIN c.calls /\ c.calls[k].id = e.id
    BY <1>3, <1>6
  <2>2. Answer(c.calls, k, e.id) = Settled(c.calls, k, e.id) /\ Settled(c.calls, k, e.id) \in Seq(CallSet)
    BY <1>2, <2>1, Answering
  <2>4. /\ b \in Accs /\ b.session = c.session /\ b.bad = c.bad /\ b.spoke = c.spoke
        /\ b.calls = Settled(c.calls, k, e.id)
    <3> HIDE DEF Settled, Answer
    <3> QED BY <1>1, <1>5, <2>2, Relisting
  <2>3. CallsMove(ad, a.calls, e, b.calls)
    BY <1>1, <2>1, <2>4 DEF CallsMove
  <2> QED BY <2>3, <2>4, <1>1, <1>4 DEF Moves
<1>7. CASE ~Has(c.calls, e.id)
  <2>1. b = c
    BY <1>1, <1>3, <1>5, <1>7 DEF Answer, Accs
  <2>2. CallsMove(ad, a.calls, e, b.calls)
    BY <1>1, <2>1, <1>7 DEF CallsMove
  <2> QED BY <2>1, <2>2, <1>1, <1>4 DEF Moves
<1> QED BY <1>6, <1>7

LEMMA ClaudeMoves ==
  ASSUME NEW a \in Accs, NEW e \in Vocabulary("claude"), e.type # "junk"
  PROVE  Moves("claude", a, e, ClaudeEvent(a, e))
<1> DEFINE b == ClaudeEvent(a, e)
<1>1. CASE e = Say("assistant", "text", NoId, None, "none", None, {}, 1)
  <2>1. e \in LineSet /\ Plain(e) /\ e.type = "assistant" /\ e.part = "text" /\ e.id = NoId
    <3>1. "assistant" \in Words /\ "text" \in Words
      BY Wording
    <3> QED BY <1>1, <3>1, PartIs
  <2>2. b = Speak(Counted(a), e) /\ <<e.type, e.part>> \in Streaming["claude"].first
    BY <2>1 DEF ClaudeEvent, Streaming, ClaudeStreaming
  <2> HIDE DEF b
  <2>3. Moves("claude", a, e, b)
    BY <2>1, <2>2, Talking
  <2> QED BY <2>3 DEF b
<1>2. ASSUME NEW s \in Sessions \union {None}, NEW w \in {"true", "false"},
             e = Say("result", "none", NoId, s, w, None, {}, 1)
      PROVE  Moves("claude", a, e, b)
  <2>1. /\ e \in LineSet /\ e.type = "result" /\ e.part = "none" /\ e.id = NoId
        /\ e.label = None /\ e.bad = w /\ e.sess = s
    <3>1. w \in Words /\ "result" \in Words /\ "none" \in Words /\ None \in Words \union {None}
      BY Wording
    <3>2. Say("result", "none", NoId, s, w, None, {}, 1) \in LineSet
      BY <3>1, EndIs
    <3> QED BY <1>2, <3>2 DEF Say
  <2>2. b = [a EXCEPT !.session = s, !.bad = w, !.label = @]
    BY <2>1 DEF ClaudeEvent
  <2>3. b = [a EXCEPT !.session = s, !.bad = w] /\ w \in Words
    BY <2>2, Wording DEF Accs
  <2>4. Closes(e) /\ (BadWord(e) => w = "true") /\ IsWord(e)
    BY <2>1 DEF IsWord, BadWord, Closes
  <2> HIDE DEF b
  <2>5. Sets(a, b, s, w)
    BY <2>3, Setting
  <2> QED BY <2>1, <2>4, <2>5, Silent DEF Sets
<1>3. ASSUME NEW i \in CallIds, e = Say("assistant", "tool_use", i, None, "none", None, {}, 1)
      PROVE  Moves("claude", a, e, b)
  <2>1. e \in LineSet /\ Plain(e) /\ e.type = "assistant" /\ e.part = "tool_use" /\ e.id = i
    <3>1. "assistant" \in Words /\ "tool_use" \in Words
      BY Wording
    <3> QED BY <1>3, <3>1, PartIs
  <2>2. b = Called(Counted(a), e.id) /\ e.part \notin Responses
    BY <2>1 DEF ClaudeEvent, Responses
  <2> QED BY <2>1, <2>2, Asking
<1>4. ASSUME NEW i \in CallIds, e = Say("user", "tool_result", i, None, "none", None, {}, 1)
      PROVE  Moves("claude", a, e, b)
  <2>1. e \in LineSet /\ Plain(e) /\ e.type = "user" /\ e.part = "tool_result" /\ e.id = i /\ i # NoId
    <3>1. "user" \in Words /\ "tool_result" \in Words /\ i # NoId
      BY Wording, AdaptersAssumption
    <3> QED BY <1>4, <3>1, PartIs
  <2>2. b = [a EXCEPT !.calls = Answer(@, LastCall(a.calls, i), i)] /\ e.part \notin Requests("claude")
    BY <2>1 DEF ClaudeEvent, Requests, Accs
  <2> QED BY <2>1, <2>2, Hearing
<1>5. \/ e = Say("junk", "none", NoId, None, "none", None, {}, LineMax + 2)
      \/ e = Say("assistant", "text", NoId, None, "none", None, {}, 1)
      \/ e = Say("result", "none", NoId, None, "true", None, {}, 1)
      \/ \E s \in Sessions : e = Say("result", "none", NoId, s, "false", None, {}, 1)
      \/ \E i \in CallIds : \/ e = Say("assistant", "tool_use", i, None, "none", None, {}, 1)
                            \/ e = Say("user", "tool_result", i, None, "none", None, {}, 1)
  BY ClaudeSays
<1>6. e # Say("junk", "none", NoId, None, "none", None, {}, LineMax + 2)
  BY DEF Say
<1> HIDE DEF b
<1>7. Moves("claude", a, e, b)
  BY <1>1, <1>2, <1>3, <1>4, <1>5, <1>6 DEF b
<1> QED BY <1>7 DEF b

LEMMA CodexSays ==
  ASSUME NEW e \in Vocabulary("codex")
  PROVE  \/ e = Say("junk", "none", NoId, None, "none", None, {}, LineMax + 2)
         \/ e = Say("item.completed", "agent_message", NoId, None, "none", None, {}, 1)
         \/ e = Say("turn.completed", "none", NoId, None, "none", None, {}, 1)
         \/ e = Say("turn.failed", "none", NoId, None, "none", None, {"auth", "rate"}, 1)
         \/ \E s \in Sessions : e = Say("thread.started", "none", NoId, s, "none", None, {}, 1)
         \/ \E i \in CallIds : e = Say("item.completed", "command_execution", i, None, "none", None, {}, 1)
<1>1. \/ e \in {Big(Junk), Part("item.completed", "agent_message", NoId), Line("turn.completed"),
               [Line("turn.failed") EXCEPT !.marks = {"auth", "rate"}]}
      \/ e \in {Names("thread.started", s) : s \in Sessions}
      \/ e \in {Part("item.completed", "command_execution", i) : i \in CallIds}
  BY DEF Vocabulary
<1> QED BY <1>1, Saying

LEMMA CodexMoves ==
  ASSUME NEW a \in Accs, NEW e \in Vocabulary("codex"), e.type # "junk"
  PROVE  Moves("codex", a, e, CodexEvent(a, e))
<1> DEFINE b == CodexEvent(a, e)
<1>1. CASE e = Say("item.completed", "agent_message", NoId, None, "none", None, {}, 1)
  <2>1. e \in LineSet /\ Plain(e) /\ e.type = "item.completed" /\ e.part = "agent_message" /\ e.id = NoId
    <3>1. "item.completed" \in Words /\ "agent_message" \in Words
      BY Wording
    <3> QED BY <1>1, <3>1, PartIs
  <2>2. b = Counted(Speak(a, e)) /\ <<e.type, e.part>> \in Streaming["codex"].first
    BY <2>1 DEF CodexEvent, Streaming, CodexStreaming
  <2> HIDE DEF b
  <2>3. Moves("codex", a, e, b)
    BY <2>1, <2>2, Talking
  <2> QED BY <2>3 DEF b
<1>2. CASE e = Say("turn.completed", "none", NoId, None, "none", None, {}, 1)
  <2>1. e \in LineSet /\ Plain(e) /\ e.type = "turn.completed" /\ e.part = "none" /\ e.id = NoId
    <3>1. "turn.completed" \in Words /\ "none" \in Words
      BY Wording
    <3> QED BY <1>2, <3>1, PartIs
  <2>2. b = a
    BY <2>1 DEF CodexEvent
  <2> HIDE DEF b
  <2>3. Moves("codex", a, e, b)
    BY <2>1, <2>2, Talking
  <2> QED BY <2>3 DEF b
<1>3. CASE e = Say("turn.failed", "none", NoId, None, "none", None, {"auth", "rate"}, 1)
  <2>1. /\ e \in LineSet /\ e.type = "turn.failed" /\ e.part = "none" /\ e.id = NoId
        /\ e.sess = None /\ e.marks \in SUBSET Words
    <3>1. "turn.failed" \in Words /\ "none" \in Words /\ {"auth", "rate"} \in SUBSET Words /\ 1 \in Nat
      BY Wording
    <3> QED BY <1>3, <3>1 DEF Say, LineSet
  <2>2. b = [a EXCEPT !.bad = "true", !.why = e.marks]
    BY <2>1 DEF CodexEvent
  <2>3. IsWord(e) /\ BadWord(e)
    BY <2>1 DEF IsWord, BadWord
  <2> HIDE DEF b
  <2>4. Sets(a, b, a.session, "true")
    <3>1. a.session \in Sessions \union {None} /\ "true" \in Words /\ a.label \in Words \union {None}
      BY Wording DEF Accs
    <3> QED BY <2>1, <2>2, <3>1, Setting
  <2>5. Moves("codex", a, e, b)
    BY <2>1, <2>3, <2>4, Silent DEF Sets
  <2> QED BY <2>5 DEF b
<1>4. ASSUME NEW s \in Sessions, e = Say("thread.started", "none", NoId, s, "none", None, {}, 1)
      PROVE  Moves("codex", a, e, b)
  <2>1. /\ e \in LineSet /\ e.type = "thread.started" /\ e.part = "none" /\ e.id = NoId
        /\ e.sess = s /\ e.bad = "none" /\ e.label = None
    <3>1. "thread.started" \in Words /\ "none" \in Words
      BY Wording
    <3>2. None \in Words \union {None} /\ s \in Sessions \union {None}
      BY <3>1
    <3>3. Say("thread.started", "none", NoId, s, "none", None, {}, 1) \in LineSet
      BY <3>1, <3>2, EndIs
    <3> QED BY <1>4, <3>3 DEF Say
  <2>2. b = [a EXCEPT !.session = s]
    BY <2>1, AdaptersAssumption DEF CodexEvent
  <2>3. ~IsWord(e) /\ s # None
    BY <2>1, AdaptersAssumption DEF IsWord, BadWord, Closes, Labels
  <2> HIDE DEF b
  <2>4. Sets(a, b, s, a.bad)
    <3>1. a.bad \in Words /\ a.label \in Words \union {None} /\ a.why \in SUBSET Words
      BY Wording DEF Accs
    <3> QED BY <2>2, <3>1, Setting
  <2>5. Moves("codex", a, e, b)
    BY <2>1, <2>3, <2>4, Silent DEF Sets
  <2> QED BY <2>5 DEF b
<1>5. ASSUME NEW i \in CallIds, e = Say("item.completed", "command_execution", i, None, "none", None, {}, 1)
      PROVE  Moves("codex", a, e, b)
  <2>1. e \in LineSet /\ Plain(e) /\ e.type = "item.completed" /\ e.part = "command_execution" /\ e.id = i
    <3>1. "item.completed" \in Words /\ "command_execution" \in Words
      BY Wording
    <3> QED BY <1>5, <3>1, PartIs
  <2>2. b = Called(a, e.id) /\ e.part \notin Responses
    BY <2>1 DEF CodexEvent, Responses
  <2> QED BY <2>1, <2>2, Asking
<1>6. \/ e = Say("junk", "none", NoId, None, "none", None, {}, LineMax + 2)
      \/ e = Say("item.completed", "agent_message", NoId, None, "none", None, {}, 1)
      \/ e = Say("turn.completed", "none", NoId, None, "none", None, {}, 1)
      \/ e = Say("turn.failed", "none", NoId, None, "none", None, {"auth", "rate"}, 1)
      \/ \E s \in Sessions : e = Say("thread.started", "none", NoId, s, "none", None, {}, 1)
      \/ \E i \in CallIds : e = Say("item.completed", "command_execution", i, None, "none", None, {}, 1)
  BY CodexSays
<1>7. e # Say("junk", "none", NoId, None, "none", None, {}, LineMax + 2)
  BY DEF Say
<1> HIDE DEF b
<1>8. Moves("codex", a, e, b)
  BY <1>1, <1>2, <1>3, <1>4, <1>5, <1>6, <1>7 DEF b
<1> QED BY <1>8 DEF b

LEMMA GooseSays ==
  ASSUME NEW e \in Vocabulary("goose")
  PROVE  \/ e = Say("junk", "none", NoId, None, "none", None, {}, LineMax + 2)
         \/ e = Say("message", "text", NoId, None, "none", None, {}, 1)
         \/ e = Say("complete", "none", NoId, None, "none", None, {}, 1)
         \/ e = Say("error", "none", NoId, None, "none", "vendor", {}, 1)
         \/ \E i \in CallIds : \/ e = Say("message", "toolRequest", i, None, "none", None, {}, 1)
                               \/ e = Say("message", "toolResponse", i, None, "none", None, {}, 1)
<1>1. \/ e \in {Big(Junk), Part("message", "text", NoId), [Line("error") EXCEPT !.label = "vendor"],
               Line("complete")}
      \/ e \in UNION {{Part("message", "toolRequest", i), Part("message", "toolResponse", i)} : i \in CallIds}
  BY DEF Vocabulary
<1> QED BY <1>1, Saying

LEMMA GooseMoves ==
  ASSUME NEW a \in Accs, NEW e \in Vocabulary("goose"), e.type # "junk"
  PROVE  Moves("goose", a, e, GooseEvent(a, e))
<1> DEFINE b == GooseEvent(a, e)
<1>1. CASE e = Say("message", "text", NoId, None, "none", None, {}, 1)
  <2>1. e \in LineSet /\ Plain(e) /\ e.type = "message" /\ e.part = "text" /\ e.id = NoId
    <3>1. "message" \in Words /\ "text" \in Words
      BY Wording
    <3> QED BY <1>1, <3>1, PartIs
  <2>2. b = Speak(Counted(a), e) /\ <<e.type, e.part>> \in Streaming["goose"].first
    BY <2>1 DEF GooseEvent, Streaming, GooseStreaming
  <2> HIDE DEF b
  <2>3. Moves("goose", a, e, b)
    BY <2>1, <2>2, Talking
  <2> QED BY <2>3 DEF b
<1>2. CASE e = Say("complete", "none", NoId, None, "none", None, {}, 1)
  <2>1. e \in LineSet /\ Plain(e) /\ e.type = "complete" /\ e.part = "none" /\ e.id = NoId
    <3>1. "complete" \in Words /\ "none" \in Words
      BY Wording
    <3> QED BY <1>2, <3>1, PartIs
  <2>2. b = a
    BY <2>1 DEF GooseEvent
  <2> HIDE DEF b
  <2>3. Moves("goose", a, e, b)
    BY <2>1, <2>2, Talking
  <2> QED BY <2>3 DEF b
<1>3. CASE e = Say("error", "none", NoId, None, "none", "vendor", {}, 1)
  <2>1. /\ e \in LineSet /\ e.type = "error" /\ e.part = "none" /\ e.id = NoId
        /\ e.sess = None /\ e.bad = "none" /\ e.label = "vendor"
    <3>1. "error" \in Words /\ "none" \in Words /\ "vendor" \in Words
      BY Wording
    <3>2. "vendor" \in Words \union {None} /\ None \in Sessions \union {None}
      BY <3>1
    <3>3. Say("error", "none", NoId, None, "none", "vendor", {}, 1) \in LineSet
      BY <3>1, <3>2, EndIs
    <3> QED BY <1>3, <3>3 DEF Say
  <2>2. b = [a EXCEPT !.bad = "true", !.label = "vendor"]
    BY <2>1, AdaptersAssumption DEF GooseEvent, Labels
  <2>3. IsWord(e)
    BY <2>1, AdaptersAssumption DEF IsWord, BadWord, Closes, Labels
  <2> HIDE DEF b
  <2>4. Sets(a, b, a.session, "true")
    <3>1. a.session \in Sessions \union {None} /\ "true" \in Words /\ "vendor" \in Words \union {None} /\ a.why \in SUBSET Words
      BY Wording DEF Accs
    <3> QED BY <2>2, <3>1, Setting
  <2>5. Moves("goose", a, e, b)
    BY <2>1, <2>3, <2>4, Silent DEF Sets
  <2> QED BY <2>5 DEF b
<1>4. ASSUME NEW i \in CallIds, e = Say("message", "toolRequest", i, None, "none", None, {}, 1)
      PROVE  Moves("goose", a, e, b)
  <2>1. e \in LineSet /\ Plain(e) /\ e.type = "message" /\ e.part = "toolRequest" /\ e.id = i
    <3>1. "message" \in Words /\ "toolRequest" \in Words
      BY Wording
    <3> QED BY <1>4, <3>1, PartIs
  <2>2. b = Called(Counted(a), e.id) /\ e.part \notin Responses
    BY <2>1 DEF GooseEvent, Responses
  <2> QED BY <2>1, <2>2, Asking
<1>5. ASSUME NEW i \in CallIds, e = Say("message", "toolResponse", i, None, "none", None, {}, 1)
      PROVE  Moves("goose", a, e, b)
  <2>1. e \in LineSet /\ Plain(e) /\ e.type = "message" /\ e.part = "toolResponse" /\ e.id = i
    <3>1. "message" \in Words /\ "toolResponse" \in Words
      BY Wording
    <3> QED BY <1>5, <3>1, PartIs
  <2>2. b = [Counted(a) EXCEPT !.calls = Answer(@, FirstCall(Counted(a).calls, i), i)] /\ e.part \notin Requests("goose")
    BY <2>1 DEF GooseEvent, Requests, Accs, Counted
  <2> QED BY <2>1, <2>2, Hearing
<1>6. \/ e = Say("junk", "none", NoId, None, "none", None, {}, LineMax + 2)
      \/ e = Say("message", "text", NoId, None, "none", None, {}, 1)
      \/ e = Say("complete", "none", NoId, None, "none", None, {}, 1)
      \/ e = Say("error", "none", NoId, None, "none", "vendor", {}, 1)
      \/ \E i \in CallIds : \/ e = Say("message", "toolRequest", i, None, "none", None, {}, 1)
                            \/ e = Say("message", "toolResponse", i, None, "none", None, {}, 1)
  BY GooseSays
<1>7. e # Say("junk", "none", NoId, None, "none", None, {}, LineMax + 2)
  BY DEF Say
<1> HIDE DEF b
<1>8. Moves("goose", a, e, b)
  BY <1>1, <1>2, <1>3, <1>4, <1>5, <1>6, <1>7 DEF b
<1> QED BY <1>8 DEF b

LEMMA GeminiSays ==
  ASSUME NEW e \in Vocabulary("gemini")
  PROVE  \/ e = Say("junk", "none", NoId, None, "none", None, {}, LineMax + 2)
         \/ e = Say("message", "text", NoId, None, "none", None, {}, 1)
         \/ e = Say("result", "none", NoId, None, "true", "vendor", {}, 1)
         \/ e = Say("result", "none", NoId, None, "false", None, {}, 1)
         \/ \E s \in Sessions : e = Say("init", "none", NoId, s, "none", None, {}, 1)
         \/ \E i \in CallIds : e = Say("message", "functionCall", i, None, "none", None, {}, 1)
<1>1. \/ e \in {Big(Junk), Part("message", "text", NoId), Ends("result", None, "true", "vendor"),
               Ends("result", None, "false", None)}
      \/ e \in {Names("init", s) : s \in Sessions}
      \/ e \in {Part("message", "functionCall", i) : i \in CallIds}
  BY DEF Vocabulary
<1> QED BY <1>1, Saying

LEMMA GeminiMoves ==
  ASSUME NEW a \in Accs, NEW e \in Vocabulary("gemini"), e.type # "junk"
  PROVE  Moves("gemini", a, e, GeminiEvent(a, e))
<1> DEFINE b == GeminiEvent(a, e)
<1>1. CASE e = Say("message", "text", NoId, None, "none", None, {}, 1)
  <2>1. e \in LineSet /\ Plain(e) /\ e.type = "message" /\ e.part = "text" /\ e.id = NoId
    <3>1. "message" \in Words /\ "text" \in Words
      BY Wording
    <3> QED BY <1>1, <3>1, PartIs
  <2>2. b = Speak(a, e) /\ <<e.type, e.part>> \in Streaming["gemini"].first
    BY <2>1 DEF GeminiEvent, Streaming, GeminiStreaming
  <2> HIDE DEF b
  <2>3. Moves("gemini", a, e, b)
    BY <2>1, <2>2, Talking
  <2> QED BY <2>3 DEF b
<1>2. CASE e = Say("result", "none", NoId, None, "true", "vendor", {}, 1)
  <2>1. /\ e \in LineSet /\ e.type = "result" /\ e.part = "none" /\ e.id = NoId
        /\ e.sess = None /\ e.bad = "true" /\ e.label = "vendor"
    <3>1. "result" \in Words /\ "none" \in Words /\ "true" \in Words /\ "vendor" \in Words
      BY Wording
    <3>2. "vendor" \in Words \union {None} /\ None \in Sessions \union {None}
      BY <3>1
    <3>3. Say("result", "none", NoId, None, "true", "vendor", {}, 1) \in LineSet
      BY <3>1, <3>2, EndIs
    <3> QED BY <1>2, <3>3 DEF Say
  <2>2. b = [a EXCEPT !.bad = "true", !.label = "vendor"]
    BY <2>1 DEF GeminiEvent
  <2>3. IsWord(e)
    BY <2>1, AdaptersAssumption DEF IsWord, BadWord, Closes, Labels
  <2> HIDE DEF b
  <2>4. Sets(a, b, a.session, "true")
    <3>1. a.session \in Sessions \union {None} /\ "true" \in Words /\ "vendor" \in Words \union {None} /\ a.why \in SUBSET Words
      BY Wording DEF Accs
    <3> QED BY <2>2, <3>1, Setting
  <2>5. Moves("gemini", a, e, b)
    BY <2>1, <2>3, <2>4, Silent DEF Sets
  <2> QED BY <2>5 DEF b
<1>3. CASE e = Say("result", "none", NoId, None, "false", None, {}, 1)
  <2>1. /\ e \in LineSet /\ e.type = "result" /\ e.part = "none" /\ e.id = NoId
        /\ e.sess = None /\ e.bad = "false" /\ e.label = None
    <3>1. "result" \in Words /\ "none" \in Words /\ "false" \in Words
      BY Wording
    <3>2. None \in Words \union {None} /\ None \in Sessions \union {None}
      BY <3>1
    <3>3. Say("result", "none", NoId, None, "false", None, {}, 1) \in LineSet
      BY <3>1, <3>2, EndIs
    <3> QED BY <1>3, <3>3 DEF Say
  <2>2. b = [a EXCEPT !.bad = "false"]
    BY <2>1 DEF GeminiEvent
  <2>3. IsWord(e) /\ ~BadWord(e)
    BY <2>1, AdaptersAssumption DEF IsWord, BadWord, Closes, Labels
  <2> HIDE DEF b
  <2>4. Sets(a, b, a.session, "false")
    <3>1. a.session \in Sessions \union {None} /\ "false" \in Words /\ a.label \in Words \union {None} /\ a.why \in SUBSET Words
      BY Wording DEF Accs
    <3> QED BY <2>2, <3>1, Setting
  <2>5. Moves("gemini", a, e, b)
    BY <2>1, <2>3, <2>4, Silent DEF Sets
  <2> QED BY <2>5 DEF b
<1>4. ASSUME NEW s \in Sessions, e = Say("init", "none", NoId, s, "none", None, {}, 1)
      PROVE  Moves("gemini", a, e, b)
  <2>1. /\ e \in LineSet /\ e.type = "init" /\ e.part = "none" /\ e.id = NoId
        /\ e.sess = s /\ e.bad = "none" /\ e.label = None
    <3>1. "init" \in Words /\ "none" \in Words
      BY Wording
    <3>2. None \in Words \union {None} /\ s \in Sessions \union {None}
      BY <3>1
    <3>3. Say("init", "none", NoId, s, "none", None, {}, 1) \in LineSet
      BY <3>1, <3>2, EndIs
    <3> QED BY <1>4, <3>3 DEF Say
  <2>2. b = [a EXCEPT !.session = s]
    BY <2>1 DEF GeminiEvent
  <2>3. ~IsWord(e) /\ s # None
    BY <2>1, AdaptersAssumption DEF IsWord, BadWord, Closes, Labels
  <2> HIDE DEF b
  <2>4. Sets(a, b, s, a.bad)
    <3>1. a.bad \in Words /\ a.label \in Words \union {None} /\ a.why \in SUBSET Words
      BY Wording DEF Accs
    <3> QED BY <2>2, <3>1, Setting
  <2>5. Moves("gemini", a, e, b)
    BY <2>1, <2>3, <2>4, Silent DEF Sets
  <2> QED BY <2>5 DEF b
<1>5. ASSUME NEW i \in CallIds, e = Say("message", "functionCall", i, None, "none", None, {}, 1)
      PROVE  Moves("gemini", a, e, b)
  <2>1. e \in LineSet /\ Plain(e) /\ e.type = "message" /\ e.part = "functionCall" /\ e.id = i
    <3>1. "message" \in Words /\ "functionCall" \in Words
      BY Wording
    <3> QED BY <1>5, <3>1, PartIs
  <2>2. b = Called(a, e.id) /\ e.part \notin Responses
    BY <2>1 DEF GeminiEvent, Responses
  <2> QED BY <2>1, <2>2, Asking
<1>6. \/ e = Say("junk", "none", NoId, None, "none", None, {}, LineMax + 2)
      \/ e = Say("message", "text", NoId, None, "none", None, {}, 1)
      \/ e = Say("result", "none", NoId, None, "true", "vendor", {}, 1)
      \/ e = Say("result", "none", NoId, None, "false", None, {}, 1)
      \/ \E s \in Sessions : e = Say("init", "none", NoId, s, "none", None, {}, 1)
      \/ \E i \in CallIds : e = Say("message", "functionCall", i, None, "none", None, {}, 1)
  BY GeminiSays
<1>7. e # Say("junk", "none", NoId, None, "none", None, {}, LineMax + 2)
  BY DEF Say
<1> HIDE DEF b
<1>8. Moves("gemini", a, e, b)
  BY <1>1, <1>2, <1>3, <1>4, <1>5, <1>6, <1>7 DEF b
<1> QED BY <1>8 DEF b

LEMMA Announcing ==
  ASSUME NEW a \in Accs, NEW e \in LineSet, NEW b, Plain(e), e.type \notin {"turn.failed", "error"},
         e.part \notin Responses, e.id \in CallIds, b = CopilotCall(a, e.id)
  PROVE  Moves("copilot", a, e, b)
<1>1. e.id # NoId /\ a.calls \in Seq(CallSet)
  BY AdaptersAssumption DEF Accs
<1>2. IF Has(a.calls, e.id) THEN FirstCall(a.calls, e.id) \in DOMAIN a.calls ELSE FirstCall(a.calls, e.id) = 0
  BY <1>1, Finding
<1>3. FirstCall(a.calls, e.id) # 0 <=> Has(a.calls, e.id)
  BY <1>1, <1>2
<1>4. CASE Has(a.calls, e.id)
  <2>1. b = a
    BY <1>1, <1>3, <1>4 DEF CopilotCall, Accs
  <2>2. ~IsWord(e) /\ e.sess = None
    BY DEF IsWord, Plain
  <2> QED BY <2>1, <2>2, <1>4 DEF Moves, CallsMove
<1>5. CASE ~Has(a.calls, e.id)
  <2>1. b = Called(a, e.id)
    BY <1>1, <1>3, <1>5 DEF CopilotCall, Called
  <2> QED BY <2>1, <1>5, Asking
<1> QED BY <1>4, <1>5

LEMMA CopilotSays ==
  ASSUME NEW e \in Vocabulary("copilot")
  PROVE  \/ e = Say("junk", "none", NoId, None, "none", None, {}, LineMax + 2)
         \/ e = Say("assistant.message", "text", NoId, None, "none", None, {}, 1)
         \/ e = Say("result", "none", NoId, None, "true", None, {}, 1)
         \/ e = Say("result", "none", NoId, None, "none", "vendor", {}, 1)
         \/ \E s \in Sessions : e = Say("result", "none", NoId, s, "false", None, {}, 1)
         \/ \E i \in CallIds : \/ e = Say("assistant.message", "toolRequests", i, None, "none", None, {}, 1)
                               \/ e = Say("tool.execution_start", "none", i, None, "none", None, {}, 1)
<1>1. \/ e \in {Big(Junk), Part("assistant.message", "text", NoId), Ends("result", None, "true", None),
               Ends("result", None, "none", "vendor")}
      \/ e \in {Ends("result", s, "false", None) : s \in Sessions}
      \/ e \in UNION {{Part("assistant.message", "toolRequests", i),
                       Part("tool.execution_start", "none", i)} : i \in CallIds}
  BY DEF Vocabulary
<1> QED BY <1>1, Saying

LEMMA CopilotMoves ==
  ASSUME NEW a \in Accs, NEW e \in Vocabulary("copilot"), e.type # "junk"
  PROVE  Moves("copilot", a, e, CopilotEvent(a, e))
<1> DEFINE b == CopilotEvent(a, e)
<1>1. CASE e = Say("assistant.message", "text", NoId, None, "none", None, {}, 1)
  <2>1. e \in LineSet /\ Plain(e) /\ e.type = "assistant.message" /\ e.part = "text" /\ e.id = NoId
    <3>1. "assistant.message" \in Words /\ "text" \in Words
      BY Wording
    <3> QED BY <1>1, <3>1, PartIs
  <2>2. b = Speak(a, e) /\ <<e.type, e.part>> \in Streaming["copilot"].first
    BY <2>1 DEF CopilotEvent, Streaming, CopilotStreaming
  <2> HIDE DEF b
  <2>3. Moves("copilot", a, e, b)
    BY <2>1, <2>2, Talking
  <2> QED BY <2>3 DEF b
<1>2. CASE e = Say("result", "none", NoId, None, "true", None, {}, 1)
  <2>1. /\ e \in LineSet /\ e.type = "result" /\ e.part = "none" /\ e.id = NoId
        /\ e.sess = None /\ e.bad = "true" /\ e.label = None
    <3>1. "result" \in Words /\ "none" \in Words /\ "true" \in Words
      BY Wording
    <3>2. None \in Words \union {None} /\ None \in Sessions \union {None}
      BY <3>1
    <3>3. Say("result", "none", NoId, None, "true", None, {}, 1) \in LineSet
      BY <3>1, <3>2, EndIs
    <3> QED BY <1>2, <3>3 DEF Say
  <2>2. b = [a EXCEPT !.session = a.session, !.bad = "true", !.label = a.label]
    BY <2>1 DEF CopilotEvent, Accs
  <2>3. IsWord(e)
    BY <2>1, AdaptersAssumption DEF IsWord, BadWord, Closes, Labels
  <2> HIDE DEF b
  <2>4. Sets(a, b, a.session, "true")
    <3>1. a.session \in Sessions \union {None} /\ "true" \in Words /\ a.label \in Words \union {None} /\ a.why \in SUBSET Words
      BY Wording DEF Accs
    <3> QED BY <2>2, <3>1, Setting
  <2>5. Moves("copilot", a, e, b)
    BY <2>1, <2>3, <2>4, Silent DEF Sets
  <2> QED BY <2>5 DEF b
<1>3. CASE e = Say("result", "none", NoId, None, "none", "vendor", {}, 1)
  <2>1. /\ e \in LineSet /\ e.type = "result" /\ e.part = "none" /\ e.id = NoId
        /\ e.sess = None /\ e.bad = "none" /\ e.label = "vendor"
    <3>1. "result" \in Words /\ "none" \in Words /\ "vendor" \in Words
      BY Wording
    <3>2. "vendor" \in Words \union {None} /\ None \in Sessions \union {None}
      BY <3>1
    <3>3. Say("result", "none", NoId, None, "none", "vendor", {}, 1) \in LineSet
      BY <3>1, <3>2, EndIs
    <3> QED BY <1>3, <3>3 DEF Say
  <2>2. b = [a EXCEPT !.session = a.session, !.bad = "true", !.label = "vendor"]
    BY <2>1, AdaptersAssumption DEF CopilotEvent, Accs, Labels
  <2>3. IsWord(e)
    BY <2>1, AdaptersAssumption DEF IsWord, BadWord, Closes, Labels
  <2> HIDE DEF b
  <2>4. Sets(a, b, a.session, "true")
    <3>1. a.session \in Sessions \union {None} /\ "true" \in Words /\ "vendor" \in Words \union {None} /\ a.why \in SUBSET Words
      BY Wording DEF Accs
    <3> QED BY <2>2, <3>1, Setting
  <2>5. Moves("copilot", a, e, b)
    BY <2>1, <2>3, <2>4, Silent DEF Sets
  <2> QED BY <2>5 DEF b
<1>4. ASSUME NEW s \in Sessions, e = Say("result", "none", NoId, s, "false", None, {}, 1)
      PROVE  Moves("copilot", a, e, b)
  <2>1. /\ e \in LineSet /\ e.type = "result" /\ e.part = "none" /\ e.id = NoId
        /\ e.sess = s /\ e.bad = "false" /\ e.label = None
    <3>1. "result" \in Words /\ "none" \in Words /\ "false" \in Words
      BY Wording
    <3>2. None \in Words \union {None} /\ s \in Sessions \union {None}
      BY <3>1
    <3>3. Say("result", "none", NoId, s, "false", None, {}, 1) \in LineSet
      BY <3>1, <3>2, EndIs
    <3> QED BY <1>4, <3>3 DEF Say
  <2>2. b = [a EXCEPT !.session = s, !.bad = "false", !.label = a.label]
    BY <2>1, AdaptersAssumption DEF CopilotEvent, Accs
  <2>3. IsWord(e) /\ ~BadWord(e) /\ s # None
    BY <2>1, AdaptersAssumption DEF IsWord, BadWord, Closes, Labels
  <2> HIDE DEF b
  <2>4. Sets(a, b, s, "false")
    <3>1. a.session \in Sessions \union {None} /\ "false" \in Words /\ a.label \in Words \union {None} /\ a.why \in SUBSET Words
      BY Wording DEF Accs
    <3> QED BY <2>2, <3>1, Setting
  <2>5. Moves("copilot", a, e, b)
    BY <2>1, <2>3, <2>4, Silent DEF Sets
  <2> QED BY <2>5 DEF b
<1>5. ASSUME NEW i \in CallIds, e = Say("assistant.message", "toolRequests", i, None, "none", None, {}, 1)
      PROVE  Moves("copilot", a, e, b)
  <2>1. e \in LineSet /\ Plain(e) /\ e.type = "assistant.message" /\ e.part = "toolRequests" /\ e.id = i
    <3>1. "assistant.message" \in Words /\ "toolRequests" \in Words
      BY Wording
    <3> QED BY <1>5, <3>1, PartIs
  <2>2. b = CopilotCall(a, i) /\ e.part \notin Responses
    BY <2>1 DEF CopilotEvent, Responses
  <2> HIDE DEF b
  <2> QED BY <2>1, <2>2, Announcing
<1>6. ASSUME NEW i \in CallIds, e = Say("tool.execution_start", "none", i, None, "none", None, {}, 1)
      PROVE  Moves("copilot", a, e, b)
  <2>1. e \in LineSet /\ Plain(e) /\ e.type = "tool.execution_start" /\ e.part = "none" /\ e.id = i
    <3>1. "tool.execution_start" \in Words /\ "none" \in Words
      BY Wording
    <3> QED BY <1>6, <3>1, PartIs
  <2>2. b = CopilotCall(a, i) /\ e.part \notin Responses
    BY <2>1 DEF CopilotEvent, Responses
  <2> HIDE DEF b
  <2> QED BY <2>1, <2>2, Announcing
<1>7. \/ e = Say("junk", "none", NoId, None, "none", None, {}, LineMax + 2)
      \/ e = Say("assistant.message", "text", NoId, None, "none", None, {}, 1)
      \/ e = Say("result", "none", NoId, None, "true", None, {}, 1)
      \/ e = Say("result", "none", NoId, None, "none", "vendor", {}, 1)
      \/ \E s \in Sessions : e = Say("result", "none", NoId, s, "false", None, {}, 1)
      \/ \E i \in CallIds : \/ e = Say("assistant.message", "toolRequests", i, None, "none", None, {}, 1)
                            \/ e = Say("tool.execution_start", "none", i, None, "none", None, {}, 1)
  BY CopilotSays
<1>8. e # Say("junk", "none", NoId, None, "none", None, {}, LineMax + 2)
  BY DEF Say
<1> HIDE DEF b
<1>9. Moves("copilot", a, e, b)
  BY <1>1, <1>2, <1>3, <1>4, <1>5, <1>6, <1>7, <1>8 DEF b
<1> QED BY <1>9 DEF b

LEMMA CursorSays ==
  ASSUME NEW e \in Vocabulary("cursor")
  PROVE  \/ e = Say("junk", "none", NoId, None, "none", None, {}, LineMax + 2)
         \/ e = Say("result", "text", NoId, None, "true", None, {}, 1)
         \/ \E s \in Sessions : e = Say("result", "text", NoId, s, "false", None, {}, 1)
         \/ \E i \in CallIds : \/ e = Say("tool_call", "started", i, None, "none", None, {}, 1)
                               \/ e = Say("tool_call", "completed", i, None, "none", None, {}, 1)
<1>1. \/ e \in {Big(Junk), [Ends("result", None, "true", None) EXCEPT !.part = "text"]}
      \/ e \in {[Ends("result", s, "false", None) EXCEPT !.part = "text"] : s \in Sessions}
      \/ e \in UNION {{Part("tool_call", "started", i), Part("tool_call", "completed", i)} : i \in CallIds}
  BY DEF Vocabulary
<1> QED BY <1>1, Saying

LEMMA CursorMoves ==
  ASSUME NEW a \in Accs, NEW e \in Vocabulary("cursor"), e.type # "junk"
  PROVE  Moves("cursor", a, e, CursorEvent(a, e))
<1> DEFINE b == CursorEvent(a, e)
<1>1. ASSUME NEW s \in Sessions \union {None}, NEW w \in {"true", "false"}, e = Say("result", "text", NoId, s, w, None, {}, 1)
      PROVE  Moves("cursor", a, e, b)
  <2>1. /\ e \in LineSet /\ e.type = "result" /\ e.part = "text" /\ e.id = NoId
        /\ e.label = None /\ e.bad = w /\ e.sess = s
    <3>1. w \in Words /\ "result" \in Words /\ "text" \in Words /\ None \in Words \union {None}
      BY Wording
    <3>2. Say("result", "text", NoId, s, w, None, {}, 1) \in LineSet
      BY <3>1, EndIs
    <3> QED BY <1>1, <3>2 DEF Say
  <2> DEFINE c == [a EXCEPT !.session = s, !.bad = w]
  <2>2. b \in {c, Speak(c, e)}
    BY <2>1 DEF CursorEvent
  <2>3. Closes(e) /\ (BadWord(e) => w = "true") /\ IsWord(e)
    BY <2>1 DEF IsWord, BadWord, Closes
  <2>4. Sets(a, c, s, w)
    <3>1. w \in Words /\ a.label \in Words \union {None} /\ a.why \in SUBSET Words
      BY Wording DEF Accs
    <3> QED BY <3>1, Setting
  <2> HIDE DEF b, c
  <2>5. b \in Accs /\ b.calls = a.calls /\ b.session = s /\ b.bad = w
    BY <2>1, <2>2, <2>4, Speaking DEF Sets
  <2> QED BY <2>1, <2>3, <2>5, Silent
<1>2. ASSUME NEW i \in CallIds, e = Say("tool_call", "started", i, None, "none", None, {}, 1)
      PROVE  Moves("cursor", a, e, b)
  <2>1. e \in LineSet /\ Plain(e) /\ e.type = "tool_call" /\ e.part = "started" /\ e.id = i
    <3>1. "tool_call" \in Words /\ "started" \in Words
      BY Wording
    <3> QED BY <1>2, <3>1, PartIs
  <2>2. b = Called(a, e.id) /\ e.part \notin Responses
    BY <2>1 DEF CursorEvent, Responses, CursorToolCall
  <2> QED BY <2>1, <2>2, Asking
<1>3. ASSUME NEW i \in CallIds, e = Say("tool_call", "completed", i, None, "none", None, {}, 1)
      PROVE  Moves("cursor", a, e, b)
  <2>1. e \in LineSet /\ Plain(e) /\ e.type = "tool_call" /\ e.part = "completed" /\ e.id = i
    <3>1. "tool_call" \in Words /\ "completed" \in Words
      BY Wording
    <3> QED BY <1>3, <3>1, PartIs
  <2>2. b = [a EXCEPT !.calls = Answer(@, FirstCall(a.calls, i), i)] /\ e.part \notin Requests("cursor")
    BY <2>1 DEF CursorEvent, Requests, Accs, Counted, CursorToolCall
  <2> QED BY <2>1, <2>2, Hearing
<1>4. \/ e = Say("junk", "none", NoId, None, "none", None, {}, LineMax + 2)
      \/ e = Say("result", "text", NoId, None, "true", None, {}, 1)
      \/ \E s \in Sessions : e = Say("result", "text", NoId, s, "false", None, {}, 1)
      \/ \E i \in CallIds : \/ e = Say("tool_call", "started", i, None, "none", None, {}, 1)
                            \/ e = Say("tool_call", "completed", i, None, "none", None, {}, 1)
  BY CursorSays
<1>5. e # Say("junk", "none", NoId, None, "none", None, {}, LineMax + 2)
  BY DEF Say
<1> HIDE DEF b
<1>6. Moves("cursor", a, e, b)
  BY <1>1, <1>2, <1>3, <1>4, <1>5 DEF b
<1> QED BY <1>6 DEF b

LEMMA OpenCodeSays ==
  ASSUME NEW e \in Vocabulary("opencode")
  PROVE  \/ e = Say("junk", "none", NoId, None, "none", None, {}, LineMax + 2)
         \/ e = Say("text", "text", NoId, None, "none", None, {}, 1)
         \/ e = Say("step_finish", "none", NoId, None, "none", None, {}, 1)
         \/ e = Say("error", "none", NoId, None, "none", "vendor", {}, 1)
         \/ \E s \in Sessions : e = Say("step_start", "none", NoId, s, "none", None, {}, 1)
         \/ \E i \in CallIds : \/ e = Say("tool_use", "none", i, None, "none", None, {}, 1)
                               \/ e = Say("tool_use", "output", i, None, "none", None, {}, 1)
<1>1. \/ e \in {Big(Junk), Part("text", "text", NoId), Line("step_finish"),
               [Line("error") EXCEPT !.label = "vendor"]}
      \/ e \in {Names("step_start", s) : s \in Sessions}
      \/ e \in UNION {{Part("tool_use", "none", i), Part("tool_use", "output", i)} : i \in CallIds}
  BY DEF Vocabulary
<1> QED BY <1>1, Saying

LEMMA OpenCodeMoves ==
  ASSUME NEW a \in Accs, NEW e \in Vocabulary("opencode"), e.type # "junk"
  PROVE  Moves("opencode", a, e, OpenCodeEvent(a, e))
<1> DEFINE b == OpenCodeEvent(a, e)
<1>1. CASE e = Say("text", "text", NoId, None, "none", None, {}, 1)
  <2>1. e \in LineSet /\ Plain(e) /\ e.type = "text" /\ e.part = "text" /\ e.id = NoId
    <3>1. "text" \in Words
      BY Wording
    <3> QED BY <1>1, <3>1, PartIs
  <2>2. b = Speak(a, e) /\ <<e.type, e.part>> \in Streaming["opencode"].first
    BY <2>1 DEF OpenCodeEvent, Streaming, OpenCodeStreaming
  <2> HIDE DEF b
  <2>3. Moves("opencode", a, e, b)
    BY <2>1, <2>2, Talking
  <2> QED BY <2>3 DEF b
<1>2. CASE e = Say("step_finish", "none", NoId, None, "none", None, {}, 1)
  <2>1. e \in LineSet /\ Plain(e) /\ e.type = "step_finish" /\ e.part = "none" /\ e.id = NoId
    <3>1. "step_finish" \in Words /\ "none" \in Words
      BY Wording
    <3> QED BY <1>2, <3>1, PartIs
  <2>2. b = Counted(a)
    BY <2>1 DEF OpenCodeEvent
  <2> HIDE DEF b
  <2>3. Moves("opencode", a, e, b)
    BY <2>1, <2>2, Talking
  <2> QED BY <2>3 DEF b
<1>3. CASE e = Say("error", "none", NoId, None, "none", "vendor", {}, 1)
  <2>1. /\ e \in LineSet /\ e.type = "error" /\ e.part = "none" /\ e.id = NoId
        /\ e.sess = None /\ e.bad = "none" /\ e.label = "vendor"
    <3>1. "error" \in Words /\ "none" \in Words /\ "vendor" \in Words
      BY Wording
    <3>2. "vendor" \in Words \union {None} /\ None \in Sessions \union {None}
      BY <3>1
    <3>3. Say("error", "none", NoId, None, "none", "vendor", {}, 1) \in LineSet
      BY <3>1, <3>2, EndIs
    <3> QED BY <1>3, <3>3 DEF Say
  <2>2. b = [a EXCEPT !.bad = "true", !.label = "vendor"]
    BY <2>1 DEF OpenCodeEvent
  <2>3. IsWord(e)
    BY <2>1, AdaptersAssumption DEF IsWord, BadWord, Closes, Labels
  <2> HIDE DEF b
  <2>4. Sets(a, b, a.session, "true")
    <3>1. a.session \in Sessions \union {None} /\ "true" \in Words /\ "vendor" \in Words \union {None} /\ a.why \in SUBSET Words
      BY Wording DEF Accs
    <3> QED BY <2>2, <3>1, Setting
  <2>5. Moves("opencode", a, e, b)
    BY <2>1, <2>3, <2>4, Silent DEF Sets
  <2> QED BY <2>5 DEF b
<1>4. ASSUME NEW s \in Sessions, e = Say("step_start", "none", NoId, s, "none", None, {}, 1)
      PROVE  Moves("opencode", a, e, b)
  <2>1. /\ e \in LineSet /\ e.type = "step_start" /\ e.part = "none" /\ e.id = NoId
        /\ e.sess = s /\ e.bad = "none" /\ e.label = None
    <3>1. "step_start" \in Words /\ "none" \in Words
      BY Wording
    <3>2. None \in Words \union {None} /\ s \in Sessions \union {None}
      BY <3>1
    <3>3. Say("step_start", "none", NoId, s, "none", None, {}, 1) \in LineSet
      BY <3>1, <3>2, EndIs
    <3> QED BY <1>4, <3>3 DEF Say
  <2>2. b = [a EXCEPT !.session = IF a.session = None THEN s ELSE a.session]
    BY <2>1 DEF OpenCodeEvent, Accs
  <2>3. ~IsWord(e) /\ s # None
    BY <2>1, AdaptersAssumption DEF IsWord, BadWord, Closes, Labels
  <2> HIDE DEF b
  <2>4. Sets(a, b, (IF a.session = None THEN s ELSE a.session), a.bad)
    <3>1. (IF a.session = None THEN s ELSE a.session) \in Sessions \union {None}
          /\ a.bad \in Words /\ a.label \in Words \union {None} /\ a.why \in SUBSET Words
      BY Wording DEF Accs
    <3> QED BY <2>2, <3>1, Setting
  <2>5. Moves("opencode", a, e, b)
    BY <2>1, <2>3, <2>4, Silent DEF Sets
  <2> QED BY <2>5 DEF b
<1>5. ASSUME NEW i \in CallIds, e = Say("tool_use", "none", i, None, "none", None, {}, 1)
      PROVE  Moves("opencode", a, e, b)
  <2>1. e \in LineSet /\ Plain(e) /\ e.type = "tool_use" /\ e.part = "none" /\ e.id = i
    <3>1. "tool_use" \in Words /\ "none" \in Words
      BY Wording
    <3> QED BY <1>5, <3>1, PartIs
  <2>2. b = Called(a, e.id) /\ e.part \notin Responses
    BY <2>1 DEF OpenCodeEvent, Responses
  <2> QED BY <2>1, <2>2, Asking
<1>6. ASSUME NEW i \in CallIds, e = Say("tool_use", "output", i, None, "none", None, {}, 1)
      PROVE  Moves("opencode", a, e, b)
  <2>1. e \in LineSet /\ Plain(e) /\ e.type = "tool_use" /\ e.part = "output" /\ e.id = i
    <3>1. "tool_use" \in Words /\ "output" \in Words
      BY Wording
    <3> QED BY <1>6, <3>1, PartIs
  <2> DEFINE c == Called(a, i)
             l == Append(a.calls, [id |-> i, result |-> i])
  <2>2. b = [c EXCEPT !.calls = Answer(c.calls, Len(c.calls), i)] /\ e.part \notin Responses
    BY <2>1 DEF OpenCodeEvent, Responses
  <2> HIDE DEF b, c
  <2>3. /\ c \in Accs /\ c.calls = Append(a.calls, [id |-> i, result |-> NoId])
        /\ c.spoke = a.spoke /\ c.session = a.session /\ c.bad = a.bad
    BY Calling DEF c
  <2>4. Answer(c.calls, Len(c.calls), i) = l /\ l \in Seq(CallSet)
    <3>1. [id |-> i, result |-> NoId] \in CallSet /\ [id |-> i, result |-> i] \in CallSet /\ a.calls \in Seq(CallSet)
      BY DEF CallSet, Accs
    <3>2. Len(c.calls) = Len(a.calls) + 1 /\ c.calls[Len(a.calls) + 1] = [id |-> i, result |-> NoId]
      BY <2>3, <3>1
    <3>3. Answer(c.calls, Len(c.calls), i) = [c.calls EXCEPT ![Len(a.calls) + 1] = [id |-> i, result |-> i]]
      BY <3>1, <3>2 DEF Answer
    <3> DEFINE x == c.calls
               y == [x EXCEPT ![Len(a.calls) + 1] = [id |-> i, result |-> i]]
    <3>4. x \in Seq(CallSet) /\ l \in Seq(CallSet) /\ Len(l) = Len(x)
      BY <2>3, <3>1, <3>2
    <3>5. y \in Seq(CallSet) /\ Len(y) = Len(x)
      BY <3>1, <3>4
    <3>6. ASSUME NEW j \in 1..Len(x) PROVE y[j] = l[j]
      <4> DEFINE n == Len(a.calls)
      <4>1. n \in Nat /\ Len(x) = n + 1 /\ j \in 1..(n + 1)
        BY <3>1, <3>2
      <4>2. y[j] = IF j = n + 1 THEN [id |-> i, result |-> i] ELSE x[j]
        BY <3>4
      <4>3. l[n + 1] = [id |-> i, result |-> i]
        BY <3>1
      <4>4. ASSUME j # n + 1 PROVE x[j] = l[j]
        <5>1. j \in 1..Len(a.calls)
          BY <4>1, <4>4
        <5>2. x[j] = a.calls[j] /\ l[j] = a.calls[j]
          BY <5>1, <2>3, <3>1
        <5> QED BY <5>2
      <4> HIDE DEF x, y, l, n
      <4> QED BY <4>2, <4>3, <4>4
    <3> HIDE DEF x, y, l
    <3>7. y = l
      BY <3>4, <3>5, <3>6, SeqEqual
    <3> QED BY <3>3, <3>4, <3>7 DEF x, y
  <2> HIDE DEF l
  <2>5. b \in Accs /\ b.spoke = a.spoke /\ b.session = a.session /\ b.bad = a.bad /\ b.calls = l
    BY <2>2, <2>3, <2>4, Relisting
  <2>6. ~IsWord(e) /\ e.sess = None
    BY <2>1 DEF IsWord, Plain
  <2> QED BY <2>1, <2>2, <2>5, <2>6 DEF l, Moves, CallsMove
<1>7. \/ e = Say("junk", "none", NoId, None, "none", None, {}, LineMax + 2)
      \/ e = Say("text", "text", NoId, None, "none", None, {}, 1)
      \/ e = Say("step_finish", "none", NoId, None, "none", None, {}, 1)
      \/ e = Say("error", "none", NoId, None, "none", "vendor", {}, 1)
      \/ \E s \in Sessions : e = Say("step_start", "none", NoId, s, "none", None, {}, 1)
      \/ \E i \in CallIds : \/ e = Say("tool_use", "none", i, None, "none", None, {}, 1)
                            \/ e = Say("tool_use", "output", i, None, "none", None, {}, 1)
  BY OpenCodeSays
<1>8. e # Say("junk", "none", NoId, None, "none", None, {}, LineMax + 2)
  BY DEF Say
<1> HIDE DEF b
<1>9. Moves("opencode", a, e, b)
  BY <1>1, <1>2, <1>3, <1>4, <1>5, <1>6, <1>7, <1>8 DEF b
<1> QED BY <1>9 DEF b

-----------------------------------------------------------------------------
(* All of them.                                                            *)

LEMMA CutsAre ==
  ASSUME NEW e \in Cut
  PROVE  /\ e.type = "junk" /\ e.part = "none" /\ e.id = NoId /\ Plain(e)
         /\ e.size \in Nat /\ e.marks \in SUBSET Words /\ ~Closes(e) /\ ~IsWord(e)
BY DEF Cut, Say, Plain, Closes, IsWord

LEMMA LinesAre ==
  ASSUME NEW ad \in Adapters, NEW e \in Vocabulary(ad)
  PROVE  /\ e.size \in Nat /\ e.marks \in SUBSET Words /\ e.sess \in Sessions \union {None}
         /\ e.type = "junk" => e \in Cut
         /\ ad \in {"claude", "cursor"} /\ e.sess # None => Closes(e)
<1>1. LineMax + 2 \in Nat /\ 1 \in Nat /\ {} \in SUBSET Words /\ {"auth", "rate"} \in SUBSET Words
  BY AgentTurnAssumption, Wording
<1>2. Say("junk", "none", NoId, None, "none", None, {}, LineMax + 2) \in Cut
  BY <1>1 DEF Cut
<1>3. CASE ad = "claude"
  <2>1. e \in Vocabulary("claude")
    BY <1>3
  <2>2. e.size \in Nat /\ e.marks \in SUBSET Words
    BY <2>1, <1>1, ClaudeSays DEF Say
  <2>3. e.sess \in Sessions \union {None}
    BY <2>1, ClaudeSays DEF Say
  <2>4. e.type = "junk" => e \in Cut
    <3>1. e.type # "junk" \/ e = Say("junk", "none", NoId, None, "none", None, {}, LineMax + 2)
      BY <2>1, ClaudeSays DEF Say
    <3> QED BY <3>1, <1>2
  <2>5. ad \in {"claude", "cursor"} /\ e.sess # None => Closes(e)
    BY <2>1, ClaudeSays DEF Say, Closes
  <2> QED BY <2>2, <2>3, <2>4, <2>5
<1>4. CASE ad = "codex"
  <2>1. e \in Vocabulary("codex")
    BY <1>4
  <2>2. e.size \in Nat /\ e.marks \in SUBSET Words
    BY <2>1, <1>1, CodexSays DEF Say
  <2>3. e.sess \in Sessions \union {None}
    BY <2>1, CodexSays DEF Say
  <2>4. e.type = "junk" => e \in Cut
    <3>1. e.type # "junk" \/ e = Say("junk", "none", NoId, None, "none", None, {}, LineMax + 2)
      BY <2>1, CodexSays DEF Say
    <3> QED BY <3>1, <1>2
  <2>5. ad \in {"claude", "cursor"} /\ e.sess # None => Closes(e)
    BY <1>4
  <2> QED BY <2>2, <2>3, <2>4, <2>5
<1>5. CASE ad = "copilot"
  <2>1. e \in Vocabulary("copilot")
    BY <1>5
  <2>2. e.size \in Nat /\ e.marks \in SUBSET Words
    BY <2>1, <1>1, CopilotSays DEF Say
  <2>3. e.sess \in Sessions \union {None}
    BY <2>1, CopilotSays DEF Say
  <2>4. e.type = "junk" => e \in Cut
    <3>1. e.type # "junk" \/ e = Say("junk", "none", NoId, None, "none", None, {}, LineMax + 2)
      BY <2>1, CopilotSays DEF Say
    <3> QED BY <3>1, <1>2
  <2>5. ad \in {"claude", "cursor"} /\ e.sess # None => Closes(e)
    BY <1>5
  <2> QED BY <2>2, <2>3, <2>4, <2>5
<1>6. CASE ad = "cursor"
  <2>1. e \in Vocabulary("cursor")
    BY <1>6
  <2>2. e.size \in Nat /\ e.marks \in SUBSET Words
    BY <2>1, <1>1, CursorSays DEF Say
  <2>3. e.sess \in Sessions \union {None}
    BY <2>1, CursorSays DEF Say
  <2>4. e.type = "junk" => e \in Cut
    <3>1. e.type # "junk" \/ e = Say("junk", "none", NoId, None, "none", None, {}, LineMax + 2)
      BY <2>1, CursorSays DEF Say
    <3> QED BY <3>1, <1>2
  <2>5. ad \in {"claude", "cursor"} /\ e.sess # None => Closes(e)
    BY <2>1, CursorSays DEF Say, Closes
  <2> QED BY <2>2, <2>3, <2>4, <2>5
<1>7. CASE ad = "goose"
  <2>1. e \in Vocabulary("goose")
    BY <1>7
  <2>2. e.size \in Nat /\ e.marks \in SUBSET Words
    BY <2>1, <1>1, GooseSays DEF Say
  <2>3. e.sess \in Sessions \union {None}
    BY <2>1, GooseSays DEF Say
  <2>4. e.type = "junk" => e \in Cut
    <3>1. e.type # "junk" \/ e = Say("junk", "none", NoId, None, "none", None, {}, LineMax + 2)
      BY <2>1, GooseSays DEF Say
    <3> QED BY <3>1, <1>2
  <2>5. ad \in {"claude", "cursor"} /\ e.sess # None => Closes(e)
    BY <1>7
  <2> QED BY <2>2, <2>3, <2>4, <2>5
<1>8. CASE ad = "opencode"
  <2>1. e \in Vocabulary("opencode")
    BY <1>8
  <2>2. e.size \in Nat /\ e.marks \in SUBSET Words
    BY <2>1, <1>1, OpenCodeSays DEF Say
  <2>3. e.sess \in Sessions \union {None}
    BY <2>1, OpenCodeSays DEF Say
  <2>4. e.type = "junk" => e \in Cut
    <3>1. e.type # "junk" \/ e = Say("junk", "none", NoId, None, "none", None, {}, LineMax + 2)
      BY <2>1, OpenCodeSays DEF Say
    <3> QED BY <3>1, <1>2
  <2>5. ad \in {"claude", "cursor"} /\ e.sess # None => Closes(e)
    BY <1>8
  <2> QED BY <2>2, <2>3, <2>4, <2>5
<1>9. CASE ad = "gemini"
  <2>1. e \in Vocabulary("gemini")
    BY <1>9
  <2>2. e.size \in Nat /\ e.marks \in SUBSET Words
    BY <2>1, <1>1, GeminiSays DEF Say
  <2>3. e.sess \in Sessions \union {None}
    BY <2>1, GeminiSays DEF Say
  <2>4. e.type = "junk" => e \in Cut
    <3>1. e.type # "junk" \/ e = Say("junk", "none", NoId, None, "none", None, {}, LineMax + 2)
      BY <2>1, GeminiSays DEF Say
    <3> QED BY <3>1, <1>2
  <2>5. ad \in {"claude", "cursor"} /\ e.sess # None => Closes(e)
    BY <1>9
  <2> QED BY <2>2, <2>3, <2>4, <2>5
<1> QED BY <1>3, <1>4, <1>5, <1>6, <1>7, <1>8, <1>9 DEF Adapters

LEMMA EventMoves ==
  ASSUME NEW ad \in Adapters, NEW a \in Accs, NEW e \in Vocabulary(ad), e.type # "junk"
  PROVE  Moves(ad, a, e, Event(ad, a, e))
<1>1. CASE ad = "claude"
  <2>1. e \in Vocabulary("claude") /\ Event(ad, a, e) = ClaudeEvent(a, e)
    BY <1>1 DEF Event
  <2> QED BY <2>1, <1>1, ClaudeMoves
<1>2. CASE ad = "codex"
  <2>1. e \in Vocabulary("codex") /\ Event(ad, a, e) = CodexEvent(a, e)
    BY <1>2 DEF Event
  <2> QED BY <2>1, <1>2, CodexMoves
<1>3. CASE ad = "copilot"
  <2>1. e \in Vocabulary("copilot") /\ Event(ad, a, e) = CopilotEvent(a, e)
    BY <1>3 DEF Event
  <2> QED BY <2>1, <1>3, CopilotMoves
<1>4. CASE ad = "cursor"
  <2>1. e \in Vocabulary("cursor") /\ Event(ad, a, e) = CursorEvent(a, e)
    BY <1>4 DEF Event
  <2> QED BY <2>1, <1>4, CursorMoves
<1>5. CASE ad = "goose"
  <2>1. e \in Vocabulary("goose") /\ Event(ad, a, e) = GooseEvent(a, e)
    BY <1>5 DEF Event
  <2> QED BY <2>1, <1>5, GooseMoves
<1>6. CASE ad = "opencode"
  <2>1. e \in Vocabulary("opencode") /\ Event(ad, a, e) = OpenCodeEvent(a, e)
    BY <1>6 DEF Event
  <2> QED BY <2>1, <1>6, OpenCodeMoves
<1>7. CASE ad = "gemini"
  <2>1. e \in Vocabulary("gemini") /\ Event(ad, a, e) = GeminiEvent(a, e)
    BY <1>7 DEF Event
  <2> QED BY <2>1, <1>7, GeminiMoves
<1> QED BY <1>1, <1>2, <1>3, <1>4, <1>5, <1>6, <1>7 DEF Adapters

-----------------------------------------------------------------------------
(* What is in the pipes, and what belt has read.                           *)

Said == Vocabulary(adapter) \union Cut

SaidInv ==
  /\ adapter \in Adapters /\ tone \in SUBSET Words
  /\ out \in Seq(Vocabulary(adapter)) /\ err \in Seq(Cut)
  /\ lines \in Seq(Said) /\ errLines \in Seq(Cut) /\ raw \in Seq(Said)
  /\ at = "ready" => out = <<>> /\ lines = <<>>

LEMMA Clipping ==
  ASSUME adapter \in Adapters, NEW l \in Vocabulary(adapter)
  PROVE  Clip(l) \in Said
<1>1. CASE l.size > LineMax
  <2>1. LineMax + 1 \in Nat /\ l.marks \in SUBSET Words
    BY AgentTurnAssumption, LinesAre
  <2>2. Clip(l) = [[Junk EXCEPT !.size = LineMax + 1] EXCEPT !.marks = l.marks]
    BY <1>1 DEF Clip, Junk, Line
  <2>3. Junk = Say("junk", "none", NoId, None, "none", None, {}, 1)
    BY Saying DEF Junk
  <2>4. Clip(l) = Say("junk", "none", NoId, None, "none", None, l.marks, LineMax + 1)
    <3>1. [Junk EXCEPT !.size = LineMax + 1] = Say("junk", "none", NoId, None, "none", None, {}, LineMax + 1)
      BY <2>3 DEF Say
    <3> QED BY ZenonT(40), <2>2, <3>1 DEF Say
  <2> QED BY <2>1, <2>4 DEF Said, Cut
<1>2. CASE ~(l.size > LineMax)
  BY <1>2 DEF Clip, Said
<1> QED BY <1>1, <1>2

LEMMA Junking == Junk \in Cut /\ \A m \in SUBSET Words : [Junk EXCEPT !.marks = m] \in Cut
<1>1. Junk = Say("junk", "none", NoId, None, "none", None, {}, 1) /\ 1 \in Nat /\ {} \in SUBSET Words
  BY Saying DEF Junk
<1>2. \A m : [Junk EXCEPT !.marks = m] = Say("junk", "none", NoId, None, "none", None, m, 1)
  BY <1>1 DEF Say
<1> QED BY <1>1, <1>2 DEF Cut

(* The line that the loop gets: a line of the vocabulary, or a cut one.    *)
LEMMA Yielding ==
  ASSUME adapter \in Adapters, out \in Seq(Vocabulary(adapter)), ReadLine
  PROVE  \E y \in Said : /\ y = Head(out) \/ y \in Cut
                         /\ lines' = Append(lines, y) /\ SinkWrite(y) /\ FirstToken(y)
<1> DEFINE l == Clip(Head(out))
           y == IF SizeOf(lines) + l.size <= streamMax THEN l ELSE Junk
<1>1. Head(out) \in Vocabulary(adapter)
  BY DEF ReadLine
<1>2. l \in Said /\ (l = Head(out) \/ l \in Cut)
  <2>1. l \in Said
    BY <1>1, Clipping
  <2>2. CASE Head(out).size > LineMax
    <3>1. l.type = "junk"
      BY <2>2 DEF Clip, Junk, Line
    <3>2. l \in Cut
      BY <2>1, <3>1, LinesAre DEF Said
    <3> QED BY <2>1, <3>2
  <2>3. CASE ~(Head(out).size > LineMax)
    BY <2>1, <2>3 DEF Clip
  <2> QED BY <2>2, <2>3
<1>3. y \in Said /\ (y = Head(out) \/ y \in Cut)
  BY <1>2, Junking DEF Said
<1>4. lines' = Append(lines, y) /\ SinkWrite(y) /\ FirstToken(y)
  BY DEF ReadLine
<1> HIDE DEF y
<1> QED BY <1>3, <1>4

LEMMA SaidFollows == AgentSpec => []SaidInv
<1>1. AgentInit => SaidInv
  BY AgentTurnAssumption DEF AgentInit, SaidInv
<1>2. ASSUME SaidInv, [AgentNext]_agentVars PROVE SaidInv'
  <2> DEFINE V == Vocabulary(adapter)
  <2> USE DEF turnVars, pipeVars, readVars
  <2>0. adapter' = adapter => Vocabulary(adapter)' = V /\ Said' = Said
    BY DEF Said, Vocabulary
  <2> DEFINE S == Said
  <2>1. /\ adapter \in Adapters /\ tone \in SUBSET Words /\ out \in Seq(V) /\ err \in Seq(Cut)
        /\ lines \in Seq(S) /\ errLines \in Seq(Cut) /\ raw \in Seq(S)
        /\ at = "ready" => out = <<>> /\ lines = <<>>
    BY <1>2 DEF SaidInv
  <2>2. ASSUME /\ adapter' = adapter /\ tone' \in SUBSET Words /\ out' \in Seq(V) /\ err' \in Seq(Cut)
               /\ lines' \in Seq(S) /\ errLines' \in Seq(Cut) /\ raw' \in Seq(S)
               /\ at' = "ready" => out' = <<>> /\ lines' = <<>>
        PROVE  SaidInv'
    BY <2>0, <2>1, <2>2 DEF SaidInv
  <2> HIDE DEF V, S
  <2>3. CASE ChildStep
    <3>1. at \in Looking /\ at' = at
      BY <2>3, ChildKeepsAway
    <3>2. at' # "ready"
      BY <3>1 DEF Looking
    <3>3. CASE ChildPrints
      <4>1. PICK l \in V : out' = Append(out, l)
        BY <3>3 DEF ChildPrints, V
      <4>2. UNCHANGED <<adapter, tone, err, lines, errLines, raw>>
        BY <3>3 DEF ChildPrints
      <4>3. out' \in Seq(V)
        BY <4>1, <2>1
      <4> QED BY <2>1, <2>2, <3>2, <4>2, <4>3
    <3>4. CASE ChildComplains
      <4>1. /\ err' = Append(err, [Junk EXCEPT !.marks = tone])
            /\ UNCHANGED <<adapter, tone, out, lines, errLines, raw>>
        BY <3>4 DEF ChildComplains
      <4>2. [Junk EXCEPT !.marks = tone] \in Cut
        BY <2>1, Junking
      <4>3. err' \in Seq(Cut)
        BY <4>1, <4>2, <2>1
      <4> QED BY <2>1, <2>2, <3>2, <4>1, <4>3
    <3>5. CASE ChildClosesOutput \/ ChildEnds \/ ChildCrashes \/ HeirEnds
      <4>1. UNCHANGED <<adapter, tone, out, err, lines, errLines, raw>>
        BY <3>5 DEF ChildClosesOutput, ChildEnds, ChildCrashes, Leave, HeirEnds
      <4> QED BY <2>1, <2>2, <3>2, <4>1
    <3> QED BY <2>3, <3>3, <3>4, <3>5 DEF ChildStep
  <2>4. CASE Spawn
    <3>1. /\ at = "ready" /\ at' # "ready" /\ raw' = <<>>
          /\ UNCHANGED <<adapter, out, err, lines, errLines>>
      BY <2>4 DEF Spawn
    <3>2. tone' \in SUBSET Words
      <4>1. Tones \subseteq SUBSET Words
        BY Wording DEF Tones, Words
      <4>2. tone' = tone \/ tone' \in {{}} \/ tone' \in Tones
        BY <2>4 DEF Spawn
      <4> QED BY <4>1, <4>2, <2>1
    <3> QED BY <2>1, <2>2, <3>1, <3>2
  <2>5. CASE ReadLine
    <3>1. /\ out # <<>> /\ out' = Tail(out) /\ UNCHANGED <<adapter, tone, err, errLines, raw>>
          /\ at' # "ready"
      BY <2>5 DEF ReadLine
    <3>2. PICK y \in S : lines' = Append(lines, y)
      BY <2>1, <2>5, Yielding DEF S, V
    <3>3. lines' \in Seq(S) /\ out' \in Seq(V)
      BY <2>1, <3>1, <3>2
    <3> QED BY <2>1, <2>2, <3>1, <3>3
  <2>6. CASE ReadBreaks \/ DropLine
    <3>1. /\ out # <<>> /\ out' = Tail(out) /\ UNCHANGED <<adapter, tone, err, lines, errLines, raw>>
          /\ at' # "ready"
      BY <2>6 DEF ReadBreaks, DropLine
    <3>2. out' \in Seq(V)
      BY <2>1, <3>1
    <3> QED BY <2>1, <2>2, <3>1, <3>2
  <2>7. CASE EndOfOutput \/ Wait \/ TimeOut \/ TearDown
    <3>1. at' # "ready" /\ UNCHANGED <<adapter, tone, out, err, lines, errLines, raw>>
      BY <2>7 DEF EndOfOutput, Wait, TimeOut, TearDown
    <3> QED BY <2>1, <2>2, <3>1
  <2>8. CASE Join
    <3>1. /\ at' # "ready" /\ UNCHANGED <<adapter, tone, out, err, lines, errLines>>
          /\ raw' = lines \/ raw' = lines \o errLines
      BY <2>8 DEF Join
    <3>2. errLines \in Seq(S)
      <4>1. Cut \subseteq S
        BY DEF S, Said
      <4> QED BY <4>1, <2>1
    <3>3. raw' \in Seq(S)
      <4>1. lines \o errLines \in Seq(S)
        BY <2>1, <3>2, ConcatProperties
      <4> QED BY <4>1, <2>1, <3>1
    <3> QED BY <2>1, <2>2, <3>1, <3>3
  <2>9. CASE Fetch \/ FetchFails \/ KeyboardInterrupt
    <3>1. /\ tone' = {} /\ out' = <<>> /\ err' = <<>> /\ lines' = <<>> /\ errLines' = <<>>
          /\ UNCHANGED <<adapter, raw>>
      BY <2>9 DEF Fetch, FetchFails, KeyboardInterrupt, Forget, ForgetOutput
    <3> QED BY <2>1, <2>2, <3>1
  <2>10. CASE DrainStderr
    <3>1. /\ at # "ready" /\ at' = at /\ err # <<>> /\ err' = Tail(err)
          /\ errLines' = Append(errLines, Head(err)) /\ UNCHANGED <<adapter, tone, out, lines, raw>>
      BY <2>10 DEF DrainStderr
    <3>2. err' \in Seq(Cut) /\ errLines' \in Seq(Cut)
      BY <2>1, <3>1
    <3> QED BY <2>1, <2>2, <3>1, <3>2
  <2>11. CASE Done \/ UNCHANGED agentVars
    <3>1. UNCHANGED <<adapter, tone, out, err, lines, errLines, raw, at>>
      BY <2>11 DEF Done, agentVars
    <3> QED BY <2>1, <2>2, <3>1
  <2> QED
    BY <1>2, <2>3, <2>4, <2>5, <2>6, <2>7, <2>8, <2>9, <2>10, <2>11 DEF AgentNext, BeltStep
<1> QED
  BY <1>1, <1>2, PTL DEF AgentSpec

-----------------------------------------------------------------------------
(* The turn stream.                                                        *)

LEMMA SizeAppends ==
  ASSUME NEW S, \A x \in S : x.size \in Nat, NEW ls \in Seq(S), NEW l \in S
  PROVE  /\ SizeOf(ls) \in Nat
         /\ SizeOf(Append(ls, l)) = SizeOf(ls) + l.size
<1> DEFINE s == [i \in DOMAIN ls |-> ls[i].size]
           m == Append(ls, l)
           t == [i \in DOMAIN m |-> m[i].size]
           n == Len(ls)
<1>1. n \in Nat /\ DOMAIN ls = 1..n /\ DOMAIN m = 1..(n + 1) /\ m[n + 1] = l
  OBVIOUS
<1>2. s \in Seq(Nat) /\ Len(s) = n
  <2>1. \A i \in 1..n : ls[i] \in S
    OBVIOUS
  <2>2. s \in [1..n -> Nat]
    BY <1>1, <2>1
  <2> QED BY <1>1, <2>2, SeqDef
<1>3. t = Append(s, l.size)
  <2>1. ASSUME NEW i \in 1..(n + 1) PROVE t[i] = Append(s, l.size)[i]
    <3>1. CASE i = n + 1
      BY <1>1, <1>2, <3>1
    <3>2. CASE i \in 1..n
      <4>1. m[i] = ls[i]
        BY <3>2
      <4> QED BY <4>1, <1>1, <1>2, <3>2
    <3> QED BY <1>1, <3>1, <3>2
  <2> QED BY <1>1, <1>2, <2>1
<1>4. SizeOf(ls) = SumOf(s) /\ SizeOf(m) = SumOf(t)
  BY DEF SizeOf
<1>5. l.size \in Nat
  OBVIOUS
<1> HIDE DEF s, t, m, n
<1>6. SumOf(s) \in Nat /\ SumOf(t) = SumOf(s) + l.size
  BY <1>2, <1>3, <1>5, SumAppends, SumIsNat
<1> QED BY <1>4, <1>6 DEF m

LEMMA SizeOfNone == SizeOf(<<>>) = 0
<1>1. <<>> \in Seq(Nat) /\ \A i \in 1..Len(<<>>) : <<>>[i] = 0
  OBVIOUS
<1>2. [i \in DOMAIN <<>> |-> <<>>[i].size] = <<>>
  OBVIOUS
<1> QED BY <1>1, <1>2, SumOfZeros DEF SizeOf

(* A prefix stays one when the list grows.                                 *)
LEMMA PrefixGrows ==
  ASSUME NEW S, NEW s \in Seq(S), NEW t \in Seq(S), NEW x \in S
  PROVE  /\ IsPrefix(s, t) => IsPrefix(s, Append(t, x))
         /\ IsPrefix(t, Append(t, x)) /\ IsPrefix(t, t)
BY DEF IsPrefix

Things == Said \union {Line("user_input"), Line("__truncated")}

LEMMA ThingsAre ==
  ASSUME adapter \in Adapters
  PROVE  Said \subseteq Things /\ \A l \in Things : l.size \in Nat
<1>1. \A l \in Said : l.size \in Nat
  BY LinesAre, CutsAre DEF Said
<1>2. Line("user_input").size = 1 /\ Line("__truncated").size = 1
  BY DEF Line
<1> QED BY <1>1, <1>2 DEF Things

(* As long as the cap is not reached the stream is the message and all the *)
(* lines, which is what makes the written sum the size of what is shown.   *)
SinkInv ==
  /\ sink \in Seq(Things)
  /\ at = "reading" => sink # <<>>
  /\ sink # <<>> /\ ~tripped => Tail(sink) = lines /\ SizeOf(sink) <= SinkMax
  /\ sink # <<>> /\ tripped =>
       /\ Front(sink) = <<>> \/ IsPrefix(Tail(Front(sink)), lines)
       /\ SizeOf(Front(sink)) <= SinkMax
       /\ Len(Front(sink)) <= Len(lines)

LEMMA FrontOf ==
  ASSUME NEW S, NEW s \in Seq(S), NEW x \in S
  PROVE  Front(Append(s, x)) = s
<1>1. Len(Append(s, x)) - 1 = Len(s)
  OBVIOUS
<1>2. SubSeq(Append(s, x), 1, Len(s)) = s
  OBVIOUS
<1> QED BY <1>1, <1>2 DEF Front

LEMMA SinkStarts ==
  ASSUME adapter \in Adapters, SinkStart, lines = <<>>, UNCHANGED <<adapter, lines>>, at' # "ready"
  PROVE  SinkInv'
<1> DEFINE message == Line("user_input")
           marker == Line("__truncated")
<1>1. message \in Things /\ marker \in Things /\ Things' = Things
  BY DEF Things, Said, Vocabulary
<1>2. message.size = 1 /\ SinkMax \in Nat
  BY AgentTurnAssumption DEF Line
<1>3. sink' = <<IF tripped' THEN marker ELSE message>> /\ (tripped' <=> message.size > SinkMax)
  BY DEF SinkStart
<1>4. \A x \in Things : /\ <<x>> \in Seq(Things) /\ <<x>> # <<>> /\ Tail(<<x>>) = <<>> /\ Front(<<x>>) = <<>>
                        /\ SizeOf(<<x>>) = x.size
  <2> TAKE x \in Things
  <2>1. <<x>> = Append(<<>>, x) /\ <<>> \in Seq(Things)
    OBVIOUS
  <2>2. SizeOf(<<x>>) = x.size
    <3>1. \A l \in Things : l.size \in Nat
      BY <1>1, <1>2, ThingsAre
    <3>2. SizeOf(Append(<<>>, x)) = SizeOf(<<>>) + x.size /\ x.size \in Nat
      BY <2>1, <3>1, SizeAppends
    <3> QED BY <2>1, <3>2, SizeOfNone
  <2>3. Front(<<x>>) = <<>>
    BY <2>1, FrontOf
  <2> QED BY <2>2, <2>3
<1> HIDE DEF message, marker
<1>5. CASE message.size > SinkMax
  <2>1. sink' = <<marker>> /\ tripped'
    BY <1>3, <1>5
  <2>2. Front(sink') = <<>> /\ Len(<<>>) = 0 /\ lines' = <<>>
    BY <1>1, <1>4, <2>1
  <2> QED BY <1>1, <1>2, <1>4, <2>1, <2>2, SizeOfNone DEF SinkInv
<1>6. CASE ~(message.size > SinkMax)
  <2>1. sink' = <<message>> /\ ~tripped'
    BY <1>3, <1>6
  <2> QED BY <1>1, <1>2, <1>4, <1>6, <2>1 DEF SinkInv
<1> QED BY <1>5, <1>6

LEMMA SinkGoesOn ==
  ASSUME NEW y \in Said, SinkWrite(y), lines' = Append(lines, y), UNCHANGED adapter,
         adapter \in Adapters, lines \in Seq(Said), SinkInv, sink # <<>>
  PROVE  SinkInv'
<1>1. Things' = Things /\ Said \subseteq Things /\ y \in Things /\ Line("__truncated") \in Things
  <2>1. Things' = Things
    BY DEF Things, Said, Vocabulary
  <2> QED BY <2>1 DEF Things
<1>2. \A l \in Things : l.size \in Nat
  BY ThingsAre
<1>3. sink \in Seq(Things) /\ lines \in Seq(Things)
  BY <1>1 DEF SinkInv
<1>4. \A s \in Seq(Things), l \in Things : SizeOf(Append(s, l)) = SizeOf(s) + l.size
  BY <1>2, SizeAppends
<1>5. CASE tripped
  <2>1. UNCHANGED <<sink, tripped>>
    BY <1>5 DEF SinkWrite
  <2>2. Front(sink) \in Seq(Things)
    BY <1>3 DEF Front, SinkInv
  <2>3. Len(lines') = Len(lines) + 1 /\ Len(lines) \in Nat
    BY <1>3
  <2>4. Front(sink) # <<>> => Tail(Front(sink)) \in Seq(Things)
    BY <2>2
  <2>5. Front(sink) # <<>> /\ IsPrefix(Tail(Front(sink)), lines) => IsPrefix(Tail(Front(sink)), lines')
    BY <2>4, <1>1, <1>3, PrefixGrows
  <2>6. Len(Front(sink)) \in Nat
    BY <2>2
  <2> QED BY <2>1, <2>2, <2>3, <2>5, <2>6, <1>1, <1>5 DEF SinkInv
<1>6. CASE ~tripped /\ SizeOf(sink) + y.size <= SinkMax
  <2>1. sink' = Append(sink, y) /\ tripped' = tripped
    BY <1>6 DEF SinkWrite
  <2>2. Tail(sink) = lines
    BY <1>6 DEF SinkInv
  <2>3. sink' \in Seq(Things) /\ sink' # <<>> /\ Tail(sink') = Append(lines, y)
    BY <1>1, <1>3, <2>1, <2>2
  <2>4. SizeOf(sink') <= SinkMax
    BY <1>1, <1>3, <1>4, <1>6, <2>1
  <2> QED BY <1>1, <1>6, <2>1, <2>3, <2>4 DEF SinkInv
<1>7. CASE ~tripped /\ ~(SizeOf(sink) + y.size <= SinkMax)
  <2>1. sink' = Append(sink, Line("__truncated")) /\ tripped' = TRUE
    BY <1>7 DEF SinkWrite
  <2>2. Tail(sink) = lines /\ SizeOf(sink) <= SinkMax
    BY <1>7 DEF SinkInv
  <2>3. sink' \in Seq(Things) /\ sink' # <<>> /\ Front(sink') = sink
    BY <1>1, <1>3, <2>1, FrontOf
  <2>4. IsPrefix(lines, lines') /\ Len(sink) <= Len(lines')
    <3>1. Len(sink) = Len(lines) + 1 /\ Len(lines') = Len(lines) + 1
      BY <1>1, <1>3, <2>2
    <3>2. Len(lines') \in Nat
      BY <1>3, <3>1
    <3>3. IsPrefix(lines, lines')
      BY <1>1, <1>3, PrefixGrows
    <3> QED BY <3>1, <3>2, <3>3
  <2> QED BY <1>1, <2>1, <2>2, <2>3, <2>4 DEF SinkInv
<1> QED BY <1>5, <1>6, <1>7

LEMMA SinkFollows == AgentSpec => []SinkInv
<1>1. AgentInit => SinkInv
  BY DEF AgentInit, SinkInv
<1>2. ASSUME SaidInv, SinkInv, [AgentNext]_agentVars PROVE SinkInv'
  <2> USE DEF turnVars, pipeVars, readVars
  <2>0. adapter' = adapter => Things' = Things
    BY DEF Things, Said, Vocabulary
  <2>1. ASSUME adapter' = adapter, UNCHANGED <<lines, sink, tripped>>, at' = "reading" => at = "reading"
        PROVE  SinkInv'
    BY <1>2, <2>0, <2>1 DEF SinkInv
  <2>2. CASE ChildStep
    <3>1. at' = at
      BY <2>2, ChildKeepsAway
    <3>2. UNCHANGED <<adapter, lines, sink, tripped>>
      BY <2>2 DEF ChildStep, ChildPrints, ChildComplains, ChildClosesOutput, ChildEnds, ChildCrashes, HeirEnds, Leave
    <3> QED BY <2>1, <3>1, <3>2
  <2>3. CASE Spawn
    <3>1. SinkStart /\ lines = <<>> /\ UNCHANGED <<adapter, lines>> /\ at' # "ready" /\ adapter \in Adapters
      BY <1>2, <2>3 DEF Spawn, SaidInv
    <3> QED BY <3>1, SinkStarts
  <2>4. CASE ReadLine
    <3>1. /\ adapter \in Adapters /\ out \in Seq(Vocabulary(adapter)) /\ lines \in Seq(Said)
          /\ sink # <<>> /\ UNCHANGED adapter
      BY <1>2, <2>4 DEF ReadLine, SaidInv, SinkInv
    <3>2. PICK y \in Said : lines' = Append(lines, y) /\ SinkWrite(y)
      BY <2>4, <3>1, Yielding
    <3> QED BY <1>2, <3>1, <3>2, SinkGoesOn
  <2>5. CASE Fetch \/ FetchFails \/ KeyboardInterrupt
    <3>1. UNCHANGED adapter /\ sink' = <<>> /\ at' # "reading"
      BY <2>5 DEF Fetch, FetchFails, KeyboardInterrupt, Forget, ForgetOutput
    <3> QED BY <3>1, <2>0 DEF SinkInv
  <2>6. CASE ReadBreaks \/ DropLine \/ EndOfOutput \/ Wait \/ TimeOut \/ Join \/ TearDown \/ DrainStderr
    <3>1. UNCHANGED <<adapter, lines, sink, tripped>> /\ (at' = "reading" => at = "reading")
      BY <2>6 DEF ReadBreaks, DropLine, EndOfOutput, Wait, TimeOut, Join, TearDown, DrainStderr
    <3> QED BY <2>1, <3>1
  <2>7. CASE Done \/ UNCHANGED agentVars
    <3>1. UNCHANGED <<adapter, at, lines, sink, tripped>>
      BY <2>7 DEF Done, agentVars
    <3> QED BY <2>1, <3>1
  <2> QED
    BY <1>2, <2>2, <2>3, <2>4, <2>5, <2>6, <2>7 DEF AgentNext, BeltStep
<1> QED
  BY <1>1, <1>2, SaidFollows, PTL DEF AgentSpec

(* The turn stream that a watcher reads never skips a line: what it shows  *)
(* are the lines read, from the first on, and when the cap was reached the *)
(* marker says so, whatever the sizes of the lines and of the caps.        *)
THEOREM StreamsShowAPrefix == AgentSpec => []SinkShowsAPrefix
<1>1. SaidInv /\ SinkInv => SinkShowsAPrefix
  <2> SUFFICES ASSUME SaidInv, SinkInv, sink # <<>>
               PROVE  LET shown == IF tripped THEN Front(sink) ELSE sink
                      IN  /\ shown = <<>> \/ IsPrefix(Tail(shown), lines)
                          /\ SizeOf(shown) <= SinkMax
                          /\ tripped <=> Len(shown) <= Len(lines)
    BY DEF SinkShowsAPrefix
  <2>1. lines \in Seq(Said) /\ sink \in Seq(Things)
    BY DEF SaidInv, SinkInv
  <2> DEFINE shown == IF tripped THEN Front(sink) ELSE sink
             prefix == shown = <<>> \/ IsPrefix(Tail(shown), lines)
             fits == SizeOf(shown) <= SinkMax
             less == Len(shown) <= Len(lines)
  <2>2. ASSUME tripped PROVE prefix /\ fits /\ less
    <3>1. shown = Front(sink)
      BY <2>2
    <3> HIDE DEF shown
    <3>2. /\ shown = <<>> \/ IsPrefix(Tail(shown), lines)
          /\ SizeOf(shown) <= SinkMax
          /\ Len(shown) <= Len(lines)
      BY <2>2, <3>1 DEF SinkInv
    <3> QED BY <2>2, <3>2
  <2>3. ASSUME ~tripped PROVE prefix /\ fits /\ ~less
    <3>1. shown = sink
      BY <2>3
    <3> HIDE DEF shown
    <3>2. Tail(sink) = lines /\ SizeOf(sink) <= SinkMax
      BY <2>3 DEF SinkInv
    <3>3. ~(Len(shown) <= Len(lines))
      BY <2>1, <3>1, <3>2
    <3>4. IsPrefix(lines, lines)
      BY <2>1 DEF IsPrefix
    <3> QED BY <3>1, <3>2, <3>3, <3>4
  <2> HIDE DEF prefix, fits, less
  <2>4. prefix /\ fits /\ (tripped <=> less)
    BY <2>2, <2>3
  <2> QED BY <2>4 DEF prefix, fits, less
<1> QED
  BY <1>1, SaidFollows, SinkFollows, PTL

-----------------------------------------------------------------------------
(* Closing lines, the time to first token and the results.                 *)

(* A line for which `ttft` may be set, and what it then says of the lines. *)
Begins(l) == First(l) \/ (Streaming[adapter].search /\ l.type = "junk")

TtftOf(ls, t) ==
  /\ t = 0 \/ (t \in 1..Len(ls) /\ Begins(ls[t]))
  /\ \A i \in 1..Len(ls) : First(ls[i]) => t # 0 /\ t <= i

ClosedLast(ls) == \A i, j \in 1..Len(ls) : i < j /\ Closes(ls[i]) => ls[j] \in Cut

ClosingInv ==
  /\ \A i \in 1..Len(out) : Closes(out[i]) => i = Len(out) /\ left = 0
  /\ \A i \in 1..Len(lines) : Closes(lines[i]) => i = Len(lines) /\ out = <<>> /\ left = 0
  /\ ClosedLast(raw)

Read(rf) == FetchResults(adapter, Folded(adapter, raw), RawMarks(raw), rf)

ResultInv ==
  /\ at \in Looking => TtftOf(lines, ttft)
  /\ at \in Looking \union {"fetching"} => result = None
  /\ at = "fetching" \/ result # None => TtftOf(raw, ttft)
  /\ \/ result = None
     \/ unread /\ result = Unread
     \/ ~unread /\ \E rf \in BOOLEAN : (rf => adapter = "codex") /\ result = Read(rf)

LEMMA CutsAreNotFirst == ASSUME NEW l \in Cut, adapter \in Adapters PROVE ~First(l)
<1>1. l.type = "junk"
  BY CutsAre
<1>2. \A x \in Streaming[adapter].first : x[1] # "junk"
  BY DEF Streaming, Adapters, ClaudeStreaming, CodexStreaming, CopilotStreaming, CursorStreaming,
         GooseStreaming, OpenCodeStreaming, GeminiStreaming
<1> QED BY <1>1, <1>2 DEF First

(* What stderr adds to the lines neither closes nor begins a reply.        *)
LEMMA Joining ==
  ASSUME adapter \in Adapters, lines \in Seq(Said), errLines \in Seq(Cut)
  PROVE  /\ (\A i \in 1..Len(lines) : Closes(lines[i]) => i = Len(lines))
              => ClosedLast(lines) /\ ClosedLast(lines \o errLines)
         /\ \A t : TtftOf(lines, t) => TtftOf(lines \o errLines, t)
<1> DEFINE n == Len(lines)
           m == Len(errLines)
           r == lines \o errLines
<1>1. n \in Nat /\ m \in Nat /\ Len(r) = n + m
  OBVIOUS
<1>2. \A i \in 1..n : r[i] = lines[i]
  OBVIOUS
<1>3. ASSUME NEW j \in (n + 1)..(n + m) PROVE r[j] \in Cut
  <2>1. r[j] = errLines[j - n] /\ j - n \in 1..m
    BY <1>1
  <2> QED BY <2>1
<1> HIDE DEF n, m, r
<1>4. ASSUME \A i \in 1..n : Closes(lines[i]) => i = n PROVE ClosedLast(lines)
  BY <1>1, <1>4 DEF ClosedLast, n
<1>5. ASSUME \A i \in 1..n : Closes(lines[i]) => i = n PROVE ClosedLast(r)
  <2> SUFFICES ASSUME NEW i \in 1..(n + m), NEW j \in 1..(n + m), i < j, Closes(r[i]) PROVE r[j] \in Cut
    BY <1>1 DEF ClosedLast
  <2>1. CASE i \in 1..n
    <3>1. i = n
      BY <1>2, <1>5, <2>1
    <3>2. j \in (n + 1)..(n + m)
      BY <3>1, <1>1
    <3> QED BY <3>2, <1>3
  <2>2. CASE i \in (n + 1)..(n + m)
    BY <2>2, <1>3, CutsAre
  <2> QED BY <1>1, <2>1, <2>2
<1>6. ASSUME NEW t, TtftOf(lines, t) PROVE TtftOf(r, t)
  <2>1. ASSUME NEW i \in 1..(n + m), First(r[i]) PROVE i \in 1..n
    BY <1>1, <1>3, <2>1, CutsAreNotFirst
  <2>2. t = 0 \/ (t \in 1..(n + m) /\ Begins(r[t]))
    BY <1>1, <1>2, <1>6 DEF TtftOf, n
  <2>3. ASSUME NEW i \in 1..(n + m), First(r[i]) PROVE t # 0 /\ t <= i
    BY <1>2, <1>6, <2>1, <2>3 DEF TtftOf, n
  <2> QED BY <1>1, <2>2, <2>3 DEF TtftOf
<1> QED BY <1>4, <1>5, <1>6 DEF r, n

LEMMA ClosingFollows == AgentSpec => []ClosingInv
<1>1. AgentInit => ClosingInv
  BY DEF AgentInit, ClosingInv, ClosedLast
<1>2. ASSUME SaidInv, ClosingInv, [AgentNext]_agentVars PROVE ClosingInv'
  <2> DEFINE V == Vocabulary(adapter)
             S == Said
             O(o, l) == \A i \in 1..Len(o) : Closes(o[i]) => i = Len(o) /\ l = 0
             L(ls, o, l) == \A i \in 1..Len(ls) : Closes(ls[i]) => i = Len(ls) /\ o = <<>> /\ l = 0
  <2> USE DEF turnVars, pipeVars, readVars
  <2>0. O(out, left) /\ L(lines, out, left) /\ ClosedLast(raw)
    BY <1>2 DEF ClosingInv
  <2>1. out \in Seq(V) /\ lines \in Seq(S)
    BY <1>2 DEF SaidInv
  <2>2. ASSUME O(out', left'), L(lines', out', left'), ClosedLast(raw)'
        PROVE  ClosingInv'
    BY <2>2 DEF ClosingInv
  <2>3. ASSUME UNCHANGED <<out, left, lines, raw>> PROVE ClosingInv'
    BY <1>2, <2>3 DEF ClosingInv, ClosedLast
  <2> HIDE DEF V, S
  <2>4. CASE ChildStep
    <3>1. CASE ChildPrints
      <4>1. PICK l \in V : out' = Append(out, l) /\ left' = IF Closes(l) THEN 0 ELSE left - 1
        BY <3>1 DEF ChildPrints, V
      <4>2. UNCHANGED <<lines, raw>> /\ left # 0
        BY <3>1 DEF ChildPrints
      <4>3. \A i \in 1..Len(out) : ~Closes(out[i])
        BY <2>0, <4>2
      <4>4. \A i \in 1..Len(lines) : ~Closes(lines[i])
        BY <2>0, <4>2
      <4>5. O(out', left')
        <5>1. Len(out') = Len(out) + 1 /\ Len(out) \in Nat /\ out'[Len(out) + 1] = l
          BY <4>1, <2>1
        <5>2. \A i \in 1..Len(out) : out'[i] = out[i]
          BY <4>1, <2>1
        <5>3. ASSUME NEW i \in 1..(Len(out) + 1), Closes(out'[i]) PROVE i = Len(out) + 1 /\ left' = 0
          BY <5>1, <5>2, <5>3, <4>1, <4>3
        <5> QED BY <5>1, <5>3
      <4>6. L(lines', out', left') /\ ClosedLast(raw)'
        BY <2>0, <4>2, <4>4 DEF ClosedLast
      <4> QED BY <2>2, <4>5, <4>6
    <3>2. CASE ChildComplains \/ ChildClosesOutput \/ ChildEnds \/ ChildCrashes \/ HeirEnds
      <4>1. UNCHANGED <<out, left, lines, raw>>
        BY <3>2 DEF ChildComplains, ChildClosesOutput, ChildEnds, ChildCrashes, HeirEnds, Leave
      <4> QED BY <2>3, <4>1
    <3> QED BY <2>4, <3>1, <3>2 DEF ChildStep
  <2>5. CASE Spawn
    <3>1. out' = <<>> /\ lines' = <<>> /\ raw' = <<>>
      BY <1>2, <2>5 DEF Spawn, SaidInv
    <3> QED BY <2>2, <3>1 DEF ClosedLast
  <2>6. ASSUME out # <<>>, out' = Tail(out), UNCHANGED <<left, raw>> PROVE O(out', left') /\ ClosedLast(raw)'
    <3>1. Len(out') = Len(out) - 1 /\ Len(out) \in Nat /\ \A i \in 1..(Len(out) - 1) : out'[i] = out[i + 1]
      BY <2>1, <2>6
    <3>2. ASSUME NEW i \in 1..(Len(out) - 1), Closes(out'[i]) PROVE i = Len(out) - 1 /\ left' = 0
      <4>1. i + 1 \in 1..Len(out) /\ Closes(out[i + 1])
        BY <3>1, <3>2
      <4>2. i + 1 = Len(out) /\ left = 0
        BY <4>1, <2>0
      <4>3. left' = 0 /\ i \in Int
        BY <2>6, <4>2
      <4> QED BY <3>1, <4>2, <4>3
    <3> QED BY <2>0, <2>6, <3>1, <3>2 DEF ClosedLast
  <2>7. CASE ReadLine
    <3>1. out # <<>> /\ out' = Tail(out) /\ UNCHANGED <<left, raw>> /\ adapter \in Adapters
      BY <1>2, <2>7 DEF ReadLine, SaidInv
    <3>2. PICK y \in S : (y = Head(out) \/ y \in Cut) /\ lines' = Append(lines, y)
      BY <2>1, <2>7, <3>1, Yielding DEF V, S
    <3>3. \A i \in 1..Len(lines) : ~Closes(lines[i])
      BY <2>0, <3>1
    <3>4. Closes(y) => out' = <<>> /\ left' = 0
      <4> SUFFICES ASSUME Closes(y) PROVE out' = <<>> /\ left' = 0
        OBVIOUS
      <4>1. y = out[1] /\ 1 \in 1..Len(out)
        BY <2>1, <3>1, <3>2, CutsAre
      <4>2. Len(out) = 1 /\ left = 0
        BY <2>0, <4>1
      <4> QED BY <2>1, <3>1, <4>2
    <3>5. L(lines', out', left')
      <4>1. Len(lines') = Len(lines) + 1 /\ Len(lines) \in Nat /\ lines'[Len(lines) + 1] = y
        BY <2>1, <3>2
      <4>2. \A i \in 1..Len(lines) : lines'[i] = lines[i]
        BY <2>1, <3>2
      <4>3. ASSUME NEW i \in 1..(Len(lines) + 1), Closes(lines'[i])
            PROVE  i = Len(lines) + 1 /\ out' = <<>> /\ left' = 0
        BY <4>1, <4>2, <4>3, <3>3, <3>4
      <4> QED BY <4>1, <4>3
    <3> QED BY <2>2, <2>6, <3>1, <3>5
  <2>8. CASE ReadBreaks \/ DropLine
    <3>1. out # <<>> /\ out' = Tail(out) /\ UNCHANGED <<left, raw, lines>>
      BY <2>8 DEF ReadBreaks, DropLine
    <3>2. L(lines', out', left')
      BY <2>0, <3>1
    <3> QED BY <2>2, <2>6, <3>1, <3>2
  <2>9. CASE Join
    <3>1. UNCHANGED <<out, left, lines>> /\ raw' \in {lines, lines \o errLines}
      BY <2>9 DEF Join
    <3>2. ClosedLast(lines) /\ ClosedLast(lines \o errLines)
      <4>1. adapter \in Adapters /\ errLines \in Seq(Cut) /\ lines \in Seq(Said)
        BY <1>2 DEF SaidInv
      <4> QED BY <2>0, <4>1, Joining
    <3>3. ClosedLast(raw)'
      BY <3>1, <3>2 DEF ClosedLast
    <3> QED BY <2>0, <2>2, <3>1, <3>3
  <2>10. CASE Fetch \/ FetchFails \/ KeyboardInterrupt
    <3>1. out' = <<>> /\ lines' = <<>> /\ UNCHANGED raw
      BY <2>10 DEF Fetch, FetchFails, KeyboardInterrupt, Forget, ForgetOutput
    <3> QED BY <2>0, <2>2, <3>1 DEF ClosedLast
  <2>11. CASE EndOfOutput \/ Wait \/ TimeOut \/ TearDown \/ DrainStderr \/ Done \/ UNCHANGED agentVars
    <3>1. UNCHANGED <<out, left, lines, raw>>
      BY <2>11 DEF EndOfOutput, Wait, TimeOut, TearDown, DrainStderr, Done, agentVars
    <3> QED BY <2>3, <3>1
  <2> QED
    BY <1>2, <2>4, <2>5, <2>7, <2>8, <2>9, <2>10, <2>11 DEF AgentNext, BeltStep
<1> QED
  BY <1>1, <1>2, SaidFollows, PTL DEF AgentSpec

LEMMA ResultFollows == AgentSpec => []ResultInv
<1>1. AgentInit => ResultInv
  BY DEF AgentInit, ResultInv, TtftOf, Looking
<1>2. ASSUME SaidInv, ResultInv, [AgentNext]_agentVars PROVE ResultInv'
  <2> DEFINE Fine == \/ result = None \/ (unread /\ result = Unread)
                     \/ ~unread /\ \E rf \in BOOLEAN : (rf => adapter = "codex") /\ result = Read(rf)
  <2> USE DEF turnVars, pipeVars, readVars
  <2>0. adapter \in Adapters /\ lines \in Seq(Said) /\ errLines \in Seq(Cut)
    BY <1>2 DEF SaidInv
  <2>1. ASSUME UNCHANGED <<adapter, raw>> PROVE \A rf : Read(rf)' = Read(rf)
    BY <2>1 DEF Read
  <2>2. ASSUME UNCHANGED <<adapter, result, unread, raw, ttft>>, UNCHANGED lines \/ at' \notin Looking,
               at' = at \/ (at \in Looking /\ at' \in Looking \union {"over"}) \/ (at = "over" /\ at' = "end")
        PROVE  ResultInv'
    <3>1. \A rf : Read(rf)' = Read(rf)
      BY <2>1, <2>2
    <3>3. (at' \in Looking => at \in Looking) /\ (at' = "fetching" => at = "fetching")
      BY <2>2 DEF Looking
    <3> DEFINE ok == at' \in Looking => TtftOf(lines, ttft)'
    <3>4. ok
      BY <1>2, <2>2, <3>3 DEF ResultInv, TtftOf, Begins, First
    <3> DEFINE goes == at' = "fetching" \/ result' # None => TtftOf(raw, ttft)'
    <3>5. goes
      BY <1>2, <2>2, <3>3 DEF ResultInv, TtftOf, Begins, First
    <3>6. at' \in Looking \union {"fetching"} => result' = None
      BY <1>2, <2>2, <3>3 DEF ResultInv
    <3>7. Fine'
      BY <1>2, <2>2, <3>1 DEF ResultInv
    <3> QED BY <3>4, <3>5, <3>6, <3>7 DEF ResultInv
  <2>3. CASE ChildStep
    <3>1. at' = at
      BY <2>3, ChildKeepsAway
    <3>2. UNCHANGED <<adapter, result, unread, raw, ttft, lines>>
      BY <2>3 DEF ChildStep, ChildPrints, ChildComplains, ChildClosesOutput, ChildEnds, ChildCrashes, HeirEnds, Leave
    <3> QED BY <2>2, <3>1, <3>2
  <2>4. CASE Spawn
    <3>1. at' \in {"reading", "over"} /\ raw' = <<>> /\ result' = None /\ ttft' = 0 /\ lines' = <<>>
      BY <1>2, <2>4 DEF Spawn, SaidInv
    <3>2. TtftOf(lines, ttft)'
      BY <3>1 DEF TtftOf
    <3> QED BY <3>1, <3>2 DEF ResultInv
  <2>5. CASE ReadLine
    <3>1. at = "reading" /\ at' \in Looking /\ UNCHANGED <<adapter, result, unread, raw>>
      BY <2>5 DEF ReadLine, Looking
    <3>2. PICK y \in Said : lines' = Append(lines, y) /\ FirstToken(y)
      <4>1. out \in Seq(Vocabulary(adapter))
        BY <1>2 DEF SaidInv
      <4> QED BY <2>0, <2>5, <4>1, Yielding
    <3>3. TtftOf(lines, ttft) /\ result = None
      BY <1>2, <3>1 DEF ResultInv, Looking
    <3>4. TtftOf(lines, ttft)'
      <4>1. /\ Len(lines') = Len(lines) + 1 /\ Len(lines) \in Nat /\ lines'[Len(lines) + 1] = y
            /\ \A i \in 1..Len(lines) : lines'[i] = lines[i]
        BY <2>0, <3>2
      <4>2. \/ ttft = 0 /\ Begins(y) /\ ttft' = Len(lines) + 1
            \/ (ttft = 0 => ~First(y)) /\ ttft' = ttft
        BY <3>2 DEF FirstToken, Begins
      <4> DEFINE n == Len(lines)
                 F(l) == <<l.type, l.part>> \in Streaming[adapter].first
                 G(l) == F(l) \/ (Streaming[adapter].search /\ l.type = "junk")
      <4>4. /\ ttft = 0 \/ (ttft \in 1..n /\ G(lines[ttft]))
            /\ \A i \in 1..n : F(lines[i]) => ttft # 0 /\ ttft <= i
        BY <3>3 DEF TtftOf, Begins, First
      <4>5. \/ ttft = 0 /\ G(y) /\ ttft' = n + 1
            \/ (ttft = 0 => ~F(y)) /\ ttft' = ttft
        BY <4>2 DEF First, Begins
      <4>6. /\ ttft' = 0 \/ (ttft' \in 1..(n + 1) /\ G(lines'[ttft']))
            /\ \A i \in 1..(n + 1) : F(lines'[i]) => ttft' # 0 /\ ttft' <= i
        <5> HIDE DEF F, G
        <5>1. CASE ttft = 0 /\ G(y) /\ ttft' = n + 1
          <6>1. \A i \in 1..n : ~F(lines'[i])
            BY <4>1, <4>4, <5>1
          <6> QED BY <4>1, <5>1, <6>1
        <5>2. CASE ttft = 0 /\ ~F(y) /\ ttft' = ttft
          BY <4>1, <4>4, <5>2
        <5>3. CASE ttft # 0 /\ ttft' = ttft
          BY <4>1, <4>4, <5>3
        <5> QED BY <4>5, <5>1, <5>2, <5>3
      <4> QED BY <3>1, <4>1, <4>6 DEF TtftOf, Begins, First
    <3>5. at' # "fetching"
      BY <3>1 DEF Looking
    <3> QED BY <3>1, <3>3, <3>4, <3>5 DEF ResultInv
  <2>6. CASE ReadBreaks \/ DropLine \/ EndOfOutput \/ Wait \/ TimeOut \/ TearDown \/ DrainStderr
    <3>1. UNCHANGED <<adapter, result, unread, raw, ttft, lines>>
      BY <2>6 DEF ReadBreaks, DropLine, EndOfOutput, Wait, TimeOut, TearDown, DrainStderr
    <3>2. at' = at \/ (at \in Looking /\ at' \in Looking \union {"over"}) \/ (at = "over" /\ at' = "end")
      BY <2>6 DEF ReadBreaks, DropLine, EndOfOutput, Wait, TimeOut, TearDown, DrainStderr, Looking
    <3> QED BY <2>2, <3>1, <3>2
  <2>11. CASE KeyboardInterrupt
    <3>1. UNCHANGED <<adapter, result, unread, raw, ttft>> /\ at \in Looking /\ at' = "over"
      BY <2>11 DEF KeyboardInterrupt, ForgetOutput, Followed, Looking
    <3>2. at' \notin Looking /\ at' \in Looking \union {"over"}
      BY <3>1 DEF Looking
    <3> QED BY <2>2, <3>1, <3>2
  <2>7. CASE Join
    <3>1. /\ at \in Looking /\ at' = "fetching" /\ UNCHANGED <<adapter, result, unread, ttft>>
          /\ raw' \in {lines, lines \o errLines}
      BY <2>7 DEF Join, Looking
    <3>2. TtftOf(lines, ttft) /\ result = None
      BY <1>2, <3>1 DEF ResultInv
    <3>3. TtftOf(lines \o errLines, ttft)
      BY <2>0, <3>2, Joining
    <3>4. TtftOf(raw, ttft)'
      BY <3>1, <3>2, <3>3 DEF TtftOf, Begins, First
    <3> QED BY <3>1, <3>2, <3>4 DEF ResultInv, Looking
  <2>8. CASE Fetch
    <3>1. at = "fetching" /\ at' \in {"ready", "over"} /\ UNCHANGED <<adapter, raw, ttft>> /\ ~unread'
      BY <2>8 DEF Fetch, Forget, ForgetOutput
    <3>2. \E rf \in BOOLEAN : (rf => adapter = "codex") /\ result' = Read(rf)
      <4>1. PICK rf \in IF adapter = "codex" THEN BOOLEAN ELSE {FALSE} :
                   result' = FetchResults(adapter, Folded(adapter, raw), RawMarks(raw), rf)
        BY <2>8 DEF Fetch
      <4>2. rf \in BOOLEAN /\ (rf => adapter = "codex")
        BY <4>1
      <4>3. result' = Read(rf)
        BY <4>1 DEF Read
      <4> QED BY <4>2, <4>3
    <3>3. Fine'
      BY <2>1, <3>1, <3>2
    <3>4. TtftOf(raw, ttft)'
      BY <1>2, <3>1 DEF ResultInv, TtftOf, Begins, First
    <3>5. at' \notin Looking \union {"fetching"}
      BY <3>1 DEF Looking
    <3> QED BY <3>3, <3>4, <3>5 DEF ResultInv
  <2>9. CASE FetchFails
    <3>1. /\ at = "fetching" /\ at' \in {"ready", "over"} /\ UNCHANGED <<adapter, raw, ttft>>
          /\ result' = Unread /\ unread'
      BY <2>9 DEF FetchFails, Forget, ForgetOutput
    <3>2. Fine'
      BY <3>1 DEF Unread
    <3>3. TtftOf(raw, ttft)'
      BY <1>2, <3>1 DEF ResultInv, TtftOf, Begins, First
    <3>4. at' \notin Looking \union {"fetching"}
      BY <3>1 DEF Looking
    <3> QED BY <3>2, <3>3, <3>4 DEF ResultInv
  <2>10. CASE Done \/ UNCHANGED agentVars
    <3>1. UNCHANGED <<adapter, result, unread, raw, ttft, lines, at>>
      BY <2>10 DEF Done, agentVars
    <3> QED BY <2>2, <3>1
  <2> QED
    BY <1>2, <2>3, <2>4, <2>5, <2>6, <2>7, <2>8, <2>9, <2>10, <2>11 DEF AgentNext, BeltStep
<1> QED
  BY <1>1, <1>2, SaidFollows, PTL DEF AgentSpec

-----------------------------------------------------------------------------
(* What fetch_results makes of all the lines.                              *)

(* f holds the accumulators before the first and after each of the lines.  *)
Fold(f, ls) ==
  /\ f \in [0..Len(ls) -> Accs] /\ f[0] = Fresh
  /\ \A i \in 1..Len(ls) : /\ ls[i].type = "junk" => ls[i] \in Cut /\ f[i] = f[i - 1]
                           /\ ls[i].type # "junk" => Moves(adapter, f[i - 1], ls[i], f[i])

LEMMA Folding ==
  ASSUME adapter \in Adapters, NEW ls \in Seq(Said)
  PROVE  \E f : Fold(f, ls) /\ Folded(adapter, ls) = f[Len(ls)]
<1> DEFINE n == Len(ls)
           Ev(i, v) == IF ParseNdjson(ls[i]) THEN Event(adapter, v, ls[i]) ELSE v
           step == [i \in 1..n |-> [v \in Accs |-> Ev(i, v)]]
           G(f) == [i \in 0..Len(ls) |-> IF i = 0 THEN Fresh
                      ELSE IF ParseNdjson(ls[i]) THEN Event(adapter, f[i - 1], ls[i]) ELSE f[i - 1]]
<1>1. n \in Nat
  OBVIOUS
<1>2. Fresh \in Accs
  <2>1. <<>> \in Seq(CallSet) /\ 0 \in Nat /\ {} \in SUBSET Words /\ "none" \in Words
    BY Wording
  <2> QED BY <2>1 DEF Fresh, Accs
<1>3. ASSUME NEW i \in 1..n, NEW v \in Accs
      PROVE  /\ Ev(i, v) \in Accs
             /\ ls[i].type = "junk" => ls[i] \in Cut /\ Ev(i, v) = v
             /\ ls[i].type # "junk" => Moves(adapter, v, ls[i], Ev(i, v))
  <2>1. ls[i] \in Said
    OBVIOUS
  <2>2. CASE ls[i].type = "junk"
    <3>1. ls[i] \in Cut
      BY <2>1, <2>2, LinesAre DEF Said
    <3> QED BY <3>1, <2>2 DEF ParseNdjson
  <2>3. CASE ls[i].type # "junk"
    <3>1. ls[i] \in Vocabulary(adapter)
      BY <2>1, <2>3, CutsAre DEF Said
    <3>2. Ev(i, v) = Event(adapter, v, ls[i])
      BY <2>3 DEF ParseNdjson
    <3>3. Moves(adapter, v, ls[i], Event(adapter, v, ls[i]))
      BY <3>1, <2>3, EventMoves
    <3> QED BY <2>3, <3>2, <3>3 DEF Moves
  <2> QED BY <2>2, <2>3
<1> HIDE DEF Ev
<1>4. step \in [1..n -> [Accs -> Accs]]
  BY <1>3
<1>5. PICK f \in [0..n -> Accs] : Iterate(f, Fresh, n, step)
  <2> HIDE DEF n, step
  <2> QED BY <1>1, <1>2, <1>4, Iterates
<1>6. f = G(f)
  <2>1. \A i \in 0..n : f[i] = G(f)[i]
    <3> TAKE i \in 0..n
    <3>1. CASE i = 0 BY <3>1, <1>5 DEF Iterate
    <3>2. CASE i # 0
      <4>1. i \in 1..n /\ i - 1 \in 0..n
        BY <3>2
      <4>2. f[i - 1] \in Accs
        BY <4>1, <1>5
      <4> HIDE DEF G
      <4>3. f[i] = Ev(i, f[i - 1])
        BY <4>1, <4>2, <1>5, <3>2 DEF Iterate
      <4> USE DEF G
      <4> QED BY <4>3, <3>2 DEF Ev
    <3> QED BY <3>1, <3>2
  <2> QED BY <2>1
<1>7. \E g : g = G(g)
  BY <1>6
<1> DEFINE K == CHOOSE g : g = G(g)
<1>8. K = G(K)
  <2> HIDE DEF G
  <2> QED BY <1>7
<1>9. Folded(adapter, ls) = K[Len(ls)]
  BY DEF Folded
<1>10. \A g : \A i \in 0..n : G(g)[i] = IF i = 0 THEN Fresh ELSE Ev(i, g[i - 1])
  BY DEF Ev
<1> HIDE DEF K, G, n
<1>11. \A i \in 0..n : K[i] = IF i = 0 THEN Fresh ELSE Ev(i, K[i - 1])
  BY <1>8, <1>10
<1> DEFINE T == {i \in Nat : i <= n => K[i] \in Accs}
<1>12. Nat \subseteq T
  <2>1. 0 \in T
    BY <1>1, <1>2, <1>11
  <2>2. ASSUME NEW i \in Nat, i \in T PROVE i + 1 \in T
    <3> SUFFICES ASSUME i + 1 <= n PROVE K[i + 1] \in Accs
      OBVIOUS
    <3>1. i + 1 \in 1..n /\ i + 1 \in 0..n /\ i + 1 # 0 /\ i + 1 - 1 = i /\ K[i] \in Accs
      BY <1>1, <2>2
    <3> QED BY <3>1, <1>3, <1>11
  <2> HIDE DEF T
  <2> QED BY <2>1, <2>2, SetInduction
<1>13. \A i \in 0..n : K[i] \in Accs
  BY <1>1, <1>12
<1>14. ASSUME NEW i \in 1..n
       PROVE  /\ ls[i].type = "junk" => ls[i] \in Cut /\ K[i] = K[i - 1]
              /\ ls[i].type # "junk" => Moves(adapter, K[i - 1], ls[i], K[i])
  <2>1. i \in 0..n /\ i - 1 \in 0..n /\ i # 0
    BY <1>1
  <2>2. K[i] = Ev(i, K[i - 1]) /\ K[i - 1] \in Accs
    BY <2>1, <1>11, <1>13
  <2> QED BY <2>2, <1>3
<1> DEFINE h == [i \in 0..n |-> K[i]]
<1>15. h \in [0..n -> Accs] /\ h[0] = Fresh /\ h[n] = K[n]
  BY <1>1, <1>11, <1>13
<1>16. \A i \in 1..n : /\ ls[i].type = "junk" => ls[i] \in Cut /\ h[i] = h[i - 1]
                       /\ ls[i].type # "junk" => Moves(adapter, h[i - 1], ls[i], h[i])
  <2> TAKE i \in 1..n
  <2>1. i \in 0..n /\ i - 1 \in 0..n
    BY <1>1
  <2>2. h[i] = K[i] /\ h[i - 1] = K[i - 1]
    BY <2>1
  <2> HIDE DEF h
  <2> QED BY <2>2, <1>14
<1> HIDE DEF h
<1>17. Fold(h, ls) /\ Folded(adapter, ls) = h[Len(ls)]
  BY <1>9, <1>15, <1>16 DEF Fold, n
<1> QED BY <1>17

NamedIn(ls, m) == {ls[k].sess : k \in 1..m} \ {None}

(* The session that the accumulators hold is one of those named so far.    *)
LEMMA FoldNames ==
  ASSUME adapter \in Adapters, NEW ls \in Seq(Said), NEW f, Fold(f, ls), ClosedLast(ls)
  PROVE  LET s == f[Len(ls)].session
         IN  IF NamedIn(ls, Len(ls)) = {} THEN s = None ELSE s \in NamedIn(ls, Len(ls))
<1> DEFINE n == Len(ls)
           Good(m) == IF NamedIn(ls, m) = {} THEN f[m].session = None ELSE f[m].session \in NamedIn(ls, m)
           T == {m \in 0..n : Good(m)}
<1>1. n \in Nat /\ \A i \in 1..n : ls[i] \in Said
  OBVIOUS
<1>2. f[0] = Fresh
  BY DEF Fold
<1> HIDE DEF n
<1>3. 0 \in T
  <2>1. NamedIn(ls, 0) = {} /\ f[0].session = None
    BY <1>2 DEF NamedIn, Fresh
  <2> QED BY <1>1, <2>1
<1>4. ASSUME NEW i \in 1..n, i - 1 \in T PROVE i \in T
  <2> DEFINE e == ls[i]
             a == f[i - 1]
             b == f[i]
             N == NamedIn(ls, i - 1)
  <2>1. Good(i - 1) /\ i \in 0..n /\ e \in Said
    BY <1>1, <1>4
  <2>2. NamedIn(ls, i) = IF e.sess = None THEN N ELSE N \union {e.sess}
    <3>1. 1..i = (1..(i - 1)) \union {i}
      BY <1>1
    <3> QED BY <3>1 DEF NamedIn
  <2>3. None \notin N
    BY DEF NamedIn
  <2>4. CASE e.type = "junk"
    <3>1. e \in Cut /\ b = a
      BY <2>4 DEF Fold, n
    <3>2. e.sess = None
      BY <3>1, CutsAre DEF Plain
    <3> HIDE DEF e, a, b, N
    <3> QED BY <2>1, <2>2, <3>1, <3>2 DEF a, b, N
  <2>5. CASE e.type # "junk"
    <3>1. Moves(adapter, a, e, b)
      BY <2>5 DEF Fold, n
    <3>2. e.sess # None => b.session = e.sess \/ (b.session = a.session /\ a.session # None)
      BY <3>1 DEF Moves
    <3>3. e.sess = None =>
            b.session = a.session \/ (b.session = None /\ adapter \in {"claude", "cursor"} /\ Closes(e))
      BY <3>1 DEF Moves
    <3>4. adapter \in {"claude", "cursor"} /\ Closes(e) => N = {}
      <4> SUFFICES ASSUME adapter \in {"claude", "cursor"}, Closes(e),
                          NEW k \in 1..(i - 1), ls[k].sess # None
                   PROVE  FALSE
        BY DEF NamedIn
      <4>1. k \in 1..n /\ k < i
        BY <1>1
      <4>2. ls[k] \in Said /\ ls[k] \notin Cut
        BY <1>1, <4>1, CutsAre DEF Plain
      <4>3. Closes(ls[k])
        BY <4>2, LinesAre DEF Said
      <4>4. e \in Cut
        BY <4>1, <4>3 DEF ClosedLast, n
      <4> QED BY <4>4, CutsAre
    <3>5. IF N = {} THEN a.session = None ELSE a.session \in N
      BY <2>1
    <3> HIDE DEF e, a, b, N
    <3>6. IF NamedIn(ls, i) = {} THEN b.session = None ELSE b.session \in NamedIn(ls, i)
      BY <2>2, <2>3, <3>2, <3>3, <3>4, <3>5
    <3> QED BY <2>1, <3>6 DEF b
  <2> QED BY <2>4, <2>5
<1> HIDE DEF T
<1>5. n \in T
  BY <1>1, <1>3, <1>4, CountUp
<1> QED BY <1>5 DEF T, n

-----------------------------------------------------------------------------
(* The session.                                                            *)

Continues(s) == IF named = {} THEN s = None ELSE s \in named

Running == Looking \union {"fetching"}

KeptInv ==
  /\ turn \in Nat /\ None \notin named
  /\ at \in Running \union {"ready"} => turn \in 1..Turns /\ Continues(session)
  /\ at = "over" /\ turn > Turns => Continues(session)
  /\ at \in Running /\ turn > 1 => Continues(resumed)
  /\ adapter = "goose" /\ (at \in Running \/ turn > 1) /\ at # "end" =>
       session = BeltName /\ BeltName \in named

(* A turn's results name the session to go on with.                        *)
LEMMA ReadNames ==
  ASSUME SaidInv, ClosingInv
  PROVE  LET s == Folded(adapter, raw).session
         IN  IF SessionsOn(raw) = {} THEN s = None ELSE s \in SessionsOn(raw)
<1>1. adapter \in Adapters /\ raw \in Seq(Said) /\ ClosedLast(raw)
  BY DEF SaidInv, ClosingInv
<1>2. PICK f : Fold(f, raw) /\ Folded(adapter, raw) = f[Len(raw)]
  BY <1>1, Folding
<1>3. SessionsOn(raw) = NamedIn(raw, Len(raw))
  BY <1>1 DEF SessionsOn, NamedIn, ToSet
<1> QED BY <1>1, <1>2, <1>3, FoldNames

LEMMA KeptFollows == AgentSpec => []KeptInv
<1>1. AgentInit => KeptInv
  BY AgentTurnAssumption DEF AgentInit, KeptInv, Continues, Running, Looking
<1>2. ASSUME SaidInv, ClosingInv, KeptInv, [AgentNext]_agentVars PROVE KeptInv'
  <2> USE DEF turnVars, pipeVars, readVars
  <2>0. Turns \in Nat /\ BeltName # None
    BY AgentTurnAssumption
  <2>1. ASSUME UNCHANGED <<adapter, turn, session, named, resumed>>,
               at' = at \/ (at \in Looking /\ at' \in Running \union {"over"})
        PROVE  KeptInv'
    <3>1. \/ at' = at
          \/ at \in Running /\ at' \in Running
          \/ at \in Running /\ at' = "over"
      BY <2>1 DEF Running
    <3>2. "over" \notin Running /\ "ready" \notin Running /\ "end" \notin Running
      BY DEF Running, Looking
    <3> QED BY <1>2, <2>0, <2>1, <3>1, <3>2 DEF KeptInv, Continues
  <2>2. CASE ChildStep
    <3>1. at' = at
      BY <2>2, ChildKeepsAway
    <3>2. UNCHANGED <<adapter, turn, session, named, resumed>>
      BY <2>2 DEF ChildStep, ChildPrints, ChildComplains, ChildClosesOutput, ChildEnds, ChildCrashes, HeirEnds, Leave
    <3> QED BY <2>1, <3>1, <3>2
  <2>3. CASE Spawn
    <3>1. /\ at = "ready" /\ resumed' = session /\ UNCHANGED <<adapter, turn>>
          /\ session' = IF adapter = "goose" THEN BeltName ELSE session
          /\ \/ at' = "reading" /\ named' = IF adapter = "goose" THEN named \union {BeltName} ELSE named
             \/ at' = "over" /\ named' = named
      BY <2>3 DEF Spawn
    <3>2. /\ turn \in 1..Turns /\ Continues(session) /\ None \notin named
          /\ adapter = "goose" /\ turn > 1 => session = BeltName /\ BeltName \in named
      BY <1>2, <3>1 DEF KeptInv
    <3>3. CASE at' = "over"
      <4>1. named' = named
        BY <3>1, <3>3
      <4> QED BY <2>0, <3>1, <3>2, <3>3, <4>1 DEF KeptInv, Running, Looking
    <3>4. CASE at' = "reading" /\ adapter # "goose"
      <4>1. session' = session /\ named' = named
        BY <3>1, <3>4
      <4> QED BY <2>0, <3>1, <3>2, <3>4, <4>1 DEF KeptInv, Running, Looking, Continues
    <3>5. CASE at' = "reading" /\ adapter = "goose"
      <4>1. session' = BeltName /\ named' = named \union {BeltName}
        BY <3>1, <3>5
      <4> QED BY <2>0, <3>1, <3>2, <3>5, <4>1 DEF KeptInv, Running, Looking, Continues
    <3> QED BY <3>1, <3>3, <3>4, <3>5
  <2>4. CASE \/ ReadLine \/ ReadBreaks \/ DropLine \/ EndOfOutput \/ Wait \/ TimeOut \/ Join \/ DrainStderr
            \/ KeyboardInterrupt
    <3>1. UNCHANGED <<adapter, turn, session, named, resumed>>
      BY <2>4 DEF KeyboardInterrupt, ReadLine, ReadBreaks, DropLine, EndOfOutput, Wait, TimeOut, Join, DrainStderr
    <3>2. at' = at \/ (at \in Looking /\ at' \in Running \union {"over"})
      BY <2>4 DEF KeyboardInterrupt, ReadLine, ReadBreaks, DropLine, EndOfOutput, Wait, TimeOut, Join, DrainStderr, Followed, Looking, Running
    <3> QED BY <2>1, <3>1, <3>2
  <2>5. CASE Fetch
    <3> DEFINE s == Folded(adapter, raw).session
               N == SessionsOn(raw)
    <3>1. /\ at = "fetching" /\ at' = (IF turn = Turns THEN "over" ELSE "ready") /\ turn' = turn + 1
          /\ UNCHANGED <<adapter, resumed>> /\ named' = named \union N
          /\ session' = NextSession(adapter, session, s)
      BY <2>5 DEF Fetch
    <3>2. /\ turn \in 1..Turns /\ Continues(session) /\ None \notin named
          /\ adapter = "goose" => session = BeltName /\ BeltName \in named
      BY <1>2, <3>1 DEF KeptInv, Running
    <3>3. (IF N = {} THEN s = None ELSE s \in N) /\ None \notin N
      BY <1>2, ReadNames DEF SessionsOn
    <3> HIDE DEF s, N
    <3>4. Continues(session)'
      BY <3>1, <3>2, <3>3 DEF Continues, NextSession
    <3>5. adapter' = "goose" => session' = BeltName /\ BeltName \in named'
      BY <3>1, <3>2 DEF NextSession
    <3>6. at' \in {"ready", "over"} /\ (at' = "ready" => turn + 1 \in 1..Turns) /\ turn + 1 \in Nat
      BY <2>0, <3>1, <3>2
    <3>7. at' \notin Running /\ turn' = turn + 1 /\ None \notin named'
      BY <3>1, <3>2, <3>3, <3>6 DEF Running, Looking
    <3> QED BY <3>4, <3>5, <3>6, <3>7 DEF KeptInv
  <2>6. CASE FetchFails
    <3>1. /\ at = "fetching" /\ at' = (IF turn = Turns THEN "over" ELSE "ready") /\ turn' = turn + 1
          /\ UNCHANGED <<adapter, session, named, resumed>>
      BY <2>6 DEF FetchFails
    <3>2. /\ turn \in 1..Turns /\ Continues(session) /\ None \notin named
          /\ adapter = "goose" => session = BeltName /\ BeltName \in named
      BY <1>2, <3>1 DEF KeptInv, Running
    <3>3. at' \in {"ready", "over"} /\ (at' = "ready" => turn + 1 \in 1..Turns) /\ turn + 1 \in Nat
      BY <2>0, <3>1, <3>2
    <3>4. at' \notin Running /\ Continues(session)'
      BY <3>1, <3>2, <3>3 DEF Running, Looking, Continues
    <3> QED BY <3>1, <3>2, <3>3, <3>4 DEF KeptInv
  <2>7. CASE TearDown
    <3>1. at' = "end" /\ UNCHANGED <<turn, named>>
      BY <2>7 DEF TearDown
    <3> QED BY <1>2, <3>1 DEF KeptInv, Running, Looking
  <2>8. CASE Done \/ UNCHANGED agentVars
    <3>1. UNCHANGED <<adapter, turn, session, named, resumed, at>>
      BY <2>8 DEF Done, agentVars
    <3> QED BY <2>1, <3>1
  <2> QED
    BY <1>2, <2>2, <2>3, <2>4, <2>5, <2>6, <2>7, <2>8 DEF AgentNext, BeltStep
<1> QED
  BY <1>1, <1>2, SaidFollows, ClosingFollows, PTL DEF AgentSpec

(* A turn goes on with a session that an earlier turn named, if any did,   *)
(* and so would a turn after the last: a turn that says nothing of its     *)
(* session, fails or is cut off does not make any of the adapters forget   *)
(* the conversation.                                                       *)
THEOREM SessionsAreKept == AgentSpec => []SessionKept
<1>1. KeptInv => SessionKept
  BY DEF KeptInv, SessionKept, Continues, Running, Looking
<1> QED
  BY <1>1, KeptFollows, PTL

-----------------------------------------------------------------------------
(* The failure that is reported.                                           *)

Final(ls, m, w) ==
  /\ w \in 0..m /\ (w # 0 => IsWord(ls[w]))
  /\ \A k \in 1..m : k > w => ~IsWord(ls[k])

(* The last word on the turn decides `bad`.                                *)
LEMMA FoldFails ==
  ASSUME adapter \in Adapters, NEW ls \in Seq(Said), NEW f, Fold(f, ls),
         NEW w, Final(ls, Len(ls), w)
  PROVE  /\ f[Len(ls)] \in Accs
         /\ w = 0 => f[Len(ls)].bad = "none"
         /\ w # 0 /\ BadWord(ls[w]) => f[Len(ls)].bad = "true"
<1> DEFINE n == Len(ls)
           T == {m \in 0..n : \A v : Final(ls, m, v) =>
                                /\ v = 0 => f[m].bad = "none"
                                /\ v # 0 /\ BadWord(ls[v]) => f[m].bad = "true"}
<1>1. n \in Nat /\ f[0] = Fresh
  BY DEF Fold
<1> HIDE DEF n
<1>2. 0 \in T
  BY <1>1 DEF Final, Fresh
<1>3. ASSUME NEW i \in 1..n, i - 1 \in T PROVE i \in T
  <2> SUFFICES ASSUME NEW v, Final(ls, i, v)
               PROVE  /\ v = 0 => f[i].bad = "none"
                      /\ v # 0 /\ BadWord(ls[v]) => f[i].bad = "true"
    BY <1>1
  <2>1. i \in Nat /\ i \in 1..i /\ v \in 0..i
    BY DEF Final
  <2>2. CASE v = i
    <3>1. IsWord(ls[i]) /\ i # 0
      BY <2>1, <2>2 DEF Final
    <3>2. ls[i].type # "junk"
      BY <3>1 DEF IsWord, Fold, Cut, n, Say
    <3>3. Moves(adapter, f[i - 1], ls[i], f[i])
      BY <3>2 DEF Fold, n
    <3> QED BY <2>2, <3>1, <3>3 DEF Moves
  <2>3. CASE v # i
    <3>1. ~IsWord(ls[i])
      BY <2>1, <2>3 DEF Final
    <3>2. Final(ls, i - 1, v)
      BY <2>1, <2>3 DEF Final
    <3>3. f[i].bad = f[i - 1].bad
      <4>1. CASE ls[i].type = "junk"
        BY <4>1 DEF Fold, n
      <4>2. CASE ls[i].type # "junk"
        <5>1. Moves(adapter, f[i - 1], ls[i], f[i])
          BY <4>2 DEF Fold, n
        <5> QED BY <5>1, <3>1 DEF Moves
      <4> QED BY <4>1, <4>2
    <3> QED BY <1>3, <3>2, <3>3
  <2> QED BY <2>2, <2>3
<1> HIDE DEF T
<1>4. n \in T
  BY <1>1, <1>2, <1>3, CountUp
<1>5. f[n] \in Accs
  BY <1>1 DEF Fold, n
<1> QED BY <1>4, <1>5 DEF T, n

LEMMA LastWords ==
  ASSUME NEW ls, Len(ls) \in Nat
  PROVE  Final(ls, Len(ls), LastWord(ls))
<1> DEFINE n == Len(ls)
           I == {i \in 1..n : IsWord(ls[i])}
<1>1. LastWord(ls) = IF I # {} THEN Max(I) ELSE 0
  BY DEF LastWord, SelectLastInSeq, IsWord
<1>2. ASSUME I # {} PROVE Max(I) \in I /\ \A j \in I : Max(I) >= j
  <2> DEFINE J == {n - i : i \in I}
  <2>1. PICK x \in J : \A y \in J : x <= y
    <3>1. J \subseteq Nat /\ J # {}
      BY <1>2
    <3> HIDE DEF J
    <3> QED BY <3>1, LeastElement
  <2>2. PICK i \in I : x = n - i
    OBVIOUS
  <2>3. \A j \in I : i >= j
    <3> TAKE j \in I
    <3>1. n - j \in J
      OBVIOUS
    <3> HIDE DEF J
    <3>2. n - i <= n - j
      BY <3>1, <2>1, <2>2
    <3> QED BY <3>2
  <2> HIDE DEF I
  <2> QED BY <2>3 DEF Max
<1>3. CASE I = {}
  BY <1>1, <1>3 DEF Final
<1>4. CASE I # {}
  <2>1. LastWord(ls) = Max(I) /\ Max(I) \in I /\ \A j \in I : Max(I) >= j
    BY <1>1, <1>2, <1>4
  <2>2. LastWord(ls) \in 1..n /\ IsWord(ls[LastWord(ls)])
    BY <2>1
  <2>3. ASSUME NEW k \in 1..n, IsWord(ls[k]) PROVE LastWord(ls) >= k
    BY <2>1, <2>3
  <2> QED BY <2>2, <2>3 DEF Final
<1> QED BY <1>3, <1>4

LEMMA Classes ==
  ASSUME NEW marks
  PROVE  ClassifyError(marks) \in ErrorTypes \union {None}
<1> DEFINE I == {i \in 1..Len(Patterns) : Patterns[i] \in marks}
           p == SelectInSeq(Patterns, LAMBDA x : x \in marks)
<1>1. p = IF I # {} THEN Min(I) ELSE 0
  BY DEF SelectInSeq
<1>2. CASE I = {}
  BY <1>1, <1>2 DEF ClassifyError
<1>3. CASE I # {}
  <2>1. I \subseteq Nat
    OBVIOUS
  <2>2. \E x \in I : \A y \in I : x <= y
    <3> HIDE DEF I
    <3> QED BY <1>3, <2>1, LeastElement
  <2>3. Min(I) \in I
    <3> HIDE DEF I
    <3> QED BY <2>2 DEF Min
  <2>4. p \in 1..Len(Patterns) /\ p # 0
    BY <1>1, <1>3, <2>3
  <2>5. Patterns[p] \in ErrorTypes
    <3>1. \A i \in 1..Len(Patterns) : Patterns[i] \in ToSet(Patterns)
      BY DEF ToSet, Patterns
    <3> HIDE DEF p
    <3> QED BY <2>4, <3>1 DEF ErrorTypes
  <2> QED BY <2>4, <2>5 DEF ClassifyError
<1> QED BY <1>2, <1>3

LEMMA Normal ==
  ASSUME NEW label, NEW r, NEW m
  PROVE  OrUnknown(NormalizeErrorType(label, <<r, m>>)) \in ErrorTypes
<1> DEFINE texts == <<r, m>>
           I == {i \in 1..Len(texts) : ClassifyError(texts[i]) # None}
           hit == SelectInSeq(texts, LAMBDA x : ClassifyError(x) # None)
<1>0. "unknown" \in ErrorTypes
  BY DEF ErrorTypes
<1>1. hit = IF I # {} THEN Min(I) ELSE 0
  BY DEF SelectInSeq
<1>2. NormalizeErrorType(label, texts) =
        IF label \in ErrorTypes THEN label ELSE IF hit = 0 THEN None ELSE ClassifyError(texts[hit])
  BY DEF NormalizeErrorType
<1>3. ClassifyError(texts[hit]) \in ErrorTypes \union {None}
  BY Classes
<1> HIDE DEF hit, texts
<1>4. NormalizeErrorType(label, texts) \in ErrorTypes \union {None}
  BY <1>2, <1>3
<1> QED BY <1>0, <1>4 DEF OrUnknown, texts

(* A failure has a type; what the CLI said is believed; and without a word *)
(* of it and a reply the adapters that probe take a pattern for a failure. *)
LEMMA Judged ==
  ASSUME NEW ad \in Adapters, NEW a \in Accs, NEW marks
  PROVE  LET v == Verdict(ad, a, marks)
         IN  /\ v.bad = "true" => v.type \in ErrorTypes
             /\ a.bad = "true" => v.bad = "true"
             /\ ad \notin {"claude", "copilot", "cursor"} /\ a.bad = "none" /\ ~a.spoke
                  /\ ClassifyError(marks) # None => v.bad = "true"
<1>1. \A bad, label, r : LET t == Typed(bad, label, r, marks)
                         IN  t.bad = bad /\ (bad = "true" => t.type \in ErrorTypes)
  BY Normal DEF Typed
<1>2. CASE ad = "claude"
  BY <1>1, <1>2 DEF Verdict, ClaudeVerdict
<1>3. CASE ad = "codex"
  <2>1. Verdict(ad, a, marks) = CodexVerdict(a, marks)
    BY <1>3 DEF Verdict
  <2>2. CASE a.bad = "true"
    <3>1. CodexVerdict(a, marks) = Typed("true", None, a.why, marks)
      BY <2>2 DEF CodexVerdict
    <3> QED BY <2>1, <2>2, <3>1, <1>1
  <2>3. CASE a.bad # "true" /\ a.spoke
    <3>1. CodexVerdict(a, marks) = [bad |-> "false", type |-> None]
      BY <2>3 DEF CodexVerdict
    <3> QED BY <2>1, <2>3, <3>1
  <2>4. CASE a.bad # "true" /\ ~a.spoke
    <3>1. CodexVerdict(a, marks) = [bad |-> IF ClassifyError(marks) = None THEN "false" ELSE "true",
                                    type |-> ClassifyError(marks)]
      BY <2>4 DEF CodexVerdict
    <3>2. ClassifyError(marks) \in ErrorTypes \union {None}
      BY Classes
    <3> QED BY <2>1, <2>4, <3>1, <3>2
  <2> QED BY <2>2, <2>3, <2>4
<1>4. CASE ad = "copilot"
  BY <1>1, <1>4 DEF Verdict, CopilotVerdict
<1>5. CASE ad = "cursor"
  BY <1>1, <1>5 DEF Verdict, CursorVerdict
<1>6. CASE ad \notin {"claude", "codex", "copilot", "cursor"}
  <2>1. Verdict(ad, a, marks) = ProbingVerdict(a, marks)
    BY <1>6 DEF Verdict
  <2> DEFINE found == ClassifyError(marks)
  <2>2. CASE a.bad # "none"
    <3>1. ProbingVerdict(a, marks) = Typed(a.bad, a.label, a.reply, marks)
      BY <2>2 DEF ProbingVerdict
    <3> QED BY <2>1, <2>2, <3>1, <1>1
  <2>3. CASE a.bad = "none" /\ a.spoke
    <3>1. ProbingVerdict(a, marks) = [bad |-> "false", type |-> a.label]
      BY <2>3 DEF ProbingVerdict
    <3> QED BY <2>1, <2>3, <3>1
  <2>4. CASE a.bad = "none" /\ ~a.spoke
    <3>1. ProbingVerdict(a, marks) = Typed(IF found = None THEN "none" ELSE "true",
                                           IF a.label = None THEN found ELSE a.label, a.reply, marks)
      BY <2>4 DEF ProbingVerdict
    <3> QED BY <2>1, <2>4, <3>1, <1>1
  <2> QED BY <2>2, <2>3, <2>4
<1> QED BY <1>2, <1>3, <1>4, <1>5, <1>6

(* A failure that the CLI reports is one of the turn, so is a failure      *)
(* pattern where nothing else was said, and a failure lacks a type exactly *)
(* when fetch_results raised.                                              *)
THEOREM FailuresHaveTypes == AgentSpec => []FailuresAreTyped
<1>1. ASSUME SaidInv, ResultInv, ~unread, result # None
      PROVE  LET w == LastWord(raw)
             IN  /\ result.bad = "true" => result.type \in ErrorTypes
                 /\ w # 0 /\ (raw[w].bad = "true" \/ raw[w].label # None \/ raw[w].type = "turn.failed")
                      => result.bad = "true"
                 /\ adapter \notin {"claude", "copilot", "cursor"} /\ ~result.reply
                      /\ ClassifyError(RawMarks(raw)) # None /\ w = 0 => result.bad = "true"
  <2> DEFINE w == LastWord(raw)
             a == Folded(adapter, raw)
             marks == RawMarks(raw)
  <2>1. adapter \in Adapters /\ raw \in Seq(Said) /\ Len(raw) \in Nat
    BY <1>1 DEF SaidInv
  <2>2. PICK rf \in BOOLEAN : result = Read(rf)
    BY <1>1 DEF ResultInv
  <2>3. PICK f : Fold(f, raw) /\ a = f[Len(raw)]
    BY <2>1, Folding
  <2>4. Final(raw, Len(raw), w)
    BY <2>1, LastWords
  <2> DEFINE b == IF rf THEN [a EXCEPT !.spoke = TRUE] ELSE a
             v == Verdict(adapter, b, marks)
  <2>5. result.reply = b.spoke /\ result.bad = v.bad /\ result.type = v.type
    BY <2>2 DEF Read, FetchResults
  <2> HIDE DEF w, a, marks
  <2>6. /\ a \in Accs /\ (w = 0 => a.bad = "none")
        /\ w # 0 /\ BadWord(raw[w]) => a.bad = "true"
    BY <2>1, <2>3, <2>4, FoldFails
  <2>7. b \in Accs /\ b.bad = a.bad
    BY <2>6 DEF Accs
  <2> HIDE DEF b
  <2>8. /\ v.bad = "true" => v.type \in ErrorTypes
        /\ b.bad = "true" => v.bad = "true"
        /\ adapter \notin {"claude", "copilot", "cursor"} /\ b.bad = "none" /\ ~b.spoke
             /\ ClassifyError(marks) # None => v.bad = "true"
    BY <2>1, <2>7, Judged
  <2> HIDE DEF v
  <2> QED BY <2>5, <2>6, <2>7, <2>8 DEF w, marks, BadWord
<1>2. ASSUME ResultInv, unread, result # None PROVE result.bad = "true" /\ result.type \notin ErrorTypes
  <2>1. result = Unread
    BY <1>2 DEF ResultInv
  <2>2. None \notin ErrorTypes
    BY AdaptersAssumption DEF Labels
  <2> QED BY <2>1, <2>2 DEF Unread
<1>3. SaidInv /\ ResultInv => FailuresAreTyped
  BY <1>1, <1>2 DEF FailuresAreTyped
<1> QED
  BY <1>3, SaidFollows, ResultFollows, PTL

-----------------------------------------------------------------------------
(* The calls and their results.                                            *)

AskedBy(ls, m, id) == \E i \in 1..m : ls[i].part \in Requests(adapter) /\ ls[i].id = id

AnsweredBy(ls, m, id) ==
  \E i, j \in 1..m : /\ i < j /\ ls[i].part \in Requests(adapter) /\ ls[i].id = id
                     /\ ls[j].part \in Responses /\ ls[j].id = id

CallsInv(calls, ls, m) ==
  /\ calls \in Seq(CallSet)
  /\ \A k \in DOMAIN calls : calls[k].result \in {NoId, calls[k].id}
  /\ \A id \in CallIds : AskedBy(ls, m, id) => Has(calls, id)
  /\ \A id \in CallIds : AnsweredBy(ls, m, id) => \E k \in DOMAIN calls : calls[k].id = id /\ calls[k].result = id
  /\ adapter = "copilot" =>
       \A j, k \in DOMAIN calls : calls[j].id = calls[k].id /\ calls[j].id \in CallIds => j = k

(* One more line, of the event e, takes the calls from c to d.             *)
LEMMA CallsGoOn ==
  ASSUME NEW ls, NEW m \in Nat, NEW c, CallsInv(c, ls, m), NEW d \in Seq(CallSet),
         NEW e, e = ls[m + 1], CallsMove(adapter, c, e, d)
  PROVE  CallsInv(d, ls, m + 1)
<1> DEFINE Q == Requests(adapter)
<1>1. /\ c \in Seq(CallSet) /\ DOMAIN c = 1..Len(c) /\ Len(c) \in Nat
      /\ \A k \in DOMAIN c : c[k].result \in {NoId, c[k].id}
      /\ \A id \in CallIds : AskedBy(ls, m, id) => Has(c, id)
      /\ \A id \in CallIds : AnsweredBy(ls, m, id) => \E k \in DOMAIN c : c[k].id = id /\ c[k].result = id
  BY DEF CallsInv
<1>2. adapter = "copilot" =>
        \A j, k \in DOMAIN c : c[j].id = c[k].id /\ c[j].id \in CallIds => j = k
  BY DEF CallsInv
<1> HIDE DEF Q
<1>3. \A id : AskedBy(ls, m + 1, id) => AskedBy(ls, m, id) \/ (e.part \in Q /\ e.id = id)
  BY DEF AskedBy, Q
<1>4. \A id : AnsweredBy(ls, m + 1, id) =>
                AnsweredBy(ls, m, id) \/ (AskedBy(ls, m, id) /\ e.part \in Responses /\ e.id = id)
  BY DEF AskedBy, AnsweredBy
<1>5. CASE /\ d = c
           /\ e.part \in Q /\ e.id \in CallIds => Has(c, e.id)
           /\ e.part \in Responses /\ e.id \in CallIds => ~Has(c, e.id)
  <2>1. \A id \in CallIds : AskedBy(ls, m + 1, id) => Has(d, id)
    BY <1>1, <1>3, <1>5
  <2>2. \A id \in CallIds : AnsweredBy(ls, m + 1, id) => AnsweredBy(ls, m, id)
    BY <1>1, <1>4, <1>5
  <2> QED BY <1>1, <1>2, <1>5, <2>1, <2>2 DEF CallsInv
<1>6. ASSUME NEW r \in {NoId, e.id}, d = Append(c, [id |-> e.id, result |-> r]), e.part \notin Responses,
             adapter = "copilot" /\ e.id \in CallIds => ~Has(c, e.id)
      PROVE  CallsInv(d, ls, m + 1)
  <2> DEFINE n == Len(c)
             x == [id |-> e.id, result |-> r]
  <2>1. DOMAIN d = 1..(n + 1) /\ d[n + 1] = x /\ n + 1 \in DOMAIN d
    BY <1>1, <1>6
  <2>2. \A k \in 1..n : d[k] = c[k] /\ k \in DOMAIN d
    BY <1>1, <1>6
  <2>3. x.id = e.id /\ x.result = r
    OBVIOUS
  <2> HIDE DEF n, x
  <2>4. \A k \in DOMAIN d : k = n + 1 \/ k \in 1..n
    BY <2>1, <1>1 DEF n
  <2>5. \A k \in DOMAIN d : d[k].result \in {NoId, d[k].id}
    BY <1>1, <2>1, <2>2, <2>3, <2>4 DEF n
  <2>6. \A id \in CallIds : AskedBy(ls, m + 1, id) => Has(d, id)
    BY <1>1, <1>3, <2>1, <2>2, <2>3 DEF Has, n
  <2>7. \A id \in CallIds : AnsweredBy(ls, m + 1, id) => \E k \in DOMAIN d : d[k].id = id /\ d[k].result = id
    BY <1>1, <1>4, <1>6, <2>2 DEF n
  <2>8. ASSUME adapter = "copilot", NEW j \in DOMAIN d, NEW k \in DOMAIN d, d[j].id = d[k].id, d[j].id \in CallIds
        PROVE  j = k
    <3>1. \A i \in 1..n : d[i].id # d[n + 1].id \/ d[i].id \notin CallIds
      BY <1>1, <1>6, <2>1, <2>2, <2>3, <2>8 DEF Has, n
    <3>2. CASE j \in 1..n /\ k \in 1..n
      BY <1>1, <1>2, <2>2, <2>8, <3>2 DEF n
    <3> QED BY <2>4, <2>8, <3>1, <3>2
  <2> QED BY <2>5, <2>6, <2>7, <2>8 DEF CallsInv
<1>7. ASSUME NEW k \in DOMAIN c, c[k].id = e.id, d = Settled(c, k, e.id)
      PROVE  CallsInv(d, ls, m + 1)
  <2>1. DOMAIN d = DOMAIN c
    BY <1>1, <1>7 DEF Settled
  <2>2. \A i \in DOMAIN c : d[i] = IF i = k THEN [c[i] EXCEPT !.result = e.id] ELSE c[i]
    BY <1>1, <1>7 DEF Settled
  <2>3. \A i \in DOMAIN c : c[i] \in CallSet
    BY <1>1
  <2>4. \A i \in DOMAIN c : d[i].id = c[i].id /\ d[i].result = IF i = k THEN e.id ELSE c[i].result
    BY <2>2, <2>3 DEF CallSet
  <2>5. \A i \in DOMAIN d : d[i].result \in {NoId, d[i].id}
    BY <1>1, <1>7, <2>1, <2>4
  <2>6. \A id \in CallIds : AskedBy(ls, m + 1, id) => Has(d, id)
    BY <1>1, <1>3, <1>7, <2>1, <2>4 DEF Has
  <2>7. \A id \in CallIds : AnsweredBy(ls, m + 1, id) => \E i \in DOMAIN d : d[i].id = id /\ d[i].result = id
    <3> SUFFICES ASSUME NEW id \in CallIds, AnsweredBy(ls, m + 1, id)
                 PROVE  \E i \in DOMAIN d : d[i].id = id /\ d[i].result = id
      OBVIOUS
    <3>1. d[k].id = e.id /\ d[k].result = e.id
      BY <1>7, <2>4
    <3>2. CASE e.id = id
      BY <1>7, <2>1, <3>1, <3>2
    <3>3. CASE e.id # id
      <4>1. PICK i \in DOMAIN c : c[i].id = id /\ c[i].result = id
        BY <1>1, <1>4, <3>3
      <4>2. i # k
        BY <1>7, <3>3, <4>1
      <4> QED BY <2>1, <2>4, <4>1, <4>2
    <3> QED BY <3>2, <3>3
  <2>8. adapter = "copilot" =>
          \A i, j \in DOMAIN d : d[i].id = d[j].id /\ d[i].id \in CallIds => i = j
    BY <1>2, <2>1, <2>4
  <2> QED BY <2>5, <2>6, <2>7, <2>8 DEF CallsInv
<1> QED BY <1>5, <1>6, <1>7 DEF CallsMove, Q

LEMMA FoldCalls ==
  ASSUME adapter \in Adapters, NEW ls \in Seq(Said), NEW f, Fold(f, ls)
  PROVE  CallsInv(f[Len(ls)].calls, ls, Len(ls))
<1> DEFINE n == Len(ls)
           T == {m \in 0..n : CallsInv(f[m].calls, ls, m)}
<1>1. n \in Nat /\ f[0] = Fresh
  BY DEF Fold
<1> HIDE DEF n
<1>2. 0 \in T
  <2>1. f[0].calls = <<>>
    BY <1>1 DEF Fresh
  <2>2. CallsInv(<<>>, ls, 0)
    BY DEF CallsInv, AskedBy, AnsweredBy
  <2> QED BY <1>1, <2>1, <2>2
<1>3. ASSUME NEW i \in 1..n, i - 1 \in T PROVE i \in T
  <2>1. i - 1 \in Nat /\ i - 1 + 1 = i /\ CallsInv(f[i - 1].calls, ls, i - 1) /\ i \in 0..n
    BY <1>1, <1>3
  <2>2. f[i].calls \in Seq(CallSet)
    <3>1. f[i] \in Accs
      BY <2>1 DEF Fold, n
    <3> QED BY <3>1 DEF Accs
  <2>3. CallsMove(adapter, f[i - 1].calls, ls[i], f[i].calls)
    <3>1. CASE ls[i].type = "junk"
      <4>1. ls[i] \in Cut /\ f[i] = f[i - 1]
        BY <3>1 DEF Fold, n
      <4>2. ls[i].id \notin CallIds
        BY <4>1, CutsAre, AdaptersAssumption
      <4> QED BY <4>1, <4>2 DEF CallsMove
    <3>2. CASE ls[i].type # "junk"
      BY <3>2 DEF Fold, Moves, n
    <3> QED BY <3>1, <3>2
  <2> DEFINE c == f[i - 1].calls
             d == f[i].calls
  <2> HIDE DEF c, d
  <2>4. CallsInv(d, ls, i - 1 + 1)
    BY <2>1, <2>2, <2>3, CallsGoOn DEF c, d
  <2> QED BY <2>1, <2>4 DEF d
<1> HIDE DEF T
<1>4. n \in T
  BY <1>1, <1>2, <1>3, CountUp
<1> QED BY <1>4 DEF T, n

(* Who has spoken has said a line that sets the time to first token.       *)
LEMMA FoldSpeaks ==
  ASSUME adapter \in Adapters, adapter # "cursor", NEW ls \in Seq(Said), NEW f, Fold(f, ls)
  PROVE  f[Len(ls)].spoke => \E i \in 1..Len(ls) : First(ls[i])
<1> DEFINE n == Len(ls)
           T == {m \in 0..n : f[m].spoke => \E i \in 1..m : First(ls[i])}
<1>1. n \in Nat /\ f[0] = Fresh
  BY DEF Fold
<1> HIDE DEF n
<1>2. 0 \in T
  BY <1>1 DEF Fresh
<1>3. ASSUME NEW i \in 1..n, i - 1 \in T PROVE i \in T
  <2>1. (f[i - 1].spoke => \E j \in 1..(i - 1) : First(ls[j])) /\ i \in 0..n /\ 1..(i - 1) \subseteq 1..i /\ i \in 1..i
    BY <1>1, <1>3
  <2>2. f[i].spoke = f[i - 1].spoke \/ First(ls[i])
    <3>1. CASE ls[i].type = "junk"
      BY <3>1 DEF Fold, n
    <3>2. CASE ls[i].type # "junk"
      BY <3>2 DEF Fold, Moves, First, n
    <3> QED BY <3>1, <3>2
  <2> QED BY <2>1, <2>2
<1> HIDE DEF T
<1>4. n \in T
  BY <1>1, <1>2, <1>3, CountUp
<1> QED BY <1>4 DEF T, n

(* A result hangs at the call it answers, every answer to a call of the    *)
(* turn is there, no call of copilot's is listed twice, and a reply's time *)
(* to first token is that of a line of this turn, for every output.        *)
THEOREM ResultsStayTogether == AgentSpec => []ResultsBelong
<1>1. ASSUME SaidInv, ResultInv PROVE ResultsBelong
  <2> DEFINE calls == result.calls
             answered(id) == \E i, j \in DOMAIN raw :
               /\ i < j /\ raw[i].part \in Requests(adapter) /\ raw[i].id = id
               /\ raw[j].part \in Responses /\ raw[j].id = id
             own == \A c \in ToSet(calls) : c.result \in {NoId, c.id}
             there == \A id \in CallIds : answered(id) => \E c \in ToSet(calls) : c.id = id /\ c.result = id
             timed == result.reply /\ Streaming[adapter].first # {} =>
                        \/ /\ ttft \in DOMAIN raw
                           /\ First(raw[ttft]) \/ (Streaming[adapter].search /\ raw[ttft].type = "junk")
                           /\ \A i \in 1..(ttft - 1) : ~First(raw[i])
                        \/ adapter = "codex" /\ ttft = 0
             once == adapter = "copilot" =>
                       \A id \in CallIds : Cardinality({i \in DOMAIN calls : calls[i].id = id}) <= 1
  <2> SUFFICES ASSUME result # None, ~unread PROVE own /\ there /\ timed /\ once
    BY DEF ResultsBelong
  <2>1. adapter \in Adapters /\ raw \in Seq(Said) /\ Len(raw) \in Nat /\ DOMAIN raw = 1..Len(raw)
    BY <1>1 DEF SaidInv
  <2>2. PICK rf \in BOOLEAN : (rf => adapter = "codex") /\ result = Read(rf)
    BY <1>1 DEF ResultInv
  <2>3. TtftOf(raw, ttft)
    BY <1>1 DEF ResultInv
  <2> DEFINE a == Folded(adapter, raw)
  <2>4. PICK f : Fold(f, raw) /\ a = f[Len(raw)]
    BY <2>1, Folding
  <2>5. a \in Accs
    BY <2>1, <2>4 DEF Fold
  <2>6. calls = a.calls /\ result.reply = (IF rf THEN [a EXCEPT !.spoke = TRUE] ELSE a).spoke
    BY <2>2 DEF Read, FetchResults
  <2> HIDE DEF a
  <2>7. rf \/ result.reply = a.spoke
    BY <2>6
  <2>8. CallsInv(calls, raw, Len(raw))
    BY <2>1, <2>4, <2>6, FoldCalls
  <2> HIDE DEF calls
  <2>9. ToSet(calls) = {calls[k] : k \in DOMAIN calls}
    BY DEF ToSet
  <2>10. own
    BY <2>8, <2>9 DEF CallsInv
  <2>11. there
    <3>1. \A id : answered(id) => AnsweredBy(raw, Len(raw), id)
      BY <2>1 DEF AnsweredBy
    <3> HIDE DEF answered
    <3> QED BY <2>8, <2>9, <3>1 DEF CallsInv
  <2>12. timed
    <3> SUFFICES ASSUME result.reply, Streaming[adapter].first # {}
                 PROVE  \/ /\ ttft \in DOMAIN raw
                           /\ First(raw[ttft]) \/ (Streaming[adapter].search /\ raw[ttft].type = "junk")
                           /\ \A i \in 1..(ttft - 1) : ~First(raw[i])
                        \/ adapter = "codex" /\ ttft = 0
      OBVIOUS
    <3>1. adapter # "cursor"
      BY DEF Streaming, CursorStreaming
    <3>2. ttft # 0 \/ adapter = "codex"
      <4>1. CASE rf
        BY <4>1, <2>2
      <4>2. CASE ~rf
        <5>1. PICK i \in 1..Len(raw) : First(raw[i])
          BY <4>2, <2>1, <2>4, <2>7, <3>1, FoldSpeaks
        <5> QED BY <5>1, <2>3 DEF TtftOf
      <4> QED BY <4>1, <4>2
    <3>3. ttft # 0 => /\ ttft \in 1..Len(raw)
                      /\ First(raw[ttft]) \/ (Streaming[adapter].search /\ raw[ttft].type = "junk")
      BY <2>3 DEF TtftOf, Begins
    <3>4. ASSUME ttft # 0, NEW i \in 1..(ttft - 1) PROVE ~First(raw[i])
      BY <2>1, <2>3, <3>3, <3>4 DEF TtftOf
    <3>5. CASE ttft = 0
      BY <3>2, <3>5
    <3>6. CASE ttft # 0
      <4>1. \A i \in 1..(ttft - 1) : ~First(raw[i])
        BY <3>4, <3>6
      <4>2. DOMAIN raw = 1..Len(raw)
        BY <2>1
      <4>3. ttft \in DOMAIN raw
        BY <3>3, <3>6, <4>2
      <4>4. First(raw[ttft]) \/ (Streaming[adapter].search /\ raw[ttft].type = "junk")
        BY <3>3, <3>6
      <4> QED BY <4>1, <4>3, <4>4
    <3> QED BY <3>5, <3>6
  <2>13. once
    <3> SUFFICES ASSUME adapter = "copilot", NEW id \in CallIds
                 PROVE  Cardinality({i \in DOMAIN calls : calls[i].id = id}) <= 1
      OBVIOUS
    <3> DEFINE I == {i \in DOMAIN calls : calls[i].id = id}
    <3>1. \A i, j \in I : i = j
      BY <2>8 DEF CallsInv
    <3> HIDE DEF I
    <3>2. CASE I = {}
      <4>1. Cardinality(I) = 0
        BY <3>2, FS_EmptySet
      <4> QED BY <4>1 DEF I
    <3>3. CASE I # {}
      <4>1. PICK i \in I : TRUE
        BY <3>3
      <4>2. I = {i}
        BY <3>1, <4>1
      <4>3. Cardinality(I) = 1
        BY <4>2, FS_Singleton
      <4> QED BY <4>3 DEF I
    <3> QED BY <3>2, <3>3
  <2> QED BY <2>10, <2>11, <2>12, <2>13
<1> QED
  BY <1>1, SaidFollows, ResultFollows, PTL
=============================================================================
