------------------------------ MODULE Aggregate ------------------------------
(***************************************************************************)
(* What `belt aggregate` computes from the scores of a run                 *)
(* (src/belt/aggregator, src/belt/commands/aggregate.py, the iterators of  *)
(* src/belt/scorer/payloads.py).                                           *)
(*                                                                         *)
(* A score is [key, base, pass, checks, judges, cost]: the scenario (group *)
(* and name), its name without the trial suffix, overall_pass, the rule    *)
(* checks [dim, passed] with passed in {"yes", "no", "skipped"}, the LLM   *)
(* payloads and the judge cost.  A payload is [name, perTurn, turns,       *)
(* error, tokens]: one map from dimension to verdict per turn (a single    *)
(* one if the judge saw the scenario as a whole) and the judge_error_type. *)
(* A scenario's turn outputs are a sequence of [state, error, cost, secs], *)
(* state in {"read", "missing", "unreadable"} and error None, "unknown" if *)
(* no type was given, or a type.                                           *)
(***************************************************************************)
EXTENDS Lists, Integers, FiniteSets, SequencesExt, FiniteSetsExt, PyNone

Verdicts == {"high", "medium", "low", "pass", "fail", "inconclusive"}
DefaultFailLevels == {"low", "fail", "inconclusive"}
EnvironmentalErrors == {"auth", "rate", "timeout", "model"}

(* Whether x is among the elements of a sequence at which P holds.         *)
Some(s, P(_)) == \E i \in DOMAIN s : P(s[i])
Total(s, f(_)) == SumOf([i \in DOMAIN s |-> f(s[i])])
Count(s, P(_)) == Cardinality({i \in DOMAIN s : P(s[i])})

(* The places in the lists of(s[i]) at which P holds.                      *)
Places(s, of(_), P(_)) ==
  UNION {{i} \X {j \in DOMAIN of(s[i]) : P(of(s[i])[j])} : i \in DOMAIN s}
CountAll(s, of(_), P(_)) == Cardinality(Places(s, of, P))

(* n ** k, as a recursive function for the provers.                        *)
Power(n, k) ==
  LET power[i \in 0..k] == IF i = 0 THEN 1 ELSE n * power[i - 1]
  IN  power[k]

-----------------------------------------------------------------------------
(* The iterators of the payloads.                                          *)

(* level_to_score, in halves; an inconclusive verdict has none.            *)
LevelToScore(v) ==
  CASE v \in {"high", "pass"} -> 2 [] v = "medium" -> 1 [] v \in {"low", "fail"} -> 0
    [] OTHER -> None

WorstOfTurnsRank(v) == IF LevelToScore(v) = None THEN -1 ELSE LevelToScore(v)

Voted(payload, d) == {t \in DOMAIN payload.turns : d \in DOMAIN payload.turns[t]}
DimensionsOf(payload) == UNION {DOMAIN payload.turns[t] : t \in DOMAIN payload.turns}

(* The turn with the worst verdict, the first of them.                     *)
WorstTurn(payload, d) ==
  LET rank(t) == WorstOfTurnsRank(payload.turns[t][d])
      worst == {t \in Voted(payload, d) : \A u \in Voted(payload, d) : rank(t) <= rank(u)}
  IN  Min(worst)

(* Mutant: the last turn speaks for the scenario.                          *)
IterLLMVerdictsLast(payload) ==
  [d \in DimensionsOf(payload) |-> payload.turns[Max(Voted(payload, d))][d]]

IterLLMVerdicts(payload) ==
  [d \in DimensionsOf(payload) |-> payload.turns[WorstTurn(payload, d)][d]]

(* One row per dimension: the score in halves, and for rules the passed of *)
(* the runnable checks.                                                    *)
LLMFeedback(payload) ==
  [d \in DimensionsOf(payload) |-> LevelToScore(IterLLMVerdicts(payload)[d])]

RulesFeedback(checks) ==
  [d \in {c.dim : c \in ToSet(checks)} |->
     LET of(p) == Count(checks, LAMBDA c : c.dim = d /\ c.passed = p)
     IN  [passed |-> of("yes"), failed |-> of("no"), skipped |-> of("skipped"),
          score |-> IF of("yes") + of("no") = 0 THEN None ELSE <<of("yes"), of("yes") + of("no")>>]]

-----------------------------------------------------------------------------
(* Thresholds.                                                             *)

(* "mode/dimension:percent"; `raw` has "" for a part that is not there.    *)
ParseThreshold(raw) ==
  IF raw.mode = "" \/ raw.pct \notin 0..100 THEN None ELSE raw

ValidateThresholds(thresholds) == \A t \in thresholds : t.mode \in {"rules", "llm"}

(* The --threshold options in their order: the last one for a dimension    *)
(* holds.  None if one is refused.                                         *)
ReadThresholds(raws) ==
  LET parsed == [i \in DOMAIN raws |-> ParseThreshold(raws[i])]
      same(r, q) == r.mode = q.mode /\ r.dim = q.dim
      last == {parsed[i] : i \in {j \in DOMAIN parsed :
                 \A k \in DOMAIN parsed : k > j => ~same(raws[k], raws[j])}}
  IN  IF (\E i \in DOMAIN parsed : parsed[i] = None) \/ ~ValidateThresholds(last) THEN None ELSE last

DiscoverLLMDimensions(scores) ==
  UNION {DimensionsOf(p) : p \in UNION {ToSet(scores[i].judges) : i \in DOMAIN scores}}

Checks(score) == score.checks
Judges(score) == score.judges

(* Mutant: a failed check each.                                            *)
CountRulesFailuresByCheck(scores, d) ==
  [total |-> CountAll(scores, Checks, LAMBDA c : c.dim = d),
   failed |-> CountAll(scores, Checks, LAMBDA c : c.dim = d /\ c.passed = "no")]

(* A scenario fails a rules dimension with one failed check in it.         *)
CountRulesFailures(scores, d) ==
  LET has(k, P(_)) == \E i \in DOMAIN scores : scores[i].key = k /\
                        Some(scores[i].checks, LAMBDA c : c.dim = d /\ P(c.passed))
      keys == {s.key : s \in ToSet(scores)}
  IN  [total |-> Cardinality({k \in keys : has(k, LAMBDA p : TRUE)}),
       failed |-> Cardinality({k \in keys : has(k, LAMBDA p : p = "no")})]

(* Mutant: the last judge's verdict.                                       *)
VerdictForDimLast(score, d, failOn) ==
  LET verdict[i \in 0..Len(score.judges)] ==
        CASE i = 0 -> None
          [] i > 0 /\ d \in DimensionsOf(score.judges[i]) -> IterLLMVerdicts(score.judges[i])[d]
          [] OTHER -> verdict[i - 1]
  IN  verdict[Len(score.judges)]

(* The verdict of a scenario on a dimension: the first judge's, unless a   *)
(* later one fails it and no earlier one has.                              *)
VerdictForDim(score, d, failOn) ==
  LET step(v, payload) ==
        IF d \notin DimensionsOf(payload) THEN v
        ELSE LET w == IterLLMVerdicts(payload)[d]
             IN  IF v = None \/ (w \in failOn /\ v \notin failOn) THEN w ELSE v
      verdict[i \in 0..Len(score.judges)] == IF i = 0 THEN None ELSE step(verdict[i - 1], score.judges[i])
  IN  verdict[Len(score.judges)]

CountLLMFailures(scores, d, failOn) ==
  [total |-> Count(scores, LAMBDA s : VerdictForDim(s, d, failOn) # None),
   failed |-> Count(scores, LAMBDA s : VerdictForDim(s, d, failOn) \in failOn)]

(* A dimension that nothing was scored in is within every budget.          *)
WithinBudget(count, pct) == count.total = 0 \/ 100 * count.failed <= pct * count.total

Enforce(scores, thresholds, failOn) ==
  \A t \in thresholds :
     WithinBudget(IF t.mode = "rules" THEN CountRulesFailures(scores, t.dim)
                  ELSE CountLLMFailures(scores, t.dim, failOn), t.pct)

-----------------------------------------------------------------------------
(* Statistics.                                                             *)

Failed(scores) == Count(scores, LAMBDA s : ~s.pass)

ComputePartialScore(scores) ==
  LET all == CountAll(scores, Checks, LAMBDA c : TRUE)
  IN  IF all = 0 THEN None
      ELSE [passed |-> CountAll(scores, Checks, LAMBDA c : c.passed = "yes"), total |-> all]

Histogram(scores, scorer, d) ==
  LET rows(P(_)) == CountAll(scores, Judges, LAMBDA p : p.name = scorer /\ d \in DimensionsOf(p) /\ P(p))
  IN  [total |-> rows(LAMBDA p : TRUE),
       verdicts |-> [v \in Verdicts |-> rows(LAMBDA p : IterLLMVerdicts(p)[d] = v)]]

(* More than a fifth of a dimension's verdicts are inconclusive.           *)
InconclusiveWarning(histogram) == 100 * histogram.verdicts["inconclusive"] > 20 * histogram.total

(* In the statistics a check that was skipped counts as failed.            *)
BuildStats(scores) ==
  [passed |-> Len(scores) - Failed(scores), total |-> Len(scores),
   rules |-> [d \in {c.dim : c \in UNION {ToSet(s.checks) : s \in ToSet(scores)}} |->
                LET all == CountAll(scores, Checks, LAMBDA c : c.dim = d)
                    ok == CountAll(scores, Checks, LAMBDA c : c.dim = d /\ c.passed = "yes")
                IN  [passed |-> ok, failed |-> all - ok, total |-> all]],
   partial |-> ComputePartialScore(scores)]

(* load_turn_outputs_for_scenario: up to the first that is missing.        *)
LoadTurnOutputs(outputs) ==
  LET gap == SelectInSeq(outputs, LAMBDA o : o.state = "missing")
  IN  Kept(IF gap = 0 THEN outputs ELSE SubSeq(outputs, 1, gap - 1), {o \in ToSet(outputs) : o.state = "read"})

AgentErrorTypes(outputs) == {o.error : o \in ToSet(LoadTurnOutputs(outputs))} \ {None}

(* `disk` maps the scenarios that have an outcome directory to their turn  *)
(* outputs; an error of a turn in a passing scenario makes it a vacuous    *)
(* pass.                                                                   *)
CollectAgentErrors(scores, disk) ==
  {[key |-> s.key, types |-> AgentErrorTypes(disk[s.key]), vacuous |-> s.pass] :
     s \in {x \in ToSet(scores) : x.key \in DOMAIN disk /\ AgentErrorTypes(disk[x.key]) # {}}}

CollectJudgeErrors(scores) ==
  {[key |-> s.key, types |-> {p.error : p \in ToSet(s.judges)} \ {None}] :
     s \in {x \in ToSet(scores) : Some(x.judges, LAMBDA p : p.error # None)}}

(* Mutant: a pass counts whatever blocked the agent or the judge.          *)
BuildTaskQualitySplitVacuous(scores, agentErrors, judgeErrors) ==
  LET agent == {e.key : e \in {x \in agentErrors : x.types \intersect EnvironmentalErrors # {}}}
      judge == {e.key : e \in judgeErrors}
      blocked == agent \union judge
      completed == Len(scores) - Cardinality(blocked)
      passed == Count(scores, LAMBDA s : s.pass)
  IN  IF blocked = {} THEN None
      ELSE [attempted |-> Len(scores), agent |-> Cardinality(agent),
            judge |-> Cardinality(judge \ agent), completed |-> completed, passed |-> passed,
            failed |-> IF completed > passed THEN completed - passed ELSE 0]

(* Blocked by the environment on the agent's side, else on the judge's;    *)
(* the rest is completed.                                                  *)
BuildTaskQualitySplit(scores, agentErrors, judgeErrors) ==
  LET agent == {e.key : e \in {x \in agentErrors : x.types \intersect EnvironmentalErrors # {}}}
      judge == {e.key : e \in judgeErrors}
      blocked == agent \union judge
      completed == Len(scores) - Cardinality(blocked)
      passed == Count(scores, LAMBDA s : s.pass /\ s.key \notin blocked)
  IN  IF blocked = {} THEN None
      ELSE [attempted |-> Len(scores), agent |-> Cardinality(agent),
            judge |-> Cardinality(judge \ agent), completed |-> completed, passed |-> passed,
            failed |-> IF completed > passed THEN completed - passed ELSE 0]

(* What the headline says.                                                 *)
BuildBottomLine(scores, agentErrors, judgeErrors) ==
  LET split == BuildTaskQualitySplit(scores, agentErrors, judgeErrors)
  IN  [lead |-> CASE Failed(scores) = 0 /\ agentErrors = {} /\ judgeErrors = {} -> "all passed"
                  [] split # None -> "split"
                  [] split = None /\ Failed(scores) > 0 -> "failed"
                  [] OTHER -> "passed with agent errors",
       judge |-> Cardinality(judgeErrors), agent |-> Cardinality(agentErrors),
       vacuous |-> Cardinality({e \in agentErrors : e.vacuous})]

(* Costs, the judge's apart, of the scenarios that have any, and tokens.   *)
AggregateCostTiming(scores, disk) ==
  LET outputs(s) == IF s.key \in DOMAIN disk THEN LoadTurnOutputs(disk[s.key]) ELSE <<>>
      agent(s) == Total(outputs(s), LAMBDA o : IF o.cost = None THEN 0 ELSE o.cost)
      charged(s) == Some(outputs(s), LAMBDA o : o.cost # None)
      judge(s) == IF s.cost = None THEN 0 ELSE s.cost
  IN  [agent |-> Total(scores, agent), judge |-> Total(scores, judge),
       total |-> Total(scores, agent) + Total(scores, judge),
       counted |-> Count(scores, charged),
       seconds |-> Total(scores, LAMBDA s : Total(outputs(s), LAMBDA o : o.secs)),
       tokens |-> Total(scores, LAMBDA s : Total(s.judges, LAMBDA p : p.tokens))]

(* Per scenario the trials and how many passed; None without a trial.      *)
ComputeReliability(scores) ==
  IF ~Some(scores, LAMBDA s : s.base # s.key) THEN None
  ELSE [b \in {s.base : s \in ToSet(scores)} |->
          [trials |-> Count(scores, LAMBDA s : s.base = b),
           passed |-> Count(scores, LAMBDA s : s.base = b /\ s.pass)]]

(* pass_at_k and pass_pow_k of a rate passed/trials, times trials^k.       *)
PassPow(r, k) == Power(r.passed, k)
PassAt(r, k) == Power(r.trials, k) - Power(r.trials - r.passed, k)

-----------------------------------------------------------------------------
(* The whole of `aggregate` after its arguments.                           *)

(* discover_scores, of the directories in order: a file that is not there  *)
(* or does not parse (None) is left out.                                   *)
DiscoverScores(files) == Kept(files, {f \in ToSet(files) : f # None})

(* Mutant: the verdict on the run is that on the scenarios that ran.       *)
ResultsOfTheRest(scores, disk, setupErrors, thresholds, failOn) ==
  LET judge == CollectJudgeErrors(scores)
      agent == CollectAgentErrors(scores, disk)
  IN  [scores |-> scores, total |-> Len(scores), failed |-> Failed(scores),
       overall |-> Failed(scores) = 0,
       setup |-> setupErrors, agent |-> agent, judge |-> judge,
       line |-> BuildBottomLine(scores, agent, judge),
       split |-> BuildTaskQualitySplit(scores, agent, judge),
       kept |-> Enforce(scores, thresholds, failOn)]

(* results.json.                                                           *)
Results(scores, disk, setupErrors, thresholds, failOn) ==
  LET judge == CollectJudgeErrors(scores)
      agent == CollectAgentErrors(scores, disk)
  IN  [scores |-> scores, total |-> Len(scores), failed |-> Failed(scores),
       overall |-> Failed(scores) = 0 /\ setupErrors = {},
       setup |-> setupErrors, agent |-> agent, judge |-> judge,
       line |-> BuildBottomLine(scores, agent, judge),
       split |-> BuildTaskQualitySplit(scores, agent, judge),
       kept |-> Enforce(scores, thresholds, failOn)]

AggregateExit(results, exports) ==
  IF ~results.kept \/ results.judge # {} THEN 1 ELSE exports
=============================================================================
