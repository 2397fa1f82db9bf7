------------------------------ MODULE MCNumbers ------------------------------
(***************************************************************************)
(* The questions of MCChecks about the scores of a run: its statistics,    *)
(* thresholds, trials and costs, and the comparison of two runs.           *)
(***************************************************************************)
EXTENDS Asking, Compare

-----------------------------------------------------------------------------
(* The statistics of a run.                                                *)

Judge(name, turns) ==
  [name |-> name, perTurn |-> Len(turns) > 1, error |-> None, tokens |-> 1,
   turns |-> [i \in DOMAIN turns |-> [d \in {"quality"} |-> turns[i]]]]
CheckOf(d, passed) == [dim |-> d, passed |-> passed]

(* Two judges who disagree, turns that differ, checks of two dimensions    *)
(* and skipped ones, and two trials of one scenario.                       *)
SomeScored ==
  [key : {<<"g", "s trial 1">>, <<"g", "s trial 2">>, <<"h", "s">>}, pass : BOOLEAN, cost : {None},
   checks : {<<>>, <<CheckOf("execution", "yes"), CheckOf("execution", "no")>>, <<CheckOf("execution", "skipped")>>,
             <<CheckOf("execution", "yes"), CheckOf("response", "yes")>>},
   judges : {<<>>, <<Judge("llm", <<"high">>)>>, <<Judge("llm", <<"low", "high">>)>>,
             <<Judge("llm", <<"medium", "inconclusive">>)>>,
             <<Judge("one", <<"fail">>), Judge("two", <<"pass">>)>>}]
WithBase(s) == [f \in DOMAIN s \union {"base"} |->
                  IF f # "base" THEN s[f] ELSE IF s.key[1] = "g" THEN <<"g", "s">> ELSE s.key]
SomeScoredRuns ==
  {[i \in DOMAIN run |-> WithBase(run[i])] :
     run \in {r \in SeqsUpTo(SomeScored, 2) : Len(r) = 2 => r[1].key # r[2].key /\ r[2].key # <<"g", "s trial 1">>}}

SomeThresholds ==
  {<<>>} \union {<<[mode |-> m, dim |-> IF m = "llm" THEN "quality" ELSE "execution", pct |-> p]>> :
                   m \in {"rules", "llm"}, p \in {0, 50}}
(* Refused, or given twice.                                                *)
SomeOddThresholds ==
  SeqsUpTo([mode : {"rules", "llm", "rule"}, dim : {"execution"}, pct : {0, 50, 101}], 2)

(* What `belt aggregate` says of the scores whatever order it finds them   *)
(* in.                                                                     *)
Statistics(run, thresholds) ==
  [stats |-> BuildStats(run), trials |-> ComputeReliability(run),
   kept |-> Enforce(run, thresholds, DefaultFailLevels),
   more |-> Enforce(run, {[t EXCEPT !.pct = @ + 50] : t \in thresholds}, DefaultFailLevels),
   warned |-> InconclusiveWarning(Histogram(run, "llm", "quality"))]

AskStatistics ==
  /\ asked = About("statistics")
  /\ \E run \in SomeScoredRuns, raws \in SomeThresholds \union SomeOddThresholds :
       LET thresholds == ReadThresholds(raws)
       IN  /\ raws \notin SomeThresholds => Len(run) < 2
           /\ asked' = [family |-> "statistics", run |-> run, raws |-> raws]
           /\ answer' = IF thresholds = None THEN [refused |-> TRUE]
                        ELSE [refused |-> FALSE, thresholds |-> thresholds,
                              here |-> Statistics(run, thresholds), turned |-> Statistics(Reverse(run), thresholds)]

(* A scenario of a run that misses a threshold's dimension.                *)
Misses(s, t) ==
  IF t.mode = "rules" THEN \E c \in ToSet(s.checks) : c.dim = t.dim /\ c.passed = "no"
  ELSE \E p \in ToSet(s.judges) : \E i \in DOMAIN p.turns :
         t.dim \in DOMAIN p.turns[i] /\ p.turns[i][t.dim] \in DefaultFailLevels

(* sum(f.values()).                                                        *)
SumAll(f) == LET keys == SetToSeq(DOMAIN f) IN SumOf([k \in DOMAIN keys |-> f[keys[k]]])

StatisticsAddUp ==
  asked.family = "statistics" /\ ~answer.refused =>
    LET run == asked.run
        stats == answer.here.stats
        trials == answer.here.trials
        rows(d) == [i \in {j \in DOMAIN run : d \in {c.dim : c \in ToSet(run[j].checks)}} |->
                      RulesFeedback(run[i].checks)[d]]
    IN  /\ answer.here = answer.turned
        /\ \A d \in DOMAIN stats.rules :
             /\ stats.rules[d].passed = SumAll([i \in DOMAIN rows(d) |-> rows(d)[i].passed])
             /\ stats.rules[d].failed = SumAll([i \in DOMAIN rows(d) |-> rows(d)[i].failed + rows(d)[i].skipped])
        /\ stats.partial # None =>
             stats.partial.total = SumAll([d \in DOMAIN stats.rules |-> stats.rules[d].total])
        /\ trials # None =>
             /\ SumAll([b \in DOMAIN trials |-> trials[b].trials]) = stats.total
             /\ SumAll([b \in DOMAIN trials |-> trials[b].passed]) = stats.passed
             /\ \A b \in DOMAIN trials : \A k \in {1, 3, 8} :
                  LET n == Power(trials[b].trials, k - 1)
                  IN  PassPow(trials[b], k) <= trials[b].passed * n /\ trials[b].passed * n <= PassAt(trials[b], k)
        /\ answer.here.kept => answer.here.more
        /\ \A t \in answer.thresholds :
             /\ t.pct = 0 /\ answer.here.kept => \A s \in ToSet(run) : ~Misses(s, t)
             /\ t.pct < 100 /\ run # <<>> /\ (\A s \in ToSet(run) : Misses(s, t)) => ~answer.here.kept
        /\ (\A t \in answer.thresholds : \A s \in ToSet(run) : ~Misses(s, t)) => answer.here.kept
        /\ answer.here.warned =>
             \E s \in ToSet(run) : \E p \in ToSet(s.judges) : \E i \in Voted(p, "quality") :
               p.name = "llm" /\ p.turns[i]["quality"] = "inconclusive"

(* Costs.  An output that is not there ends the turns.                     *)
SomeTurns ==
  SeqsUpTo([state : {"read", "missing", "unreadable"}, error : {None}, cost : {None, 3}, secs : {1}], 2)

AskCosts ==
  /\ asked = About("costs")
  /\ \E a, b \in SomeTurns, m, n \in {None, 2} :
       LET s(k, c) == [key |-> k, judges |-> <<Judge("llm", <<"high">>)>>, cost |-> c]
           disk == [k \in {"a", "b"} |-> IF k = "a" THEN a ELSE b]
           costs(run) == AggregateCostTiming(run, disk)
       IN  /\ asked' = [family |-> "costs", turns |-> disk]
           /\ answer' = [a |-> costs(<<s("a", m)>>), b |-> costs(<<s("b", n)>>), both |-> costs(<<s("a", m), s("b", n)>>)]

(* A later turn that was lost takes none of the earlier ones with it.      *)
CostsAddUp ==
  asked.family = "costs" =>
    /\ \A f \in DOMAIN answer.both : answer.both[f] = answer.a[f] + answer.b[f]
    /\ \A k \in {"a", "b"} :
         LET t == asked.turns[k]
             paid == t # <<>> /\ t[1].state = "read" /\ t[1].cost # None
         IN  paid => (IF k = "a" THEN answer.a ELSE answer.b).agent >= t[1].cost

-----------------------------------------------------------------------------
(* Comparing two runs.                                                     *)

(* A judge that saw the scenario as a whole, two turns of it, or nothing.  *)
SomeJudges ==
  {<<>>} \union
  {<<[name |-> "llm", perTurn |-> Len(turns) > 1, error |-> None, tokens |-> 0,
      turns |-> [i \in DOMAIN turns |-> [d \in {"quality"} |-> turns[i]]]]>> :
     turns \in {<<"high">>, <<"medium">>, <<"fail">>, <<"high", "low">>, <<"low", "high">>,
                <<"medium", "inconclusive">>}}
SomeScores == [key : {<<"g", "s">>, <<"g", "t">>, <<"h", "s">>}, judges : SomeJudges]
SomeRuns == {run \in SeqsUpTo(SomeScores, 2) : Len(run) = 2 => run[1].key # run[2].key}

AskCompare ==
  /\ asked = About("compare")
  /\ \E a, b \in SomeRuns :
       /\ asked' = [family |-> "compare", a |-> a, b |-> b]
       /\ answer' = [ab |-> CompareRuns(a, b), ba |-> CompareRuns(b, a)]

(* The judge's verdict of a run on the scenario, as compare reads it.      *)
Judged(run, k) == \E s \in ToSet(run) : s.key = k /\ s.judges # <<>>
NoBetterThanATurn(s) ==
  \A p \in ToSet(s.judges) : \A t \in Voted(p, "quality") :
    WorstOfTurnsRank(GetLLMScore(s, "quality")) <= WorstOfTurnsRank(p.turns[t]["quality"])

ComparisonFair ==
  asked.family = "compare" =>
    LET a == asked.a
        b == asked.b
        ab == answer.ab
    IN  /\ DOMAIN ab = DOMAIN answer.ba
        /\ \A k \in DOMAIN ab : \A d \in DOMAIN ab[k].delta :
             /\ ab[k].delta[d] = None <=> answer.ba[k].delta[d] = None
             /\ ab[k].delta[d] # None => answer.ba[k].delta[d] = -ab[k].delta[d]
             /\ a = b /\ ab[k].delta[d] # None => ab[k].delta[d] = 0
        /\ Regressions(ab) = Improvements(answer.ba)
        /\ \A s \in ToSet(a) \union ToSet(b) : NoBetterThanATurn(s)
        /\ ~Normalized(a, b) =>
             \A k \in DOMAIN ab :
               /\ ab[k].a <=> \E s \in ToSet(a) : s.key = k
               /\ ab[k].b <=> \E s \in ToSet(b) : s.key = k
               /\ \A d \in DOMAIN ab[k].delta : ab[k].delta[d] # None => Judged(a, k) /\ Judged(b, k)

(* The statistics do not depend on the order of the files and agree with   *)
(* the feedback per scenario; every trial is counted once, and pass^k, the *)
(* pass rate and pass@k are in this order; a higher threshold is never     *)
(* harder to keep, and one of 0 is kept iff no scenario has a failed check *)
(* or, of any judge in any turn, a failing verdict; the costs of a run are *)
(* those of its scenarios.  Comparing two runs the other way round turns   *)
(* every difference round; a run does not differ from itself; a difference *)
(* is stated only where both runs were judged, and never from a verdict    *)
(* better than that of one of the turns; unless the keys were reduced to   *)
(* names, a scenario is said to be in a run iff it is.                     *)
NumbersAreFair == StatisticsAddUp /\ CostsAddUp /\ ComparisonFair
=============================================================================
