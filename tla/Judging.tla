------------------------------ MODULE Judging ------------------------------
(***************************************************************************)
(* The score phase of `belt score` and `belt eval` with LLM judges:        *)
(* commands/score.py hands the outcome directories to its workers;         *)
(* score_scenario (scorer/pipeline.py) loads the turns and calls each      *)
(* scorer; an LLMScorer asks its model once per turn or once per scenario, *)
(* through the ScoreCache; a ConsensusScorer merges the judges' votes.     *)
(*                                                                         *)
(* A verdict is "pass" or "fail" on one dimension.  A cache entry has size *)
(* one.  Money is counted in answered calls.                               *)
(***************************************************************************)
EXTENDS Lists, FiniteSets, SequencesExt, FiniteSetsExt

CONSTANTS
  Dirs,          (* outcome directories there may be, numbered             *)
  Turns,         (* turns of a scenario                                    *)
  Workers,       (* --workers                                              *)
  MaxTries,      (* max_retries: POSTs of a request that is throttled      *)
  Budget,        (* BELT_CACHE_MAX_BYTES, in entries; 0 means no limit     *)
  Consensus,     (* "majority", "unanimous" or "any"                       *)
  Cumulative,    (* evidence_scope: earlier turns are shown too            *)
  MaxJudges,     (* bound on the judges of a scorer config                 *)
  MaxLoad,       (* bound on scenarios times judges                        *)
  MaxOdd         (* bound on skip overrides and lost turns of a directory  *)
                 (* scored alone; directories scored together have none    *)

ASSUME JudgingAssumption ==
  /\ Dirs \in Nat \ {0} /\ Turns \in Nat \ {0} /\ Workers \in Nat \ {0} /\ MaxTries \in Nat \ {0}
  /\ Budget \in Nat
  /\ Consensus \in {"majority", "unanimous", "any"}
  /\ Cumulative \in BOOLEAN
  /\ MaxJudges \in Nat \ {0} /\ MaxLoad \in Nat \ {0} /\ MaxOdd \in Nat

VARIABLES
  setup,   (* what this scoring was asked to do and finds on disk          *)
  cache,   (* .score_cache, oldest entry first                             *)
  said,    (* every verdict a model ever gave, with the evidence it saw    *)
  job,     (* _score_one of each outcome directory                         *)
  spent,   (* total_cost_usd of each judge of the scorer list              *)
  score    (* score.json of each outcome directory                         *)

vars == <<setup, cache, said, job, spent, score>>

Scenarios == 1..Dirs
Ballots == {"pass", "fail"}
Votes == Ballots \cup {"errored", "skipped"}

(* What can be left of the turns of a scenario, in order.                  *)
Readable == {Kept([t \in 1..Turns |-> t], T) : T \in SUBSET (1..Turns)}

(***************************************************************************)
(* todo: the directories; n: the judges; merged: they are one              *)
(* ConsensusScorer; perTurn: resolution "turn"; twins: the judges differ   *)
(* in name only; own: the scenarios with a scoring strategy of their own;  *)
(* skip: llm_judges[j].skip of a turn; loaded: turn_outputs, the turns     *)
(* whose files could be read, without gaps for those that could not.       *)
(***************************************************************************)
Setups ==
  {c \in [todo : {1..k : k \in Scenarios}, n : 1..MaxJudges, merged : BOOLEAN, perTurn : BOOLEAN,
          twins : BOOLEAN, own : SUBSET Scenarios,
          skip : UNION {kSubset(k, Scenarios \X (1..MaxJudges) \X (1..Turns)) : k \in 0..MaxOdd},
          loaded : [Scenarios -> Readable]] :
     /\ Cardinality(c.todo) * c.n <= MaxLoad
     /\ c.merged \/ c.twins => c.n > 1
     /\ c.own \subseteq c.todo
     /\ Cardinality(c.skip) + SumOf([s \in Scenarios |-> Turns - Len(c.loaded[s])])
          <= IF Cardinality(c.todo) = 1 THEN MaxOdd ELSE 0
     /\ \A o \in c.skip : c.perTurn /\ o[1] \in c.todo /\ o[2] <= c.n
     /\ \A s \in c.todo, j \in 1..c.n : \E t \in 1..Turns : <<s, j, t>> \notin c.skip
     /\ \A s \in Scenarios \ c.todo : Len(c.loaded[s]) = Turns}

Judges == 1..setup.n

Loaded(s) == setup.loaded[s]

(* The calls a judge makes for a scenario.                                 *)
Places(s) == IF setup.perTurn THEN 1..Len(Loaded(s)) ELSE {i \in {1} : Loaded(s) # <<>>}

(* A judge that is not in a consensus is rebuilt without its name.         *)
KeepsName(s) == setup.merged \/ s \notin setup.own

(* The override is found by place in turn_outputs and name of the judge.   *)
Skipped(s, j, p) == setup.perTurn /\ KeepsName(s) /\ <<s, j, p>> \in setup.skip

(* The turns a call shows to the model.                                    *)
Window(s, p) ==
  IF ~setup.perTurn THEN ToSet(Loaded(s))
  ELSE IF Cumulative THEN ToSet(SubSeq(Loaded(s), 1, p)) ELSE {Loaded(s)[p]}

(* What a call puts to a model: the rubric, and the turns with the number  *)
(* they are given.                                                         *)
Evidence(s, j, p) ==
  [judge |-> IF setup.twins THEN 1 ELSE j, scenario |-> s, place |-> p, turns |-> Window(s, p)]

(* Mutant: the cache key leaves the dynamic message out.                   *)
KeyOfSystemMessage(s, j, p) ==
  [judge |-> IF setup.twins THEN 1 ELSE j, scenario |-> s, place |-> 0, turns |-> {}]

(* The model and the whole prompt are hashed.                              *)
Key(s, j, p) == Evidence(s, j, p)

NewJob ==
  [at |-> "waiting", judge |-> 1, place |-> 1, tries |-> 0, retried |-> FALSE,
   votes |-> [j \in 1..MaxJudges |-> <<>>], raised |-> FALSE, billed |-> 0]

NoScore == [is |-> "none", pass |-> FALSE, cost |-> 0]

(* An earlier scoring can have left an entry in the cache, whole or        *)
(* damaged; which directory it is of is a matter of their numbering.       *)
Init ==
  /\ setup \in Setups
  /\ \/ cache = <<>> /\ said = {}
     \/ \E w \in BOOLEAN :
          /\ Loaded(1) # <<>>
          /\ cache = <<[key |-> Key(1, 1, 1), vote |-> "pass", whole |-> w]>>
          /\ said = {<<Evidence(1, 1, 1), v>> : v \in {x \in {"pass"} : w}}
  /\ job = [s \in Scenarios |-> NewJob]
  /\ spent = [j \in 1..MaxJudges |-> 0]
  /\ score = [s \in Scenarios |-> NoScore]

-----------------------------------------------------------------------------
(* One judge call.                                                         *)

ThisKey(s) == Key(s, job[s].judge, job[s].place)
Entries(k) == {e \in ToSet(cache) : e.key = k}
Without(k) == Kept(cache, {e \in ToSet(cache) : e.key # k})

(* The job after its judge is done: the next judge, or the end.            *)
JudgeDone(b, j) ==
  [b EXCEPT !.at = IF j = setup.n THEN "decide" ELSE "judge", !.judge = IF j = setup.n THEN j ELSE j + 1,
            !.place = 1, !.tries = 0, !.retried = FALSE]

(* The job after a vote: the next turn of the judge, or the judge is done. *)
Voted(s, b, v) ==
  LET j == b.judge
      w == [b EXCEPT !.votes[j] = Append(@, v), !.tries = 0, !.retried = FALSE]
  IN IF b.place + 1 \in Places(s) THEN [w EXCEPT !.at = "judge", !.place = @ + 1] ELSE JudgeDone(w, j)

SkipTurn(s) ==
  /\ job[s].at = "judge"
  /\ Skipped(s, job[s].judge, job[s].place)
  /\ job' = [job EXCEPT ![s] = Voted(s, @, "skipped")]
  /\ UNCHANGED <<setup, cache, said, spent, score>>

Asking(s) == job[s].at = "judge" /\ ~Skipped(s, job[s].judge, job[s].place)

(* Mutant: a damaged entry is served.                                      *)
CacheHitDamaged(s) ==
  /\ Asking(s)
  /\ \E e \in Entries(ThisKey(s)) : job' = [job EXCEPT ![s] = Voted(s, @, e.vote)]
  /\ UNCHANGED <<setup, cache, said, spent, score>>

CacheHit(s) ==
  /\ Asking(s)
  /\ \E e \in Entries(ThisKey(s)) : e.whole /\ job' = [job EXCEPT ![s] = Voted(s, @, e.vote)]
  /\ UNCHANGED <<setup, cache, said, spent, score>>

(* A miss; a damaged entry is removed.                                     *)
CacheMiss(s) ==
  /\ Asking(s)
  /\ \A e \in Entries(ThisKey(s)) : ~e.whole
  /\ cache' = Without(ThisKey(s))
  /\ job' = [job EXCEPT ![s].at = "post"]
  /\ UNCHANGED <<setup, said, spent, score>>

(* Mutant: eviction stops one entry early.                                 *)
FittedButOne(c) ==
  IF Budget = 0 \/ Len(c) <= Budget + 1 THEN c ELSE SubSeq(c, Len(c) - Budget, Len(c))

(* _evict_if_over_budget.                                                  *)
Fitted(c) ==
  IF Budget = 0 \/ Len(c) <= Budget THEN c ELSE SubSeq(c, Len(c) - Budget + 1, Len(c))

(* _extract_usage: the scorers of a scenario with its own strategy are     *)
(* fresh, and their totals end with them.                                  *)
Bill(s) == spent' = IF s \in setup.own THEN spent ELSE [spent EXCEPT ![job[s].judge] = @ + 1]
Billed(s) == [job[s] EXCEPT !.billed = @ + 1]

(* 200 with a verdict, which is stored unless the disk refuses it.         *)
Answer(s, v) ==
  /\ job[s].at = "post"
  /\ said' = said \cup {<<Evidence(s, job[s].judge, job[s].place), v>>}
  /\ cache' \in {cache, Fitted(Append(Without(ThisKey(s)), [key |-> ThisKey(s), vote |-> v, whole |-> TRUE]))}
  /\ job' = [job EXCEPT ![s] = Voted(s, Billed(s), v)]
  /\ Bill(s)
  /\ UNCHANGED <<setup, score>>

(* 200 with something else; it costs as much.                              *)
Unparsable(s) ==
  /\ job[s].at = "post"
  /\ job' = [job EXCEPT ![s] = Voted(s, Billed(s), "errored")]
  /\ Bill(s)
  /\ UNCHANGED <<setup, cache, said, score>>

(* Mutant: the count of the tries starts over.                             *)
ThrottledForEver(s) ==
  /\ job[s].at = "post"
  /\ job' = [job EXCEPT ![s].tries = (@ + 1) % MaxTries]
  /\ UNCHANGED <<setup, cache, said, spent, score>>

(* 429: again after a pause, MaxTries times in all.                        *)
Throttled(s) ==
  /\ job[s].at = "post"
  /\ LET b == job[s]
         next == IF b.tries + 1 < MaxTries THEN [b EXCEPT !.tries = @ + 1] ELSE Voted(s, b, "errored")
     IN job' = [job EXCEPT ![s] = next]
  /\ UNCHANGED <<setup, cache, said, spent, score>>

(* JudgeInfraError: a timeout, a 5xx, no connection.                       *)
Unreachable(s) ==
  /\ job[s].at = "post"
  /\ job' = [job EXCEPT ![s] = Voted(s, @, "errored")]
  /\ UNCHANGED <<setup, cache, said, spent, score>>

(* 401 or 403 and the backend knows another header: once more.             *)
RetryAuth(s) ==
  /\ job[s].at = "post"
  /\ ~job[s].retried
  /\ job' = [job EXCEPT ![s].retried = TRUE, ![s].tries = 0]
  /\ UNCHANGED <<setup, cache, said, spent, score>>

(* Mutant: the failing scorer leaves no mark.                              *)
FatalUnmarked(s) ==
  /\ job[s].at = "post"
  /\ job' = [job EXCEPT ![s] = IF setup.merged THEN [@ EXCEPT !.at = "decide"] ELSE JudgeDone(@, @.judge)]
  /\ UNCHANGED <<setup, cache, said, spent, score>>

(* ScorerError: the scorer, all of a consensus, raises to score_scenario,  *)
(* which goes on with the next one.                                        *)
Fatal(s) ==
  /\ job[s].at = "post"
  /\ LET b == [job[s] EXCEPT !.raised = TRUE]
     IN job' = [job EXCEPT ![s] = IF setup.merged THEN [b EXCEPT !.at = "decide"] ELSE JudgeDone(b, b.judge)]
  /\ UNCHANGED <<setup, cache, said, spent, score>>

Call(s) ==
  \/ SkipTurn(s) \/ CacheHit(s) \/ CacheMiss(s)
  \/ (\E v \in Ballots : Answer(s, v)) \/ Unparsable(s)
  \/ Throttled(s) \/ Unreachable(s) \/ RetryAuth(s) \/ Fatal(s)

-----------------------------------------------------------------------------
(* The verdict on a scenario.                                              *)

Ballot(s, j, p) == p <= Len(job[s].votes[j]) /\ job[s].votes[j][p] \in Ballots
Errored(s, j, p) == p <= Len(job[s].votes[j]) /\ job[s].votes[j][p] = "errored"

(* _subjudge_usable: the judge voted somewhere.                            *)
Usable(s) == {j \in Judges : \E p \in Places(s) : Ballot(s, j, p)}

(* _apply_strategy; a tie of the majority goes to the worse level.         *)
Winner(s, V, p) ==
  LET for == Cardinality({j \in V : job[s].votes[j][p] = "pass"})
  IN CASE Consensus = "majority"  -> 2 * for > Cardinality(V)
       [] Consensus = "unanimous" -> for = Cardinality(V)
       [] Consensus = "any"       -> for > 0

(* Mutant: a turn on which the usable judges all erred is dropped too.     *)
ErredTurnsForgiven(s) ==
  /\ Usable(s) # {}
  /\ \A p \in Places(s) :
       LET V == {j \in Usable(s) : Ballot(s, j, p)} IN V # {} => Winner(s, V, p)

(* _merge_verdicts and _merge_per_turn_verdicts.  A judge without a single *)
(* vote is left out of the merge, its errors with it.                      *)
MergedPass(s) ==
  /\ Usable(s) # {}
  /\ \A p \in Places(s) :
       LET V == {j \in Usable(s) : Ballot(s, j, p)}
       IN IF V = {} THEN \A j \in Usable(s) : ~Errored(s, j, p) ELSE Winner(s, V, p)

(* overall_pass of a single judge.                                         *)
JudgePass(s, j) ==
  /\ j \in Usable(s)
  /\ \A p \in Places(s) : ~Errored(s, j, p) /\ (Ballot(s, j, p) => job[s].votes[j][p] = "pass")

(* overall_pass of score_scenario: missing_checks is empty, every scorer   *)
(* returned, and passed.                                                   *)
OverallPass(s, rulesPass) ==
  /\ rulesPass
  /\ Len(Loaded(s)) = Turns
  /\ ~job[s].raised
  /\ IF setup.merged THEN MergedPass(s) ELSE \A j \in Judges : JudgePass(s, j)

(* Mutant: only the first judge of a consensus is counted.                 *)
CostOfFirst(s) == IF s \in setup.own THEN job[s].billed ELSE spent[1]

(* judge_cost_usd: the totals of the scorers as they stand.                *)
CostNow(s) == IF s \in setup.own THEN job[s].billed ELSE SumOf(spent)

-----------------------------------------------------------------------------
(* _score_one and the workers.                                             *)

Busy == {s \in setup.todo : job[s].at \notin {"waiting", "settled"}}

(* A worker takes a directory and loads the turns; without any, every      *)
(* scorer returns None.                                                    *)
Take(s) ==
  /\ job[s].at = "waiting" /\ s \in setup.todo
  /\ Cardinality(Busy) < Workers
  /\ job' = [job EXCEPT ![s].at = IF Loaded(s) = <<>> THEN "decide" ELSE "judge"]
  /\ UNCHANGED <<setup, cache, said, spent, score>>

(* The scenario file is gone or invalid: a failing score, no judge asked.  *)
NoScenarioFile(s) ==
  /\ job[s].at = "waiting" /\ s \in setup.todo
  /\ Cardinality(Busy) < Workers
  /\ job' = [job EXCEPT ![s].at = "settled"]
  /\ score' = [score EXCEPT ![s] = [is |-> "scored", pass |-> FALSE, cost |-> CostNow(s)]]
  /\ UNCHANGED <<setup, cache, said, spent>>

(* The rules scorer ran with the others; the score is written.             *)
Decide(s) ==
  /\ job[s].at = "decide"
  /\ \E rulesPass \in BOOLEAN :
       score' = [score EXCEPT ![s] = [is |-> "scored", pass |-> OverallPass(s, rulesPass), cost |-> CostNow(s)]]
  /\ job' = [job EXCEPT ![s].at = "settled"]
  /\ UNCHANGED <<setup, cache, said, spent>>

(* An exception of _score_one itself, the strategy of the group unusable   *)
(* or the disk full: logged, and the phase goes on.                        *)
ScoringFails(s) ==
  /\ s \in setup.todo
  /\ \/ job[s].at = "waiting" /\ Cardinality(Busy) < Workers /\ UNCHANGED score
     \/ job[s].at = "decide" /\ score' = [score EXCEPT ![s].is = "torn"]
  /\ job' = [job EXCEPT ![s].at = "settled"]
  /\ UNCHANGED <<setup, cache, said, spent>>

AllSettled == \A s \in setup.todo : job[s].at = "settled"

(* All futures are done: what is left is the summary.                      *)
Summary == AllSettled /\ UNCHANGED vars

Step(s) == Take(s) \/ NoScenarioFile(s) \/ Call(s) \/ Decide(s) \/ ScoringFails(s)
Next == Summary \/ \E s \in Scenarios : Step(s)
Spec == Init /\ [][Next]_vars

(* Some thread is scheduled, and every request is answered, refused or     *)
(* timed out within two minutes.                                           *)
FairSpec == Spec /\ WF_vars(Next)

-----------------------------------------------------------------------------
(* The score cache stays within its budget, whichever workers put entries  *)
(* in it and whatever an earlier scoring left there.                       *)
CacheBounded == Budget > 0 => Len(cache) <= Budget

(* A verdict recorded for a turn is one the model gave for that turn's own *)
(* evidence, put to that judge's own model: the cache serves no damaged    *)
(* entry and no entry of another turn, scenario or judge.                  *)
VotesAreOwn ==
  \A s \in setup.todo : \A j \in Judges : \A p \in Places(s) :
    Ballot(s, j, p) => <<Evidence(s, j, p), job[s].votes[j][p]>> \in said

(* A scenario that passes has earned it: no turn was lost, no scorer       *)
(* raised, and no turn a judge with any vote was asked about is left       *)
(* without a verdict, whatever the provider did and the cache held.        *)
PassIsEarned ==
  \A s \in setup.todo : score[s].pass =>
    /\ Len(Loaded(s)) = Turns
    /\ \A j \in Judges : Len(job[s].votes[j]) = Cardinality(Places(s))
    /\ Usable(s) # {}
    /\ \A p \in Places(s), j \in Usable(s) :
         Skipped(s, j, p) \/ \E i \in Judges : Ballot(s, i, p)

(* When the phase ends, the cost in its summary is the price of the        *)
(* answered calls of the configured judges, cached answers costing         *)
(* nothing, and no scenario reports less than it spent.                    *)
CostsCovered ==
  AllSettled =>
    /\ SumOf(spent) = SumOf([s \in Scenarios |-> IF s \in setup.own THEN 0 ELSE job[s].billed])
    /\ \A s \in setup.todo : score[s].is = "scored" => score[s].cost >= job[s].billed

(* Every directory is dealt with and the phase ends: no throttled judge,   *)
(* failing scorer or refused write holds it up.                            *)
PhaseEnds == <>AllSettled

(* consensus.py, lines 563 to 571: a turn that no judge covered, though    *)
(* some judge was to judge it, does not pass.                              *)
UncoveredTurnFails ==
  \A s \in setup.todo : score[s].pass =>
    \A p \in Places(s) :
      (\E j \in Judges : ~Skipped(s, j, p)) => \E j \in Judges : Ballot(s, j, p)

=============================================================================
