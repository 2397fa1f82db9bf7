------------------------------- MODULE Compare -------------------------------
(***************************************************************************)
(* belt compare (src/belt/commands/compare.py): two runs' results, their   *)
(* scenarios matched by key, and the differences of the judges' verdicts.  *)
(* A key is <<group, name>>.                                               *)
(***************************************************************************)
EXTENDS Aggregate

(* Only the three levels are ranked; pass, fail and inconclusive have no   *)
(* rank and so no difference.                                              *)
ScoreRank(v) == CASE v = "low" -> 0 [] v = "medium" -> 1 [] v = "high" -> 2 [] OTHER -> -1

LLMDims(scores) == DiscoverLLMDimensions(scores)

(* The worst verdict of all judges, of those equally bad the first one's.  *)
GetLLMScore(score, d) ==
  LET step(v, p) ==
        IF d \notin DimensionsOf(p) THEN v
        ELSE LET w == IterLLMVerdicts(p)[d]
             IN  IF v = None THEN w
                 ELSE IF WorstOfTurnsRank(w) < WorstOfTurnsRank(v) THEN w ELSE v
      worst[i \in 0..Len(score.judges)] == IF i = 0 THEN None ELSE step(worst[i - 1], score.judges[i])
  IN  worst[Len(score.judges)]

(* The last score with a key stands for the key.                           *)
KeyOf(s, byLeaf) == IF byLeaf THEN <<s.key[2]>> ELSE s.key

ByKey(scores, byLeaf) ==
  [k \in {KeyOf(s, byLeaf) : s \in ToSet(scores)} |->
     scores[SelectLastInSeq(scores, LAMBDA s : KeyOf(s, byLeaf) = k)]]

(* Two runs without a common key are matched by the scenarios' names, if   *)
(* these have one in common.                                               *)
Normalized(a, b) ==
  /\ a # <<>> /\ b # <<>>
  /\ DOMAIN ByKey(a, FALSE) \intersect DOMAIN ByKey(b, FALSE) = {}
  /\ DOMAIN ByKey(a, TRUE) \intersect DOMAIN ByKey(b, TRUE) # {}

(* Mutant: a scenario that only one run has is compared with nothing as 0. *)
DeltaFromZero(x, y) ==
  (IF y = None THEN 0 ELSE ScoreRank(y)) - (IF x = None THEN 0 ELSE ScoreRank(x))

Delta(x, y) ==
  IF x = None \/ y = None \/ ScoreRank(x) < 0 \/ ScoreRank(y) < 0 THEN None
  ELSE ScoreRank(y) - ScoreRank(x)

CompareRuns(a, b) ==
  LET inA == ByKey(a, Normalized(a, b))
      inB == ByKey(b, Normalized(a, b))
      score(side, k, d) == IF k \in DOMAIN side THEN GetLLMScore(side[k], d) ELSE None
  IN  [k \in DOMAIN inA \union DOMAIN inB |->
         [a |-> k \in DOMAIN inA, b |-> k \in DOMAIN inB,
          delta |-> [d \in LLMDims(a) \intersect LLMDims(b) |->
                       Delta(score(inA, k, d), score(inB, k, d))]]]

Cells(comparison) == UNION {{k} \X DOMAIN comparison[k].delta : k \in DOMAIN comparison}
Difference(comparison, c) == comparison[c[1]].delta[c[2]]
Regressions(comparison) ==
  {c \in Cells(comparison) : Difference(comparison, c) # None /\ Difference(comparison, c) < 0}
Improvements(comparison) ==
  {c \in Cells(comparison) : Difference(comparison, c) # None /\ Difference(comparison, c) > 0}

(* Nothing in common is an error, nothing at all is not.                   *)
CompareExit(comparison) ==
  IF DOMAIN comparison # {} /\ ~\E k \in DOMAIN comparison : comparison[k].a /\ comparison[k].b
  THEN 1 ELSE 0
=============================================================================
