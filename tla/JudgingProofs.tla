---------------------------- MODULE JudgingProofs ----------------------------
(***************************************************************************)
(* Theorems about Judging, for any number of directories, turns, judges,   *)
(* workers and tries, any budget of the cache and any rule of consensus.   *)
(***************************************************************************)
EXTENDS Judging, ListLemmas, FiniteSetTheorems

(* What is used of the setup, which nothing changes.                       *)
SetupInv ==
  /\ setup.n \in 1..MaxJudges
  /\ setup.todo \subseteq Scenarios /\ setup.own \subseteq setup.todo
  /\ \A s \in Scenarios : Loaded(s) \in Seq(Nat)

(* The number of the calls a judge makes for a scenario.                   *)
Asked(s) == IF setup.perTurn THEN Len(Loaded(s)) ELSE IF Loaded(s) = <<>> THEN 0 ELSE 1

Jobs ==
  [at : {"waiting", "judge", "post", "decide", "settled"}, judge : 1..MaxJudges, place : Nat \ {0},
   tries : Nat, retried : BOOLEAN, votes : [1..MaxJudges -> Seq(Votes)], raised : BOOLEAN, billed : Nat]

(* The judges vote one after the other, and each of them turn after turn.  *)
InTurn(s, b) ==
  /\ b.at = "waiting" =>
       /\ b.judge = 1 /\ b.place = 1 /\ ~b.raised /\ b.billed = 0
       /\ \A j \in Judges : b.votes[j] = <<>>
  /\ b.at \in {"judge", "post"} =>
       /\ b.judge \in Judges /\ b.place \in 1..Asked(s)
       /\ Len(b.votes[b.judge]) = b.place - 1
       /\ \A j \in Judges : j > b.judge => b.votes[j] = <<>>
       /\ \A j \in Judges : j < b.judge => b.raised \/ Len(b.votes[j]) = Asked(s)
  /\ b.at = "decide" => \A j \in Judges : b.raised \/ Len(b.votes[j]) = Asked(s)

(* Every vote is of a model on the judge's evidence, or of a skipped turn. *)
Backed(s, b, sayings) ==
  \A j \in Judges : \A p \in 1..Len(b.votes[j]) :
    /\ p \in 1..Asked(s)
    /\ b.votes[j][p] \in Ballots => <<Evidence(s, j, p), b.votes[j][p]>> \in sayings
    /\ b.votes[j][p] = "skipped" => Skipped(s, j, p)

JobInv ==
  /\ job \in [Scenarios -> Jobs]
  /\ \A s \in Scenarios : InTurn(s, job[s]) /\ Backed(s, job[s], said)

(* The entries of the cache, of which the whole ones were said.            *)
Stored ==
  [key : {Evidence(s, j, p) : s \in Scenarios, j \in Judges, p \in Nat}, vote : Ballots, whole : BOOLEAN]

CacheInv ==
  /\ cache \in Seq(Stored)
  /\ \A i \in 1..Len(cache) : cache[i].whole => <<cache[i].key, cache[i].vote>> \in said

-----------------------------------------------------------------------------
LEMMA SetupHolds == Spec => []SetupInv
<1>1. Init => SetupInv
  <2> SUFFICES ASSUME setup \in Setups PROVE SetupInv
    BY DEF Init
  <2>1. /\ setup.n \in 1..MaxJudges /\ setup.own \subseteq setup.todo
        /\ setup.todo \in {1..k : k \in Scenarios} /\ setup.loaded \in [Scenarios -> Readable]
    BY DEF Setups
  <2>2. setup.todo \subseteq Scenarios
    BY <2>1, JudgingAssumption DEF Scenarios, JudgingAssumption
  <2>3. ASSUME NEW s \in Scenarios PROVE Loaded(s) \in Seq(Nat)
    <3>1. PICK T : setup.loaded[s] = Kept([t \in 1..Turns |-> t], T)
      BY <2>1 DEF Readable
    <3>2. [t \in 1..Turns |-> t] \in Seq(Nat)
      BY JudgingAssumption DEF JudgingAssumption
    <3> QED BY <3>1, <3>2, KeptSelects DEF Loaded
  <2> QED BY <2>1, <2>2, <2>3 DEF SetupInv
<1>2. SetupInv /\ [Next]_vars => SetupInv'
  <2> SUFFICES ASSUME SetupInv, [Next]_vars PROVE UNCHANGED setup
    BY DEF SetupInv, Loaded
  <2> QED
    BY DEF Next, vars, Summary, Step, Take, NoScenarioFile, Call, Decide, ScoringFails, SkipTurn, CacheHit,
       CacheMiss, Answer, Unparsable, Throttled, Unreachable, RetryAuth, Fatal
<1> QED BY <1>1, <1>2, PTL DEF Spec

LEMMA PlacesAsked ==
  ASSUME SetupInv, NEW s \in Scenarios
  PROVE  Asked(s) \in Nat /\ Places(s) = 1..Asked(s)
<1>1. Loaded(s) \in Seq(Nat) /\ Len(Loaded(s)) \in Nat
  BY DEF SetupInv
<1>2. CASE setup.perTurn
  BY <1>1, <1>2 DEF Asked, Places
<1>3. CASE ~setup.perTurn /\ Loaded(s) = <<>>
  <2>1. Asked(s) = 0 /\ Places(s) = {}
    BY <1>3 DEF Asked, Places
  <2> QED BY <2>1
<1>4. CASE ~setup.perTurn /\ Loaded(s) # <<>>
  <2>1. Asked(s) = 1 /\ Places(s) = {1}
    BY <1>4 DEF Asked, Places
  <2> QED BY <2>1
<1> QED BY <1>2, <1>3, <1>4

LEMMA JudgeDoneTyped ==
  ASSUME NEW b \in Jobs, NEW j \in Judges, setup.n \in 1..MaxJudges
  PROVE  LET r == JudgeDone(b, j)
         IN  /\ r \in Jobs /\ r.votes = b.votes /\ r.raised = b.raised /\ r.billed = b.billed
             /\ r.at = IF j = setup.n THEN "decide" ELSE "judge"
             /\ r.judge = IF j = setup.n THEN j ELSE j + 1
             /\ r.place = 1
<1> DEFINE r == JudgeDone(b, j)
<1>1. /\ r.at = IF j = setup.n THEN "decide" ELSE "judge"
      /\ r.judge = IF j = setup.n THEN j ELSE j + 1
      /\ r.place = 1 /\ r.tries = 0 /\ r.retried = FALSE
      /\ r.votes = b.votes /\ r.raised = b.raised /\ r.billed = b.billed
      /\ r = [at |-> r.at, judge |-> r.judge, place |-> r.place, tries |-> r.tries, retried |-> r.retried,
              votes |-> r.votes, raised |-> r.raised, billed |-> r.billed]
  <2> DEFINE at == IF j = setup.n THEN "decide" ELSE "judge"
             k == IF j = setup.n THEN j ELSE j + 1
  <2>1. r = [b EXCEPT !.at = at, !.judge = k, !.place = 1, !.tries = 0, !.retried = FALSE]
    BY DEF JudgeDone
  <2> HIDE DEF at, k, r
  <2>2. r = [at |-> at, judge |-> k, place |-> 1, tries |-> 0, retried |-> FALSE,
              votes |-> b.votes, raised |-> b.raised, billed |-> b.billed]
    BY <2>1 DEF Jobs
  <2> QED BY <2>2 DEF at, k
<1> HIDE DEF r
<1>2. r.retried \in BOOLEAN /\ r.raised \in BOOLEAN
  <2>1. b.raised \in BOOLEAN
    BY DEF Jobs
  <2> QED BY <1>1, <2>1, Zenon
<1>3. r.tries \in Nat /\ r.billed \in Nat /\ r.place \in Nat \ {0} /\ r.votes \in [1..MaxJudges -> Seq(Votes)]
  BY <1>1 DEF Jobs
<1>4. r.judge \in 1..MaxJudges
  BY <1>1, JudgingAssumption DEF Judges, JudgingAssumption
<1>5. r.at \in {"waiting", "judge", "post", "decide", "settled"}
  BY <1>1
<1>6. r \in Jobs
  BY <1>1, <1>2, <1>3, <1>4, <1>5 DEF Jobs
<1> QED BY <1>1, <1>6 DEF r

(* What a vote makes of a job.                                             *)
LEMMA VotedKeepsOrder ==
  ASSUME SetupInv, NEW s \in Scenarios, NEW b \in Jobs, InTurn(s, b), b.at \in {"judge", "post"},
         NEW v \in Votes, NEW sayings, Backed(s, b, sayings),
         v \in Ballots => <<Evidence(s, b.judge, b.place), v>> \in sayings,
         v = "skipped" => Skipped(s, b.judge, b.place)
  PROVE  /\ Voted(s, b, v) \in Jobs /\ InTurn(s, Voted(s, b, v)) /\ Backed(s, Voted(s, b, v), sayings)
         /\ Voted(s, b, v).at \in {"judge", "decide"} /\ Voted(s, b, v).billed = b.billed
<1> DEFINE j == b.judge
           r == Voted(s, b, v)
           old == b.votes[j]
           new == Append(old, v)
<1>1. Asked(s) \in Nat /\ Places(s) = 1..Asked(s)
  BY PlacesAsked
<1>2. /\ j \in Judges /\ j \in 1..MaxJudges /\ setup.n \in 1..MaxJudges
      /\ b.place \in 1..Asked(s) /\ b.place \in Nat
      /\ b.votes \in [1..MaxJudges -> Seq(Votes)] /\ b.raised \in BOOLEAN /\ b.billed \in Nat
      /\ old \in Seq(Votes) /\ Len(old) = b.place - 1
  BY DEF Jobs, InTurn, SetupInv
<1>3. new \in Seq(Votes) /\ Len(new) = b.place /\ new[b.place] = v /\ \A p \in 1..(b.place - 1) : new[p] = old[p]
  BY SMTT(30), <1>2
<1>4. /\ r.votes = [b.votes EXCEPT ![j] = new] /\ r.raised = b.raised /\ r.billed = b.billed
      /\ r.tries = 0 /\ r.retried = FALSE
      /\ IF b.place + 1 \in Places(s) THEN r.at = "judge" /\ r.judge = j /\ r.place = b.place + 1
         ELSE /\ r.at = IF j = setup.n THEN "decide" ELSE "judge"
              /\ r.judge = IF j = setup.n THEN j ELSE j + 1
              /\ r.place = 1
      /\ r = [at |-> r.at, judge |-> r.judge, place |-> r.place, tries |-> r.tries, retried |-> r.retried,
              votes |-> r.votes, raised |-> r.raised, billed |-> r.billed]
  BY DEF Voted, JudgeDone, Jobs
<1> HIDE DEF r, new, old
<1>5. \/ r.at = "judge" /\ r.judge = j /\ r.place = b.place + 1 /\ r.place \in 1..Asked(s)
      \/ /\ b.place = Asked(s) /\ r.place = 1
         /\ \/ j = setup.n /\ r.at = "decide" /\ r.judge = j
            \/ j < setup.n /\ r.at = "judge" /\ r.judge = j + 1
  <2>1. CASE b.place + 1 \in Places(s)
    BY <2>1, <1>1, <1>4
  <2>2. CASE b.place + 1 \notin Places(s)
    <3>1. b.place = Asked(s)
      BY <2>2, <1>1, <1>2
    <3>2. j = setup.n \/ j < setup.n
      BY <1>2 DEF Judges
    <3> QED BY <2>2, <3>1, <3>2, <1>4, <1>2
  <2> QED BY <2>1, <2>2
<1>6. /\ r.votes \in [1..MaxJudges -> Seq(Votes)] /\ r.votes[j] = new
      /\ \A i \in Judges : i # j => r.votes[i] = b.votes[i]
  <2>1. j \in 1..MaxJudges /\ Judges \subseteq 1..MaxJudges
    BY <1>2, JudgingAssumption DEF Judges, JudgingAssumption
  <2> HIDE DEF j
  <2> QED BY ZenonT(40), <2>1, <1>2, <1>3, <1>4
<1>10. r \in Jobs
  <2>1. r.at \in {"judge", "decide"}
    BY <1>4
  <2>2. r.judge \in 1..MaxJudges /\ r.place \in Nat \ {0}
    BY SMTT(30), <1>1, <1>2, <1>5, JudgingAssumption DEF Judges, JudgingAssumption
  <2>3. r.tries \in Nat /\ r.retried \in BOOLEAN /\ r.raised \in BOOLEAN /\ r.billed \in Nat
    <3>1. r.tries \in Nat /\ r.billed \in Nat
      BY <1>2, <1>4
    <3>2. r.retried \in BOOLEAN /\ r.raised \in BOOLEAN
      BY <1>2, <1>4, Zenon
    <3> QED BY <3>1, <3>2
  <2>4. r = [at |-> r.at, judge |-> r.judge, place |-> r.place, tries |-> r.tries, retried |-> r.retried,
              votes |-> r.votes, raised |-> r.raised, billed |-> r.billed]
    BY <1>4
  <2>5. r.at \in {"waiting", "judge", "post", "decide", "settled"}
    BY <2>1
  <2> QED BY <1>6, <2>2, <2>3, <2>4, <2>5 DEF Jobs
<1>7. InTurn(s, r)
  <2>1. CASE r.at = "judge" /\ r.judge = j /\ r.place = b.place + 1 /\ r.place \in 1..Asked(s)
    BY SMTT(30), <2>1, <1>2, <1>3, <1>4, <1>6 DEF InTurn
  <2>2. CASE b.place = Asked(s) /\ j = setup.n /\ r.at = "decide"
    BY <2>2, <1>2, <1>3, <1>4, <1>6 DEF InTurn, Judges
  <2>3. CASE b.place = Asked(s) /\ r.place = 1 /\ j < setup.n /\ r.at = "judge" /\ r.judge = j + 1
    <3>1. r.judge \in Judges /\ r.judge # j /\ r.place \in 1..Asked(s)
      BY <2>3, <1>1, <1>2 DEF Judges
    <3>5. \A i \in Judges : i > j => i # j /\ b.votes[i] = <<>>
      BY DEF InTurn, Judges
    <3>6. r.judge > j /\ \A i \in Judges : i > r.judge => i > j
      BY <2>3, <1>2 DEF Judges
    <3>2. Len(r.votes[r.judge]) = r.place - 1
      <4>1. r.votes[r.judge] = <<>>
        BY <3>1, <3>5, <3>6, <1>6
      <4> QED BY <4>1, <2>3
    <3>3. \A i \in Judges : i > r.judge => r.votes[i] = <<>>
      BY <3>5, <3>6, <1>6
    <3>4. \A i \in Judges : i < r.judge => r.raised \/ Len(r.votes[i]) = Asked(s)
      BY SMTT(30), <2>3, <1>2, <1>3, <1>4, <1>6 DEF InTurn, Judges
    <3> QED BY <2>3, <3>1, <3>2, <3>3, <3>4 DEF InTurn
  <2> QED BY <2>1, <2>2, <2>3, <1>5
<1>8. Backed(s, r, sayings)
  <2> SUFFICES ASSUME NEW i \in Judges, NEW p \in 1..Len(r.votes[i])
               PROVE  /\ p \in 1..Asked(s)
                      /\ r.votes[i][p] \in Ballots => <<Evidence(s, i, p), r.votes[i][p]>> \in sayings
                      /\ r.votes[i][p] = "skipped" => Skipped(s, i, p)
    BY DEF Backed
  <2>1. CASE i # j
    BY <2>1, <1>6 DEF Backed
  <2>2. CASE i = j /\ p = b.place
    BY <2>2, <1>2, <1>3, <1>6
  <2>3. CASE i = j /\ p \in 1..(b.place - 1)
    BY <2>3, <1>2, <1>3, <1>6 DEF Backed, old
  <2> QED BY <2>1, <2>2, <2>3, <1>2, <1>3, <1>6
<1>9. r.at \in {"judge", "decide"}
  BY <1>4
<1> QED BY <1>4, <1>7, <1>8, <1>9, <1>10 DEF r

LEMMA FittedFits ==
  ASSUME NEW S, NEW c \in Seq(S)
  PROVE  /\ Fitted(c) \in Seq(S)
         /\ Budget > 0 => Len(Fitted(c)) <= Budget
         /\ \A i \in 1..Len(Fitted(c)) : \E k \in 1..Len(c) : Fitted(c)[i] = c[k]
<1> DEFINE n == Len(c)
           first == n - Budget + 1
<1>1. n \in Nat /\ Budget \in Nat
  BY JudgingAssumption DEF JudgingAssumption
<1>2. CASE Budget = 0 \/ n <= Budget
  BY <1>1, <1>2 DEF Fitted
<1>3. CASE ~(Budget = 0 \/ n <= Budget)
  <2>1. first \in 1..n /\ n \in 0..n /\ n - first + 1 = Budget
    BY <1>1, <1>3
  <2>2. Fitted(c) = SubSeq(c, first, n)
    BY <1>3 DEF Fitted
  <2>3. /\ SubSeq(c, first, n) \in Seq(S) /\ Len(SubSeq(c, first, n)) = Budget
        /\ \A i \in 1..Budget : SubSeq(c, first, n)[i] = c[first + i - 1]
    BY <2>1, <1>1
  <2>4. \A i \in 1..Budget : first + i - 1 \in 1..n
    BY <1>1, <1>3
  <2> DEFINE d == SubSeq(c, first, n)
  <2>5. d \in Seq(S) /\ Len(d) = Budget
    BY <2>3
  <2>6. ASSUME NEW i \in 1..Len(d) PROVE \E k \in 1..n : d[i] = c[k]
    <3>1. i \in 1..Budget
      BY <2>5
    <3>2. d[i] = c[first + i - 1] /\ first + i - 1 \in 1..n
      BY <3>1, <2>3, <2>4
    <3> QED BY <3>2
  <2> HIDE DEF d
  <2>7. Fitted(c) = d
    BY <2>2 DEF d
  <2> QED BY <1>1, <2>5, <2>6, <2>7
<1> QED BY <1>2, <1>3

LEMMA CacheMoves ==
  ASSUME SetupInv, JobInv, CacheInv, NEW s \in Scenarios, Step(s)
  PROVE  /\ cache' \in Seq(Stored) /\ said \subseteq said'
         /\ \A i \in 1..Len(cache') : cache'[i].whole => <<cache'[i].key, cache'[i].vote>> \in said'
         /\ CacheBounded => CacheBounded'
<1> USE DEF CacheInv
<1>1. CASE CacheMiss(s)
  <2> DEFINE A == {e \in ToSet(cache) : e.key # ThisKey(s)}
  <2>1. cache' = Kept(cache, A) /\ said' = said
    BY <1>1 DEF CacheMiss, Without
  <2>2. /\ cache' \in Seq(Stored) /\ Len(cache') <= Len(cache)
        /\ \A i \in 1..Len(cache') : \E k \in 1..Len(cache) : cache'[i] = cache[k]
    <3> DEFINE K == Kept(cache, A)
    <3>1. cache' = K /\ K = Kept(cache, A)
      BY <2>1
    <3> HIDE DEF A, Stored, K
    <3>2. /\ K \in Seq(Stored) /\ Len(K) <= Len(cache)
          /\ \A i \in 1..Len(K) : \E k \in 1..Len(cache) : K[i] = cache[k]
      BY <3>1, KeptElements
    <3> QED BY <3>1, <3>2
  <2>3. CacheBounded => CacheBounded'
    BY <2>2, JudgingAssumption DEF CacheBounded, JudgingAssumption
  <2> HIDE DEF Stored
  <2>4. ASSUME NEW i \in 1..Len(cache'), cache'[i].whole PROVE <<cache'[i].key, cache'[i].vote>> \in said'
    <3>1. PICK k \in 1..Len(cache) : cache'[i] = cache[k]
      BY <2>2
    <3> QED BY <3>1, <2>1, <2>4, Zenon
  <2> QED BY <2>1, <2>2, <2>3, <2>4
<1>2. CASE \E v \in Ballots : Answer(s, v)
  <2>1. PICK v \in Ballots : Answer(s, v)
    BY <1>2
  <2> DEFINE new == [key |-> ThisKey(s), vote |-> v, whole |-> TRUE]
             old == Without(ThisKey(s))
             c == Append(old, new)
  <2>2. /\ cache' = cache \/ cache' = Fitted(c)
        /\ said' = said \cup {<<ThisKey(s), v>>}
    BY <2>1 DEF Answer, ThisKey, Key
  <2>3. /\ old \in Seq(Stored)
        /\ \A i \in 1..Len(old) : \E k \in 1..Len(cache) : old[i] = cache[k]
    <3> DEFINE A == {e \in ToSet(cache) : e.key # ThisKey(s)}
    <3>1. old = Kept(cache, A)
      BY DEF Without
    <3> HIDE DEF A, old
    <3> QED BY <3>1, KeptElements
  <2>4. new \in Stored /\ new.key = ThisKey(s) /\ new.vote = v
    <3>1. job[s].at \in {"judge", "post"} /\ job[s].judge \in Judges /\ job[s].place \in Nat
      BY <2>1 DEF Answer, JobInv, InTurn, Jobs
    <3> QED BY <3>1 DEF Stored, ThisKey, Key
  <2> HIDE DEF Stored, old, new
  <2>5. /\ c \in Seq(Stored) /\ Len(c) = Len(old) + 1 /\ c[Len(old) + 1] = new
        /\ \A i \in 1..Len(old) : c[i] = old[i]
    BY <2>3, <2>4
  <2>6. Len(old) \in Nat
    BY <2>3
  <2>7. ASSUME NEW i \in 1..Len(c) PROVE c[i] = new \/ \E k \in 1..Len(cache) : c[i] = cache[k]
    <3>1. i = Len(old) + 1 \/ i \in 1..Len(old)
      BY <2>5, <2>6
    <3> QED BY <3>1, <2>3, <2>5
  <2> HIDE DEF c
  <2>8. CASE cache' = cache
    <3>1. CacheBounded => CacheBounded'
      BY <2>8 DEF CacheBounded
    <3> QED BY <2>2, <2>8, <3>1
  <2>9. CASE cache' = Fitted(c)
    <3>1. /\ cache' \in Seq(Stored) /\ CacheBounded'
          /\ \A i \in 1..Len(cache') : \E k \in 1..Len(c) : cache'[i] = c[k]
      BY <2>5, <2>9, FittedFits DEF CacheBounded
    <3>2. ASSUME NEW i \in 1..Len(cache'), cache'[i].whole PROVE <<cache'[i].key, cache'[i].vote>> \in said'
      <4>1. PICK k \in 1..Len(c) : cache'[i] = c[k]
        BY <3>1
      <4>2. CASE c[k] = new
        BY <4>1, <4>2, <2>2, <2>4
      <4>3. CASE \E m \in 1..Len(cache) : c[k] = cache[m]
        BY <4>1, <4>3, <2>2, <3>2, Zenon
      <4> QED BY <4>2, <4>3, <2>7
    <3> QED BY <2>2, <3>1, <3>2
  <2> QED BY <2>2, <2>8, <2>9
<1>3. CASE cache' = cache /\ said' = said
  BY <1>3 DEF CacheBounded
<1> QED
  BY <1>1, <1>2, <1>3 DEF Step, Take, NoScenarioFile, Call, Decide, ScoringFails, SkipTurn, CacheHit, Unparsable,
     Throttled, Unreachable, RetryAuth, Fatal

LEMMA BackedByMore ==
  ASSUME NEW s, NEW b, NEW S, NEW T, S \subseteq T, Backed(s, b, S)
  PROVE  Backed(s, b, T)
BY DEF Backed

(* What a step makes of the job of its directory.                          *)
LEMMA JobMoves ==
  ASSUME SetupInv, JobInv, CacheInv, NEW s \in Scenarios, Step(s)
  PROVE  /\ job' = [job EXCEPT ![s] = job'[s]] /\ setup' = setup
         /\ job'[s] \in Jobs /\ InTurn(s, job'[s]) /\ Backed(s, job'[s], said')
<1> DEFINE b == job[s]
           Fine(r) == r \in Jobs /\ InTurn(s, r) /\ Backed(s, r, said')
<1>1. b \in Jobs /\ InTurn(s, b) /\ Backed(s, b, said) /\ said \subseteq said'
  BY CacheMoves DEF JobInv
<1>2. Backed(s, b, said')
  BY <1>1, BackedByMore
<1> SUFFICES \E r : Fine(r) /\ job' = [job EXCEPT ![s] = r] /\ setup' = setup
  BY DEF JobInv
<1> DEFINE Goal == \E r : Fine(r) /\ job' = [job EXCEPT ![s] = r] /\ setup' = setup
           Moved(c, v) ==
             /\ b.at \in {"judge", "post"} /\ setup' = setup /\ job' = [job EXCEPT ![s] = Voted(s, c, v)]
             /\ v \in Ballots => <<Evidence(s, b.judge, b.place), v>> \in said'
             /\ v = "skipped" => Skipped(s, b.judge, b.place)
<1> SUFFICES Goal
  OBVIOUS
<1>3. ASSUME NEW v \in Votes, NEW c \in {b, Billed(s)}, Moved(c, v)
      PROVE  Goal
  <2>1. c.at = b.at /\ c.judge = b.judge /\ c.place = b.place /\ c.votes = b.votes /\ c.raised = b.raised
    BY <1>1, <1>3 DEF Jobs, Billed
  <2>2. c \in Jobs
    <3>1. CASE c = b BY <3>1, <1>1
    <3>2. CASE c = Billed(s)
      <4>1. b.billed + 1 \in Nat
        BY <1>1 DEF Jobs
      <4> DEFINE k == b.billed + 1
      <4>2. c = [b EXCEPT !.billed = k]
        BY <3>2 DEF Billed
      <4> HIDE DEF k, b
      <4> QED BY <1>1, <4>1, <4>2 DEF Jobs, k
    <3> QED BY <3>1, <3>2, <1>3
  <2>3. InTurn(s, c) /\ Backed(s, c, said')
    <3>1. b.at # "waiting" /\ b.at # "decide"
      BY <1>3
    <3> QED BY <3>1, <1>1, <1>2, <2>1 DEF InTurn, Backed
  <2>4. Fine(Voted(s, c, v))
    BY <1>3, <2>1, <2>2, <2>3, VotedKeepsOrder
  <2> HIDE DEF Fine
  <2> QED BY <1>3, <2>4
<1> HIDE DEF Goal
<1>15. ASSUME NEW r \in Jobs, setup' = setup, job' = [job EXCEPT ![s] = r],
              r.votes = b.votes, r.billed = b.billed, InTurn(s, r)
       PROVE  Goal
  <2>1. Backed(s, r, said')
    BY <1>2, <1>15 DEF Backed
  <2>2. Fine(r)
    BY <1>15, <2>1
  <2> HIDE DEF Fine
  <2> QED BY <1>15, <2>2 DEF Goal
<1>4. CASE SkipTurn(s)
  <2>1. /\ b.at \in {"judge", "post"} /\ setup' = setup /\ Skipped(s, b.judge, b.place)
        /\ job' = [job EXCEPT ![s] = Voted(s, b, "skipped")]
    BY <1>1, <1>4 DEF SkipTurn, JobInv
  <2>2. Moved(b, "skipped") /\ "skipped" \in Votes
    BY <2>1 DEF Votes, Ballots
  <2> QED BY <1>3, <2>2
<1>5. CASE CacheHit(s)
  <2>1. PICK e \in Entries(ThisKey(s)) : e.whole /\ job' = [job EXCEPT ![s] = Voted(s, b, e.vote)]
    BY <1>1, <1>5 DEF CacheHit, JobInv
  <2>2. PICK i \in 1..Len(cache) : cache[i] = e
    BY <2>1 DEF Entries, ToSet, CacheInv
  <2>3. b.at \in {"judge", "post"} /\ setup' = setup /\ said' = said /\ e.key = Evidence(s, b.judge, b.place)
    BY <1>5 DEF CacheHit, Asking, Entries, ThisKey, Key
  <2>4. <<e.key, e.vote>> \in said
    BY <2>1, <2>2, Zenon DEF CacheInv
  <2>5. e.vote \in Ballots
    <3>1. e \in Stored
      BY <2>2 DEF CacheInv
    <3> QED BY <3>1 DEF Stored
  <2>6. Moved(b, e.vote) /\ e.vote \in Votes
    BY <2>1, <2>3, <2>4, <2>5 DEF Votes, Ballots
  <2> QED BY <1>3, <2>6
<1>6. CASE CacheMiss(s)
  <2> DEFINE r == [b EXCEPT !.at = "post"]
  <2>1. job' = [job EXCEPT ![s] = r] /\ setup' = setup /\ b.at = "judge"
    BY <1>6 DEF CacheMiss, Asking
  <2>2. r \in Jobs
    BY <1>1 DEF Jobs
  <2>3. InTurn(s, r) /\ r.votes = b.votes /\ r.billed = b.billed
    BY <1>1, <2>1 DEF InTurn, Jobs
  <2> HIDE DEF b, r
  <2> QED BY <1>15, <2>1, <2>2, <2>3
<1>7. CASE \E v \in Ballots : Answer(s, v)
  <2>1. PICK v \in Ballots : Answer(s, v)
    BY <1>7
  <2>2. /\ b.at \in {"judge", "post"} /\ setup' = setup /\ job' = [job EXCEPT ![s] = Voted(s, Billed(s), v)]
        /\ <<Evidence(s, b.judge, b.place), v>> \in said'
    BY <2>1 DEF Answer
  <2>3. Moved(Billed(s), v) /\ v \in Votes
    BY <2>2 DEF Votes, Ballots
  <2> QED BY <1>3, <2>3
<1>8. CASE Unparsable(s)
  <2>2. b.at \in {"judge", "post"} /\ setup' = setup /\ job' = [job EXCEPT ![s] = Voted(s, Billed(s), "errored")]
    BY <1>8 DEF Unparsable
  <2>3. Moved(Billed(s), "errored") /\ "errored" \in Votes
    BY <2>2 DEF Votes, Ballots
  <2> QED BY <1>3, <2>3
<1>9. CASE Throttled(s)
  <2>1. b.at = "post" /\ setup' = setup
    BY <1>9 DEF Throttled
  <2>2. CASE b.tries + 1 < MaxTries
    <3> DEFINE k == b.tries + 1
               r == [b EXCEPT !.tries = k]
    <3>1. job' = [job EXCEPT ![s] = r]
      BY <1>9, <2>2 DEF Throttled
    <3>2. k \in Nat
      BY <1>1 DEF Jobs
    <3> HIDE DEF b, k
    <3>3. r \in Jobs /\ r.votes = b.votes /\ r.billed = b.billed
      BY <1>1, <3>2 DEF Jobs
    <3>4. InTurn(s, r)
      BY <1>1, <3>3 DEF InTurn, Jobs
    <3> HIDE DEF r
    <3> QED BY <1>15, <2>1, <3>1, <3>3, <3>4
  <2>3. CASE ~(b.tries + 1 < MaxTries)
    <3>1. job' = [job EXCEPT ![s] = Voted(s, b, "errored")]
      BY <1>9, <2>3 DEF Throttled
    <3>2. Moved(b, "errored") /\ "errored" \in Votes
      BY <2>1, <3>1 DEF Votes, Ballots
    <3> QED BY <1>3, <3>2
  <2> QED BY <2>2, <2>3
<1>10. CASE Unreachable(s)
  <2>2. b.at \in {"judge", "post"} /\ setup' = setup /\ job' = [job EXCEPT ![s] = Voted(s, b, "errored")]
    BY <1>10 DEF Unreachable
  <2>3. Moved(b, "errored") /\ "errored" \in Votes
    BY <2>2 DEF Votes, Ballots
  <2> QED BY <1>3, <2>3
<1>11. CASE RetryAuth(s)
  <2> DEFINE r == [b EXCEPT !.retried = TRUE, !.tries = 0]
  <2>1. job' = [job EXCEPT ![s] = r] /\ setup' = setup /\ b.at = "post"
    <3>1. job' = [job EXCEPT ![s].retried = TRUE, ![s].tries = 0] /\ setup' = setup /\ b.at = "post"
      BY <1>11 DEF RetryAuth
    <3>2. job \in [Scenarios -> Jobs]
      BY DEF JobInv
    <3> HIDE DEF Jobs
    <3> QED BY <3>1, <3>2
  <2>2. r \in Jobs /\ r.votes = b.votes /\ r.billed = b.billed
    BY <1>1 DEF Jobs
  <2>3. InTurn(s, r)
    BY <1>1, <2>2 DEF InTurn, Jobs
  <2> HIDE DEF b, r
  <2> QED BY <1>15, <2>1, <2>2, <2>3
<1>12. CASE Fatal(s)
  <2> DEFINE c == [b EXCEPT !.raised = TRUE]
             r == IF setup.merged THEN [c EXCEPT !.at = "decide"] ELSE JudgeDone(c, c.judge)
  <2>1. job' = [job EXCEPT ![s] = r] /\ setup' = setup /\ b.at = "post"
    BY <1>12 DEF Fatal
  <2>2. c \in Jobs /\ c.raised /\ c.judge = b.judge /\ c.votes = b.votes /\ c.billed = b.billed
    BY <1>1 DEF Jobs
  <2>3. b.judge \in Judges /\ setup.n \in 1..MaxJudges /\ MaxJudges \in Nat
    BY <1>1, <2>1, JudgingAssumption DEF InTurn, SetupInv, JudgingAssumption
  <2>4. Asked(s) \in Nat /\ Asked(s) >= 1 /\ \A j \in Judges : j > b.judge => b.votes[j] = <<>>
    BY <1>1, <2>1, PlacesAsked DEF InTurn
  <2> HIDE DEF b, c
  <2>5. CASE setup.merged
    <3>1. r = [c EXCEPT !.at = "decide"]
      BY <2>5
    <3>2. r \in Jobs /\ r.votes = b.votes /\ r.billed = b.billed /\ r.raised /\ r.at = "decide"
      BY <2>2, <3>1 DEF Jobs
    <3> HIDE DEF r
    <3>3. InTurn(s, r)
      BY <3>2 DEF InTurn
    <3> QED BY <1>15, <2>1, <3>2, <3>3
  <2>6. CASE ~setup.merged
    <3> DEFINE j == b.judge
    <3>1. r = JudgeDone(c, j)
      BY <2>2, <2>6
    <3> HIDE DEF r
    <3>2. /\ r \in Jobs /\ r.votes = c.votes /\ r.raised = c.raised /\ r.billed = c.billed
          /\ r.at = IF j = setup.n THEN "decide" ELSE "judge"
          /\ r.judge = IF j = setup.n THEN j ELSE j + 1
          /\ r.place = 1
      BY <2>2, <2>3, <3>1, JudgeDoneTyped
    <3> HIDE DEF j
    <3>3. r.raised
      BY <2>2, <3>2
    <3>4. CASE j = setup.n
      <4>1. InTurn(s, r)
        BY <3>2, <3>3, <3>4 DEF InTurn
      <4> QED BY <1>15, <2>1, <2>2, <3>2, <4>1
    <3>5. CASE j # setup.n
      <4> DEFINE k == j + 1
      <4>1. /\ k \in Judges /\ k > j /\ \A i \in Judges : i > k => i > j
        BY <2>3, <3>5 DEF Judges, j
      <4>2. r.at = "judge" /\ r.judge = k /\ r.place = 1
        BY <3>2, <3>5
      <4> HIDE DEF k
      <4>3. r.votes[k] = <<>> /\ \A i \in Judges : i > k => r.votes[i] = <<>>
        BY <2>2, <2>4, <3>2, <4>1 DEF j
      <4>4. InTurn(s, r)
        BY <2>4, <3>3, <4>1, <4>2, <4>3 DEF InTurn
      <4> QED BY <1>15, <2>1, <2>2, <3>2, <4>4
    <3> QED BY <3>4, <3>5
  <2> QED BY <2>5, <2>6
<1>13. CASE Take(s)
  <2> DEFINE place == IF Loaded(s) = <<>> THEN "decide" ELSE "judge"
             r == [b EXCEPT !.at = place]
  <2>1. job' = [job EXCEPT ![s] = r] /\ setup' = setup /\ b.at = "waiting"
    BY <1>13 DEF Take
  <2>2. /\ b.judge = 1 /\ b.place = 1 /\ ~b.raised
        /\ \A j \in Judges : b.votes[j] = <<>>
    BY <1>1, <2>1 DEF InTurn
  <2>3. setup.n \in 1..MaxJudges /\ 1 \in Judges
    BY JudgingAssumption DEF SetupInv, Judges, JudgingAssumption
  <2>4. Loaded(s) \in Seq(Nat) /\ Asked(s) \in Nat
    BY PlacesAsked DEF SetupInv
  <2>5. IF Loaded(s) = <<>> THEN Asked(s) = 0 ELSE Asked(s) >= 1
    BY <2>4 DEF Asked
  <2>6. /\ r \in Jobs /\ r.votes = b.votes /\ r.billed = b.billed /\ r.judge = b.judge /\ r.place = b.place
        /\ r.at = IF Loaded(s) = <<>> THEN "decide" ELSE "judge"
    <3>1. place \in {"decide", "judge"}
      OBVIOUS
    <3> HIDE DEF b, place
    <3>2. /\ r \in Jobs /\ r.votes = b.votes /\ r.billed = b.billed /\ r.judge = b.judge /\ r.place = b.place
          /\ r.at = place
      BY <1>1, <3>1 DEF Jobs
    <3> QED BY <3>2 DEF place
  <2> HIDE DEF b, r
  <2>7. InTurn(s, r)
    <3>1. CASE Loaded(s) = <<>>
      BY <3>1, <2>2, <2>5, <2>6 DEF InTurn
    <3>2. CASE Loaded(s) # <<>>
      <4>1. \A j \in Judges : ~(j < 1)
        BY DEF Judges
      <4> QED BY <3>2, <4>1, <2>2, <2>3, <2>4, <2>5, <2>6 DEF InTurn
    <3> QED BY <3>1, <3>2
  <2> QED BY <1>15, <2>1, <2>6, <2>7
<1>14. CASE NoScenarioFile(s) \/ Decide(s) \/ ScoringFails(s)
  <2> DEFINE r == [b EXCEPT !.at = "settled"]
  <2>1. job' = [job EXCEPT ![s] = r] /\ setup' = setup
    BY <1>14 DEF NoScenarioFile, Decide, ScoringFails
  <2>2. r \in Jobs /\ r.votes = b.votes /\ r.billed = b.billed /\ r.at = "settled"
    BY <1>1 DEF Jobs
  <2> HIDE DEF b, r
  <2>3. InTurn(s, r)
    BY <2>2 DEF InTurn
  <2> QED BY <1>15, <2>1, <2>2, <2>3
<1> QED
  BY <1>4, <1>5, <1>6, <1>7, <1>8, <1>9, <1>10, <1>11, <1>12, <1>13, <1>14 DEF Step, Call

LEMMA SetupKept ==
  ASSUME setup' = setup, NEW s, NEW b, NEW S
  PROVE  /\ (\A j, p : Evidence(s, j, p)' = Evidence(s, j, p)) /\ Stored' = Stored /\ Judges' = Judges
         /\ (InTurn(s, b) => InTurn(s, b)') /\ (Backed(s, b, S) => Backed(s, b, S)')
BY DEF InTurn, Backed, Judges, Asked, Loaded, Evidence, Window, Skipped, KeepsName, Stored

(* The state the theorems below are read off.                              *)
VoteInv == SetupInv /\ JobInv /\ CacheInv

LEMMA JobsStart == Init /\ SetupInv => JobInv /\ CacheInv
<1> SUFFICES ASSUME Init, SetupInv PROVE JobInv /\ CacheInv
  OBVIOUS
<1>1. NewJob \in Jobs
  <2>1. 1 \in 1..MaxJudges
    BY JudgingAssumption DEF JudgingAssumption
  <2> QED BY <2>1 DEF NewJob, Jobs
<1>2. job \in [Scenarios -> Jobs]
  BY <1>1 DEF Init
<1>3. ASSUME NEW s \in Scenarios PROVE InTurn(s, job[s]) /\ Backed(s, job[s], said)
  <2>1. job[s] = NewJob
    BY DEF Init
  <2>2. \A j \in Judges : NewJob.votes[j] = <<>>
    <3>1. Judges \subseteq 1..MaxJudges
      BY JudgingAssumption DEF SetupInv, Judges, JudgingAssumption
    <3> QED BY <3>1 DEF NewJob
  <2>3. InTurn(s, NewJob)
    BY <2>2 DEF InTurn, NewJob
  <2>4. Backed(s, NewJob, said)
    BY <2>2 DEF Backed
  <2> QED BY <2>1, <2>3, <2>4
<1>4. CacheInv
  <2>1. CASE cache = <<>>
    BY <2>1 DEF CacheInv
  <2>2. ASSUME NEW w \in BOOLEAN, cache = <<[key |-> Key(1, 1, 1), vote |-> "pass", whole |-> w]>>,
               said = {<<Evidence(1, 1, 1), v>> : v \in {x \in {"pass"} : w}}
        PROVE  CacheInv
    <3> DEFINE e == [key |-> Key(1, 1, 1), vote |-> "pass", whole |-> w]
    <3>1. 1 \in Scenarios /\ 1 \in Judges
      BY JudgingAssumption DEF JudgingAssumption, Scenarios, Judges, SetupInv
    <3>2. e \in Stored
      BY <3>1 DEF Stored, Key, Ballots
    <3>3. e.whole => <<e.key, e.vote>> \in said
      BY <2>2 DEF Key
    <3>4. cache = <<e>>
      BY <2>2
    <3> HIDE DEF e, Stored
    <3>5. cache \in Seq(Stored) /\ Len(cache) = 1 /\ cache[1] = e
      BY <3>2, <3>4
    <3>6. \A i \in 1..Len(cache) : i = 1
      BY <3>5
    <3> QED BY <3>3, <3>5, <3>6 DEF CacheInv
  <2> QED BY <2>1, <2>2 DEF Init
<1> QED BY <1>2, <1>3, <1>4 DEF JobInv

LEMMA JobsGoOn == VoteInv /\ [Next]_vars => JobInv' /\ CacheInv'
<1> SUFFICES ASSUME VoteInv, [Next]_vars PROVE JobInv' /\ CacheInv'
  OBVIOUS
<1> USE DEF VoteInv
<1>1. CASE UNCHANGED vars
  <2>1. UNCHANGED <<setup, cache, said, job>>
    BY <1>1 DEF vars
  <2>2. Scenarios' = Scenarios /\ Jobs' = Jobs
    BY DEF Scenarios, Jobs, Votes, Ballots
  <2>3. JobInv'
    BY <2>1, <2>2, SetupKept DEF JobInv
  <2>4. CacheInv'
    BY <2>1, SetupKept DEF CacheInv
  <2> QED BY <2>3, <2>4
<1>2. ASSUME NEW s \in Scenarios, Step(s) PROVE JobInv' /\ CacheInv'
  <2>1. /\ job' = [job EXCEPT ![s] = job'[s]] /\ setup' = setup
        /\ job'[s] \in Jobs /\ InTurn(s, job'[s]) /\ Backed(s, job'[s], said')
    BY <1>2, JobMoves
  <2>2. /\ cache' \in Seq(Stored) /\ said \subseteq said'
        /\ \A i \in 1..Len(cache') : cache'[i].whole => <<cache'[i].key, cache'[i].vote>> \in said'
    BY <1>2, CacheMoves
  <2>3. CacheInv'
    BY <2>1, <2>2, SetupKept DEF CacheInv
  <2>4. job' \in [Scenarios -> Jobs]
    BY <2>1 DEF JobInv
  <2>5. ASSUME NEW t \in Scenarios PROVE InTurn(t, job'[t]) /\ Backed(t, job'[t], said')
    <3>1. CASE t = s
      BY <2>1, <3>1
    <3>2. CASE t # s
      <4>1. job'[t] = job[t] /\ InTurn(t, job[t]) /\ Backed(t, job[t], said)
        BY <2>1, <3>2 DEF JobInv
      <4> QED BY <2>2, <4>1, BackedByMore
    <3> QED BY <3>1, <3>2
  <2>6. ASSUME NEW t \in Scenarios PROVE (InTurn(t, job[t]) /\ Backed(t, job[t], said))'
    BY <2>1, <2>5, SetupKept
  <2> QED BY <2>3, <2>4, <2>6 DEF JobInv
<1> QED BY <1>1, <1>2 DEF Next, Summary

LEMMA VotesHold == Spec => []VoteInv
<1>1. Init /\ SetupInv => VoteInv
  BY JobsStart DEF VoteInv
<1>2. VoteInv /\ SetupInv' /\ [Next]_vars => VoteInv'
  BY JobsGoOn DEF VoteInv
<1> QED BY <1>1, <1>2, SetupHolds, PTL DEF Spec

(* The cache of the scores stays within its budget: every put is followed  *)
(* by the eviction of the oldest entries.                                  *)
THEOREM CacheStaysBounded == Spec => []CacheBounded
<1>1. ASSUME VoteInv, CacheBounded, [Next]_vars PROVE CacheBounded'
  <2>1. CASE UNCHANGED vars
    BY <1>1, <2>1 DEF vars, CacheBounded
  <2>2. ASSUME NEW s \in Scenarios, Step(s) PROVE CacheBounded'
    BY <1>1, <2>2, CacheMoves DEF VoteInv
  <2> QED BY <1>1, <2>1, <2>2 DEF Next, Summary
<1>2. Init => CacheBounded
  <2>1. ASSUME NEW e, cache = <<e>> PROVE Len(cache) = 1
    BY <2>1
  <2>2. Init => Len(cache) = 0 \/ Len(cache) = 1
    BY <2>1 DEF Init
  <2> QED BY <2>2, JudgingAssumption DEF CacheBounded, JudgingAssumption
<1> QED BY <1>1, <1>2, VotesHold, PTL DEF Spec

(* A vote that is recorded was given by the judge's own model on the turn's *)
(* own evidence, also when it comes out of the cache.                      *)
THEOREM VotesStayOwn == Spec => []VotesAreOwn
<1>1. VoteInv => VotesAreOwn
  <2> SUFFICES ASSUME VoteInv, NEW s \in setup.todo, NEW j \in Judges, NEW p \in Places(s), Ballot(s, j, p)
               PROVE  <<Evidence(s, j, p), job[s].votes[j][p]>> \in said
    BY DEF VotesAreOwn
  <2>1. s \in Scenarios /\ Backed(s, job[s], said)
    BY DEF VoteInv, SetupInv, JobInv
  <2>2. p \in 1..Len(job[s].votes[j])
    <3>1. p \in 1..Asked(s) /\ Asked(s) \in Nat
      BY <2>1, PlacesAsked DEF VoteInv
    <3>2. j \in 1..MaxJudges
      BY JudgingAssumption DEF VoteInv, SetupInv, Judges, JudgingAssumption
    <3>3. Len(job[s].votes[j]) \in Nat
      BY <2>1, <3>2 DEF VoteInv, JobInv, Jobs
    <3> QED BY <3>1, <3>3 DEF Ballot
  <2> QED BY <2>1, <2>2 DEF Backed, Ballot
<1> QED BY <1>1, VotesHold, PTL

-----------------------------------------------------------------------------
(* Verdicts.                                                               *)

(* What PassIsEarned says of a directory.                                  *)
Earned(s) ==
  /\ Len(Loaded(s)) = Turns
  /\ \A j \in Judges : Len(job[s].votes[j]) = Cardinality(Places(s))
  /\ Usable(s) # {}
  /\ \A p \in Places(s), j \in Usable(s) : Skipped(s, j, p) \/ \E i \in Judges : Ballot(s, i, p)

PassInv ==
  /\ DOMAIN score = Scenarios
  /\ \A s \in Scenarios : score[s] = [is |-> score[s].is, pass |-> score[s].pass, cost |-> score[s].cost]
  /\ \A s \in Scenarios : score[s].pass => job[s].at = "settled" /\ Earned(s)

(* A verdict that passes covers what it has to cover.                      *)
LEMMA PassingIsEarned ==
  ASSUME VoteInv, NEW s \in Scenarios, job[s].at = "decide", NEW rulesPass \in BOOLEAN, OverallPass(s, rulesPass)
  PROVE  Earned(s)
<1>1. /\ job[s] \in Jobs /\ InTurn(s, job[s]) /\ Backed(s, job[s], said)
      /\ Asked(s) \in Nat /\ Places(s) = 1..Asked(s)
  BY PlacesAsked DEF VoteInv, JobInv
<1>2. Judges \subseteq 1..MaxJudges /\ 1 \in Judges
  BY JudgingAssumption DEF VoteInv, SetupInv, Judges, JudgingAssumption
<1>3. Len(Loaded(s)) = Turns /\ ~job[s].raised
  BY DEF OverallPass
<1>4. \A j \in Judges : Len(job[s].votes[j]) = Asked(s)
  BY <1>1, <1>3 DEF InTurn
<1>5. Cardinality(Places(s)) = Asked(s)
  <2>1. Cardinality(1..Asked(s)) = IF 1 > Asked(s) THEN 0 ELSE Asked(s) - 1 + 1
    BY <1>1, FS_Interval
  <2> QED BY <2>1, <1>1
<1>6. Usable(s) # {}
  <2>1. CASE setup.merged
    BY <2>1 DEF OverallPass, MergedPass
  <2>2. CASE ~setup.merged
    BY <2>2, <1>2 DEF OverallPass, JudgePass
  <2> QED BY <2>1, <2>2
<1>7. ASSUME NEW p \in Places(s), NEW j \in Usable(s)
      PROVE  Skipped(s, j, p) \/ \E i \in Judges : Ballot(s, i, p)
  <2>1. j \in Judges /\ p \in 1..Len(job[s].votes[j]) /\ p <= Len(job[s].votes[j])
    BY <1>1, <1>4 DEF Usable
  <2>2. job[s].votes[j][p] \in Votes
    <3>1. job[s].votes[j] \in Seq(Votes)
      BY <1>1, <1>2, <2>1 DEF Jobs
    <3> QED BY <2>1, <3>1
  <2>3. CASE job[s].votes[j][p] \in Ballots
    BY <2>1, <2>3 DEF Ballot
  <2>4. CASE job[s].votes[j][p] = "skipped"
    BY <1>1, <2>1, <2>4 DEF Backed
  <2>5. CASE job[s].votes[j][p] = "errored"
    <3>1. Errored(s, j, p)
      BY <2>1, <2>5 DEF Errored
    <3>2. setup.merged
      BY <2>1, <3>1 DEF OverallPass, JudgePass
    <3>3. {i \in Usable(s) : Ballot(s, i, p)} # {}
      BY <3>1, <3>2 DEF OverallPass, MergedPass
    <3> QED BY <3>3 DEF Usable
  <2> QED BY <2>2, <2>3, <2>4, <2>5 DEF Votes
<1> QED BY <1>3, <1>4, <1>5, <1>6, <1>7 DEF Earned

LEMMA EarnedKept ==
  ASSUME NEW s, setup' = setup, job'[s].votes = job[s].votes, Earned(s)
  PROVE  Earned(s)'
BY ZenonT(40) DEF Earned, Loaded, Judges, Places, Usable, Ballot, Skipped, KeepsName

LEMMA PassesGoOn == VoteInv /\ PassInv /\ [Next]_vars => PassInv'
<1> SUFFICES ASSUME VoteInv, PassInv, [Next]_vars PROVE PassInv'
  OBVIOUS
<1>1. CASE UNCHANGED vars
  <2>1. setup' = setup /\ job' = job /\ score' = score
    BY <1>1 DEF vars
  <2> QED BY <2>1, EarnedKept DEF PassInv, Scenarios
<1>2. ASSUME NEW s \in Scenarios, Step(s) PROVE PassInv'
  <2>1. job \in [Scenarios -> Jobs] /\ setup' = setup /\ job' = [job EXCEPT ![s] = job'[s]]
    BY <1>2, JobMoves DEF VoteInv, JobInv
  <2>2. job[s].at # "settled"
    BY <1>2 DEF Step, Take, NoScenarioFile, Call, Decide, ScoringFails, SkipTurn, CacheHit, CacheMiss, Asking,
       Answer, Unparsable, Throttled, Unreachable, RetryAuth, Fatal
  <2>3. /\ DOMAIN score' = Scenarios
        /\ \A t \in Scenarios : t # s => score'[t] = score[t]
    <3>1. \/ score' = score
          \/ \E x : score' = [score EXCEPT ![s] = x]
          \/ score' = [score EXCEPT ![s].is = "torn"]
      BY <1>2 DEF Step, Take, NoScenarioFile, Call, Decide, ScoringFails, SkipTurn, CacheHit, CacheMiss, Asking,
         Answer, Unparsable, Throttled, Unreachable, RetryAuth, Fatal
    <3> QED BY <3>1 DEF PassInv
  <2>4. ASSUME NEW t \in Scenarios, t # s, score'[t].pass PROVE (job[t].at = "settled" /\ Earned(t))'
    <3>1. job'[t] = job[t] /\ score[t].pass
      BY <2>1, <2>3, <2>4
    <3>2. job'[t].at = "settled" /\ Earned(t)
      BY <3>1 DEF PassInv
    <3> QED BY <2>1, <3>1, <3>2, EarnedKept
  <2>5. ASSUME score'[s].pass PROVE (job[s].at = "settled" /\ Earned(s))'
    <3>1. CASE Decide(s)
      <4>1. job[s].at = "decide" /\ job' = [job EXCEPT ![s].at = "settled"]
        BY <3>1 DEF Decide
      <4>2. job'[s].at = "settled" /\ job'[s].votes = job[s].votes
        <5>1. job[s] \in Jobs
          BY <2>1
        <5>2. job'[s] = [job[s] EXCEPT !.at = "settled"]
          BY <2>1, <4>1
        <5> QED BY <5>1, <5>2 DEF Jobs
      <4>3. PICK rulesPass \in BOOLEAN :
               score' = [score EXCEPT ![s] = [is |-> "scored", pass |-> OverallPass(s, rulesPass), cost |-> CostNow(s)]]
        BY <3>1 DEF Decide
      <4>4. score'[s] = [is |-> "scored", pass |-> OverallPass(s, rulesPass), cost |-> CostNow(s)]
        BY <4>3 DEF PassInv
      <4>5. OverallPass(s, rulesPass)
        <5> DEFINE passes == OverallPass(s, rulesPass)
        <5>1. passes \in BOOLEAN
          BY DEF OverallPass
        <5>2. score'[s] = [is |-> "scored", pass |-> passes, cost |-> CostNow(s)]
          BY <4>4
        <5> HIDE DEF passes
        <5>3. score'[s].pass = passes
          BY <5>2
        <5>4. passes
          BY <2>5, <5>1, <5>3, Zenon
        <5> QED BY <5>4 DEF passes
      <4> QED BY <2>1, <4>1, <4>2, <4>5, PassingIsEarned, EarnedKept
    <3>2. CASE NoScenarioFile(s)
      BY <2>5, <3>2 DEF NoScenarioFile, PassInv
    <3>3. CASE ~Decide(s) /\ ~NoScenarioFile(s)
      <4>1. score' = score \/ score' = [score EXCEPT ![s].is = "torn"]
        BY <1>2, <3>3 DEF Step, Take, Call, ScoringFails, SkipTurn, CacheHit, CacheMiss, Asking,
           Answer, Unparsable, Throttled, Unreachable, RetryAuth, Fatal
      <4>2. score[s].pass
        <5>1. CASE score' = score
          BY <2>5, <5>1, Zenon
        <5>2. CASE score' = [score EXCEPT ![s].is = "torn"]
          <6>1. score'[s] = [score[s] EXCEPT !.is = "torn"]
            BY <5>2 DEF PassInv
          <6>2. score[s] = [is |-> score[s].is, pass |-> score[s].pass, cost |-> score[s].cost]
            BY DEF PassInv
          <6>3. score'[s].pass = score[s].pass
            BY <6>1, <6>2
          <6> QED BY <2>5, <6>3, Zenon
        <5> QED BY <4>1, <5>1, <5>2
      <4> QED BY <2>2, <4>2 DEF PassInv
    <3> QED BY <3>1, <3>2, <3>3
  <2>6. \A t \in Scenarios : score'[t] = [is |-> score'[t].is, pass |-> score'[t].pass, cost |-> score'[t].cost]
    <3>1. \/ score' = score
          \/ Decide(s) \/ NoScenarioFile(s)
          \/ score' = [score EXCEPT ![s].is = "torn"]
      BY <1>2 DEF Step, Take, Call, ScoringFails, SkipTurn, CacheHit, CacheMiss, Asking,
         Answer, Unparsable, Throttled, Unreachable, RetryAuth, Fatal
    <3>2. CASE score' = score
      BY <3>2 DEF PassInv
    <3>3. ASSUME NEW p, score' = [score EXCEPT ![s] = [is |-> "scored", pass |-> p, cost |-> CostNow(s)]]
          PROVE  score'[s] = [is |-> score'[s].is, pass |-> score'[s].pass, cost |-> score'[s].cost]
      <4>1. score'[s] = [is |-> "scored", pass |-> p, cost |-> CostNow(s)]
        BY <3>3 DEF PassInv
      <4> QED BY <4>1
    <3>4. CASE Decide(s) \/ NoScenarioFile(s)
      <4>1. score'[s] = [is |-> score'[s].is, pass |-> score'[s].pass, cost |-> score'[s].cost]
        BY <3>3, <3>4 DEF Decide, NoScenarioFile
      <4> QED BY <2>3, <4>1 DEF PassInv
    <3>5. CASE score' = [score EXCEPT ![s].is = "torn"]
      <4>1. score'[s] = [score[s] EXCEPT !.is = "torn"]
        BY <3>5 DEF PassInv
      <4>2. score[s] = [is |-> score[s].is, pass |-> score[s].pass, cost |-> score[s].cost]
        BY DEF PassInv
      <4>3. score'[s] = [is |-> score'[s].is, pass |-> score'[s].pass, cost |-> score'[s].cost]
        BY <4>1, <4>2
      <4> QED BY <2>3, <4>3 DEF PassInv
    <3> QED BY <3>1, <3>2, <3>4, <3>5
  <2>7. \A t \in Scenarios : score'[t].pass => (job[t].at = "settled" /\ Earned(t))'
    BY <2>4, <2>5
  <2> QED BY <2>3, <2>6, <2>7 DEF PassInv, Scenarios
<1> QED BY <1>1, <1>2 DEF Next, Summary

(* A scenario passes only when no turn was lost, no scorer raised, and no  *)
(* turn a judge with any vote was asked about is left without a verdict,   *)
(* whatever the provider answered and the cache held.                      *)
THEOREM PassesAreEarned == Spec => []PassIsEarned
<1>1. Init => PassInv
  BY DEF Init, PassInv, NoScore
<1>2. VoteInv /\ PassInv => PassIsEarned
  BY DEF VoteInv, SetupInv, PassInv, PassIsEarned, Earned
<1> QED BY <1>1, <1>2, PassesGoOn, VotesHold, PTL DEF Spec

-----------------------------------------------------------------------------
(* Costs.                                                                  *)

(* What the shared judges answered for each directory.                     *)
Share == [s \in Scenarios |-> IF s \in setup.own THEN 0 ELSE job[s].billed]

CostInv ==
  /\ spent \in [1..MaxJudges -> Nat]
  /\ SumOf(spent) = SumOf(Share)
  /\ \A s \in Scenarios : score[s].is = "scored" => job[s].at = "settled" /\ score[s].cost >= job[s].billed

LEMMA ShareTyped ==
  ASSUME JobInv
  PROVE  Share \in Seq(Nat) /\ Len(Share) = Dirs /\ Share \in [Scenarios -> Nat]
<1>1. Share \in [1..Dirs -> Nat] /\ Dirs \in Nat
  BY JudgingAssumption DEF Share, JobInv, Jobs, Scenarios, JudgingAssumption
<1> HIDE DEF Share
<1> QED BY <1>1 DEF Scenarios

(* A scenario's cost covers its own answers at any time.                   *)
LEMMA CostCovers ==
  ASSUME VoteInv, CostInv, NEW s \in Scenarios
  PROVE  CostNow(s) >= job[s].billed
<1>1. job[s].billed \in Nat
  BY DEF VoteInv, JobInv, Jobs
<1>2. CASE s \in setup.own
  BY <1>1, <1>2 DEF CostNow
<1>3. CASE s \notin setup.own
  <2>1. Share \in Seq(Nat) /\ s \in 1..Len(Share) /\ Share[s] = job[s].billed
    <3>1. Share[s] = job[s].billed
      BY <1>3 DEF Share
    <3> QED BY <3>1, ShareTyped DEF VoteInv, Scenarios
  <2>2. Share[s] <= SumOf(Share) /\ SumOf(Share) \in Nat
    BY <2>1, SumIsNat
  <2>3. CostNow(s) = SumOf(Share)
    BY <1>3 DEF CostNow, CostInv
  <2> QED BY <1>1, <2>1, <2>2, <2>3
<1> QED BY <1>2, <1>3

LEMMA VotedIsFree == ASSUME NEW s, NEW b \in Jobs, NEW v PROVE Voted(s, b, v).billed = b.billed
BY DEF Voted, JudgeDone, Jobs

(* A step bills an answered call, to the job and to its judge, or nothing. *)
LEMMA BillMoves ==
  ASSUME VoteInv, NEW s \in Scenarios, Step(s)
  PROVE  \/ spent' = spent /\ job'[s].billed = job[s].billed
         \/ /\ Bill(s) /\ job'[s].billed = job[s].billed + 1 /\ job[s].judge \in 1..MaxJudges
            /\ job[s].at = "post" /\ score' = score
<1> DEFINE b == job[s]
<1>1. b \in Jobs /\ job \in [Scenarios -> Jobs] /\ b.billed \in Nat /\ b.judge \in 1..MaxJudges
  BY DEF VoteInv, JobInv, Jobs
<1>2. ASSUME NEW v, job' = [job EXCEPT ![s] = Voted(s, b, v)] PROVE job'[s].billed = b.billed
  BY <1>1, <1>2, VotedIsFree
<1>3. ASSUME NEW v, job' = [job EXCEPT ![s] = Voted(s, Billed(s), v)] PROVE job'[s].billed = b.billed + 1
  <2> DEFINE k == b.billed + 1
             c == Billed(s)
  <2>1. c = [b EXCEPT !.billed = k] /\ k \in Nat
    BY <1>1 DEF Billed
  <2> HIDE DEF b, c, k
  <2>2. c \in Jobs /\ c.billed = k
    BY <1>1, <2>1 DEF Jobs
  <2>3. job'[s] = Voted(s, c, v)
    BY <1>1, <1>3 DEF c
  <2> QED BY <2>2, <2>3, VotedIsFree DEF k
<1>4. CASE SkipTurn(s) \/ Unreachable(s) \/ CacheHit(s)
  <2>1. spent' = spent /\ \E v : job' = [job EXCEPT ![s] = Voted(s, b, v)]
    BY <1>1, <1>4 DEF SkipTurn, Unreachable, CacheHit
  <2> QED BY <1>2, <2>1
<1>5. CASE (\E v \in Ballots : Answer(s, v)) \/ Unparsable(s)
  <2>1. /\ Bill(s) /\ b.at = "post" /\ score' = score
        /\ \E v : job' = [job EXCEPT ![s] = Voted(s, Billed(s), v)]
    BY <1>5 DEF Answer, Unparsable
  <2> QED BY <1>1, <1>3, <2>1
<1>6. ASSUME NEW r, job' = [job EXCEPT ![s] = r], r.billed = b.billed PROVE job'[s].billed = b.billed
  BY <1>1, <1>6
<1>7. CASE CacheMiss(s) \/ Take(s) \/ NoScenarioFile(s) \/ Decide(s) \/ ScoringFails(s)
  <2>1. spent' = spent /\ \E a : job' = [job EXCEPT ![s] = [b EXCEPT !.at = a]]
    BY <1>7 DEF CacheMiss, Take, NoScenarioFile, Decide, ScoringFails
  <2>2. ASSUME NEW a PROVE [b EXCEPT !.at = a].billed = b.billed
    <3> HIDE DEF b
    <3> QED BY <1>1 DEF Jobs
  <2> QED BY <1>6, <2>1, <2>2
<1>8. CASE RetryAuth(s)
  <2> DEFINE r == [b EXCEPT !.retried = TRUE, !.tries = 0]
  <2>1. job' = [job EXCEPT ![s] = r] /\ spent' = spent
    <3>1. job' = [job EXCEPT ![s].retried = TRUE, ![s].tries = 0] /\ spent' = spent
      BY <1>8 DEF RetryAuth
    <3> HIDE DEF Jobs
    <3> QED BY <1>1, <3>1
  <2>2. r.billed = b.billed
    <3> HIDE DEF b
    <3> QED BY <1>1 DEF Jobs
  <2> HIDE DEF r
  <2> QED BY <1>6, <2>1, <2>2
<1>9. CASE Throttled(s)
  <2> DEFINE r == [b EXCEPT !.tries = @ + 1]
  <2>1. spent' = spent /\ (job' = [job EXCEPT ![s] = r] \/ job' = [job EXCEPT ![s] = Voted(s, b, "errored")])
    BY <1>9 DEF Throttled
  <2>2. r.billed = b.billed
    <3> HIDE DEF b
    <3> QED BY <1>1 DEF Jobs
  <2> HIDE DEF r
  <2> QED BY <1>2, <1>6, <2>1, <2>2
<1>10. CASE Fatal(s)
  <2> DEFINE c == [b EXCEPT !.raised = TRUE]
             r == IF setup.merged THEN [c EXCEPT !.at = "decide"] ELSE JudgeDone(c, c.judge)
  <2>1. job' = [job EXCEPT ![s] = r] /\ spent' = spent
    BY <1>10 DEF Fatal
  <2>2. r.billed = b.billed
    <3> HIDE DEF b
    <3>1. c \in Jobs /\ c.billed = b.billed
      BY <1>1 DEF Jobs
    <3> HIDE DEF c
    <3>2. [c EXCEPT !.at = "decide"].billed = c.billed /\ JudgeDone(c, c.judge).billed = c.billed
      BY <3>1 DEF Jobs, JudgeDone
    <3> QED BY <3>1, <3>2
  <2> HIDE DEF r
  <2> QED BY <1>6, <2>1, <2>2
<1> QED BY <1>4, <1>5, <1>7, <1>8, <1>9, <1>10 DEF Step, Call

LEMMA CostsGoOn == VoteInv /\ VoteInv' /\ PassInv /\ CostInv /\ [Next]_vars => CostInv'
<1> SUFFICES ASSUME VoteInv, VoteInv', PassInv, CostInv, [Next]_vars PROVE CostInv'
  OBVIOUS
<1>1. CASE UNCHANGED vars
  BY <1>1 DEF vars, CostInv, Share, Scenarios
<1>2. ASSUME NEW s \in Scenarios, Step(s) PROVE CostInv'
  <2>1. job \in [Scenarios -> Jobs] /\ setup' = setup /\ job' = [job EXCEPT ![s] = job'[s]]
    BY <1>2, JobMoves DEF VoteInv, JobInv
  <2>2. /\ Share \in Seq(Nat) /\ Len(Share) = Dirs /\ Share' \in Seq(Nat) /\ Len(Share') = Dirs
        /\ Scenarios = 1..Dirs
    <3>1. JobInv'
      BY DEF VoteInv
    <3>2. Share' \in Seq(Nat) /\ Len(Share') = Dirs
      <4>1. Share' \in [1..Dirs -> Nat] /\ Dirs \in Nat
        BY <3>1, JudgingAssumption DEF Share, JobInv, Jobs, Scenarios, JudgingAssumption
      <4> HIDE DEF Share
      <4> QED BY <4>1
    <3> QED BY <3>2, ShareTyped DEF VoteInv, Scenarios
  <2>3. \A t \in Scenarios : t # s => Share'[t] = Share[t] /\ job'[t] = job[t]
    BY <2>1 DEF Share, Scenarios
  <2>4. Share[s] = (IF s \in setup.own THEN 0 ELSE job[s].billed) /\ Share'[s] = IF s \in setup.own THEN 0 ELSE job'[s].billed
    BY <2>1 DEF Share, Scenarios
  <2>5. spent' \in [1..MaxJudges -> Nat] /\ SumOf(spent') = SumOf(Share')
    <3>1. spent \in Seq(Nat) /\ Len(spent) = MaxJudges /\ MaxJudges \in Nat /\ spent \in [1..MaxJudges -> Nat]
      BY JudgingAssumption DEF CostInv, JudgingAssumption
    <3>2. CASE spent' = spent /\ Share'[s] = Share[s]
      <4>1. Share' = Share
        BY <2>1, <2>3, <3>2 DEF Share, Scenarios
      <4> QED BY <3>2, <4>1 DEF CostInv
    <3>3. CASE Bill(s) /\ s \notin setup.own /\ Share'[s] = Share[s] + 1 /\ job[s].judge \in 1..MaxJudges
      <4> DEFINE k == job[s].judge
                 old == Share
                 new == Share'
                 paid == spent'
      <4>1. paid = [spent EXCEPT ![k] = @ + 1] /\ k \in 1..MaxJudges
        BY <3>3 DEF Bill
      <4> HIDE DEF k, paid
      <4>2. paid \in Seq(Nat) /\ Len(paid) = MaxJudges /\ paid \in [1..MaxJudges -> Nat] /\ paid[k] = spent[k] + 1
            /\ \A i \in 1..Len(spent) : i # k => paid[i] = spent[i]
        <5>1. paid \in [1..MaxJudges -> Nat] /\ paid[k] = spent[k] + 1
              /\ \A i \in 1..MaxJudges : i # k => paid[i] = spent[i]
          BY <3>1, <4>1
        <5>2. paid \in Seq(Nat) /\ Len(paid) = MaxJudges
          BY <3>1, <5>1
        <5> QED BY <3>1, <5>1, <5>2
      <4>3. SumOf(paid) = SumOf(spent) + 1
        <5>1. Len(paid) = Len(spent) /\ k \in 1..Len(spent) /\ 1 \in Nat /\ paid[k] = spent[k] + 1
          BY <3>1, <4>1, <4>2
        <5> QED BY <3>1, <4>2, <5>1, SumGrows
      <4>4. /\ old \in Seq(Nat) /\ new \in Seq(Nat) /\ Len(new) = Len(old) /\ s \in 1..Len(old) /\ new[s] = old[s] + 1
            /\ \A i \in 1..Len(old) : i # s => new[i] = old[i]
        BY <2>2, <2>3, <3>3
      <4> HIDE DEF old, new
      <4>5. SumOf(new) = SumOf(old) + 1
        BY <4>4, SumGrows
      <4> QED BY <4>2, <4>3, <4>5 DEF paid, old, new, CostInv
    <3>4. \/ spent' = spent /\ Share'[s] = Share[s]
          \/ Bill(s) /\ s \notin setup.own /\ Share'[s] = Share[s] + 1 /\ job[s].judge \in 1..MaxJudges
      BY <1>2, <2>4, BillMoves DEF Bill
    <3> QED BY <3>2, <3>3, <3>4
  <2>6. ASSUME NEW t \in Scenarios, score'[t].is = "scored"
        PROVE  job'[t].at = "settled" /\ score'[t].cost >= job'[t].billed
    <3>1. CASE Decide(s) \/ NoScenarioFile(s)
      <4>1. job' = [job EXCEPT ![s].at = "settled"] /\ spent' = spent /\ job'[s].at = "settled"
            /\ job'[s].billed = job[s].billed
        <5>1. job' = [job EXCEPT ![s] = [job[s] EXCEPT !.at = "settled"]] /\ spent' = spent
              /\ job' = [job EXCEPT ![s].at = "settled"]
          BY <3>1 DEF Decide, NoScenarioFile
        <5>2. job'[s] = [job[s] EXCEPT !.at = "settled"] /\ job[s] \in Jobs
          BY <2>1, <5>1
        <5> QED BY <5>1, <5>2 DEF Jobs
      <4>2. CASE t = s
        <5>1. PICK p : score' = [score EXCEPT ![s] = [is |-> "scored", pass |-> p, cost |-> CostNow(s)]]
          BY <3>1 DEF Decide, NoScenarioFile
        <5>2. score'[s].cost = CostNow(s)
          BY <5>1 DEF PassInv
        <5> QED BY <4>1, <4>2, <5>2, CostCovers
      <4>3. CASE t # s
        <5>1. score'[t] = score[t] /\ job'[t] = job[t]
          BY <2>3, <3>1, <4>3 DEF Decide, NoScenarioFile, PassInv
        <5> QED BY <2>6, <5>1 DEF CostInv
      <4> QED BY <4>2, <4>3
    <3>2. CASE ~Decide(s) /\ ~NoScenarioFile(s)
      <4>1. \/ score' = score
            \/ score' = [score EXCEPT ![s].is = "torn"]
        BY <1>2, <3>2 DEF Step, Take, Call, ScoringFails, SkipTurn, CacheHit, CacheMiss, Asking,
           Answer, Unparsable, Throttled, Unreachable, RetryAuth, Fatal
      <4>2. job[s].at # "settled"
        BY <1>2 DEF Step, Take, NoScenarioFile, Call, Decide, ScoringFails, SkipTurn, CacheHit, CacheMiss, Asking,
           Answer, Unparsable, Throttled, Unreachable, RetryAuth, Fatal
      <4>3. score'[t] = score[t] \/ (t = s /\ score'[t] = [score[t] EXCEPT !.is = "torn"])
        BY <4>1 DEF PassInv
      <4>4. score[t].is = "scored" /\ score'[t].cost = score[t].cost
        <5>1. CASE score'[t] = [score[t] EXCEPT !.is = "torn"]
          <6>1. score[t] = [is |-> score[t].is, pass |-> score[t].pass, cost |-> score[t].cost]
            BY DEF PassInv
          <6>2. score'[t].is = "torn"
            BY <5>1, <6>1
          <6> QED BY <2>6, <6>2
        <5> QED BY <2>6, <4>3, <5>1
      <4>5. t # s
        BY <4>2, <4>4 DEF CostInv
      <4> QED BY <2>3, <4>4, <4>5 DEF CostInv
    <3> QED BY <3>1, <3>2
  <2>7. \A t \in Scenarios : (score[t].is = "scored" => job[t].at = "settled" /\ score[t].cost >= job[t].billed)'
    BY <2>6
  <2> QED BY <2>5, <2>7 DEF CostInv, Scenarios
<1> QED BY <1>1, <1>2 DEF Next, Summary

(* The cost a finished scoring reports is that of every answered call of   *)
(* the configured judges, and no scenario reports less than it spent.      *)
THEOREM CostsAreCovered == Spec => []CostsCovered
<1>1. ASSUME Init, JobInv PROVE CostInv
  <2>1. spent = [j \in 1..MaxJudges |-> 0] /\ MaxJudges \in Nat
    BY <1>1, JudgingAssumption DEF Init, JudgingAssumption
  <2>2. spent \in Seq(Nat) /\ \A i \in 1..Len(spent) : spent[i] = 0
    BY <2>1
  <2>3. Share \in Seq(Nat) /\ \A i \in 1..Len(Share) : Share[i] = 0
    <3>1. Share \in Seq(Nat) /\ Len(Share) = Dirs
      BY <1>1, ShareTyped
    <3>2. \A s \in Scenarios : Share[s] = 0
      BY <1>1 DEF Init, NewJob, Share
    <3> QED BY <3>1, <3>2 DEF Scenarios
  <2>4. SumOf(spent) = 0 /\ SumOf(Share) = 0
    BY <2>2, <2>3, SumOfZeros
  <2>5. \A s \in Scenarios : score[s].is # "scored"
    BY <1>1 DEF Init, NoScore
  <2> QED BY <2>1, <2>4, <2>5 DEF CostInv
<1>2. Init => PassInv
  BY DEF Init, PassInv, NoScore
<1>3. VoteInv /\ CostInv => CostsCovered
  BY DEF VoteInv, SetupInv, CostInv, CostsCovered, Share
<1>4. VoteInv => JobInv
  BY DEF VoteInv
<1> QED BY <1>1, <1>2, <1>3, <1>4, PassesGoOn, CostsGoOn, VotesHold, PTL DEF Spec
=============================================================================
