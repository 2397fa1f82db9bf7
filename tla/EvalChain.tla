------------------------------ MODULE EvalChain ------------------------------
(***************************************************************************)
(* belt eval: the run phase, the scoring of what it left on disk and the   *)
(* aggregation of what the scoring left, in one process; belt score and    *)
(* belt aggregate on the same run directory afterwards; and a reader of    *)
(* the run's turn streams (Watch) beside it.                               *)
(* src/belt/commands/eval.py, score.py, aggregate.py and export.py.        *)
(*                                                                         *)
(* The phases hand over through files: turn outputs (in `fate`), score     *)
(* files, setup_errors.json.  Judging models how a score comes about; here *)
(* it is one of Score(s, kind).                                            *)
(***************************************************************************)
EXTENDS Watch, Aggregate

CONSTANTS
  Scenarios,   (* of the suite; those of one group each                    *)
  Demands,     (* the sets of thresholds that may be asked for             *)
  Fates,       (* how a scenario may end in the run phase                  *)
  Kinds,       (* scores a scenario may get                                *)
  Reruns       (* belt score and belt aggregate commands afterwards        *)

ASSUME ChainAssumption ==
  /\ IsFiniteSet(Scenarios) /\ Streams \subseteq Scenarios /\ Reruns \in Nat
  /\ Fates \subseteq {"setup", "raised", "clean", "blocked", "failed"}
  /\ Kinds \subseteq {"good", "poor", "unjudged", "voteless"}

VARIABLES
  opts,     (* [dry, modes, preflight, thresholds]: the command line, and  *)
            (* whether the modes are known and the scorers available       *)
  command,  (* eval, score or aggregate                                    *)
  phase,    (* args, run, gate, score, aggregate, over or killed           *)
  fate,     (* how each scenario ends; "setup": its group's setup fails    *)
  ended,    (* the scenarios that have, in the run phase                   *)
  runRc,    (* exit code of the run phase                                  *)
  toScore,  (* outcome directories this scoring has still to do            *)
  files,    (* each scenario's score.json: None if missing or torn         *)
  raised,   (* scenarios whose last scoring raised                         *)
  results,  (* what the command's aggregation put into results.json        *)
  rc,       (* exit code of the command, None until it ends                *)
  reruns

chainVars == <<opts, command, phase, fate, ended, runRc, toScore, files, raised, results, rc, reruns>>
evalVars == <<watchVars, chainVars>>

Options == [dry : BOOLEAN, modes : BOOLEAN, preflight : BOOLEAN, thresholds : Demands]

ChainInit ==
  /\ WatchInit
  /\ opts \in Options /\ fate \in [Scenarios -> Fates]
  /\ command = "eval" /\ phase = "args" /\ ended = {} /\ runRc = 0 /\ toScore = {}
  /\ files = [s \in Scenarios |-> None] /\ raised = {} /\ results = None /\ rc = None
  /\ reruns = 0

-----------------------------------------------------------------------------
(* What is on disk after the run phase.                                    *)

Output(error) == <<[state |-> "read", error |-> error, cost |-> None, secs |-> 1]>>

(* turn_*_output.json: of the scenarios with a turn that the agent made.   *)
RealTurns == {s \in ended : fate[s] \in {"clean", "blocked", "failed"}}
Disk == [s \in RealTurns |->
           Output(CASE fate[s] = "clean" -> None [] fate[s] = "blocked" -> "auth"
                    [] fate[s] = "failed" -> "unknown")]

(* turn_*_cli.txt: also of those of which a sentinel tells that they       *)
(* raised (discover_outcome_dirs).                                         *)
OutcomeDirs == {s \in ended : fate[s] # "setup"}
SetupErrors == {s \in ended : fate[s] = "setup"}

Score(s, kind) ==
  LET verdict == CASE kind = "good" -> "high" [] kind = "poor" -> "low" [] OTHER -> "inconclusive"
      failed == kind \in {"unjudged", "voteless"}
  IN  [key |-> s, base |-> s, pass |-> kind \in {"good", "unjudged"}, cost |-> None,
       checks |-> <<[dim |-> "execution", passed |-> IF kind = "poor" THEN "no" ELSE "yes"]>>,
       judges |-> <<[name |-> "judge", perTurn |-> FALSE, tokens |-> 0,
                     turns |-> <<[x \in {"quality"} |-> verdict]>>,
                     error |-> IF failed THEN "auth" ELSE None]>>]

Exit(code) == phase' = "over" /\ rc' = code

-----------------------------------------------------------------------------
(* Up to the end of the run phase.                                         *)

(* The modes are checked in a dry run too, the availability is not.        *)
CheckArguments ==
  /\ phase = "args"
  /\ IF ~opts.modes \/ (~opts.dry /\ ~opts.preflight) THEN Exit(1)
     ELSE phase' = "run" /\ rc' = rc
  /\ UNCHANGED <<watchVars, opts, command, fate, ended, runRc, toScore, files, raised, results, reruns>>

Running(s) == phase = "run" /\ ~opts.dry /\ s \notin ended

WriteStream ==
  /\ WriteStep
  /\ \E f \in Streams : Running(f) /\ written'[f] # written[f]
  /\ UNCHANGED chainVars

EndScenario(s) ==
  /\ Running(s)
  /\ ended' = ended \union {s}
  /\ UNCHANGED <<watchVars, opts, command, phase, fate, runRc, toScore, files, raised, results, rc, reruns>>

(* The run ends: all scenarios have, or it was interrupted.  No run        *)
(* directory, and nothing on disk, is what a refused command line leaves.  *)
EndRun(code) ==
  /\ phase = "run"
  /\ (ended # Scenarios \/ SetupErrors # {}) /\ ~opts.dry => code # 0
  /\ phase' = "gate" /\ runRc' = code
  /\ IF viewer = "live" THEN StopView ELSE UNCHANGED watchVars
  /\ UNCHANGED <<opts, command, fate, ended, toScore, files, raised, results, rc, reruns>>

(* Mutant: a sentinel is a turn.                                           *)
GateOnSentinels ==
  /\ phase = "gate"
  /\ IF opts.dry THEN Exit(runRc) /\ toScore' = toScore
     ELSE IF OutcomeDirs = {} THEN Exit(IF runRc # 0 THEN runRc ELSE 1) /\ toScore' = toScore
     ELSE phase' = "score" /\ toScore' = OutcomeDirs /\ rc' = rc
  /\ UNCHANGED <<watchVars, opts, command, fate, ended, runRc, files, raised, results, reruns>>

(* Without a single turn there is nothing to score, whatever the run says. *)
Gate ==
  /\ phase = "gate"
  /\ IF opts.dry THEN Exit(runRc) /\ toScore' = toScore
     ELSE IF RealTurns = {} THEN Exit(IF runRc # 0 THEN runRc ELSE 1) /\ toScore' = toScore
     ELSE phase' = "score" /\ toScore' = OutcomeDirs /\ rc' = rc
  /\ UNCHANGED <<watchVars, opts, command, fate, ended, runRc, files, raised, results, reruns>>

-----------------------------------------------------------------------------
(* Scoring and aggregation.                                                *)

(* _score_one: the file is written last, over that of an earlier scoring.  *)
(* A scenario that raised may get any score: of a sentinel, checks that    *)
(* only forbid something pass.                                             *)
ScoreOne(s, kind) ==
  /\ phase = "score" /\ s \in toScore
  /\ files' = [files EXCEPT ![s] = Score(s, kind)]
  /\ toScore' = toScore \ {s} /\ raised' = raised \ {s}
  /\ UNCHANGED <<watchVars, opts, command, phase, fate, ended, runRc, results, rc, reruns>>

(* It raises: logged, an older file stays.                                 *)
ScoreRaises(s) ==
  /\ phase = "score" /\ s \in toScore
  /\ toScore' = toScore \ {s} /\ raised' = raised \union {s}
  /\ UNCHANGED <<watchVars, opts, command, phase, fate, ended, runRc, files, results, rc, reruns>>

(* eval goes on to aggregate whatever score returns.                       *)
EndScore(code) ==
  /\ phase = "score" /\ (toScore = {} \/ code = 1)
  /\ toScore' = {}
  /\ IF command = "score" THEN Exit(code) ELSE phase' = "aggregate" /\ rc' = rc
  /\ UNCHANGED <<watchVars, opts, command, fate, ended, runRc, files, raised, results, reruns>>

(* run_exporters, of the slots asked for and whether each one's exporter   *)
(* succeeds: 1 if there is no slot or all fail.                            *)
RunExporters(slots) == IF \E i \in DOMAIN slots : slots[i] THEN 0 ELSE 1

(* Nothing exported, one exporter of two, none.                            *)
ExportCodes == {0, RunExporters(<<TRUE, FALSE>>), RunExporters(<<FALSE>>)}

Found == DiscoverScores(SetToSeq({files[s] : s \in Scenarios}))

RunAggregate(exports) ==
  /\ phase = "aggregate"
  /\ IF Found = <<>> THEN Exit(1) /\ results' = results
     ELSE /\ results' = Results(Found, Disk, SetupErrors, opts.thresholds, DefaultFailLevels)
          /\ Exit(AggregateExit(results', exports))
  /\ UNCHANGED <<watchVars, opts, command, fate, ended, runRc, toScore, files, raised, reruns>>

(* Another command on the same run directory.                              *)
Rerun(name) ==
  /\ phase \in {"over", "killed"} /\ reruns < Reruns /\ ~opts.dry /\ OutcomeDirs # {}
  /\ command' = name /\ phase' = name /\ rc' = None /\ reruns' = reruns + 1
  /\ toScore' = IF name = "score" THEN OutcomeDirs ELSE {}
  /\ UNCHANGED <<watchVars, opts, fate, ended, runRc, files, raised, results>>

(* The process is killed, while it writes a score file or between two; a   *)
(* live view ends with it.                                                 *)
Kill ==
  /\ phase \in {"run", "gate", "score", "aggregate"}
  /\ phase' = "killed" /\ toScore' = {}
  /\ \/ files' = files
     \/ phase = "score" /\ \E s \in toScore : files' = [files EXCEPT ![s] = None]
  /\ view' = IF viewer = "live" THEN "dead" ELSE view
  /\ UNCHANGED <<written, viewer, seen, todo, offset, shown, had, quiet, stop,
                 opts, command, fate, ended, runRc, raised, results, rc, reruns>>

(* The reader: the live view is opened by the run itself.                  *)
ReaderStep ==
  /\ \/ Open /\ phase # "args" /\ (viewer = "live" => phase = "run")
     \/ ViewStep \/ Interrupt
  /\ UNCHANGED chainVars

ChainStep ==
  \/ CheckArguments \/ (\E s \in Scenarios : EndScenario(s)) \/ (\E code \in {0, 1} : EndRun(code))
  \/ Gate \/ (\E s \in Scenarios : ScoreRaises(s) \/ (\E kind \in Kinds : ScoreOne(s, kind)))
  \/ (\E code \in {0, 1} : EndScore(code)) \/ (\E exports \in ExportCodes : RunAggregate(exports))

EvalNext ==
  \/ ChainStep \/ WriteStream \/ ReaderStep \/ Kill
  \/ \E name \in {"score", "aggregate"} : Rerun(name)

EvalSpec == ChainInit /\ [][EvalNext]_evalVars /\ WF_evalVars(ViewStep /\ UNCHANGED chainVars)

-----------------------------------------------------------------------------
(* Properties.                                                             *)

Finished(name) == command = name /\ phase = "over" /\ rc = 0

(* belt eval exits with 0 (not a dry run) only if the agent made a turn,   *)
(* something was scored, no judge failed, and the thresholds are kept by   *)
(* the scores that are on disk; belt aggregate likewise, the turn apart.   *)
(* The phases in between hand on no exit code.                             *)
GreenIsEarned ==
  /\ Finished("eval") /\ ~opts.dry => RealTurns # {}
  /\ (Finished("eval") /\ ~opts.dry) \/ Finished("aggregate") =>
       /\ \E s \in Scenarios : files[s] # None
       /\ \A s \in Scenarios : files[s] # None =>
            /\ \A i \in DOMAIN files[s].judges : files[s].judges[i].error = None
            /\ \A t \in opts.thresholds : t.pct = 0 /\ t.mode = "rules" =>
                 \A i \in DOMAIN files[s].checks :
                   files[s].checks[i].dim = t.dim => files[s].checks[i].passed # "no"

(* overall_pass says that no group's setup failed and that every scenario  *)
(* with an outcome passed, but for those whose scoring raised or was cut   *)
(* off: each is in the results with a pass.                                *)
OverallIsEarned ==
  results # None /\ results.overall =>
    /\ \A s \in ended : fate[s] # "setup"
    /\ \A s \in OutcomeDirs \ raised :
         phase = "over" /\ command # "score" /\ files[s] # None =>
           files[s].pass /\ files[s] \in ToSet(results.scores)

(* The attempted, blocked and completed scenarios of a results.json add    *)
(* up, and no scenario counts as passed that the environment kept from     *)
(* being tried or judged.                                                  *)
SplitAddsUp ==
  results # None /\ results.split # None =>
    LET sp == results.split
        blocked(x) == \/ \E e \in results.judge : e.key = x.key
                      \/ \E e \in results.agent : e.key = x.key /\ e.types \intersect EnvironmentalErrors # {}
    IN  /\ sp.attempted = results.total
        /\ sp.agent + sp.judge + sp.passed + sp.failed = sp.attempted
        /\ sp.passed = Cardinality({x \in ToSet(results.scores) : x.pass /\ ~blocked(x)})
=============================================================================
