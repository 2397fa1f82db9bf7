------------------------------ MODULE RunPool ------------------------------
(***************************************************************************)
(* The run phase of `belt run` with --workers above 1: run_scenarios       *)
(* (runner/phases/run_scenarios.py) hands the scenarios of the groups that *)
(* were set up to a ThreadPoolExecutor and collects their results; then    *)
(* teardown_groups, the exit code, and the end of the process.  The        *)
(* workers run each scenario in a worktree, by the steps of Workspace.     *)
(* Ctrl-C reaches the main thread only.                                    *)
(***************************************************************************)
EXTENDS Workspace, Sequences, SequencesExt

CONSTANTS
  Workers,        (* --workers                                             *)
  MaxInterrupts   (* bound on the user's Ctrl-Cs                           *)

ASSUME PoolAssumption ==
  /\ IsFiniteSet(Scenarios)
  /\ Workers \in Nat \ {0, 1}
  /\ MaxInterrupts \in Nat

VARIABLES
  groupFailed, (* some group's setup failed: its scenarios have an error   *)
  torn,        (* teardown_group was called for some group                 *)
  main,        (* where the main thread is                                 *)
  unsent,      (* scenario_tasks not yet submitted                         *)
  queue,       (* the executor's work queue                                *)
  outcome,     (* what became of each future                               *)
  collected,   (* futures as_completed has yielded                         *)
  interrupts,  (* Ctrl-Cs so far                                           *)
  interrupted, (* run_scenarios was cut short                              *)
  code         (* exit code of the process; 2 stands for none yet          *)

poolVars == <<groupFailed, torn, main, unsent, queue, outcome, collected, interrupts, interrupted, code>>
allVars == <<wsVars, poolVars>>

Stages == {"submit", "collect", "join", "teardown", "exit", "over"}

(* The scenarios a worker is busy with.                                    *)
Running == {s \in Scenarios : at[s] # "idle" /\ outcome[s] = "pending"}

Submitted == Scenarios \ ToSet(unsent)

PoolInit ==
  /\ WsInit
  /\ groupFailed \in BOOLEAN
  /\ torn = FALSE /\ main = "submit"
  /\ unsent = SetToSeq(Scenarios) /\ queue = <<>>
  /\ outcome = [s \in Scenarios |-> "pending"]
  /\ collected = {} /\ interrupts = 0 /\ interrupted = FALSE /\ code = 2

(* setup_groups of the next run has returned: at least one group is up.    *)
PoolStart ==
  /\ groupFailed' \in BOOLEAN
  /\ torn' = FALSE /\ main' = "submit"
  /\ unsent' = SetToSeq(Scenarios) /\ queue' = <<>>
  /\ outcome' = [s \in Scenarios |-> "pending"]
  /\ collected' = {} /\ interrupts' = 0 /\ interrupted' = FALSE /\ code' = 2

-----------------------------------------------------------------------------
(* The workers.                                                            *)

(* A free worker takes the oldest task: _run_one begins.                   *)
Take ==
  /\ queue # <<>>
  /\ Cardinality(Running) < Workers
  /\ LET s == Head(queue) IN Construct(s) \/ ConstructFails(s)
  /\ queue' = Tail(queue)
  /\ UNCHANGED <<groupFailed, torn, main, unsent, outcome, collected, interrupts, interrupted, code>>

Work(s) == s \in Running /\ InWorkspace(s) /\ UNCHANGED poolVars

(* _run_one returns a result, good or bad; or the progress display it      *)
(* reports to raises, and the future with it.                              *)
Return(s) ==
  /\ s \in Running
  /\ \/ at[s] = "out" /\ outcome' \in {[outcome EXCEPT ![s] = o] : o \in {"passed", "error", "raised"}}
     \/ at[s] = "failed" /\ outcome' \in {[outcome EXCEPT ![s] = o] : o \in {"error", "raised"}}
  /\ UNCHANGED <<wsVars, groupFailed, torn, main, unsent, queue, collected, interrupts, interrupted, code>>

-----------------------------------------------------------------------------
(* The main thread.                                                        *)

Submit ==
  /\ main = "submit"
  /\ unsent # <<>>
  /\ unsent' = Tail(unsent)
  /\ queue' = Append(queue, Head(unsent))
  /\ UNCHANGED <<wsVars, groupFailed, torn, main, outcome, collected, interrupts, interrupted, code>>

EndSubmit ==
  /\ main = "submit" /\ unsent = <<>>
  /\ main' = "collect"
  /\ UNCHANGED <<wsVars, groupFailed, torn, unsent, queue, outcome, collected, interrupts, interrupted, code>>

(* as_completed yields futures in the order they end.  One that raised is  *)
(* reported and leaves no result.                                          *)
Collect(s) ==
  /\ main = "collect"
  /\ s \in Submitted \ collected /\ outcome[s] # "pending"
  /\ collected' = collected \cup {s}
  /\ UNCHANGED <<wsVars, groupFailed, torn, main, unsent, queue, outcome, interrupts, interrupted, code>>

(* The body of the with statement ends, and its __exit__ waits.            *)
EndCollect ==
  /\ main = "collect"
  /\ Submitted = collected
  /\ main' = "join"
  /\ UNCHANGED <<wsVars, groupFailed, torn, unsent, queue, outcome, collected, interrupts, interrupted, code>>

(* Mutant: __exit__ does not wait.                                         *)
EndJoinAtOnce ==
  /\ main = "join"
  /\ main' = "teardown"
  /\ UNCHANGED <<wsVars, groupFailed, torn, unsent, queue, outcome, collected, interrupts, interrupted, code>>

(* executor.shutdown(wait=True): until the workers have emptied the queue. *)
EndJoin ==
  /\ main = "join"
  /\ queue = <<>> /\ Running = {}
  /\ main' = "teardown"
  /\ UNCHANGED <<wsVars, groupFailed, torn, unsent, queue, outcome, collected, interrupts, interrupted, code>>

(* Ctrl-C while submitting or collecting: still __exit__, which waits for  *)
(* all that was submitted; a second one ends the wait; one in              *)
(* teardown_groups skips the rest of it.                                   *)
Interrupt ==
  /\ interrupts < MaxInterrupts
  /\ interrupts' = interrupts + 1
  /\ \/ main \in {"submit", "collect"} /\ main' = "join"
     \/ main = "join" /\ main' = "teardown"
     \/ main = "teardown" /\ main' = "exit"
  /\ interrupted' = (interrupted \/ main # "teardown")
  /\ UNCHANGED <<wsVars, groupFailed, torn, unsent, queue, outcome, collected, code>>

(* Ctrl-C after that, while main reports: the top level answers 130.       *)
InterruptMain ==
  /\ main = "exit" /\ interrupts < MaxInterrupts
  /\ interrupts' = interrupts + 1
  /\ main' = "over" /\ code' = 130
  /\ UNCHANGED <<wsVars, groupFailed, torn, unsent, queue, outcome, collected, interrupted>>

(* Ctrl-C while the interpreter waits for the threads or runs cleanup_all: *)
(* as a kill, it leaves what was not yet removed.                          *)
InterruptExit ==
  /\ main = "over" /\ interrupts < MaxInterrupts
  /\ Kill /\ PoolStart

(* teardown_group of every group that is up, one after the other.          *)
TearDownGroups ==
  /\ main = "teardown"
  /\ torn' = TRUE
  /\ main' \in {"teardown", "exit"}
  /\ UNCHANGED <<wsVars, groupFailed, unsent, queue, outcome, collected, interrupts, interrupted, code>>

SomeFailed == groupFailed \/ \E s \in collected : outcome[s] = "error"

(* Mutant: the exit code looks at the results alone.                       *)
ResultsDecide ==
  /\ main = "exit"
  /\ main' = "over"
  /\ code' = IF SomeFailed THEN 1 ELSE 0
  /\ UNCHANGED <<wsVars, groupFailed, torn, unsent, queue, outcome, collected, interrupts, interrupted>>

(* The end of main.                                                        *)
ExitCode ==
  /\ main = "exit"
  /\ main' = "over"
  /\ code' = IF interrupted THEN 130 ELSE IF SomeFailed THEN 1 ELSE 0
  /\ UNCHANGED <<wsVars, groupFailed, torn, unsent, queue, outcome, collected, interrupts, interrupted>>

(* The interpreter joins the executor's threads before the atexit handlers.*)
Quit == main = "over" /\ queue = <<>> /\ Running = {} /\ BeginExit /\ UNCHANGED poolVars

MainStep ==
  \/ Submit \/ EndSubmit \/ (\E s \in Scenarios : Collect(s)) \/ EndCollect \/ EndJoin
  \/ TearDownGroups \/ ExitCode \/ Quit
  \/ ((\E s \in Scenarios : CleanupAll(s)) \/ EndExit) /\ UNCHANGED poolVars

WorkerStep(s) == proc = "up" /\ (Work(s) \/ Return(s))

PoolNext ==
  \/ proc \in {"up", "exiting"} /\ (MainStep \/ Interrupt \/ InterruptMain \/ InterruptExit)
  \/ proc = "up" /\ Take
  \/ \E s \in Scenarios : WorkerStep(s)
  \/ Kill /\ PoolStart
  \/ BetweenRuns /\ UNCHANGED poolVars
  \/ NewRun /\ PoolStart

PoolSpec == PoolInit /\ [][PoolNext]_allVars

(* The OS schedules every thread, the locks are released on every path out *)
(* of their blocks, and every git command has a timeout.  The agent's turns*)
(* ("in") have none over all: claude_code.execute and its like read stdout *)
(* to its end before they wait with a timeout.  So no scenario is assumed  *)
(* to come out of its turns.                                               *)
FairPoolSpec ==
  /\ PoolSpec
  /\ WF_allVars(proc \in {"up", "exiting"} /\ MainStep)
  /\ WF_allVars(proc = "up" /\ Take)
  /\ \A s \in Scenarios : WF_allVars(WorkerStep(s) /\ at[s] # "in")

-----------------------------------------------------------------------------
(* A group's shared resource is torn down only when none of its scenarios  *)
(* runs or waits for a worker, even after a Ctrl-C: leaving the executor's *)
(* with block waits for the workers.  (A second Ctrl-C ends that wait.)    *)
TeardownAfterScenarios == torn /\ interrupts < 2 => Running = {} /\ queue = <<>>

(* Exit code 0 says that every matched scenario ran and none reported an   *)
(* error, except scenarios whose future raised, whose result is lost.      *)
ZeroMeansAllRan ==
  code = 0 => ~groupFailed /\ \A s \in Scenarios : outcome[s] \in {"passed", "raised"}

(* A run ends, or is killed, unless a scenario stays in its agent for      *)
(* ever: whatever git does to the scenarios and however they queue for the *)
(* locks, no worker and no wait of the main thread hangs by itself.        *)
RunEnds ==
  (\A s \in Scenarios : []<>(at[s] # "in")) => (proc = "up" ~> proc # "up")
=============================================================================
