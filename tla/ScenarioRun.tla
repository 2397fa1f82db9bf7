---------------------------- MODULE ScenarioRun ----------------------------
(***************************************************************************)
(* One scenario in one worker: run_scenario_turns (runner/orchestrator.py) *)
(* inside _run_one (runner/phases/run_scenarios.py).  A worktree, a        *)
(* sandbox and an agent session are set up one after the other; the turns  *)
(* run, each leaving a turn_<i>_cli.txt and then a turn_<i>_output.json;   *)
(* everything is torn down; a ScenarioResult comes back.  Any step may     *)
(* raise, and with --workers 1 a Ctrl-C may cut any step short.  What is   *)
(* left on disk is all `belt score` ever sees (scorer/pipeline.py).        *)
(***************************************************************************)
EXTENDS Integers, Sequences, FiniteSets

CONSTANTS
  N,           (* number of turns of the scenario                          *)
  NoTurn,      (* no stream is open                                        *)
  MainThread   (* --workers 1: the scenario runs where Ctrl-C is delivered *)

ASSUME ScenarioAssumption ==
  N \in Nat \ {0} /\ NoTurn \notin 0..N /\ MainThread \in BOOLEAN

Turns == 0..(N - 1)

VARIABLES
  job,         (* what the scenario and its group ask for (never changes)  *)
  pc,          (* program point                                            *)
  turn,        (* i of the turn loop                                       *)
  worktree,    (* isolated_ws: "none", "held", "released"                  *)
  sandbox,     (* sandbox_handle: "none", "up", "down"                     *)
  agent,       (* the agent session: "none", "up", "down"                  *)
  sink,        (* turn whose stream file is agent._stream_sink             *)
  cli,         (* turn_<i>_cli.txt on disk                                 *)
  output,      (* turn_<i>_output.json on disk                             *)
  failed,      (* turn_output.has_error of the current turn                *)
  prior,       (* turn_outputs_so_far                                      *)
  completed,   (* ScenarioResult.turns_completed                           *)
  agentErrors, (* length of ScenarioResult.agent_errors                    *)
  leaving,     (* how the turn loop was left                               *)
  error        (* ScenarioResult.error is set                              *)

world == <<worktree, sandbox, agent>>
files == <<cli, output>>
tally == <<prior, completed, agentErrors>>
vars == <<job, pc, turn, world, sink, files, failed, tally, leaving, error>>

-----------------------------------------------------------------------------
(* needs[i]: how many earlier outputs the placeholders of turn i's message *)
(* take for granted: 1 for {{prev.x}}, k + 1 for {{turn_k.x}}, 0 for none. *)
(* diskFull: writing a sentinel may fail too.                              *)
Jobs == [isolated : BOOLEAN, sandboxed : BOOLEAN, resources : BOOLEAN,
         stream : BOOLEAN, needs : [Turns -> 0..N], diskFull : BOOLEAN]

(* An element of turn_outputs_so_far.                                      *)
TurnOutput == [turn : Turns, failed : BOOLEAN]

SettingUp == {"start", "sandbox", "resources", "setup"}
InTurns == {"turns", "execute", "fetch", "capture", "writeCli", "writeOutput"}
Finally == {"teardown", "stopSandbox", "release", "leave"}
Over == {"done", "cut", "abandoned"}

Init ==
  /\ job \in Jobs
  /\ pc = "start" /\ turn = 0
  /\ worktree = "none" /\ sandbox = "none" /\ agent = "none" /\ sink = NoTurn
  /\ cli = [i \in Turns |-> "absent"]
  /\ output = [i \in Turns |-> "absent"]
  /\ failed = FALSE
  /\ prior = <<>> /\ completed = 0 /\ agentErrors = 0
  /\ leaving = "no" /\ error = FALSE

(* _write_sentinel, and the sentinel of _run_one's handler: never over an  *)
(* existing file, and a failure to write is swallowed.  write_text creates *)
(* the file before it writes.                                              *)
WriteSentinel(i) ==
  IF cli[i] # "absent"
    THEN UNCHANGED cli
    ELSE \/ cli' = [cli EXCEPT ![i] = "sentinel"]
         \/ job.diskFull /\ (UNCHANGED cli \/ cli' = [cli EXCEPT ![i] = "empty"])

-----------------------------------------------------------------------------
(* Before the turns: nothing here is inside the try whose finally tears    *)
(* the world down.                                                         *)

(* create_agent, WorkspaceManager(...), mkdir, workspace_manager.acquire.  *)
Acquire ==
  /\ pc = "start"
  /\ \/ /\ pc' = "sandbox"
        /\ worktree' = IF job.isolated THEN "held" ELSE "none"
     \/ /\ pc' = "handler"
        /\ UNCHANGED worktree
  /\ UNCHANGED <<job, turn, sandbox, agent, sink, files, failed, tally, leaving, error>>

SandboxUp ==
  /\ pc = "sandbox"
  /\ sandbox' = IF job.sandboxed THEN "up" ELSE "none"
  /\ pc' = "resources"
  /\ UNCHANGED <<job, turn, worktree, agent, sink, files, failed, tally, leaving, error>>

(* The sandbox does not come up: sentinel, release, error result.          *)
SandboxFails ==
  /\ pc = "sandbox"
  /\ WriteSentinel(0)
  /\ worktree' = IF worktree = "held" THEN "released" ELSE worktree
  /\ error' = TRUE
  /\ pc' = "done"
  /\ UNCHANGED <<job, turn, sandbox, agent, sink, output, failed, tally, leaving>>

InstallResources ==
  /\ pc = "resources"
  /\ pc' = "setup"
  /\ UNCHANGED <<job, turn, world, sink, files, failed, tally, leaving, error>>

(* The return inside this except clause releases nothing.                  *)
InstallFails ==
  /\ pc = "resources"
  /\ job.resources /\ job.isolated
  /\ WriteSentinel(0)
  /\ error' = TRUE
  /\ pc' = "done"
  /\ UNCHANGED <<job, turn, world, sink, output, failed, tally, leaving>>

(* agent.setup(config), then resource_lock.json if resources went in: both *)
(* may raise, and are outside every try of run_scenario_turns.             *)
AgentSetup ==
  /\ pc = "setup"
  /\ \/ agent' = "up" /\ pc' = "turns"
     \/ agent' = "up" /\ pc' = "handler" /\ job.resources /\ job.isolated
     \/ UNCHANGED agent /\ pc' = "handler"
  /\ UNCHANGED <<job, turn, worktree, sandbox, sink, files, failed, tally, leaving, error>>

-----------------------------------------------------------------------------
(* The turns.                                                              *)

LeaveLoop(how) == pc' = "teardown" /\ leaving' = how

LastTurnDone ==
  /\ pc = "turns" /\ turn = N
  /\ LeaveLoop("end")
  /\ UNCHANGED <<job, turn, world, sink, files, failed, tally, error>>

(* The message renders and the stream file opens.                          *)
StartTurn ==
  /\ pc = "turns" /\ turn < N
  /\ job.needs[turn] <= Len(prior)
  /\ sink' = IF job.stream THEN turn ELSE NoTurn
  /\ pc' = "execute"
  /\ UNCHANGED <<job, turn, world, files, failed, tally, leaving, error>>

(* Mutant: the sentinel takes the number of the turn after.                *)
TurnRaisesOffByOne ==
  /\ pc \in {"turns", "execute"} /\ turn < N
  /\ IF turn + 1 < N THEN WriteSentinel(turn + 1) ELSE UNCHANGED cli
  /\ sink' = NoTurn
  /\ LeaveLoop("break")
  /\ UNCHANGED <<job, turn, world, output, failed, tally, error>>

(* Mutant: the loop goes on with the next turn instead of breaking.        *)
TurnRaisesGoesOn ==
  /\ pc \in {"turns", "execute"} /\ turn < N
  /\ WriteSentinel(turn)
  /\ sink' = NoTurn
  /\ turn' = turn + 1 /\ pc' = "turns"
  /\ UNCHANGED <<job, world, output, failed, tally, leaving, error>>

(* Rendering, the stream file or agent.execute raises: sentinel and break. *)
TurnRaises ==
  /\ pc \in {"turns", "execute"} /\ turn < N
  /\ WriteSentinel(turn)
  /\ sink' = NoTurn
  /\ LeaveLoop("break")
  /\ UNCHANGED <<job, turn, world, output, failed, tally, error>>

ExecuteReturns ==
  /\ pc = "execute"
  /\ sink' = NoTurn
  /\ pc' = "fetch"
  /\ UNCHANGED <<job, turn, world, files, failed, tally, leaving, error>>

(* Mutant: a raise of fetch_results is counted in the except clause too.   *)
FetchCountsTwice ==
  /\ pc = "fetch"
  /\ \/ failed' \in BOOLEAN /\ UNCHANGED cli /\ agentErrors' = agentErrors + (IF failed' THEN 1 ELSE 0)
     \/ failed' = TRUE /\ WriteSentinel(turn) /\ agentErrors' = agentErrors + 2
  /\ pc' = "capture"
  /\ UNCHANGED <<job, turn, world, sink, output, prior, completed, leaving, error>>

(* agent.fetch_results: an output, with or without has_error; or it        *)
(* raises, which leaves a sentinel and counts as an output with has_error. *)
Fetch ==
  /\ pc = "fetch"
  /\ \/ failed' \in BOOLEAN /\ UNCHANGED cli
     \/ failed' = TRUE /\ WriteSentinel(turn)
  /\ agentErrors' = agentErrors + (IF failed' THEN 1 ELSE 0)
  /\ pc' = "capture"
  /\ UNCHANGED <<job, turn, world, sink, output, prior, completed, leaving, error>>

(* _capture_workspace_state (which may raise), _capture_git_state, append. *)
Capture ==
  /\ pc = "capture"
  /\ \/ /\ prior' = Append(prior, [turn |-> turn, failed |-> failed])
        /\ pc' = "writeCli"
        /\ UNCHANGED leaving
     \/ /\ LeaveLoop("raise")
        /\ UNCHANGED prior
  /\ UNCHANGED <<job, turn, world, sink, files, failed, completed, agentErrors, error>>

(* The first half of _write_turn_artifacts.  Unencodable text or a full    *)
(* disk raises, maybe after the file was created.                          *)
WriteCli ==
  /\ pc = "writeCli"
  /\ \/ /\ cli' = [cli EXCEPT ![turn] = "real"]
        /\ pc' = "writeOutput"
        /\ UNCHANGED leaving
     \/ /\ UNCHANGED cli \/ cli' = [cli EXCEPT ![turn] = "empty"]
        /\ LeaveLoop("raise")
  /\ UNCHANGED <<job, turn, world, sink, output, failed, tally, error>>

(* The second half, and completed += 1.                                    *)
WriteOutput ==
  /\ pc = "writeOutput"
  /\ \/ /\ output' = [output EXCEPT ![turn] = "real"]
        /\ completed' = completed + 1
        /\ turn' = turn + 1
        /\ pc' = "turns"
        /\ UNCHANGED leaving
     \/ /\ UNCHANGED output \/ output' = [output EXCEPT ![turn] = "empty"]
        /\ LeaveLoop("raise")
        /\ UNCHANGED <<turn, completed>>
  /\ UNCHANGED <<job, world, sink, cli, failed, prior, agentErrors, error>>

-----------------------------------------------------------------------------
(* The finally block: each call in a try of its own, so that one that      *)
(* raises does not keep the next from being made.                          *)

(* Mutant: the agent is torn down only when the loop ended in good order.  *)
TeardownIfClean ==
  /\ pc = "teardown"
  /\ agent' = IF leaving = "raise" THEN agent ELSE "down"
  /\ pc' = "stopSandbox"
  /\ UNCHANGED <<job, turn, worktree, sandbox, sink, files, failed, tally, leaving, error>>

(* Mutant: agent.teardown without its try.                                 *)
TeardownAgentBare ==
  /\ pc = "teardown"
  /\ agent' = "down"
  /\ pc' \in {"stopSandbox", "handler"}
  /\ UNCHANGED <<job, turn, worktree, sandbox, sink, files, failed, tally, leaving, error>>

TeardownAgent ==
  /\ pc = "teardown"
  /\ agent' = "down"
  /\ pc' = "stopSandbox"
  /\ UNCHANGED <<job, turn, worktree, sandbox, sink, files, failed, tally, leaving, error>>

StopSandbox ==
  /\ pc = "stopSandbox"
  /\ sandbox' = IF sandbox = "up" THEN "down" ELSE sandbox
  /\ pc' = "release"
  /\ UNCHANGED <<job, turn, worktree, agent, sink, files, failed, tally, leaving, error>>

ReleaseWorktree ==
  /\ pc = "release"
  /\ worktree' = IF worktree = "held" THEN "released" ELSE worktree
  /\ pc' = "leave"
  /\ UNCHANGED <<job, turn, sandbox, agent, sink, files, failed, tally, leaving, error>>

(* The end of the finally block: the result, or the pending exception.     *)
Leave ==
  /\ pc = "leave"
  /\ pc' = CASE leaving = "raise" -> "handler"
             [] leaving = "interrupt" -> "cut"
             [] OTHER -> "done"
  /\ UNCHANGED <<job, turn, world, sink, files, failed, tally, leaving, error>>

(* Mutant: the handler leaves the sentinel but no error in the result.     *)
HandleQuietly ==
  /\ pc = "handler"
  /\ WriteSentinel(0)
  /\ pc' = "done"
  /\ UNCHANGED <<job, turn, world, sink, output, failed, tally, leaving, error>>

(* except Exception in _run_one: sentinel for turn 0 unless it exists, and *)
(* a result that carries the error only, no turns and no agent errors.     *)
HandleException ==
  /\ pc = "handler"
  /\ WriteSentinel(0)
  /\ error' = TRUE
  /\ pc' = "done"
  /\ UNCHANGED <<job, turn, world, sink, output, failed, tally, leaving>>

(* KeyboardInterrupt is no Exception: the turn loop is left through the    *)
(* finally block and ends without a result ("cut"); before the turns, or   *)
(* inside the finally block, whatever is up stays up ("abandoned").        *)
KeyboardInterrupt ==
  /\ MainThread
  /\ pc \notin Over
  /\ IF pc \in InTurns
       THEN LeaveLoop("interrupt")
       ELSE pc' = "abandoned" /\ UNCHANGED leaving
  /\ sink' = NoTurn
  /\ UNCHANGED <<job, turn, world, files, failed, tally, error>>

Ended == pc \in Over /\ UNCHANGED vars

Next ==
  \/ Acquire \/ SandboxUp \/ SandboxFails \/ InstallResources \/ InstallFails \/ AgentSetup
  \/ LastTurnDone \/ StartTurn \/ TurnRaises \/ ExecuteReturns
  \/ Fetch \/ Capture \/ WriteCli \/ WriteOutput
  \/ TeardownAgent \/ StopSandbox \/ ReleaseWorktree \/ Leave
  \/ HandleException \/ KeyboardInterrupt \/ Ended

Spec == Init /\ [][Next]_vars

-----------------------------------------------------------------------------
(* What `belt score` loads from the outcome directory (score_scenario):    *)
(* the turns that have a file, appended to one list in their order.        *)
OnDisk(i) == output[i] = "real" \/ cli[i] # "absent"

(* The index at which turn i comes to stand in that list.                  *)
Place(i) == Cardinality({j \in 0..(i - 1) : OnDisk(j)})

(* The program points and values of run_scenario_turns.                    *)
TypeOK ==
  /\ job \in Jobs
  /\ pc \in SettingUp \cup InTurns \cup Finally \cup Over \cup {"handler"}
  /\ turn \in 0..N
  /\ worktree \in {"none", "held", "released"}
  /\ sandbox \in {"none", "up", "down"}
  /\ agent \in {"none", "up", "down"}
  /\ sink \in Turns \cup {NoTurn}
  /\ cli \in [Turns -> {"absent", "sentinel", "empty", "real"}]
  /\ output \in [Turns -> {"absent", "empty", "real"}]
  /\ failed \in BOOLEAN
  /\ prior \in Seq(TurnOutput)
  /\ completed \in 0..N /\ agentErrors \in 0..N
  /\ leaving \in {"no", "end", "break", "raise", "interrupt"}
  /\ error \in BOOLEAN

(* Once the turn loop has been entered, a scenario that ends, by its last  *)
(* turn, a failed turn, an exception or a Ctrl-C in a turn, has torn down  *)
(* the agent, the sandbox and the worktree (the finally of                 *)
(* run_scenario_turns).                                                    *)
SetUpIsUndone ==
  pc \in {"done", "cut"} /\ leaving # "no"
    => agent = "down" /\ sandbox # "up" /\ worktree # "held"

(* While the agent session is up, so are the sandbox it spawns into and    *)
(* the worktree it works in.                                               *)
AgentInItsWorld ==
  agent = "up" => /\ job.sandboxed => sandbox = "up"
                  /\ job.isolated => worktree = "held"

(* A turn that the scorers are handed has the index in their list that it  *)
(* has in the scenario, whenever the process stops: score_scenario closes  *)
(* up gaps, so there may be none (turn_outputs, run_scenario_turns).       *)
TurnsInPlace == \A i \in Turns : OnDisk(i) => Place(i) = i

(* {{turn_k.x}} in a message names turn k of the scenario and is looked up *)
(* as the k-th output so far.  So when turn i is rendered the list holds   *)
(* the outputs of exactly the turns 0 .. i - 1, those that report a        *)
(* failure (has_error) in their places too: run_scenario_turns appends     *)
(* every output, where its comment has a failed one left out, which would  *)
(* make the name of each later turn mean another turn.                     *)
PriorInPlace ==
  pc = "execute" => /\ Len(prior) = turn
                    /\ \A k \in DOMAIN prior : prior[k].turn = k - 1

(* A scenario that returns a result without completing its turns is not    *)
(* taken for a clean one: the result carries an error, or the first turn   *)
(* that did not complete has a sentinel or no file at all, both of which   *)
(* the scorers report, unless no sentinel could be written.                *)
FailureVisible ==
  pc = "done" /\ completed < N /\ ~job.diskFull
    => error \/ cli[completed] \in {"absent", "sentinel"}

=============================================================================
