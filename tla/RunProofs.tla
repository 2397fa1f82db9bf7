------------------------------ MODULE RunProofs ------------------------------
(***************************************************************************)
(* Theorems about the run phase: ScenarioRun, for any number of turns;     *)
(* Workspace, for any number of scenarios that share the fixture and any   *)
(* number of edits of it; and RunPool, for any finite number of scenarios, *)
(* any number of workers and of Ctrl-Cs.                                   *)
(***************************************************************************)
EXTENDS ScenarioRun, RunPool, FiniteSetTheorems, TLAPS

-----------------------------------------------------------------------------
(* Part 1: one scenario.                                                   *)

(***************************************************************************)
(* What is up at each program point.  leaving tells an exception that went *)
(* through the finally block from one that came before the turns.          *)
(***************************************************************************)
WorldUp ==
  /\ job.isolated => worktree = "held"
  /\ job.sandboxed => sandbox = "up"

WorldDown == agent = "down" /\ sandbox # "up" /\ worktree # "held"

WorldInv ==
  /\ pc \in SettingUp \cup InTurns => leaving = "no"
  /\ pc \in Finally => leaving # "no"
  /\ pc \in SettingUp => agent = "none"
  /\ pc = "sandbox" => (job.isolated => worktree = "held")
  /\ pc \in {"resources", "setup"} \cup InTurns \cup {"teardown"} => WorldUp
  /\ pc \in {"stopSandbox", "release"} => agent = "down"
  /\ pc = "release" => sandbox # "up"
  /\ pc = "leave" => WorldDown
  /\ pc \in {"handler", "done", "cut"} /\ leaving # "no" => WorldDown
  /\ AgentInItsWorld

JobInv == job \in Jobs

LEMMA JobsFixed == Spec => []JobInv
<1>1. Init => JobInv
  BY DEF Init, JobInv
<1>2. JobInv /\ [Next]_vars => JobInv'
  BY DEF JobInv, Next, vars, Acquire, SandboxUp, SandboxFails, InstallResources, InstallFails,
     AgentSetup, LastTurnDone, StartTurn, TurnRaises, ExecuteReturns, Fetch, Capture, WriteCli,
     WriteOutput, TeardownAgent, StopSandbox, ReleaseWorktree, Leave, HandleException, KeyboardInterrupt, Ended
<1> QED
  BY <1>1, <1>2, PTL DEF Spec

USE DEF SettingUp, InTurns, Finally, Over

(* The world is as the program point says, through every early return,     *)
(* exception and Ctrl-C.                                                   *)
THEOREM WorldFollows == Spec => []WorldInv
<1>1. Init => WorldInv
  BY DEF Init, WorldInv, WorldUp, WorldDown, AgentInItsWorld
<1>2. ASSUME JobInv, WorldInv, [Next]_vars PROVE WorldInv'
  <2> USE <1>2 DEF WorldInv, WorldUp, WorldDown, AgentInItsWorld, world
  <2>1. CASE Acquire BY <2>1 DEF Acquire
  <2>2. CASE SandboxUp BY <2>2 DEF SandboxUp
  <2>3. CASE SandboxFails BY <2>3 DEF SandboxFails
  <2>4. CASE InstallResources BY <2>4 DEF InstallResources
  <2>5. CASE InstallFails BY <2>5 DEF InstallFails
  <2>6. CASE AgentSetup BY <2>6 DEF AgentSetup
  <2>7. CASE LastTurnDone BY <2>7 DEF LastTurnDone, LeaveLoop
  <2>8. CASE StartTurn BY <2>8 DEF StartTurn
  <2>9. CASE TurnRaises BY <2>9 DEF TurnRaises, LeaveLoop
  <2>10. CASE ExecuteReturns BY <2>10 DEF ExecuteReturns
  <2>11. CASE Fetch BY <2>11 DEF Fetch
  <2>12. CASE Capture BY <2>12 DEF Capture, LeaveLoop
  <2>13. CASE WriteCli BY <2>13 DEF WriteCli, LeaveLoop
  <2>14. CASE WriteOutput BY <2>14 DEF WriteOutput, LeaveLoop
  <2>15. CASE TeardownAgent BY <2>15 DEF TeardownAgent
  <2>16. CASE StopSandbox BY <2>16 DEF StopSandbox
  <2>17. CASE ReleaseWorktree BY <2>17 DEF ReleaseWorktree
  <2>18. CASE Leave BY <2>18 DEF Leave
  <2>19. CASE HandleException BY <2>19 DEF HandleException
  <2>20. CASE KeyboardInterrupt BY <2>20 DEF KeyboardInterrupt, LeaveLoop
  <2>21. CASE Ended BY <2>21 DEF Ended, vars
  <2>22. CASE UNCHANGED vars BY <2>22 DEF vars
  <2> QED
    BY <2>1, <2>2, <2>3, <2>4, <2>5, <2>6, <2>7, <2>8, <2>9, <2>10, <2>11, <2>12, <2>13,
       <2>14, <2>15, <2>16, <2>17, <2>18, <2>19, <2>20, <2>21, <2>22 DEF Next
<1> QED
  BY <1>1, <1>2, JobsFixed, PTL DEF Spec

(* Once the turn loop has been entered, a scenario that ends has torn down *)
(* its agent, its sandbox and its worktree.                                *)
THEOREM SetUpIsAlwaysUndone == Spec => []SetUpIsUndone
<1>1. WorldInv => SetUpIsUndone
  BY DEF WorldInv, WorldDown, SetUpIsUndone
<1> QED
  BY <1>1, WorldFollows, PTL

(* An agent session never outlives its sandbox or its worktree.            *)
THEOREM AgentAlwaysInItsWorld == Spec => []AgentInItsWorld
<1>1. WorldInv => AgentInItsWorld
  BY DEF WorldInv
<1> QED
  BY <1>1, WorldFollows, PTL

-----------------------------------------------------------------------------
(* The turns before the current one, and only they, are in prior, and each *)
(* has added at most one agent error and one completed turn.               *)
Started == {"execute", "fetch", "capture", "writeCli", "writeOutput"}
Appended == {"writeCli", "writeOutput"}
Fetched == Appended \cup {"capture"}

TurnInv ==
  /\ turn \in Nat /\ turn <= N
  /\ pc \in SettingUp => turn = 0
  /\ pc \in Started => turn < N

LEMMA TurnsBounded == Spec => []TurnInv
<1> USE ScenarioAssumption
<1>1. Init => TurnInv
  BY DEF Init, TurnInv, Started
<1>2. ASSUME TurnInv, [Next]_vars PROVE TurnInv'
  <2> USE <1>2 DEF TurnInv, Started, LeaveLoop
  <2>1. CASE Acquire BY <2>1 DEF Acquire
  <2>2. CASE SandboxUp BY <2>2 DEF SandboxUp
  <2>3. CASE SandboxFails BY <2>3 DEF SandboxFails
  <2>4. CASE InstallResources BY <2>4 DEF InstallResources
  <2>5. CASE InstallFails BY <2>5 DEF InstallFails
  <2>6. CASE AgentSetup BY <2>6 DEF AgentSetup
  <2>7. CASE LastTurnDone BY <2>7 DEF LastTurnDone
  <2>8. CASE StartTurn BY <2>8 DEF StartTurn
  <2>9. CASE TurnRaises BY <2>9 DEF TurnRaises
  <2>10. CASE ExecuteReturns BY <2>10 DEF ExecuteReturns
  <2>11. CASE Fetch BY <2>11 DEF Fetch
  <2>12. CASE Capture BY <2>12 DEF Capture
  <2>13. CASE WriteCli BY <2>13 DEF WriteCli
  <2>14. CASE WriteOutput BY <2>14 DEF WriteOutput
  <2>15. CASE TeardownAgent BY <2>15 DEF TeardownAgent
  <2>16. CASE StopSandbox BY <2>16 DEF StopSandbox
  <2>17. CASE ReleaseWorktree BY <2>17 DEF ReleaseWorktree
  <2>18. CASE Leave BY <2>18, Zenon DEF Leave
  <2>19. CASE HandleException BY <2>19 DEF HandleException
  <2>20. CASE KeyboardInterrupt BY <2>20 DEF KeyboardInterrupt
  <2>21. CASE Ended BY <2>21 DEF Ended, vars
  <2>22. CASE UNCHANGED vars BY <2>22 DEF vars
  <2> QED
    BY <2>1, <2>2, <2>3, <2>4, <2>5, <2>6, <2>7, <2>8, <2>9, <2>10, <2>11, <2>12, <2>13,
       <2>14, <2>15, <2>16, <2>17, <2>18, <2>19, <2>20, <2>21, <2>22 DEF Next
<1> QED
  BY <1>1, <1>2, PTL DEF Spec

FailedInv == failed \in BOOLEAN

LEMMA FailedIsBoolean == Spec => []FailedInv
<1>1. Init => FailedInv
  BY DEF Init, FailedInv
<1>2. FailedInv /\ [Next]_vars => FailedInv'
  BY DEF FailedInv, Next, vars, Acquire, SandboxUp, SandboxFails, InstallResources, InstallFails,
     AgentSetup, LastTurnDone, StartTurn, TurnRaises, ExecuteReturns, Fetch, Capture, WriteCli,
     WriteOutput, TeardownAgent, StopSandbox, ReleaseWorktree, Leave, HandleException, KeyboardInterrupt, Ended
<1> QED
  BY <1>1, <1>2, PTL DEF Spec

PriorInv ==
  /\ prior \in Seq(TurnOutput)
  /\ \A k \in 1..Len(prior) : prior[k].turn = k - 1
  /\ pc \in SettingUp => Len(prior) = 0
  /\ pc \in InTurns => Len(prior) = IF pc \in Appended THEN turn + 1 ELSE turn

(* A step that leaves prior and turn alone, and does not cross the append. *)
LEMMA PriorStands ==
  ASSUME PriorInv, TurnInv, UNCHANGED <<prior, turn>>,
         pc' \in SettingUp => pc \in SettingUp,
         pc' \in InTurns => \/ pc \in SettingUp /\ pc' = "turns"
                            \/ pc \in InTurns /\ (pc' \in Appended <=> pc \in Appended)
  PROVE  PriorInv'
  BY DEF PriorInv, TurnInv, Appended

LEMMA PriorFollowsTurn == Spec => []PriorInv
<1> USE ScenarioAssumption
<1>1. Init => PriorInv
  BY DEF Init, PriorInv
<1>2. ASSUME TurnInv, FailedInv, PriorInv, [Next]_vars PROVE PriorInv'
  <2> USE <1>2 DEF Appended, LeaveLoop, tally
  <2>1. CASE Acquire BY <2>1, PriorStands DEF Acquire
  <2>2. CASE SandboxUp BY <2>2, PriorStands DEF SandboxUp
  <2>3. CASE SandboxFails BY <2>3, PriorStands DEF SandboxFails
  <2>4. CASE InstallResources BY <2>4, PriorStands DEF InstallResources
  <2>5. CASE InstallFails BY <2>5, PriorStands DEF InstallFails
  <2>6. CASE AgentSetup BY <2>6, PriorStands DEF AgentSetup
  <2>7. CASE LastTurnDone BY <2>7, PriorStands DEF LastTurnDone
  <2>8. CASE StartTurn BY <2>8, PriorStands DEF StartTurn
  <2>9. CASE TurnRaises BY <2>9, PriorStands DEF TurnRaises
  <2>10. CASE ExecuteReturns BY <2>10, PriorStands DEF ExecuteReturns
  <2>11. CASE Fetch BY <2>11, PriorStands DEF Fetch
  <2>12. CASE Capture
    <3>1. CASE pc' = "writeCli" /\ prior' = Append(prior, [turn |-> turn, failed |-> failed])
      <4>1. Len(prior) = turn /\ turn \in Turns /\ turn' = turn
        BY <2>12 DEF Capture, PriorInv, TurnInv, Started, Turns
      <4> DEFINE out == [turn |-> turn, failed |-> failed]
      <4>2. out \in TurnOutput /\ out.turn = turn
        BY <1>2, <4>1, Zenon DEF TurnOutput, FailedInv
      <4> HIDE DEF out
      <4>3. /\ prior' \in Seq(TurnOutput) /\ Len(prior') = Len(prior) + 1
            /\ prior'[Len(prior) + 1] = out
            /\ \A k \in 1..Len(prior) : prior'[k] = prior[k]
        BY <3>1, <4>2 DEF PriorInv, out
      <4> QED
        BY <3>1, <4>1, <4>2, <4>3 DEF PriorInv
    <3>2. CASE pc' = "teardown" /\ UNCHANGED prior
      BY <2>12, <3>2, PriorStands DEF Capture
    <3> QED
      BY <2>12, <3>1, <3>2 DEF Capture
  <2>13. CASE WriteCli BY <2>13, PriorStands DEF WriteCli
  <2>14. CASE WriteOutput BY <2>14 DEF WriteOutput, PriorInv, TurnInv
  <2>15. CASE TeardownAgent BY <2>15, PriorStands DEF TeardownAgent
  <2>16. CASE StopSandbox BY <2>16, PriorStands DEF StopSandbox
  <2>17. CASE ReleaseWorktree BY <2>17, PriorStands DEF ReleaseWorktree
  <2>18. CASE Leave
    <3>1. pc' \in {"handler", "cut", "done"} /\ UNCHANGED <<prior, turn>>
      BY <2>18, Zenon DEF Leave
    <3> QED BY <3>1, PriorStands
  <2>19. CASE HandleException BY <2>19, PriorStands DEF HandleException
  <2>20. CASE KeyboardInterrupt BY <2>20, PriorStands DEF KeyboardInterrupt
  <2>21. CASE Ended BY <2>21, PriorStands DEF Ended, vars
  <2>22. CASE UNCHANGED vars BY <2>22, PriorStands DEF vars
  <2> QED
    BY <2>1, <2>2, <2>3, <2>4, <2>5, <2>6, <2>7, <2>8, <2>9, <2>10, <2>11, <2>12, <2>13,
       <2>14, <2>15, <2>16, <2>17, <2>18, <2>19, <2>20, <2>21, <2>22 DEF Next
<1> QED
  BY <1>1, <1>2, TurnsBounded, FailedIsBoolean, PTL DEF Spec

(* {{turn_k.x}} finds turn k: whenever a message is rendered, prior holds  *)
(* the outputs of exactly the turns before it, in order.                   *)
THEOREM PriorAlwaysInPlace == Spec => []PriorInPlace
<1>1. PriorInv /\ TurnInv => PriorInPlace
  BY DEF PriorInv, TurnInv, PriorInPlace, Appended
<1> QED
  BY <1>1, TurnsBounded, PriorFollowsTurn, PTL

-----------------------------------------------------------------------------
(* Type correctness, in the parts that different steps disturb.            *)

CountInv ==
  /\ completed \in Nat /\ agentErrors \in Nat
  /\ completed <= turn
  /\ agentErrors <= IF turn < N THEN turn + 1 ELSE turn
  /\ pc \in SettingUp \cup {"turns", "execute", "fetch"} => agentErrors <= turn

LEMMA CountsFollowTurn == Spec => []CountInv
<1> USE ScenarioAssumption
<1>1. Init => CountInv
  BY DEF Init, CountInv
<1>2. ASSUME TurnInv, FailedInv, CountInv, [Next]_vars PROVE CountInv'
  <2> USE <1>2 DEF CountInv, TurnInv, Started, LeaveLoop, tally
  <2>1. CASE Acquire BY <2>1 DEF Acquire
  <2>2. CASE SandboxUp BY <2>2 DEF SandboxUp
  <2>3. CASE SandboxFails BY <2>3 DEF SandboxFails
  <2>4. CASE InstallResources BY <2>4 DEF InstallResources
  <2>5. CASE InstallFails BY <2>5 DEF InstallFails
  <2>6. CASE AgentSetup BY <2>6 DEF AgentSetup
  <2>7. CASE LastTurnDone BY <2>7 DEF LastTurnDone
  <2>8. CASE StartTurn BY <2>8 DEF StartTurn
  <2>9. CASE TurnRaises BY <2>9 DEF TurnRaises
  <2>10. CASE ExecuteReturns BY <2>10 DEF ExecuteReturns
  <2>11. CASE Fetch
    <3>1. agentErrors' \in {agentErrors, agentErrors + 1} BY <2>11 DEF Fetch
    <3> QED BY <2>11, <3>1 DEF Fetch
  <2>12. CASE Capture BY <2>12 DEF Capture
  <2>13. CASE WriteCli BY <2>13 DEF WriteCli
  <2>14. CASE WriteOutput BY <2>14 DEF WriteOutput
  <2>15. CASE TeardownAgent BY <2>15 DEF TeardownAgent
  <2>16. CASE StopSandbox BY <2>16 DEF StopSandbox
  <2>17. CASE ReleaseWorktree BY <2>17 DEF ReleaseWorktree
  <2>18. CASE Leave
    <3>1. pc' \in {"handler", "cut", "done"} /\ UNCHANGED <<completed, agentErrors, turn>>
      BY <2>18, Zenon DEF Leave, tally
    <3> QED BY <3>1
  <2>19. CASE HandleException BY <2>19 DEF HandleException
  <2>20. CASE KeyboardInterrupt BY <2>20 DEF KeyboardInterrupt
  <2>21. CASE Ended BY <2>21 DEF Ended, vars
  <2>22. CASE UNCHANGED vars BY <2>22 DEF vars
  <2> QED
    BY <2>1, <2>2, <2>3, <2>4, <2>5, <2>6, <2>7, <2>8, <2>9, <2>10, <2>11, <2>12, <2>13,
       <2>14, <2>15, <2>16, <2>17, <2>18, <2>19, <2>20, <2>21, <2>22 DEF Next
<1> QED
  BY <1>1, <1>2, TurnsBounded, FailedIsBoolean, PTL DEF Spec

PlaceInv ==
  /\ pc \in SettingUp \cup InTurns \cup Finally \cup Over \cup {"handler"}
  /\ worktree \in {"none", "held", "released"}
  /\ sandbox \in {"none", "up", "down"}
  /\ agent \in {"none", "up", "down"}
  /\ sink \in Turns \cup {NoTurn}
  /\ leaving \in {"no", "end", "break", "raise", "interrupt"}
  /\ error \in BOOLEAN

LEMMA PlaceHolds == Spec => []PlaceInv
<1>1. Init => PlaceInv
  BY DEF Init, PlaceInv
<1>2. ASSUME TurnInv, PlaceInv, [Next]_vars PROVE PlaceInv'
  <2> USE <1>2 DEF PlaceInv, TurnInv, Turns, Started, LeaveLoop, world
  <2>1. CASE Acquire BY <2>1 DEF Acquire
  <2>2. CASE SandboxUp BY <2>2 DEF SandboxUp
  <2>3. CASE SandboxFails BY <2>3 DEF SandboxFails
  <2>4. CASE InstallResources BY <2>4 DEF InstallResources
  <2>5. CASE InstallFails BY <2>5 DEF InstallFails
  <2>6. CASE AgentSetup BY <2>6 DEF AgentSetup
  <2>7. CASE LastTurnDone BY <2>7 DEF LastTurnDone
  <2>8. CASE StartTurn
    <3>1. turn \in 0..(N - 1) BY ScenarioAssumption, <2>8 DEF StartTurn
    <3> QED BY <2>8, <3>1 DEF StartTurn
  <2>9. CASE TurnRaises BY <2>9 DEF TurnRaises
  <2>10. CASE ExecuteReturns BY <2>10 DEF ExecuteReturns
  <2>11. CASE Fetch BY <2>11 DEF Fetch
  <2>12. CASE Capture BY <2>12 DEF Capture
  <2>13. CASE WriteCli BY <2>13 DEF WriteCli
  <2>14. CASE WriteOutput BY <2>14 DEF WriteOutput
  <2>15. CASE TeardownAgent BY <2>15 DEF TeardownAgent
  <2>16. CASE StopSandbox BY <2>16 DEF StopSandbox
  <2>17. CASE ReleaseWorktree BY <2>17 DEF ReleaseWorktree
  <2>18. CASE Leave
    <3>1. pc' \in {"handler", "cut", "done"} /\ UNCHANGED <<worktree, sandbox, agent, sink, leaving, error>>
      BY <2>18, Zenon DEF Leave, world
    <3> QED BY <3>1
  <2>19. CASE HandleException BY <2>19 DEF HandleException
  <2>20. CASE KeyboardInterrupt BY <2>20 DEF KeyboardInterrupt
  <2>21. CASE Ended BY <2>21 DEF Ended, vars
  <2>22. CASE UNCHANGED vars BY <2>22 DEF vars
  <2> QED
    BY <2>1, <2>2, <2>3, <2>4, <2>5, <2>6, <2>7, <2>8, <2>9, <2>10, <2>11, <2>12, <2>13,
       <2>14, <2>15, <2>16, <2>17, <2>18, <2>19, <2>20, <2>21, <2>22 DEF Next
<1> QED
  BY <1>1, <1>2, TurnsBounded, PTL DEF Spec

FilesInv ==
  /\ cli \in [Turns -> {"absent", "sentinel", "empty", "real"}]
  /\ output \in [Turns -> {"absent", "empty", "real"}]

(* A sentinel leaves the directory of turn files well formed.              *)
LEMMA SentinelKeepsFiles ==
  ASSUME FilesInv, NEW i, WriteSentinel(i), UNCHANGED output
  PROVE  FilesInv'
  BY DEF FilesInv, WriteSentinel

LEMMA FilesHold == Spec => []FilesInv
<1>1. Init => FilesInv
  BY DEF Init, FilesInv
<1>2. ASSUME FilesInv, [Next]_vars PROVE FilesInv'
  <2> USE <1>2 DEF files
  <2>1. CASE Acquire BY <2>1 DEF Acquire, FilesInv
  <2>2. CASE SandboxUp BY <2>2 DEF SandboxUp, FilesInv
  <2>3. CASE SandboxFails BY <2>3, SentinelKeepsFiles DEF SandboxFails
  <2>4. CASE InstallResources BY <2>4 DEF InstallResources, FilesInv
  <2>5. CASE InstallFails BY <2>5, SentinelKeepsFiles DEF InstallFails
  <2>6. CASE AgentSetup BY <2>6 DEF AgentSetup, FilesInv
  <2>7. CASE LastTurnDone BY <2>7 DEF LastTurnDone, FilesInv
  <2>8. CASE StartTurn BY <2>8 DEF StartTurn, FilesInv
  <2>9. CASE TurnRaises BY <2>9, SentinelKeepsFiles DEF TurnRaises
  <2>10. CASE ExecuteReturns BY <2>10 DEF ExecuteReturns, FilesInv
  <2>11. CASE Fetch
    <3>1. CASE UNCHANGED cli BY <2>11, <3>1 DEF Fetch, FilesInv
    <3>2. CASE WriteSentinel(turn) BY <2>11, <3>2, SentinelKeepsFiles DEF Fetch
    <3> QED BY <2>11, <3>1, <3>2 DEF Fetch
  <2>12. CASE Capture BY <2>12 DEF Capture, FilesInv
  <2>13. CASE WriteCli BY <2>13 DEF WriteCli, FilesInv
  <2>14. CASE WriteOutput BY <2>14 DEF WriteOutput, FilesInv
  <2>15. CASE TeardownAgent BY <2>15 DEF TeardownAgent, FilesInv
  <2>16. CASE StopSandbox BY <2>16 DEF StopSandbox, FilesInv
  <2>17. CASE ReleaseWorktree BY <2>17 DEF ReleaseWorktree, FilesInv
  <2>18. CASE Leave BY <2>18, Zenon DEF Leave, FilesInv
  <2>19. CASE HandleException BY <2>19, SentinelKeepsFiles DEF HandleException
  <2>20. CASE KeyboardInterrupt BY <2>20 DEF KeyboardInterrupt, FilesInv
  <2>21. CASE Ended BY <2>21 DEF Ended, vars, FilesInv
  <2>22. CASE UNCHANGED vars BY <2>22 DEF vars, FilesInv
  <2> QED
    BY <2>1, <2>2, <2>3, <2>4, <2>5, <2>6, <2>7, <2>8, <2>9, <2>10, <2>11, <2>12, <2>13,
       <2>14, <2>15, <2>16, <2>17, <2>18, <2>19, <2>20, <2>21, <2>22 DEF Next
<1> QED
  BY <1>1, <1>2, PTL DEF Spec

(* Every variable of run_scenario_turns keeps to its values, and neither   *)
(* count of a result exceeds the number of turns.                          *)
THEOREM TypeCorrect == Spec => []TypeOK
<1>1. ASSUME JobInv, TurnInv, FailedInv, PriorInv, CountInv, PlaceInv, FilesInv
      PROVE  TypeOK
  <2>1. turn \in 0..N /\ completed \in 0..N /\ agentErrors \in 0..N
    BY <1>1, ScenarioAssumption DEF TurnInv, CountInv
  <2>2. job \in Jobs /\ prior \in Seq(TurnOutput)
    BY <1>1 DEF JobInv, PriorInv
  <2> QED
    BY <1>1, <2>1, <2>2, Zenon DEF TypeOK, PlaceInv, FilesInv, FailedInv
<1> QED
  BY <1>1, JobsFixed, TurnsBounded, FailedIsBoolean, PriorFollowsTurn, CountsFollowTurn,
     PlaceHolds, FilesHold, PTL

-----------------------------------------------------------------------------
(***************************************************************************)
(* The strengthening of FailureVisible.  Until fetch_results returns, the  *)
(* turn that runs, and every one after it, has left nothing on disk; so    *)
(* the sentinel of a turn that raises finds its place free.  A result      *)
(* without an error is one that went through the finally block.            *)
(***************************************************************************)
Untouched == {"turns", "execute"} \cup (SettingUp \cup {"fetch"})

VisibleInv ==
  /\ pc \in Untouched => \A i \in Turns : i >= turn => cli[i] = "absent"
  /\ pc \in InTurns => \A i \in Turns : i > turn => cli[i] = "absent"
  /\ pc \in SettingUp \cup InTurns => completed = turn
  /\ leaving = "end" => completed = N
  /\ leaving = "break" /\ ~job.diskFull => cli[completed] = "sentinel"
  /\ pc = "handler" => leaving \in {"no", "raise"}
  /\ pc = "done" => error \/ leaving \in {"end", "break"}

(* A sentinel on a disk with room is there, and is the only new file.      *)
LEMMA SentinelIsThere ==
  ASSUME FilesInv, NEW i \in Turns, WriteSentinel(i)
  PROVE  /\ \A k \in Turns : k # i => cli'[k] = cli[k]
         /\ \A k \in Turns : cli[k] # "absent" => cli'[k] = cli[k]
         /\ cli[i] = "absent" /\ ~job.diskFull => cli'[i] = "sentinel"
  BY DEF FilesInv, WriteSentinel

LEMMA VisibleFollows == Spec => []VisibleInv
<1> USE ScenarioAssumption
<1>1. Init => VisibleInv
  BY DEF Init, VisibleInv, Untouched
<1>2. ASSUME JobInv, TurnInv, CountInv, PlaceInv, FilesInv, WorldInv, VisibleInv, [Next]_vars
      PROVE  VisibleInv'
  <2> USE <1>2 DEF VisibleInv, WorldInv, TurnInv, Turns, Untouched, LeaveLoop, tally, files
  <2>a. completed \in Nat /\ turn \in Nat /\ 0 \in Turns /\ N \in Nat
    BY DEF CountInv, TurnInv, Turns
  <2>1. CASE Acquire BY <2>a, <2>1 DEF Acquire
  <2>2. CASE SandboxUp BY <2>a, <2>2 DEF SandboxUp
  <2>3. CASE SandboxFails BY <2>a, <2>3, SentinelIsThere DEF SandboxFails
  <2>4. CASE InstallResources BY <2>a, <2>4 DEF InstallResources
  <2>5. CASE InstallFails BY <2>a, <2>5, SentinelIsThere DEF InstallFails
  <2>6. CASE AgentSetup BY <2>a, <2>6 DEF AgentSetup
  <2>7. CASE LastTurnDone BY <2>a, <2>7 DEF LastTurnDone
  <2>8. CASE StartTurn BY <2>a, <2>8 DEF StartTurn
  <2>9. CASE TurnRaises BY <2>a, <2>9, SentinelIsThere DEF TurnRaises
  <2>10. CASE ExecuteReturns BY <2>a, <2>10 DEF ExecuteReturns
  <2>11. CASE Fetch
    <3>1. turn \in Turns /\ pc' = "capture" /\ UNCHANGED <<turn, completed, leaving, job>>
      BY <2>a, <2>11 DEF Fetch, Started
    <3>2. UNCHANGED cli \/ WriteSentinel(turn)
      BY <2>11, Zenon DEF Fetch
    <3>3. \A i \in Turns : i > turn => cli'[i] = cli[i]
      BY <2>a, <3>1, <3>2, SentinelIsThere
    <3>4. pc = "fetch"
      BY <2>11 DEF Fetch
    <3> QED
      BY <3>1, <3>3, <3>4
  <2>12. CASE Capture BY <2>a, <2>12 DEF Capture
  <2>13. CASE WriteCli BY <2>a, <2>13 DEF WriteCli, FilesInv
  <2>14. CASE WriteOutput BY <2>a, <2>14 DEF WriteOutput
  <2>15. CASE TeardownAgent BY <2>a, <2>15 DEF TeardownAgent
  <2>16. CASE StopSandbox BY <2>a, <2>16 DEF StopSandbox
  <2>17. CASE ReleaseWorktree BY <2>a, <2>17 DEF ReleaseWorktree
  <2>18. CASE Leave
    <3>1. /\ UNCHANGED <<job, turn, cli, completed, leaving, error>>
          /\ leaving = "raise" => pc' = "handler"
          /\ leaving = "interrupt" => pc' = "cut"
          /\ leaving \notin {"raise", "interrupt"} => pc' = "done"
      BY <2>18, Zenon DEF Leave
    <3>2. leaving \in {"end", "break", "raise", "interrupt"}
      BY <2>18 DEF Leave, PlaceInv
    <3> QED
      BY <3>1, <3>2
  <2>19. CASE HandleException BY <2>a, <2>19, SentinelIsThere DEF HandleException
  <2>20. CASE KeyboardInterrupt BY <2>a, <2>20 DEF KeyboardInterrupt
  <2>21. CASE Ended BY <2>a, <2>21 DEF Ended, vars
  <2>22. CASE UNCHANGED vars BY <2>22 DEF vars
  <2> QED
    BY <2>1, <2>2, <2>3, <2>4, <2>5, <2>6, <2>7, <2>8, <2>9, <2>10, <2>11, <2>12, <2>13,
       <2>14, <2>15, <2>16, <2>17, <2>18, <2>19, <2>20, <2>21, <2>22 DEF Next
<1> QED
  BY <1>1, <1>2, JobsFixed, TurnsBounded, CountsFollowTurn, PlaceHolds, FilesHold, WorldFollows,
     PTL DEF Spec

(* A scenario that was cut short by a fault cannot be taken for a clean    *)
(* one, for any number of turns and whatever step fails.                   *)
THEOREM FailureAlwaysVisible == Spec => []FailureVisible
<1>1. ASSUME VisibleInv, CountInv, PlaceInv PROVE FailureVisible
  BY <1>1, ScenarioAssumption DEF VisibleInv, CountInv, PlaceInv, FailureVisible
<1> QED
  BY <1>1, VisibleFollows, CountsFollowTurn, PlaceHolds, PTL

-----------------------------------------------------------------------------
(* The turns before the current one have left their output, those after it *)
(* nothing: a sentinel takes the place of the current turn, or of the      *)
(* first one if that has left nothing.                                     *)
GapsInv ==
  \A i \in Turns : /\ i < turn => output[i] = "real"
                   /\ i > turn => cli[i] = "absent" /\ output[i] # "real"

(* A step that leaves the outputs and the turn alone and writes no other   *)
(* turn's text leaves no gap.                                              *)
LEMMA NoGapOpens ==
  ASSUME GapsInv, UNCHANGED <<output, turn>>, \A i \in Turns : i > turn => cli'[i] = cli[i]
  PROVE  GapsInv'
  BY DEF GapsInv

LEMMA GapsFollow == Spec => []GapsInv
<1> USE ScenarioAssumption
<1>1. Init => GapsInv
  BY DEF Init, GapsInv, Turns
<1>2. ASSUME TurnInv, FilesInv, GapsInv, [Next]_vars PROVE GapsInv'
  <2> USE <1>2 DEF files, LeaveLoop
  <2>a. turn \in Nat /\ 0 \in Turns /\ \A i \in Turns : ~(0 > turn) /\ i \in Nat
    BY DEF TurnInv, Turns
  <2>1. CASE Acquire BY <2>1, NoGapOpens DEF Acquire
  <2>2. CASE SandboxUp BY <2>2, NoGapOpens DEF SandboxUp
  <2>3. CASE SandboxFails
    <3>1. \A i \in Turns : i > turn => cli'[i] = cli[i]
      BY <2>a, <2>3, SentinelIsThere DEF SandboxFails
    <3> QED BY <2>3, <3>1, NoGapOpens DEF SandboxFails
  <2>4. CASE InstallResources BY <2>4, NoGapOpens DEF InstallResources
  <2>5. CASE InstallFails
    <3>1. \A i \in Turns : i > turn => cli'[i] = cli[i]
      BY <2>a, <2>5, SentinelIsThere DEF InstallFails
    <3> QED BY <2>5, <3>1, NoGapOpens DEF InstallFails
  <2>6. CASE AgentSetup BY <2>6, NoGapOpens DEF AgentSetup
  <2>7. CASE LastTurnDone BY <2>7, NoGapOpens DEF LastTurnDone
  <2>8. CASE StartTurn BY <2>8, NoGapOpens DEF StartTurn
  <2>9. CASE TurnRaises
    <3>1. \A i \in Turns : i > turn => cli'[i] = cli[i]
      BY <2>a, <2>9, SentinelIsThere DEF TurnRaises, Turns, TurnInv
    <3> QED BY <2>9, <3>1, NoGapOpens DEF TurnRaises
  <2>10. CASE ExecuteReturns BY <2>10, NoGapOpens DEF ExecuteReturns
  <2>11. CASE Fetch
    <3>1. turn \in Turns /\ UNCHANGED <<output, turn>>
      BY <2>a, <2>11 DEF Fetch, TurnInv, Turns, Started
    <3>2. UNCHANGED cli \/ WriteSentinel(turn)
      BY <2>11, Zenon DEF Fetch
    <3>3. \A i \in Turns : i > turn => cli'[i] = cli[i]
      BY <2>a, <3>1, <3>2, SentinelIsThere
    <3> QED BY <3>1, <3>3, NoGapOpens
  <2>12. CASE Capture BY <2>12, NoGapOpens DEF Capture
  <2>13. CASE WriteCli
    <3>1. \A i \in Turns : i > turn => cli'[i] = cli[i]
      BY <2>a, <2>13 DEF WriteCli, FilesInv
    <3> QED BY <2>13, <3>1, NoGapOpens DEF WriteCli
  <2>14. CASE WriteOutput
    <3>1. UNCHANGED cli /\ \A i \in Turns : i # turn => output'[i] = output[i]
      BY <2>a, <2>14 DEF WriteOutput, FilesInv
    <3>2. CASE turn' = turn + 1 /\ output' = [output EXCEPT ![turn] = "real"]
      BY <2>a, <3>1, <3>2 DEF GapsInv, FilesInv
    <3>3. CASE turn' = turn
      BY <2>a, <3>1, <3>3 DEF GapsInv
    <3> QED BY <2>14, <3>2, <3>3 DEF WriteOutput
  <2>15. CASE TeardownAgent BY <2>15, NoGapOpens DEF TeardownAgent
  <2>16. CASE StopSandbox BY <2>16, NoGapOpens DEF StopSandbox
  <2>17. CASE ReleaseWorktree BY <2>17, NoGapOpens DEF ReleaseWorktree
  <2>18. CASE Leave
    <3>1. UNCHANGED <<output, turn, cli>>
      BY <2>18, Zenon DEF Leave
    <3> QED BY <3>1, NoGapOpens
  <2>19. CASE HandleException
    <3>1. \A i \in Turns : i > turn => cli'[i] = cli[i]
      BY <2>a, <2>19, SentinelIsThere DEF HandleException
    <3> QED BY <2>19, <3>1, NoGapOpens DEF HandleException
  <2>20. CASE KeyboardInterrupt BY <2>20, NoGapOpens DEF KeyboardInterrupt
  <2>21. CASE Ended BY <2>21, NoGapOpens DEF Ended, vars
  <2>22. CASE UNCHANGED vars BY <2>22, NoGapOpens DEF vars
  <2> QED
    BY <2>1, <2>2, <2>3, <2>4, <2>5, <2>6, <2>7, <2>8, <2>9, <2>10, <2>11, <2>12, <2>13,
       <2>14, <2>15, <2>16, <2>17, <2>18, <2>19, <2>20, <2>21, <2>22 DEF Next
<1> QED
  BY <1>1, <1>2, TurnsBounded, FilesHold, PTL DEF Spec

(* Scoring finds every turn where the scenario has it, for any number of   *)
(* turns and wherever the run stops.                                       *)
THEOREM TurnsAlwaysInPlace == Spec => []TurnsInPlace
<1>1. ASSUME TurnInv, FilesInv, GapsInv PROVE TurnsInPlace
  <2> SUFFICES ASSUME NEW i \in Turns, OnDisk(i) PROVE Place(i) = i
    BY DEF TurnsInPlace
  <2>1. i \in Nat /\ i <= turn /\ turn \in Nat
    BY <1>1, ScenarioAssumption DEF GapsInv, OnDisk, Turns, TurnInv
  <2>2. \A j \in 0..(i - 1) : OnDisk(j)
    BY <1>1, <2>1, ScenarioAssumption DEF GapsInv, OnDisk, Turns
  <2>3. {j \in 0..(i - 1) : OnDisk(j)} = 0..(i - 1)
    BY <2>2
  <2>4. Cardinality(0..(i - 1)) = i
    BY <2>1, FS_Interval
  <2> QED
    BY <2>3, <2>4 DEF Place
<1> QED
  BY <1>1, TurnsBounded, FilesHold, GapsFollow, PTL

-----------------------------------------------------------------------------
(* Part 2: the workspace.                                                  *)

WsTypeOK ==
  /\ content \in Versions /\ staged \in Versions \cup {NoCommit} /\ head \in Versions \cup {NoCommit}
  /\ dotgit \in BOOLEAN /\ marker \in BOOLEAN /\ plain \in BOOLEAN /\ unguarded \in BOOLEAN
  /\ proc \in {"up", "exiting", "exited", "killed"}
  /\ at \in [Scenarios -> Points]
  /\ initLock \in Scenarios \cup {NoScenario} /\ addLock \in Scenarios \cup {NoScenario}
  /\ tree \in [Scenarios -> Trees]
  /\ managers \in SUBSET Scenarios

(* A thread is inside the lock's block exactly while it holds the lock, and*)
(* only a process that is up has threads with work to do.                  *)
LockInv ==
  /\ \A s \in Scenarios : at[s] \in Initialising <=> initLock = s
  /\ proc # "up" => \A s \in Scenarios : at[s] \in AtRest

(* How far the thread that makes the repository has come.  What it stages  *)
(* and commits is what the directory holds: there was no .git before.      *)
StagesInv ==
  /\ ~dotgit => staged = NoCommit /\ head = NoCommit /\ ~marker
  /\ \A s \in Scenarios :
       /\ at[s] = "init" => ~dotgit
       /\ at[s] = "stage" => staged = NoCommit /\ head = NoCommit
       /\ at[s] = "commit" => staged \in {content, NoCommit} /\ head = NoCommit
       /\ at[s] = "mark" => head \in {content, NoCommit}

(* The strengthening of FreshSnapshot.  A commit without the marker is one *)
(* that somebody is about to mark, so the drift gate guards every other;   *)
(* and behind the gate a commit holds what the directory holds.            *)
Guarded == plain /\ ~unguarded

FreshInv ==
  /\ Guarded /\ head # NoCommit /\ ~marker => \E s \in Scenarios : at[s] = "mark"
  /\ \A s \in Scenarios :
       /\ at[s] \in {"wantInit", "acquire", "adding"} /\ Guarded /\ head # NoCommit => head = content
       /\ at[s] = "in" /\ Guarded /\ s \notin Pinned => tree[s] = [dir |-> "checkout", version |-> content]

(* A worktree directory belongs to a manager that will clean it up.        *)
ManagedInv ==
  \A s \in Scenarios :
    /\ proc \in {"up", "exiting"} /\ tree[s] # NoTree => s \in managers
    /\ at[s] \in {"acquire", "adding"} => s \in managers
    /\ proc = "exited" => tree[s] = NoTree

-----------------------------------------------------------------------------
(* Every variable keeps to its values; the lock of a fixture directory is  *)
(* held exactly by the thread that initialises it.                         *)
THEOREM WsTypeCorrect == WsSpec => [](WsTypeOK /\ LockInv)
<1> USE WorkspaceAssumption
<1>1. WsInit => WsTypeOK /\ LockInv
  <2> SUFFICES ASSUME WsInit PROVE WsTypeOK /\ LockInv
    OBVIOUS
  <2>1. LockInv
    BY DEF WsInit, LockInv, Initialising, AtRest
  <2>2. NoTree \in Trees
    BY DEF NoTree, Trees
  <2>3. dotgit \in BOOLEAN /\ plain \in BOOLEAN
    BY Zenon DEF WsInit
  <2>4. content \in Versions /\ head \in Versions \cup {NoCommit}
    BY DEF WsInit, Versions
  <2>5. WsTypeOK
    BY <2>2, <2>3, <2>4 DEF WsInit, WsTypeOK, Points
  <2> QED
    BY <2>1, <2>5
<1>2. ASSUME WsTypeOK, [WsNext]_wsVars PROVE WsTypeOK'
  <2> USE <1>2 DEF WsTypeOK, Versions, Points, Initialising, Trees, NoTree
  <2>1. ASSUME proc = "up", NEW s \in Scenarios, Construct(s) PROVE WsTypeOK'
    BY <2>1 DEF repo, Construct, Goto
  <2>2. ASSUME proc = "up", NEW s \in Scenarios, ConstructFails(s) PROVE WsTypeOK'
    BY <2>2 DEF repo, ConstructFails, Goto
  <2>3. ASSUME proc = "up", NEW s \in Scenarios, EnterInit(s) PROVE WsTypeOK'
    BY <2>3 DEF repo, EnterInit, Constructed, Goto
  <2>4. ASSUME proc = "up", NEW s \in Scenarios, InitFails(s) PROVE WsTypeOK'
    BY <2>4 DEF repo, InitFails, GiveUp, Goto
  <2>5. ASSUME proc = "up", NEW s \in Scenarios, GitInit(s) PROVE WsTypeOK'
    BY <2>5 DEF repo, GitInit, Goto
  <2>6. ASSUME proc = "up", NEW s \in Scenarios, GitAdd(s) PROVE WsTypeOK'
    BY <2>6 DEF repo, GitAdd, Goto
  <2>7. ASSUME proc = "up", NEW s \in Scenarios, GitCommit(s) PROVE WsTypeOK'
    BY <2>7 DEF repo, GitCommit, Goto
  <2>8. ASSUME proc = "up", NEW s \in Scenarios, Mark(s) PROVE WsTypeOK'
    BY <2>8 DEF repo, Mark, Constructed, GiveUp, Goto
  <2>9. ASSUME proc = "up", NEW s \in Scenarios, Drift(s) PROVE WsTypeOK'
    BY ZenonT(40), <2>9 DEF repo, Drift, Constructed, Goto, Clean
  <2>10. ASSUME proc = "up", NEW s \in Scenarios, BeginAdd(s) PROVE WsTypeOK'
    BY <2>10 DEF repo, BeginAdd, Goto
  <2>11. ASSUME proc = "up", NEW s \in Scenarios, EndAdd(s) PROVE WsTypeOK'
    BY <2>11 DEF repo, EndAdd, Ref, Goto
  <2>12. ASSUME proc = "up", NEW s \in Scenarios, Release(s) PROVE WsTypeOK'
    BY <2>12 DEF repo, Release, Goto
  <2>13. ASSUME proc = "up", NEW s \in Scenarios, LeaveBehind(s) PROVE WsTypeOK'
    BY <2>13 DEF repo, LeaveBehind, Goto
  <2>14. ASSUME BeginExit, \A s \in Scenarios : at[s] \in AtRest PROVE WsTypeOK'
    BY <2>14 DEF repo, BeginExit
  <2>15. ASSUME NEW s \in Scenarios, CleanupAll(s) PROVE WsTypeOK'
    BY <2>15 DEF repo, CleanupAll
  <2>16. ASSUME EndExit PROVE WsTypeOK'
    BY <2>16 DEF repo, EndExit
  <2>17. ASSUME Kill PROVE WsTypeOK'
    BY <2>17 DEF repo, Kill, FreshRun
  <2>18. ASSUME EditFixture PROVE WsTypeOK'
    BY <2>18 DEF repo, EditFixture
  <2>19. ASSUME CommitFixture PROVE WsTypeOK'
    BY <2>19 DEF repo, CommitFixture
  <2>20. ASSUME NewRun PROVE WsTypeOK'
    BY <2>20 DEF repo, NewRun, FreshRun
  <2>21. CASE UNCHANGED wsVars
    BY <2>21 DEF wsVars, repo
  <2> QED
    BY <2>1, <2>2, <2>3, <2>4, <2>5, <2>6, <2>7, <2>8, <2>9, <2>10, <2>11,
       <2>12, <2>13, <2>14, <2>15, <2>16, <2>17, <2>18, <2>19, <2>20, <2>21
       DEF WsNext, InWorkspace, BetweenRuns
<1>3. ASSUME WsTypeOK, LockInv, [WsNext]_wsVars PROVE LockInv'
  <2> USE <1>3 DEF WsTypeOK, LockInv, Points, Initialising, AtRest
  <2>1. ASSUME proc = "up", NEW s \in Scenarios, Construct(s) PROVE LockInv'
    BY <2>1 DEF repo, Construct, Goto
  <2>2. ASSUME proc = "up", NEW s \in Scenarios, ConstructFails(s) PROVE LockInv'
    BY <2>2 DEF repo, ConstructFails, Goto
  <2>3. ASSUME proc = "up", NEW s \in Scenarios, EnterInit(s) PROVE LockInv'
    BY <2>3 DEF repo, EnterInit, Constructed, Goto
  <2>4. ASSUME proc = "up", NEW s \in Scenarios, InitFails(s) PROVE LockInv'
    BY <2>4 DEF repo, InitFails, GiveUp, Goto
  <2>5. ASSUME proc = "up", NEW s \in Scenarios, GitInit(s) PROVE LockInv'
    BY <2>5 DEF repo, GitInit, Goto
  <2>6. ASSUME proc = "up", NEW s \in Scenarios, GitAdd(s) PROVE LockInv'
    BY <2>6 DEF repo, GitAdd, Goto
  <2>7. ASSUME proc = "up", NEW s \in Scenarios, GitCommit(s) PROVE LockInv'
    BY <2>7 DEF repo, GitCommit, Goto
  <2>8. ASSUME proc = "up", NEW s \in Scenarios, Mark(s) PROVE LockInv'
    BY <2>8 DEF repo, Mark, Constructed, GiveUp, Goto
  <2>9. ASSUME proc = "up", NEW s \in Scenarios, Drift(s) PROVE LockInv'
    BY <2>9 DEF repo, Drift, Constructed, Goto, Clean
  <2>10. ASSUME proc = "up", NEW s \in Scenarios, BeginAdd(s) PROVE LockInv'
    BY <2>10 DEF repo, BeginAdd, Goto
  <2>11. ASSUME proc = "up", NEW s \in Scenarios, EndAdd(s) PROVE LockInv'
    BY <2>11 DEF repo, EndAdd, Ref, Goto
  <2>12. ASSUME proc = "up", NEW s \in Scenarios, Release(s) PROVE LockInv'
    BY <2>12 DEF repo, Release, Goto
  <2>13. ASSUME proc = "up", NEW s \in Scenarios, LeaveBehind(s) PROVE LockInv'
    BY <2>13 DEF repo, LeaveBehind, Goto
  <2>14. ASSUME BeginExit, \A s \in Scenarios : at[s] \in AtRest PROVE LockInv'
    BY <2>14 DEF repo, BeginExit
  <2>15. ASSUME NEW s \in Scenarios, CleanupAll(s) PROVE LockInv'
    BY <2>15 DEF repo, CleanupAll
  <2>16. ASSUME EndExit PROVE LockInv'
    BY <2>16 DEF repo, EndExit
  <2>17. ASSUME Kill PROVE LockInv'
    BY <2>17 DEF repo, Kill, FreshRun
  <2>18. ASSUME EditFixture PROVE LockInv'
    BY <2>18 DEF repo, EditFixture
  <2>19. ASSUME CommitFixture PROVE LockInv'
    BY <2>19 DEF repo, CommitFixture
  <2>20. ASSUME NewRun PROVE LockInv'
    BY <2>20 DEF repo, NewRun, FreshRun
  <2>21. CASE UNCHANGED wsVars
    BY <2>21 DEF wsVars, repo
  <2> QED
    BY <2>1, <2>2, <2>3, <2>4, <2>5, <2>6, <2>7, <2>8, <2>9, <2>10, <2>11,
       <2>12, <2>13, <2>14, <2>15, <2>16, <2>17, <2>18, <2>19, <2>20, <2>21
       DEF WsNext, InWorkspace, BetweenRuns
<1> QED
  BY <1>1, <1>2, <1>3, PTL DEF WsSpec

(* One thread at a time makes the repository, from nothing.                *)
THEOREM StagesAlways == WsSpec => []StagesInv
<1> USE WorkspaceAssumption
<1>1. WsInit => StagesInv
  BY DEF WsInit, StagesInv
<1>2. ASSUME WsTypeOK, LockInv, StagesInv, [WsNext]_wsVars PROVE StagesInv'
  <2> USE <1>2 DEF WsTypeOK, LockInv, StagesInv, Points, Initialising, AtRest
  <2>1. ASSUME proc = "up", NEW s \in Scenarios, Construct(s) PROVE StagesInv'
    BY <2>1 DEF repo, Construct, Goto
  <2>2. ASSUME proc = "up", NEW s \in Scenarios, ConstructFails(s) PROVE StagesInv'
    BY <2>2 DEF repo, ConstructFails, Goto
  <2>3. ASSUME proc = "up", NEW s \in Scenarios, EnterInit(s) PROVE StagesInv'
    BY <2>3 DEF repo, EnterInit, Constructed, Goto
  <2>4. ASSUME proc = "up", NEW s \in Scenarios, InitFails(s) PROVE StagesInv'
    BY <2>4 DEF repo, InitFails, GiveUp, Goto
  <2>5. ASSUME proc = "up", NEW s \in Scenarios, GitInit(s) PROVE StagesInv'
    BY <2>5 DEF repo, GitInit, Goto
  <2>6. ASSUME proc = "up", NEW s \in Scenarios, GitAdd(s) PROVE StagesInv'
    BY <2>6 DEF repo, GitAdd, Goto
  <2>7. ASSUME proc = "up", NEW s \in Scenarios, GitCommit(s) PROVE StagesInv'
    BY <2>7 DEF repo, GitCommit, Goto
  <2>8. ASSUME proc = "up", NEW s \in Scenarios, Mark(s) PROVE StagesInv'
    BY <2>8 DEF repo, Mark, Constructed, GiveUp, Goto
  <2>9. ASSUME proc = "up", NEW s \in Scenarios, Drift(s) PROVE StagesInv'
    BY <2>9 DEF repo, Drift, Constructed, Goto, Clean
  <2>10. ASSUME proc = "up", NEW s \in Scenarios, BeginAdd(s) PROVE StagesInv'
    BY <2>10 DEF repo, BeginAdd, Goto
  <2>11. ASSUME proc = "up", NEW s \in Scenarios, EndAdd(s) PROVE StagesInv'
    BY <2>11 DEF repo, EndAdd, Ref, Goto
  <2>12. ASSUME proc = "up", NEW s \in Scenarios, Release(s) PROVE StagesInv'
    BY <2>12 DEF repo, Release, Goto
  <2>13. ASSUME proc = "up", NEW s \in Scenarios, LeaveBehind(s) PROVE StagesInv'
    BY <2>13 DEF repo, LeaveBehind, Goto
  <2>14. ASSUME BeginExit, \A s \in Scenarios : at[s] \in AtRest PROVE StagesInv'
    BY <2>14 DEF repo, BeginExit
  <2>15. ASSUME NEW s \in Scenarios, CleanupAll(s) PROVE StagesInv'
    BY <2>15 DEF repo, CleanupAll
  <2>16. ASSUME EndExit PROVE StagesInv'
    BY <2>16 DEF repo, EndExit
  <2>17. ASSUME Kill PROVE StagesInv'
    BY <2>17 DEF repo, Kill, FreshRun
  <2>18. ASSUME EditFixture PROVE StagesInv'
    BY <2>18 DEF repo, EditFixture
  <2>19. ASSUME CommitFixture PROVE StagesInv'
    BY <2>19 DEF repo, CommitFixture
  <2>20. ASSUME NewRun PROVE StagesInv'
    BY <2>20 DEF repo, NewRun, FreshRun
  <2>21. CASE UNCHANGED wsVars
    BY <2>21 DEF wsVars, repo
  <2> QED
    BY <2>1, <2>2, <2>3, <2>4, <2>5, <2>6, <2>7, <2>8, <2>9, <2>10, <2>11,
       <2>12, <2>13, <2>14, <2>15, <2>16, <2>17, <2>18, <2>19, <2>20, <2>21
       DEF WsNext, InWorkspace, BetweenRuns
<1> QED
  BY <1>1, <1>2, WsTypeCorrect, PTL DEF WsSpec

(* git init never runs where there is a repository, however many scenarios *)
(* construct their managers at once and whatever earlier runs left.        *)
THEOREM NeverReinitAlways == WsSpec => []NeverReinit
<1>1. StagesInv => NeverReinit
  BY DEF StagesInv, NeverReinit
<1> QED
  BY <1>1, StagesAlways, PTL

(* Scenarios work on what the fixture directory holds, never on a stale    *)
(* snapshot of it, as long as no failure defeated the drift gate.          *)
THEOREM SnapshotsAreFresh == WsSpec => []FreshSnapshot
<1> USE WorkspaceAssumption
<1>1. WsInit => FreshInv
  BY DEF WsInit, FreshInv, Guarded
<1>2. ASSUME WsTypeOK, LockInv, StagesInv, FreshInv, [WsNext]_wsVars PROVE FreshInv'
  <2> USE <1>2 DEF WsTypeOK, LockInv, StagesInv, FreshInv, Guarded, Points, Initialising, AtRest
  <2>1. ASSUME proc = "up", NEW s \in Scenarios, Construct(s) PROVE FreshInv'
    BY <2>1 DEF repo, Construct, Goto
  <2>2. ASSUME proc = "up", NEW s \in Scenarios, ConstructFails(s) PROVE FreshInv'
    BY <2>2 DEF repo, ConstructFails, Goto
  <2>3. ASSUME proc = "up", NEW s \in Scenarios, EnterInit(s) PROVE FreshInv'
    BY <2>3 DEF repo, EnterInit, Constructed, Goto
  <2>4. ASSUME proc = "up", NEW s \in Scenarios, InitFails(s) PROVE FreshInv'
    BY <2>4 DEF repo, InitFails, GiveUp, Goto
  <2>5. ASSUME proc = "up", NEW s \in Scenarios, GitInit(s) PROVE FreshInv'
    BY <2>5 DEF repo, GitInit, Goto
  <2>6. ASSUME proc = "up", NEW s \in Scenarios, GitAdd(s) PROVE FreshInv'
    BY <2>6 DEF repo, GitAdd, Goto
  <2>7. ASSUME proc = "up", NEW s \in Scenarios, GitCommit(s) PROVE FreshInv'
    BY <2>7 DEF repo, GitCommit, Goto
  <2>8. ASSUME proc = "up", NEW s \in Scenarios, Mark(s) PROVE FreshInv'
    BY <2>8 DEF repo, Mark, Constructed, GiveUp, Goto
  <2>9. ASSUME proc = "up", NEW s \in Scenarios, Drift(s) PROVE FreshInv'
    BY <2>9 DEF repo, Drift, Constructed, Goto, Clean
  <2>10. ASSUME proc = "up", NEW s \in Scenarios, BeginAdd(s) PROVE FreshInv'
    BY <2>10 DEF repo, BeginAdd, Goto
  <2>11. ASSUME proc = "up", NEW s \in Scenarios, EndAdd(s) PROVE FreshInv'
    BY <2>11 DEF repo, EndAdd, Ref, Goto
  <2>12. ASSUME proc = "up", NEW s \in Scenarios, Release(s) PROVE FreshInv'
    BY <2>12 DEF repo, Release, Goto
  <2>13. ASSUME proc = "up", NEW s \in Scenarios, LeaveBehind(s) PROVE FreshInv'
    BY <2>13 DEF repo, LeaveBehind, Goto
  <2>14. ASSUME BeginExit, \A s \in Scenarios : at[s] \in AtRest PROVE FreshInv'
    BY <2>14 DEF repo, BeginExit
  <2>15. ASSUME NEW s \in Scenarios, CleanupAll(s) PROVE FreshInv'
    BY <2>15 DEF repo, CleanupAll
  <2>16. ASSUME EndExit PROVE FreshInv'
    BY <2>16 DEF repo, EndExit
  <2>17. ASSUME Kill PROVE FreshInv'
    BY <2>17 DEF repo, Kill, FreshRun
  <2>18. ASSUME EditFixture PROVE FreshInv'
    BY <2>18 DEF repo, EditFixture
  <2>19. ASSUME CommitFixture PROVE FreshInv'
    BY <2>19 DEF repo, CommitFixture
  <2>20. ASSUME NewRun PROVE FreshInv'
    BY <2>20 DEF repo, NewRun, FreshRun
  <2>21. CASE UNCHANGED wsVars
    BY <2>21 DEF wsVars, repo
  <2> QED
    BY <2>1, <2>2, <2>3, <2>4, <2>5, <2>6, <2>7, <2>8, <2>9, <2>10, <2>11,
       <2>12, <2>13, <2>14, <2>15, <2>16, <2>17, <2>18, <2>19, <2>20, <2>21
       DEF WsNext, InWorkspace, BetweenRuns
<1>3. FreshInv => FreshSnapshot
  BY DEF FreshInv, FreshSnapshot, Guarded
<1> QED
  BY <1>1, <1>2, <1>3, WsTypeCorrect, StagesAlways, PTL DEF WsSpec

(* A process that exits leaves no worktree directory behind.               *)
THEOREM ExitsAreClean == WsSpec => []ExitClean
<1> USE WorkspaceAssumption
<1>1. WsInit => ManagedInv
  BY DEF WsInit, ManagedInv
<1>2. ASSUME WsTypeOK, LockInv, ManagedInv, [WsNext]_wsVars PROVE ManagedInv'
  <2> USE <1>2 DEF WsTypeOK, LockInv, ManagedInv, Points, Initialising, AtRest
  <2>1. ASSUME proc = "up", NEW s \in Scenarios, Construct(s) PROVE ManagedInv'
    BY <2>1 DEF repo, Construct, Goto
  <2>2. ASSUME proc = "up", NEW s \in Scenarios, ConstructFails(s) PROVE ManagedInv'
    BY <2>2 DEF repo, ConstructFails, Goto
  <2>3. ASSUME proc = "up", NEW s \in Scenarios, EnterInit(s) PROVE ManagedInv'
    BY <2>3 DEF repo, EnterInit, Constructed, Goto
  <2>4. ASSUME proc = "up", NEW s \in Scenarios, InitFails(s) PROVE ManagedInv'
    BY <2>4 DEF repo, InitFails, GiveUp, Goto
  <2>5. ASSUME proc = "up", NEW s \in Scenarios, GitInit(s) PROVE ManagedInv'
    BY <2>5 DEF repo, GitInit, Goto
  <2>6. ASSUME proc = "up", NEW s \in Scenarios, GitAdd(s) PROVE ManagedInv'
    BY <2>6 DEF repo, GitAdd, Goto
  <2>7. ASSUME proc = "up", NEW s \in Scenarios, GitCommit(s) PROVE ManagedInv'
    BY <2>7 DEF repo, GitCommit, Goto
  <2>8. ASSUME proc = "up", NEW s \in Scenarios, Mark(s) PROVE ManagedInv'
    BY <2>8 DEF repo, Mark, Constructed, GiveUp, Goto
  <2>9. ASSUME proc = "up", NEW s \in Scenarios, Drift(s) PROVE ManagedInv'
    BY <2>9 DEF repo, Drift, Constructed, Goto, Clean
  <2>10. ASSUME proc = "up", NEW s \in Scenarios, BeginAdd(s) PROVE ManagedInv'
    BY <2>10 DEF repo, BeginAdd, Goto
  <2>11. ASSUME proc = "up", NEW s \in Scenarios, EndAdd(s) PROVE ManagedInv'
    BY <2>11 DEF repo, EndAdd, Ref, Goto
  <2>12. ASSUME proc = "up", NEW s \in Scenarios, Release(s) PROVE ManagedInv'
    BY <2>12 DEF repo, Release, Goto
  <2>13. ASSUME proc = "up", NEW s \in Scenarios, LeaveBehind(s) PROVE ManagedInv'
    BY <2>13 DEF repo, LeaveBehind, Goto
  <2>14. ASSUME BeginExit, \A s \in Scenarios : at[s] \in AtRest PROVE ManagedInv'
    BY <2>14 DEF repo, BeginExit
  <2>15. ASSUME NEW s \in Scenarios, CleanupAll(s) PROVE ManagedInv'
    BY <2>15 DEF repo, CleanupAll
  <2>16. ASSUME EndExit PROVE ManagedInv'
    BY <2>16 DEF repo, EndExit
  <2>17. ASSUME Kill PROVE ManagedInv'
    BY <2>17 DEF repo, Kill, FreshRun
  <2>18. ASSUME EditFixture PROVE ManagedInv'
    BY <2>18 DEF repo, EditFixture
  <2>19. ASSUME CommitFixture PROVE ManagedInv'
    BY <2>19 DEF repo, CommitFixture
  <2>20. ASSUME NewRun PROVE ManagedInv'
    BY <2>20 DEF repo, NewRun, FreshRun
  <2>21. CASE UNCHANGED wsVars
    BY <2>21 DEF wsVars, repo
  <2> QED
    BY <2>1, <2>2, <2>3, <2>4, <2>5, <2>6, <2>7, <2>8, <2>9, <2>10, <2>11,
       <2>12, <2>13, <2>14, <2>15, <2>16, <2>17, <2>18, <2>19, <2>20, <2>21
       DEF WsNext, InWorkspace, BetweenRuns
<1>3. ManagedInv => ExitClean
  BY DEF ManagedInv, ExitClean
<1> QED
  BY <1>1, <1>2, <1>3, WsTypeCorrect, PTL DEF WsSpec

-----------------------------------------------------------------------------
(* Part 3: the pool.                                                       *)

(* A future is done only once its scenario has left the workspace.         *)
DoneInv ==
  /\ at \in [Scenarios -> Points]
  /\ outcome \in [Scenarios -> {"pending", "passed", "error", "raised"}]
  /\ \A s \in Scenarios : outcome[s] # "pending" => at[s] \in {"out", "failed"}

(* What is not with a worker yet waits in one place: unsent or the queue.  *)
Distinct(q) == \A i, j \in DOMAIN q : q[i] = q[j] => i = j

Waits(q) == \A i \in DOMAIN q : at[q[i]] = "idle"

QueueInv ==
  /\ unsent \in Seq(Scenarios) /\ queue \in Seq(Scenarios)
  /\ Distinct(unsent) /\ Distinct(queue)
  /\ \A i \in DOMAIN unsent, j \in DOMAIN queue : unsent[i] # queue[j]
  /\ Waits(unsent) /\ Waits(queue)

(* No scenario is with a worker or on the way to one.                      *)
Quiet == queue = <<>> /\ Running = {}

(* What the main thread knows at each of its stages.  A Ctrl-C leads to    *)
(* __exit__ early, and only a second one past its wait.                    *)
MainInv ==
  /\ main \in Stages /\ interrupts \in Nat
  /\ interrupts = 0 => ~interrupted
  /\ collected \subseteq {s \in Scenarios : outcome[s] # "pending"}
  /\ main = "collect" => unsent = <<>>
  /\ main \in {"join", "teardown", "exit", "over"} /\ ~interrupted => collected = Scenarios
  /\ main = "join" /\ interrupts = 0 => Quiet
  /\ main \in {"teardown", "exit", "over"} /\ interrupts < 2 => Quiet
  /\ torn => main \in {"teardown", "exit", "over"}
  /\ code = 0 => main = "over" /\ ~interrupted /\ ~SomeFailed

-----------------------------------------------------------------------------
LEMMA TailElements ==
  ASSUME NEW S, NEW q \in Seq(S), q # <<>>
  PROVE  /\ Head(q) \in S /\ Head(q) = q[1] /\ 1 \in DOMAIN q
         /\ Tail(q) \in Seq(S)
         /\ \A i \in DOMAIN Tail(q) : i \in Nat \ {0} /\ i + 1 \in DOMAIN q /\ Tail(q)[i] = q[i + 1]
         /\ \A i \in DOMAIN q : i # 1 => i - 1 \in DOMAIN Tail(q) /\ i \in Nat
  OBVIOUS

LEMMA AppendElements ==
  ASSUME NEW S, NEW q \in Seq(S), NEW e \in S
  PROVE  /\ Append(q, e) \in Seq(S)
         /\ \A i \in DOMAIN Append(q, e) :
              (i \in DOMAIN q /\ Append(q, e)[i] = q[i]) \/ (i = Len(q) + 1 /\ Append(q, e)[i] = e)
  OBVIOUS

LEMMA AllScenariosOnce == SetToSeq(Scenarios) \in Seq(Scenarios) /\ Distinct(SetToSeq(Scenarios))
<1> DEFINE n == Cardinality(Scenarios)
<1>1. n \in Nat /\ ExistsBijection(1..n, Scenarios)
  BY PoolAssumption, FS_CardinalityType
<1>2. \E f \in [1..n -> Scenarios] : IsInjective(f)
  BY <1>1 DEF ExistsBijection, Bijection, Injection, IsInjective
<1>3. SetToSeq(Scenarios) \in [1..n -> Scenarios] /\ IsInjective(SetToSeq(Scenarios))
  BY <1>2 DEF SetToSeq
<1>4. SetToSeq(Scenarios) \in Seq(Scenarios)
  BY <1>1, <1>3
<1> QED
  BY <1>3, <1>4 DEF IsInjective, Distinct

(* A step of a scenario in its workspace moves that scenario alone, and    *)
(* never back to the start.                                                *)
LEMMA WorkMoves ==
  ASSUME at \in [Scenarios -> Points], NEW s0 \in Scenarios, at[s0] # "idle", InWorkspace(s0)
  PROVE  /\ at' \in [Scenarios -> Points] /\ at'[s0] # "idle"
         /\ \A s \in Scenarios : s # s0 => at'[s] = at[s]
BY DEF InWorkspace, EnterInit, Constructed, InitFails, GiveUp, GitInit, GitAdd, GitCommit, Mark,
       Drift, BeginAdd, EndAdd, Ref, Release, LeaveBehind, Goto, Points, Initialising

LEMMA TakeMoves ==
  ASSUME at \in [Scenarios -> Points], NEW s0 \in Scenarios, Construct(s0) \/ ConstructFails(s0)
  PROVE  /\ at[s0] = "idle" /\ at' \in [Scenarios -> Points] /\ at'[s0] # "idle"
         /\ \A s \in Scenarios : s # s0 => at'[s] = at[s]
BY DEF Construct, ConstructFails, Goto, Points, Initialising

LEMMA DoneAndQueued == PoolSpec => [](DoneInv /\ QueueInv)
<1> USE WorkspaceAssumption, PoolAssumption
<1>1. PoolInit => DoneInv /\ QueueInv
  BY AllScenariosOnce DEF PoolInit, WsInit, DoneInv, QueueInv, Distinct, Waits, Points
<1>2. ASSUME DoneInv, QueueInv, [PoolNext]_allVars PROVE DoneInv'
  <2> USE <1>2 DEF DoneInv
  <2>1. ASSUME proc = "up", Take PROVE DoneInv'
    <3>1. PICK s \in Scenarios : s = Head(queue) /\ (Construct(s) \/ ConstructFails(s))
      BY <2>1, TailElements DEF Take, QueueInv
    <3> QED
      BY <2>1, <3>1, TakeMoves DEF Take
  <2>2. ASSUME proc = "up", NEW s \in Scenarios, Work(s) PROVE DoneInv'
    <3>1. at[s] # "idle" /\ outcome[s] = "pending" /\ InWorkspace(s) /\ outcome' = outcome
      BY <2>2 DEF Work, Running, poolVars
    <3> QED
      BY <3>1, WorkMoves
  <2>3. ASSUME proc = "up", NEW s \in Scenarios, Return(s) PROVE DoneInv'
    BY <2>3 DEF Return, Running, wsVars
  <2>4. ASSUME Submit PROVE DoneInv'
    BY <2>4 DEF Submit, wsVars
  <2>5. ASSUME EndSubmit PROVE DoneInv'
    BY <2>5 DEF EndSubmit, wsVars
  <2>6. ASSUME NEW s \in Scenarios, Collect(s) PROVE DoneInv'
    BY <2>6 DEF Collect, wsVars
  <2>7. ASSUME EndCollect PROVE DoneInv'
    BY <2>7 DEF EndCollect, wsVars
  <2>8. ASSUME EndJoin PROVE DoneInv'
    BY <2>8 DEF EndJoin, wsVars
  <2>9. ASSUME Interrupt PROVE DoneInv'
    BY <2>9 DEF Interrupt, wsVars
  <2>19. ASSUME InterruptMain PROVE DoneInv'
    BY <2>19 DEF InterruptMain, wsVars
  <2>10. ASSUME TearDownGroups PROVE DoneInv'
    BY <2>10 DEF TearDownGroups, wsVars
  <2>11. ASSUME ExitCode PROVE DoneInv'
    BY <2>11 DEF ExitCode, SomeFailed, wsVars
  <2>12. ASSUME Quit PROVE DoneInv'
    BY <2>12 DEF Quit, BeginExit, poolVars, wsVars
  <2>13. ASSUME NEW s \in Scenarios, CleanupAll(s), UNCHANGED poolVars PROVE DoneInv'
    BY <2>13 DEF CleanupAll, poolVars, wsVars
  <2>14. ASSUME EndExit, UNCHANGED poolVars PROVE DoneInv'
    BY <2>14 DEF EndExit, poolVars, wsVars
  <2>15. ASSUME Kill, PoolStart PROVE DoneInv'
    BY <2>15 DEF Kill, FreshRun, PoolStart, Points
  <2>16. ASSUME BetweenRuns, UNCHANGED poolVars PROVE DoneInv'
    BY <2>16 DEF BetweenRuns, EditFixture, CommitFixture, poolVars, wsVars
  <2>17. ASSUME NewRun, PoolStart PROVE DoneInv'
    BY <2>17 DEF NewRun, FreshRun, PoolStart, Points
  <2>18. CASE UNCHANGED allVars
    BY <2>18 DEF allVars, wsVars, poolVars
  <2> QED
    BY <2>1, <2>2, <2>3, <2>4, <2>5, <2>6, <2>7, <2>8, <2>9, <2>10, <2>11,
       <2>12, <2>13, <2>14, <2>15, <2>16, <2>17, <2>18, <2>19
       DEF PoolNext, MainStep, InterruptExit, WorkerStep
<1>3. ASSUME DoneInv, QueueInv, [PoolNext]_allVars PROVE QueueInv'
  <2> USE <1>3 DEF QueueInv
  <2>u. ASSUME UNCHANGED <<at, unsent, queue>> PROVE QueueInv'
    BY <2>u DEF Distinct, Waits
  <2>1. ASSUME proc = "up", Take PROVE QueueInv'
    <3>1. PICK s \in Scenarios : s = Head(queue) /\ (Construct(s) \/ ConstructFails(s))
      BY <2>1, TailElements DEF Take
    <3>2. queue # <<>> /\ queue' = Tail(queue) /\ unsent' = unsent
      BY <2>1 DEF Take
    <3>3. \A r \in Scenarios : r # s => at'[r] = at[r]
      BY <3>1, TakeMoves DEF DoneInv
    <3>4. \A i \in DOMAIN queue' : i + 1 \in DOMAIN queue /\ queue'[i] = queue[i + 1] /\ queue'[i] # s /\ i \in Nat
      BY <3>1, <3>2, TailElements DEF Distinct
    <3>5. \A i \in DOMAIN unsent : unsent[i] # s
      BY <3>1, <3>2, TailElements
    <3>6. unsent' \in Seq(Scenarios) /\ queue' \in Seq(Scenarios)
      BY <3>2, TailElements
    <3>7. Distinct(unsent)' /\ Distinct(queue)'
      BY <3>2, <3>4 DEF Distinct
    <3>8. \A i \in DOMAIN unsent', j \in DOMAIN queue' : unsent'[i] # queue'[j]
      BY <3>2, <3>4
    <3>9. Waits(unsent)' /\ Waits(queue)'
      BY <3>2, <3>3, <3>4, <3>5 DEF Waits
    <3> QED
      BY <3>6, <3>7, <3>8, <3>9
  <2>2. ASSUME proc = "up", NEW s \in Scenarios, Work(s) PROVE QueueInv'
    <3>1. at[s] # "idle" /\ InWorkspace(s) /\ UNCHANGED <<unsent, queue>>
      BY <2>2 DEF Work, Running, poolVars
    <3>2. \A r \in Scenarios : at[r] = "idle" => at'[r] = "idle"
      BY <3>1, WorkMoves DEF DoneInv
    <3> QED
      BY <3>1, <3>2 DEF Distinct, Waits
  <2>3. ASSUME proc = "up", NEW s \in Scenarios, Return(s) PROVE QueueInv'
    BY <2>3, <2>u DEF Return, wsVars
  <2>4. ASSUME Submit PROVE QueueInv'
    <3> DEFINE s == Head(unsent)
    <3>1. unsent # <<>> /\ unsent' = Tail(unsent) /\ queue' = Append(queue, s) /\ at' = at
      BY <2>4 DEF Submit, wsVars
    <3>2. s \in Scenarios /\ s = unsent[1] /\ 1 \in DOMAIN unsent
      BY <3>1, TailElements
    <3>3. \A i \in DOMAIN unsent' : i + 1 \in DOMAIN unsent /\ unsent'[i] = unsent[i + 1] /\ i \in Nat \ {0}
      BY <3>1, TailElements
    <3>4. \A i \in DOMAIN queue' : (i \in DOMAIN queue /\ queue'[i] = queue[i]) \/ (i = Len(queue) + 1 /\ queue'[i] = s)
      BY <3>1, <3>2, AppendElements
    <3>5. ASSUME NEW i \in DOMAIN unsent' PROVE unsent'[i] # s
      <4>1. i + 1 \in DOMAIN unsent /\ i + 1 # 1 /\ unsent'[i] = unsent[i + 1]
        BY <3>3
      <4> HIDE DEF s
      <4>2. unsent[i + 1] = unsent[1] => i + 1 = 1
        BY <3>2, <4>1 DEF Distinct
      <4> QED
        BY <3>2, <4>1, <4>2
    <3>6. \A i \in DOMAIN queue : queue[i] # s
      BY <3>2
    <3>7. unsent' \in Seq(Scenarios) /\ queue' \in Seq(Scenarios)
      BY <3>1, <3>2, TailElements, AppendElements
    <3>8. Distinct(unsent)' /\ Distinct(queue)'
      BY <3>3, <3>4, <3>6 DEF Distinct
    <3>9. \A i \in DOMAIN unsent', j \in DOMAIN queue' : unsent'[i] # queue'[j]
      BY <3>3, <3>4, <3>5
    <3>10. Waits(unsent)' /\ Waits(queue)'
      BY <3>1, <3>2, <3>3, <3>4 DEF Waits
    <3> QED
      BY <3>7, <3>8, <3>9, <3>10
  <2>5. ASSUME EndSubmit PROVE QueueInv'
    BY <2>5, <2>u DEF EndSubmit, wsVars
  <2>6. ASSUME NEW s \in Scenarios, Collect(s) PROVE QueueInv'
    BY <2>6, <2>u DEF Collect, wsVars
  <2>7. ASSUME EndCollect PROVE QueueInv'
    BY <2>7, <2>u DEF EndCollect, wsVars
  <2>8. ASSUME EndJoin PROVE QueueInv'
    BY <2>8, <2>u DEF EndJoin, wsVars
  <2>9. ASSUME Interrupt PROVE QueueInv'
    BY <2>9, <2>u DEF Interrupt, wsVars
  <2>19. ASSUME InterruptMain PROVE QueueInv'
    BY <2>19, <2>u DEF InterruptMain, wsVars
  <2>10. ASSUME TearDownGroups PROVE QueueInv'
    BY <2>10, <2>u DEF TearDownGroups, wsVars
  <2>11. ASSUME ExitCode PROVE QueueInv'
    BY <2>11, <2>u DEF ExitCode, SomeFailed, wsVars
  <2>12. ASSUME Quit PROVE QueueInv'
    BY <2>12, <2>u DEF Quit, BeginExit, poolVars
  <2>13. ASSUME NEW s \in Scenarios, CleanupAll(s), UNCHANGED poolVars PROVE QueueInv'
    BY <2>13, <2>u DEF CleanupAll, poolVars, wsVars
  <2>14. ASSUME EndExit, UNCHANGED poolVars PROVE QueueInv'
    BY <2>14, <2>u DEF EndExit, poolVars, wsVars
  <2>15. ASSUME Kill, PoolStart PROVE QueueInv'
    <3>1. unsent' = SetToSeq(Scenarios) /\ queue' = <<>> /\ at' = [s \in Scenarios |-> "idle"]
      BY <2>15 DEF Kill, FreshRun, PoolStart
    <3> QED
      BY <3>1, AllScenariosOnce DEF Distinct, Waits
  <2>16. ASSUME BetweenRuns, UNCHANGED poolVars PROVE QueueInv'
    BY <2>16, <2>u DEF BetweenRuns, EditFixture, CommitFixture, poolVars, wsVars
  <2>17. ASSUME NewRun, PoolStart PROVE QueueInv'
    <3>1. unsent' = SetToSeq(Scenarios) /\ queue' = <<>> /\ at' = [s \in Scenarios |-> "idle"]
      BY <2>17 DEF NewRun, FreshRun, PoolStart
    <3> QED
      BY <3>1, AllScenariosOnce DEF Distinct, Waits
  <2>18. CASE UNCHANGED allVars
    BY <2>18, <2>u DEF allVars, wsVars, poolVars
  <2> QED
    BY <2>1, <2>2, <2>3, <2>4, <2>5, <2>6, <2>7, <2>8, <2>9, <2>10, <2>11,
       <2>12, <2>13, <2>14, <2>15, <2>16, <2>17, <2>18, <2>19
       DEF PoolNext, MainStep, InterruptExit, WorkerStep
<1> QED
  BY <1>1, <1>2, <1>3, PTL DEF PoolSpec

-----------------------------------------------------------------------------
(* The pool of workers uses the workspaces as Workspace says: what is      *)
(* proved of any scenarios sharing a fixture holds of a run.               *)
THEOREM PoolImplementsWorkspace == PoolSpec => WsSpec
<1>1. PoolInit => WsInit
  BY DEF PoolInit
<1>2. ASSUME DoneInv, QueueInv, [PoolNext]_allVars PROVE [WsNext]_wsVars
  <2> USE <1>2
  <2>1. ASSUME proc = "up", Take PROVE [WsNext]_wsVars
    <3>1. PICK s \in Scenarios : Construct(s) \/ ConstructFails(s)
      BY <2>1, TailElements DEF Take, QueueInv
    <3> QED
      BY <2>1, <3>1 DEF WsNext
  <2>2. ASSUME proc = "up", NEW s \in Scenarios, Work(s) PROVE [WsNext]_wsVars
    BY <2>2 DEF Work, WsNext
  <2>3. ASSUME proc = "up", NEW s \in Scenarios, Return(s) PROVE [WsNext]_wsVars
    BY <2>3 DEF Return
  <2>4. ASSUME Submit PROVE [WsNext]_wsVars
    BY <2>4 DEF Submit
  <2>5. ASSUME EndSubmit PROVE [WsNext]_wsVars
    BY <2>5 DEF EndSubmit
  <2>6. ASSUME NEW s \in Scenarios, Collect(s) PROVE [WsNext]_wsVars
    BY <2>6 DEF Collect
  <2>7. ASSUME EndCollect PROVE [WsNext]_wsVars
    BY <2>7 DEF EndCollect
  <2>8. ASSUME EndJoin PROVE [WsNext]_wsVars
    BY <2>8 DEF EndJoin
  <2>9. ASSUME Interrupt PROVE [WsNext]_wsVars
    BY <2>9 DEF Interrupt
  <2>19. ASSUME InterruptMain PROVE [WsNext]_wsVars
    BY <2>19 DEF InterruptMain
  <2>10. ASSUME TearDownGroups PROVE [WsNext]_wsVars
    BY <2>10 DEF TearDownGroups
  <2>11. ASSUME ExitCode PROVE [WsNext]_wsVars
    BY <2>11 DEF ExitCode
  <2>12. ASSUME Quit PROVE [WsNext]_wsVars
    <3>1. \A s \in Scenarios : at[s] \in AtRest
      BY <2>12 DEF Quit, Running, DoneInv, AtRest
    <3> QED
      BY <2>12, <3>1 DEF Quit, WsNext
  <2>13. ASSUME NEW s \in Scenarios, CleanupAll(s), UNCHANGED poolVars PROVE [WsNext]_wsVars
    BY <2>13 DEF WsNext
  <2>14. ASSUME EndExit, UNCHANGED poolVars PROVE [WsNext]_wsVars
    BY <2>14 DEF WsNext
  <2>15. ASSUME Kill, PoolStart PROVE [WsNext]_wsVars
    BY <2>15 DEF WsNext
  <2>16. ASSUME BetweenRuns, UNCHANGED poolVars PROVE [WsNext]_wsVars
    BY <2>16 DEF WsNext
  <2>17. ASSUME NewRun, PoolStart PROVE [WsNext]_wsVars
    BY <2>17 DEF WsNext
  <2>18. CASE UNCHANGED allVars
    BY <2>18 DEF allVars
  <2> QED
    BY <2>1, <2>2, <2>3, <2>4, <2>5, <2>6, <2>7, <2>8, <2>9, <2>10, <2>11,
       <2>12, <2>13, <2>14, <2>15, <2>16, <2>17, <2>18, <2>19
       DEF PoolNext, MainStep, InterruptExit, WorkerStep
<1> QED
  BY <1>1, <1>2, DoneAndQueued, PTL DEF PoolSpec, WsSpec

(* So the scenarios of a run make no repository twice, work on what the    *)
(* fixture holds, and leave no worktree behind.                            *)
THEOREM WorkspacesOfARun == PoolSpec => [](NeverReinit /\ FreshSnapshot /\ ExitClean)
BY PoolImplementsWorkspace, NeverReinitAlways, SnapshotsAreFresh, ExitsAreClean, PTL

-----------------------------------------------------------------------------
LEMMA QuietStays ==
  ASSUME DoneInv, QueueInv, [PoolNext]_allVars, Quiet, main # "submit"
  PROVE  Quiet'
<1> USE DEF Quiet
<1>1. ASSUME proc = "up", Take PROVE Quiet'
  BY <1>1 DEF Take
<1>2. ASSUME proc = "up", NEW s \in Scenarios, Work(s) PROVE Quiet'
  BY <1>2 DEF Work
<1>3. ASSUME proc = "up", NEW s \in Scenarios, Return(s) PROVE Quiet'
  BY <1>3 DEF Return
<1>4. ASSUME Submit PROVE Quiet'
  BY <1>4 DEF Submit, wsVars, Running
<1>5. ASSUME EndSubmit PROVE Quiet'
  BY <1>5 DEF EndSubmit, wsVars, Running
<1>6. ASSUME NEW s \in Scenarios, Collect(s) PROVE Quiet'
  BY <1>6 DEF Collect, wsVars, Running
<1>7. ASSUME EndCollect PROVE Quiet'
  BY <1>7 DEF EndCollect, wsVars, Running
<1>8. ASSUME EndJoin PROVE Quiet'
  BY <1>8 DEF EndJoin, wsVars, Running
<1>9. ASSUME Interrupt PROVE Quiet'
  BY <1>9 DEF Interrupt, wsVars, Running
<1>19. ASSUME InterruptMain PROVE Quiet'
  BY <1>19 DEF InterruptMain, wsVars, Running
<1>10. ASSUME TearDownGroups PROVE Quiet'
  BY <1>10 DEF TearDownGroups, wsVars, Running
<1>11. ASSUME ExitCode PROVE Quiet'
  BY <1>11 DEF ExitCode, SomeFailed, wsVars, Running
<1>12. ASSUME Quit PROVE Quiet'
  BY <1>12 DEF Quit, BeginExit, poolVars, wsVars, Running
<1>13. ASSUME NEW s \in Scenarios, CleanupAll(s), UNCHANGED poolVars PROVE Quiet'
  BY <1>13 DEF CleanupAll, poolVars, wsVars, Running
<1>14. ASSUME EndExit, UNCHANGED poolVars PROVE Quiet'
  BY <1>14 DEF EndExit, poolVars, wsVars, Running
<1>15. ASSUME Kill, PoolStart PROVE Quiet'
  BY <1>15 DEF Kill, FreshRun, PoolStart, wsVars, Running
<1>16. ASSUME BetweenRuns, UNCHANGED poolVars PROVE Quiet'
  BY <1>16 DEF BetweenRuns, EditFixture, CommitFixture, poolVars, wsVars, Running
<1>17. ASSUME NewRun, PoolStart PROVE Quiet'
  BY <1>17 DEF NewRun, FreshRun, PoolStart, wsVars, Running
<1>18. CASE UNCHANGED allVars
  BY <1>18 DEF allVars, wsVars, poolVars, Running
<1> QED
  BY <1>1, <1>2, <1>3, <1>4, <1>5, <1>6, <1>7, <1>8, <1>9, <1>10, <1>11,
     <1>12, <1>13, <1>14, <1>15, <1>16, <1>17, <1>18, <1>19
     DEF PoolNext, MainStep, InterruptExit, WorkerStep

(* The stages of the main thread come in order, and each leaves behind what*)
(* the next relies on, whenever a Ctrl-C strikes.                          *)
THEOREM MainAlways == PoolSpec => []MainInv
<1> USE WorkspaceAssumption, PoolAssumption
<1>1. PoolInit => MainInv
  BY DEF PoolInit, MainInv, Stages
<1>2. ASSUME DoneInv, QueueInv, QueueInv', MainInv, [PoolNext]_allVars PROVE MainInv'
  <2> USE <1>2 DEF MainInv, Stages
  <2>q. Quiet /\ main # "submit" => Quiet'
    BY QuietStays
  <2>1. ASSUME proc = "up", Take PROVE MainInv'
    BY <2>1, <2>q DEF Take, wsVars, SomeFailed
  <2>2. ASSUME proc = "up", NEW s \in Scenarios, Work(s) PROVE MainInv'
    BY <2>2, <2>q DEF Work, poolVars, wsVars, SomeFailed
  <2>3. ASSUME proc = "up", NEW s \in Scenarios, Return(s) PROVE MainInv'
    <3>1. outcome[s] = "pending" /\ \A r \in Scenarios : r # s => outcome'[r] = outcome[r]
      BY <2>3 DEF Return, Running, DoneInv
    <3>2. \A r \in collected : outcome'[r] = outcome[r]
      BY <3>1
    <3> QED
      BY <2>3, <2>q, <3>2 DEF Return, SomeFailed
  <2>4. ASSUME Submit PROVE MainInv'
    BY <2>4, <2>q DEF Submit, wsVars, SomeFailed
  <2>5. ASSUME EndSubmit PROVE MainInv'
    BY <2>5, <2>q DEF EndSubmit, wsVars, SomeFailed
  <2>6. ASSUME NEW s \in Scenarios, Collect(s) PROVE MainInv'
    <3>1. main = "collect" /\ main' = main /\ collected' = collected \cup {s} /\ outcome[s] # "pending"
      BY <2>6 DEF Collect
    <3>2. UNCHANGED <<groupFailed, torn, unsent, outcome, interrupts, interrupted, code>>
      BY <2>6 DEF Collect
    <3> QED
      BY <3>1, <3>2
  <2>7. ASSUME EndCollect PROVE MainInv'
    <3>1. unsent = <<>> /\ collected = Scenarios
      BY <2>7 DEF EndCollect, Submitted, ToSet
    <3>2. Running = {}
      BY <3>1 DEF Running
    <3>3. queue = <<>>
      <4>1. queue # <<>> => Head(queue) \in Scenarios /\ at[Head(queue)] = "idle"
        BY TailElements DEF QueueInv, Waits
      <4> QED
        BY <3>1, <4>1 DEF DoneInv
    <3>4. UNCHANGED <<at, queue, outcome>>
      BY <2>7 DEF EndCollect, wsVars
    <3>5. Quiet'
      BY <3>2, <3>3, <3>4 DEF Quiet, Running
    <3> QED
      BY <2>7, <3>1, <3>5 DEF EndCollect, SomeFailed
  <2>8. ASSUME EndJoin PROVE MainInv'
    <3>1. Quiet /\ main = "join"
      BY <2>8 DEF EndJoin, Quiet
    <3> QED
      BY <2>8, <2>q, <3>1 DEF EndJoin, SomeFailed
  <2>9. ASSUME Interrupt PROVE MainInv'
    <3>1. interrupts' = interrupts + 1 /\ (interrupted \/ main # "teardown" => interrupted')
      BY <2>9 DEF Interrupt
    <3>2. interrupted' => interrupted \/ main # "teardown"
      BY <2>9 DEF Interrupt
    <3>3. UNCHANGED <<unsent, outcome, collected, torn, code, groupFailed>>
      BY <2>9 DEF Interrupt
    <3>4. SomeFailed' = SomeFailed
      BY <3>3 DEF SomeFailed
    <3>5. \/ main \in {"submit", "collect"} /\ main' = "join"
          \/ main = "join" /\ main' = "teardown"
          \/ main = "teardown" /\ main' = "exit"
      BY <2>9 DEF Interrupt
    <3>6. Quiet /\ main # "submit" => Quiet'
      BY <2>q
    <3> QED
      BY <3>1, <3>2, <3>3, <3>4, <3>5, <3>6
  <2>19. ASSUME InterruptMain PROVE MainInv'
    BY <2>19, <2>q DEF InterruptMain, wsVars, SomeFailed
  <2>10. ASSUME TearDownGroups PROVE MainInv'
    BY <2>10, <2>q DEF TearDownGroups, wsVars, SomeFailed
  <2>11. ASSUME ExitCode PROVE MainInv'
    BY <2>11, <2>q DEF ExitCode, SomeFailed, wsVars, SomeFailed
  <2>12. ASSUME Quit PROVE MainInv'
    BY <2>12, <2>q DEF Quit, BeginExit, poolVars, wsVars, SomeFailed
  <2>13. ASSUME NEW s \in Scenarios, CleanupAll(s), UNCHANGED poolVars PROVE MainInv'
    BY <2>13, <2>q DEF CleanupAll, poolVars, wsVars, SomeFailed
  <2>14. ASSUME EndExit, UNCHANGED poolVars PROVE MainInv'
    BY <2>14, <2>q DEF EndExit, poolVars, wsVars, SomeFailed
  <2>15. ASSUME Kill, PoolStart PROVE MainInv'
    BY <2>15, <2>q DEF Kill, FreshRun, PoolStart, wsVars, SomeFailed
  <2>16. ASSUME BetweenRuns, UNCHANGED poolVars PROVE MainInv'
    BY <2>16, <2>q DEF BetweenRuns, EditFixture, CommitFixture, poolVars, wsVars, SomeFailed
  <2>17. ASSUME NewRun, PoolStart PROVE MainInv'
    BY <2>17, <2>q DEF NewRun, FreshRun, PoolStart, wsVars, SomeFailed
  <2>18. CASE UNCHANGED allVars
    BY <2>18, <2>q DEF allVars, wsVars, poolVars, SomeFailed
  <2> QED
    BY <2>1, <2>2, <2>3, <2>4, <2>5, <2>6, <2>7, <2>8, <2>9, <2>10, <2>11,
       <2>12, <2>13, <2>14, <2>15, <2>16, <2>17, <2>18, <2>19
       DEF PoolNext, MainStep, InterruptExit, WorkerStep
<1> QED
  BY <1>1, <1>2, DoneAndQueued, PTL DEF PoolSpec

(* Group resources come down only when no scenario of the run executes or  *)
(* waits for a worker, however many there are and wherever the user's one  *)
(* Ctrl-C falls.                                                           *)
THEOREM TeardownComesLast == PoolSpec => []TeardownAfterScenarios
<1>1. MainInv => TeardownAfterScenarios
  BY DEF MainInv, TeardownAfterScenarios, Quiet
<1> QED
  BY <1>1, MainAlways, PTL

(* Exit code 0 is given only when every group came up and every scenario   *)
(* has a future that is done and reported no error.                        *)
THEOREM ZeroIsEarned == PoolSpec => []ZeroMeansAllRan
<1>1. DoneInv /\ MainInv => ZeroMeansAllRan
  BY DEF DoneInv, MainInv, ZeroMeansAllRan, SomeFailed
<1> QED
  BY <1>1, MainAlways, DoneAndQueued, PTL
=============================================================================
