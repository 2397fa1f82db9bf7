--------------------------- MODULE ManifestProofs ---------------------------
(***************************************************************************)
(* Theorems about Manifest, for any number of runs, pids and groups: the   *)
(* file and its lock, the runs of one process each, and, in the second     *)
(* part, that Manifest implements RunRegistry and that nothing a run has   *)
(* set up is forgotten.  The state of the registry is the logical content  *)
(* of the file, so those proofs first reduce the actions of Manifest to    *)
(* what they do to that content and to the set of live runs (LogicalSteps);*)
(* everything after that argues about those few kinds of step.  The third  *)
(* part puts gc beside the runs (OutcomesGc): any --keep-last, any number  *)
(* of invocations.                                                         *)
(***************************************************************************)
EXTENDS OutcomesGc, TLAPS, SequenceTheorems

(* Runs that are up have a pid of their own, which no foreign process has. *)
PidInv ==
  /\ \A r \in Up : pid[r] \in Pids \ foreign
  /\ \A r, q \in Up : pid[r] = pid[q] => r = q

(* All entries that exist anywhere: in the file, in some process's copy,   *)
(* or waiting to be examined.                                              *)
Held(r) == data[r].runs \cup todo[r]

(* An entry names a run that has started, under that run's own pid.        *)
Genuine(e) == pc[e.run] # "new" /\ (e.run \in Up => e.pid = pid[e.run])

EntryInv ==
  /\ \A e \in disk.runs : Genuine(e)
  /\ \A r \in Runs : \A e \in Held(r) : Genuine(e)

(* Only resources of dead runs are ever put up for deletion.               *)
DoomedInv == \A r, q \in Runs, g \in Groups : <<q, g>> \in doomed[r] => pc[q] = "gone"

-----------------------------------------------------------------------------
LEMMA NoDataType == NoData \in Data
BY DEF NoData, Data

ResType == [Runs -> [Groups -> {"none", "up", "down"}]]

LEMMA TearDownType ==
  ASSUME NEW q \in Runs, NEW g \in Groups, res \in ResType, tried \in [Runs -> SUBSET Groups],
         unmade \in [Runs -> SUBSET Groups], TearDown(q, g)
  PROVE  res' \in ResType /\ tried' \in [Runs -> SUBSET Groups] /\ unmade' \in [Runs -> SUBSET Groups]
<1>1. res' \in ResType
  <2>1. [res[q] EXCEPT ![g] = "down"] \in [Groups -> {"none", "up", "down"}]
    BY DEF ResType
  <2>2. res' = res \/ res' = [res EXCEPT ![q][g] = "down"]
    BY DEF TearDown
  <2> QED
    BY <2>1, <2>2 DEF ResType
<1>2. tried' \in [Runs -> SUBSET Groups] /\ unmade' \in [Runs -> SUBSET Groups]
  BY DEF TearDown
<1> QED
  BY <1>1, <1>2

(* A teardown makes no resource one that never was.                        *)
LEMMA TearDownKeeps ==
  ASSUME NEW q \in Runs, NEW g \in Groups, res \in ResType, TearDown(q, g),
         NEW r \in Runs, NEW h \in Groups, res[r][h] # "none"
  PROVE  res'[r][h] # "none"
<1>1. CASE res' = res
  BY <1>1
<1>2. CASE res' = [res EXCEPT ![q][g] = "down"]
  <2>1. res'[r] = IF r = q THEN [res[q] EXCEPT ![g] = "down"] ELSE res[r]
    BY <1>2 DEF ResType
  <2>2. [res[q] EXCEPT ![g] = "down"][h] = IF h = g THEN "down" ELSE res[q][h]
    BY DEF ResType
  <2> QED
    BY <2>1, <2>2
<1> QED
  BY <1>1, <1>2 DEF TearDown

(* Everything the code stores in the manifest, its copies of it and its    *)
(* program points stays in the expected sets, and pids are not shared.     *)
THEOREM TypeCorrect == Spec => [](TypeOK /\ PidInv)
<1> USE ManifestAssumption
<1>1. Init => TypeOK /\ PidInv
  BY NoDataType DEF Init, TypeOK, PidInv, Up, Stages
<1>2. ASSUME TypeOK, PidInv, [Next]_vars PROVE TypeOK'
  <2> USE <1>2 DEF TypeOK, ResType, Stages, Holding, Flushing
  <2>1. ASSUME NEW r \in Runs, Start(r) PROVE TypeOK'
    BY <2>1 DEF Start
  <2>2. ASSUME NEW r \in Runs, NothingToReap(r) PROVE TypeOK'
    BY <2>2 DEF NothingToReap, EnterSetup, Refreshed
  <2>3. ASSUME NEW r \in Runs, BeginReap(r) PROVE TypeOK'
    <3>1. disk.runs \in SUBSET Entry
      BY DEF Data
    <3> QED
      BY <2>3, <3>1 DEF BeginReap, Refreshed
  <2>4. ASSUME NEW r \in Runs, NEW e \in todo[r], Examine(r, e) PROVE TypeOK'
    <3>1. data' \in [Runs -> Data]
      <4>1. [data[r] EXCEPT !.runs = @ \ {e}] \in Data
        BY DEF Data
      <4>2. CASE UNCHANGED data
        BY <4>2
      <4>3. CASE data' = [data EXCEPT ![r].runs = @ \ {e}]
        BY <4>1, <4>3
      <4> QED
        BY <2>4, <4>2, <4>3 DEF Examine
    <3>2. doomed' \in [Runs -> SUBSET (Runs \X Groups)]
      <4>1. {e.run} \X e.groups \in SUBSET (Runs \X Groups)
        BY DEF Entry
      <4> QED
        BY <2>4, <4>1 DEF Examine
    <3>3. todo' \in [Runs -> SUBSET Entry]
      BY <2>4 DEF Examine
    <3> QED
      BY <2>4, <3>1, <3>2, <3>3 DEF Examine
  <2>5. ASSUME NEW r \in Runs, NEW q \in Runs, NEW g \in Groups, DeleteOrphan(r, q, g) PROVE TypeOK'
    BY <2>5, TearDownType DEF DeleteOrphan
  <2>6. ASSUME NEW r \in Runs, EndReap(r) PROVE TypeOK'
    BY <2>6, NoDataType DEF EndReap
  <2>7. ASSUME NEW r \in Runs, FlushReap(r) PROVE TypeOK'
    BY <2>7 DEF FlushReap, Fill, EnterSetup
  <2>8. ASSUME NEW r \in Runs, NEW g \in Groups, SetupOk(r, g) PROVE TypeOK'
    BY <2>8 DEF SetupOk, SettingUp
  <2>9. ASSUME NEW r \in Runs, NEW g \in Groups, SetupFail(r, g) PROVE TypeOK'
    BY <2>9 DEF SetupFail, SettingUp
  <2>10. ASSUME NEW r \in Runs, AbortSetup(r) PROVE TypeOK'
    BY <2>10 DEF AbortSetup, SetupDone
  <2>11. ASSUME NEW r \in Runs, RegisterRun(r) PROVE TypeOK'
    <3>1. EntryOf(r) \in Entry
      BY <2>11 DEF RegisterRun, SetupDone, PidInv, Up, EntryOf, SetUp, Entry
    <3>2. [runs |-> disk.runs \cup {EntryOf(r)}, latest |-> r] \in Data
      BY <3>1 DEF Data
    <3> QED
      BY <2>11, <3>2, NoDataType DEF RegisterRun, LockAndTruncate, Refreshed
  <2>12. ASSUME NEW r \in Runs, FlushRegister(r) PROVE TypeOK'
    BY <2>12 DEF FlushRegister, Fill
  <2>13. ASSUME NEW r \in Runs, FinishScenarios(r) PROVE TypeOK'
    <3>1. SetUp(r) \in SUBSET Groups
      BY DEF SetUp
    <3>2. left' \in [Runs -> SUBSET Groups]
      BY <2>13, <3>1 DEF FinishScenarios
    <3>3. pc' \in [Runs -> Stages]
      BY <2>13 DEF FinishScenarios
    <3> QED
      BY <2>13, <3>2, <3>3 DEF FinishScenarios
  <2>14. ASSUME NEW r \in Runs, NEW g \in Groups, TeardownGroup(r, g) PROVE TypeOK'
    BY <2>14, TearDownType DEF TeardownGroup
  <2>15. ASSUME NEW r \in Runs, InterruptTeardown(r) PROVE TypeOK'
    BY <2>15 DEF InterruptTeardown
  <2>16. ASSUME NEW r \in Runs, UnregisterRun(r) PROVE TypeOK'
    <3>1. WithoutPid(disk, pid[r]) \in Data
      BY DEF WithoutPid, Data
    <3> QED
      BY <2>16, <3>1, NoDataType DEF UnregisterRun, LockAndTruncate, Refreshed
  <2>17. ASSUME NEW r \in Runs, FlushUnregister(r) PROVE TypeOK'
    BY <2>17 DEF FlushUnregister, Fill
  <2>18. ASSUME NEW r \in Runs, Exit(r) PROVE TypeOK'
    BY <2>18 DEF Exit
  <2>19. ASSUME NEW r \in Runs, LockTimeout(r) PROVE TypeOK'
    BY <2>19 DEF LockTimeout, WaitsForLock, SetupDone
  <2>20. ASSUME NEW r \in Runs, Crash(r) PROVE TypeOK'
    BY <2>20 DEF Crash
  <2>21. ASSUME NEW p \in Pids, ForeignTakes(p) \/ ForeignLeaves(p) PROVE TypeOK'
    BY <2>21 DEF ForeignTakes, ForeignLeaves
  <2>22. CASE UNCHANGED vars
    BY <2>22 DEF vars
  <2> QED
    BY <2>1, <2>2, <2>3, <2>4, <2>5, <2>6, <2>7, <2>8, <2>9, <2>10, <2>11,
       <2>12, <2>13, <2>14, <2>15, <2>16, <2>17, <2>18, <2>19, <2>20, <2>21, <2>22
       DEF Next, Progress, AllGone
<1>3. ASSUME TypeOK, PidInv, [Next]_vars PROVE PidInv'
  <2> USE <1>3 DEF TypeOK, PidInv, Up, Stages, Holding, Flushing
  <2>1. ASSUME NEW r \in Runs, Start(r) PROVE PidInv'
    BY <2>1 DEF Start
  <2>2. ASSUME NEW r \in Runs, NothingToReap(r) PROVE PidInv'
    BY <2>2 DEF NothingToReap, EnterSetup, Refreshed
  <2>3. ASSUME NEW r \in Runs, BeginReap(r) PROVE PidInv'
    BY <2>3 DEF BeginReap, Refreshed
  <2>4. ASSUME NEW r \in Runs, NEW e \in todo[r], Examine(r, e) PROVE PidInv'
    BY <2>4 DEF Examine
  <2>5. ASSUME NEW r \in Runs, NEW q \in Runs, NEW g \in Groups, DeleteOrphan(r, q, g) PROVE PidInv'
    BY <2>5 DEF DeleteOrphan, TearDown
  <2>6. ASSUME NEW r \in Runs, EndReap(r) PROVE PidInv'
    BY <2>6 DEF EndReap
  <2>7. ASSUME NEW r \in Runs, FlushReap(r) PROVE PidInv'
    BY <2>7 DEF FlushReap, Fill, EnterSetup
  <2>8. ASSUME NEW r \in Runs, NEW g \in Groups, SetupOk(r, g) PROVE PidInv'
    BY <2>8 DEF SetupOk, SettingUp
  <2>9. ASSUME NEW r \in Runs, NEW g \in Groups, SetupFail(r, g) PROVE PidInv'
    BY <2>9 DEF SetupFail, SettingUp
  <2>10. ASSUME NEW r \in Runs, AbortSetup(r) PROVE PidInv'
    BY <2>10 DEF AbortSetup, SetupDone
  <2>11. ASSUME NEW r \in Runs, RegisterRun(r) PROVE PidInv'
    BY <2>11 DEF RegisterRun, LockAndTruncate, SetupDone, Refreshed
  <2>12. ASSUME NEW r \in Runs, FlushRegister(r) PROVE PidInv'
    BY <2>12 DEF FlushRegister, Fill
  <2>13. ASSUME NEW r \in Runs, FinishScenarios(r) PROVE PidInv'
    BY ZenonT(40), <2>13 DEF FinishScenarios
  <2>14. ASSUME NEW r \in Runs, NEW g \in Groups, TeardownGroup(r, g) PROVE PidInv'
    BY <2>14 DEF TeardownGroup, TearDown
  <2>15. ASSUME NEW r \in Runs, InterruptTeardown(r) PROVE PidInv'
    BY <2>15 DEF InterruptTeardown
  <2>16. ASSUME NEW r \in Runs, UnregisterRun(r) PROVE PidInv'
    BY <2>16 DEF UnregisterRun, LockAndTruncate, Refreshed
  <2>17. ASSUME NEW r \in Runs, FlushUnregister(r) PROVE PidInv'
    BY <2>17 DEF FlushUnregister, Fill
  <2>18. ASSUME NEW r \in Runs, Exit(r) PROVE PidInv'
    BY <2>18 DEF Exit
  <2>19. ASSUME NEW r \in Runs, LockTimeout(r) PROVE PidInv'
    BY <2>19 DEF LockTimeout, WaitsForLock, SetupDone
  <2>20. ASSUME NEW r \in Runs, Crash(r) PROVE PidInv'
    BY <2>20 DEF Crash
  <2>21. ASSUME NEW p \in Pids, ForeignTakes(p) \/ ForeignLeaves(p) PROVE PidInv'
    BY <2>21 DEF ForeignTakes, ForeignLeaves
  <2>22. CASE UNCHANGED vars
    BY <2>22 DEF vars
  <2> QED
    BY <2>1, <2>2, <2>3, <2>4, <2>5, <2>6, <2>7, <2>8, <2>9, <2>10, <2>11,
       <2>12, <2>13, <2>14, <2>15, <2>16, <2>17, <2>18, <2>19, <2>20, <2>21, <2>22
       DEF Next, Progress, AllGone
<1> QED
  BY <1>1, <1>2, <1>3, PTL DEF Spec

(* At most one process changes the manifest at a time: the file lock is    *)
(* held exactly by the process between refreshing and writing.             *)
THEOREM OneWriterAlways == Spec => []OneWriter
<1> USE ManifestAssumption
<1>1. Init => OneWriter
  BY DEF Init, OneWriter, Holding, Flushing
<1>2. ASSUME TypeOK, OneWriter, [Next]_vars PROVE OneWriter'
  <2> USE <1>2 DEF TypeOK, OneWriter, Stages, Holding, Flushing
  <2>1. ASSUME NEW r \in Runs, Start(r) PROVE OneWriter'
    BY <2>1 DEF Start
  <2>2. ASSUME NEW r \in Runs, NothingToReap(r) PROVE OneWriter'
    BY <2>2 DEF NothingToReap, EnterSetup, Refreshed
  <2>3. ASSUME NEW r \in Runs, BeginReap(r) PROVE OneWriter'
    BY <2>3 DEF BeginReap, Refreshed
  <2>4. ASSUME NEW r \in Runs, NEW e \in todo[r], Examine(r, e) PROVE OneWriter'
    BY <2>4 DEF Examine
  <2>5. ASSUME NEW r \in Runs, NEW q \in Runs, NEW g \in Groups, DeleteOrphan(r, q, g) PROVE OneWriter'
    BY <2>5 DEF DeleteOrphan, TearDown
  <2>6. ASSUME NEW r \in Runs, EndReap(r) PROVE OneWriter'
    BY <2>6 DEF EndReap
  <2>7. ASSUME NEW r \in Runs, FlushReap(r) PROVE OneWriter'
    BY <2>7 DEF FlushReap, Fill, EnterSetup
  <2>8. ASSUME NEW r \in Runs, NEW g \in Groups, SetupOk(r, g) PROVE OneWriter'
    BY <2>8 DEF SetupOk, SettingUp
  <2>9. ASSUME NEW r \in Runs, NEW g \in Groups, SetupFail(r, g) PROVE OneWriter'
    BY <2>9 DEF SetupFail, SettingUp
  <2>10. ASSUME NEW r \in Runs, AbortSetup(r) PROVE OneWriter'
    BY <2>10 DEF AbortSetup, SetupDone
  <2>11. ASSUME NEW r \in Runs, RegisterRun(r) PROVE OneWriter'
    BY <2>11 DEF RegisterRun, LockAndTruncate, SetupDone, Refreshed
  <2>12. ASSUME NEW r \in Runs, FlushRegister(r) PROVE OneWriter'
    BY <2>12 DEF FlushRegister, Fill
  <2>13. ASSUME NEW r \in Runs, FinishScenarios(r) PROVE OneWriter'
    BY <2>13 DEF FinishScenarios
  <2>14. ASSUME NEW r \in Runs, NEW g \in Groups, TeardownGroup(r, g) PROVE OneWriter'
    BY <2>14 DEF TeardownGroup, TearDown
  <2>15. ASSUME NEW r \in Runs, InterruptTeardown(r) PROVE OneWriter'
    BY <2>15 DEF InterruptTeardown
  <2>16. ASSUME NEW r \in Runs, UnregisterRun(r) PROVE OneWriter'
    BY <2>16 DEF UnregisterRun, LockAndTruncate, Refreshed
  <2>17. ASSUME NEW r \in Runs, FlushUnregister(r) PROVE OneWriter'
    BY <2>17 DEF FlushUnregister, Fill
  <2>18. ASSUME NEW r \in Runs, Exit(r) PROVE OneWriter'
    BY <2>18 DEF Exit
  <2>19. ASSUME NEW r \in Runs, LockTimeout(r) PROVE OneWriter'
    BY <2>19 DEF LockTimeout, WaitsForLock, SetupDone
  <2>20. ASSUME NEW r \in Runs, Crash(r) PROVE OneWriter'
    BY <2>20 DEF Crash
  <2>21. ASSUME NEW p \in Pids, ForeignTakes(p) \/ ForeignLeaves(p) PROVE OneWriter'
    BY <2>21 DEF ForeignTakes, ForeignLeaves
  <2>22. CASE UNCHANGED vars
    BY <2>22 DEF vars
  <2> QED
    BY <2>1, <2>2, <2>3, <2>4, <2>5, <2>6, <2>7, <2>8, <2>9, <2>10, <2>11,
       <2>12, <2>13, <2>14, <2>15, <2>16, <2>17, <2>18, <2>19, <2>20, <2>21, <2>22
       DEF Next, Progress, AllGone
<1> QED
  BY <1>1, <1>2, TypeCorrect, PTL DEF Spec

-----------------------------------------------------------------------------
(* Pids are given once and a run that is over stays over.                  *)
LEMMA GenuineKept ==
  ASSUME TypeOK, PidInv, [Next]_vars, NEW e0 \in Entry, Genuine(e0)
  PROVE  Genuine(e0)'
<1> DEFINE G == Genuine(e0)
<1>0. e0.run \in Runs
  BY DEF Entry
<1> SUFFICES G'
  OBVIOUS
<1> USE <1>0 DEF TypeOK, Genuine, Up, Stages, Holding, Flushing
<1>1. ASSUME NEW r \in Runs, Start(r) PROVE G'
  BY <1>1 DEF Start
<1>2. ASSUME NEW r \in Runs, NothingToReap(r) PROVE G'
  BY <1>2 DEF NothingToReap, EnterSetup, Refreshed
<1>3. ASSUME NEW r \in Runs, BeginReap(r) PROVE G'
  BY <1>3 DEF BeginReap, Refreshed
<1>4. ASSUME NEW r \in Runs, NEW e \in todo[r], Examine(r, e) PROVE G'
  BY <1>4 DEF Examine
<1>5. ASSUME NEW r \in Runs, NEW q \in Runs, NEW g \in Groups, DeleteOrphan(r, q, g) PROVE G'
  BY <1>5 DEF DeleteOrphan, TearDown
<1>6. ASSUME NEW r \in Runs, EndReap(r) PROVE G'
  BY <1>6 DEF EndReap
<1>7. ASSUME NEW r \in Runs, FlushReap(r) PROVE G'
  BY <1>7 DEF FlushReap, Fill, EnterSetup
<1>8. ASSUME NEW r \in Runs, NEW g \in Groups, SetupOk(r, g) PROVE G'
  BY <1>8 DEF SetupOk, SettingUp
<1>9. ASSUME NEW r \in Runs, NEW g \in Groups, SetupFail(r, g) PROVE G'
  BY <1>9 DEF SetupFail, SettingUp
<1>10. ASSUME NEW r \in Runs, AbortSetup(r) PROVE G'
  BY <1>10 DEF AbortSetup, SetupDone
<1>11. ASSUME NEW r \in Runs, RegisterRun(r) PROVE G'
  BY <1>11 DEF RegisterRun, LockAndTruncate, SetupDone, Refreshed
<1>12. ASSUME NEW r \in Runs, FlushRegister(r) PROVE G'
  BY <1>12 DEF FlushRegister, Fill
<1>13. ASSUME NEW r \in Runs, FinishScenarios(r) PROVE G'
  BY <1>13 DEF FinishScenarios
<1>14. ASSUME NEW r \in Runs, NEW g \in Groups, TeardownGroup(r, g) PROVE G'
  BY <1>14 DEF TeardownGroup, TearDown
<1>15. ASSUME NEW r \in Runs, InterruptTeardown(r) PROVE G'
  BY <1>15 DEF InterruptTeardown
<1>16. ASSUME NEW r \in Runs, UnregisterRun(r) PROVE G'
  BY <1>16 DEF UnregisterRun, LockAndTruncate, Refreshed
<1>17. ASSUME NEW r \in Runs, FlushUnregister(r) PROVE G'
  BY <1>17 DEF FlushUnregister, Fill
<1>18. ASSUME NEW r \in Runs, Exit(r) PROVE G'
  BY <1>18 DEF Exit
<1>19. ASSUME NEW r \in Runs, LockTimeout(r) PROVE G'
  BY <1>19 DEF LockTimeout, WaitsForLock, SetupDone
<1>20. ASSUME NEW r \in Runs, Crash(r) PROVE G'
  BY <1>20 DEF Crash
<1>21. ASSUME NEW p \in Pids, ForeignTakes(p) \/ ForeignLeaves(p) PROVE G'
  BY <1>21 DEF ForeignTakes, ForeignLeaves
<1>22. CASE UNCHANGED vars
  BY <1>22 DEF vars
<1> QED
  BY <1>1, <1>2, <1>3, <1>4, <1>5, <1>6, <1>7, <1>8, <1>9, <1>10, <1>11,
     <1>12, <1>13, <1>14, <1>15, <1>16, <1>17, <1>18, <1>19, <1>20, <1>21, <1>22
     DEF Next, Progress, AllGone

LEMMA GoneForGood ==
  ASSUME TypeOK, [Next]_vars, NEW q0 \in Runs, pc[q0] = "gone"
  PROVE  pc'[q0] = "gone"
<1> USE DEF TypeOK, Up, Stages, Holding, Flushing
<1>1. ASSUME NEW r \in Runs, Start(r) PROVE pc'[q0] = "gone"
  BY <1>1 DEF Start
<1>2. ASSUME NEW r \in Runs, NothingToReap(r) PROVE pc'[q0] = "gone"
  BY <1>2 DEF NothingToReap, EnterSetup, Refreshed
<1>3. ASSUME NEW r \in Runs, BeginReap(r) PROVE pc'[q0] = "gone"
  BY <1>3 DEF BeginReap, Refreshed
<1>4. ASSUME NEW r \in Runs, NEW e \in todo[r], Examine(r, e) PROVE pc'[q0] = "gone"
  BY <1>4 DEF Examine
<1>5. ASSUME NEW r \in Runs, NEW q \in Runs, NEW g \in Groups, DeleteOrphan(r, q, g) PROVE pc'[q0] = "gone"
  BY <1>5 DEF DeleteOrphan, TearDown
<1>6. ASSUME NEW r \in Runs, EndReap(r) PROVE pc'[q0] = "gone"
  BY <1>6 DEF EndReap
<1>7. ASSUME NEW r \in Runs, FlushReap(r) PROVE pc'[q0] = "gone"
  BY <1>7 DEF FlushReap, Fill, EnterSetup
<1>8. ASSUME NEW r \in Runs, NEW g \in Groups, SetupOk(r, g) PROVE pc'[q0] = "gone"
  BY <1>8 DEF SetupOk, SettingUp
<1>9. ASSUME NEW r \in Runs, NEW g \in Groups, SetupFail(r, g) PROVE pc'[q0] = "gone"
  BY <1>9 DEF SetupFail, SettingUp
<1>10. ASSUME NEW r \in Runs, AbortSetup(r) PROVE pc'[q0] = "gone"
  BY <1>10 DEF AbortSetup, SetupDone
<1>11. ASSUME NEW r \in Runs, RegisterRun(r) PROVE pc'[q0] = "gone"
  BY <1>11 DEF RegisterRun, LockAndTruncate, SetupDone, Refreshed
<1>12. ASSUME NEW r \in Runs, FlushRegister(r) PROVE pc'[q0] = "gone"
  BY <1>12 DEF FlushRegister, Fill
<1>13. ASSUME NEW r \in Runs, FinishScenarios(r) PROVE pc'[q0] = "gone"
  BY <1>13 DEF FinishScenarios
<1>14. ASSUME NEW r \in Runs, NEW g \in Groups, TeardownGroup(r, g) PROVE pc'[q0] = "gone"
  BY <1>14 DEF TeardownGroup, TearDown
<1>15. ASSUME NEW r \in Runs, InterruptTeardown(r) PROVE pc'[q0] = "gone"
  BY <1>15 DEF InterruptTeardown
<1>16. ASSUME NEW r \in Runs, UnregisterRun(r) PROVE pc'[q0] = "gone"
  BY <1>16 DEF UnregisterRun, LockAndTruncate, Refreshed
<1>17. ASSUME NEW r \in Runs, FlushUnregister(r) PROVE pc'[q0] = "gone"
  BY <1>17 DEF FlushUnregister, Fill
<1>18. ASSUME NEW r \in Runs, Exit(r) PROVE pc'[q0] = "gone"
  BY <1>18 DEF Exit
<1>19. ASSUME NEW r \in Runs, LockTimeout(r) PROVE pc'[q0] = "gone"
  BY <1>19 DEF LockTimeout, WaitsForLock, SetupDone
<1>20. ASSUME NEW r \in Runs, Crash(r) PROVE pc'[q0] = "gone"
  BY <1>20 DEF Crash
<1>21. ASSUME NEW p \in Pids, ForeignTakes(p) \/ ForeignLeaves(p) PROVE pc'[q0] = "gone"
  BY <1>21 DEF ForeignTakes, ForeignLeaves
<1>22. CASE UNCHANGED vars
  BY <1>22 DEF vars
<1> QED
  BY <1>1, <1>2, <1>3, <1>4, <1>5, <1>6, <1>7, <1>8, <1>9, <1>10, <1>11,
     <1>12, <1>13, <1>14, <1>15, <1>16, <1>17, <1>18, <1>19, <1>20, <1>21, <1>22
     DEF Next, Progress, AllGone

-----------------------------------------------------------------------------
(* Every entry in the file or in a process's memory was put there by the   *)
(* run it names, under the pid that run has as long as it lives.           *)
THEOREM EntriesGenuine == Spec => []EntryInv
<1> USE ManifestAssumption
<1>1. Init => EntryInv
  BY DEF Init, EntryInv, Held, NoData
<1>2. ASSUME TypeOK, PidInv, EntryInv, [Next]_vars PROVE EntryInv'
  <2> USE <1>2 DEF EntryInv
  <2>k. \A e \in disk.runs : Genuine(e)'
    BY GenuineKept DEF TypeOK, Data
  <2>h. \A q \in Runs : \A e \in Held(q) : Genuine(e)'
    BY GenuineKept DEF TypeOK, Data, Held
  <2>1. ASSUME NEW r \in Runs, Start(r) PROVE EntryInv'
    BY <2>1, <2>k, <2>h DEF Start, Held
  <2>2. ASSUME NEW r \in Runs, NothingToReap(r) PROVE EntryInv'
    BY <2>2, <2>k, <2>h DEF NothingToReap, Refreshed, Held
  <2>3. ASSUME NEW r \in Runs, BeginReap(r) PROVE EntryInv'
    BY <2>3, <2>k, <2>h DEF BeginReap, Refreshed, Held
  <2>4. ASSUME NEW r \in Runs, NEW e \in todo[r], Examine(r, e) PROVE EntryInv'
    <3>1. \A q \in Runs : data'[q].runs \subseteq data[q].runs /\ todo'[q] \subseteq todo[q]
      BY <2>4 DEF Examine, Data, TypeOK
    <3> QED
      BY <2>4, <2>k, <2>h, <3>1 DEF Examine, Held
  <2>5. ASSUME NEW r \in Runs, NEW q \in Runs, NEW g \in Groups, DeleteOrphan(r, q, g) PROVE EntryInv'
    BY <2>5, <2>k, <2>h DEF DeleteOrphan, Held
  <2>6. ASSUME NEW r \in Runs, EndReap(r) PROVE EntryInv'
    BY <2>6, <2>k, <2>h DEF EndReap, NoData, Held
  <2>7. ASSUME NEW r \in Runs, FlushReap(r) PROVE EntryInv'
    BY <2>7, <2>k, <2>h DEF FlushReap, Fill, Held
  <2>8. ASSUME NEW r \in Runs, NEW g \in Groups, SetupOk(r, g) PROVE EntryInv'
    BY <2>8, <2>k, <2>h DEF SetupOk, SettingUp, Held
  <2>9. ASSUME NEW r \in Runs, NEW g \in Groups, SetupFail(r, g) PROVE EntryInv'
    BY <2>9, <2>k, <2>h DEF SetupFail, SettingUp, Held
  <2>10. ASSUME NEW r \in Runs, AbortSetup(r) PROVE EntryInv'
    BY <2>10, <2>k, <2>h DEF AbortSetup, Held
  <2>11. ASSUME NEW r \in Runs, RegisterRun(r) PROVE EntryInv'
    <3>1. Genuine(EntryOf(r))'
      BY <2>11 DEF RegisterRun, LockAndTruncate, EntryOf, Genuine, SetUp, TypeOK, Stages, Flushing, Holding
    <3>2. EntryOf(r)' = EntryOf(r)
      BY <2>11 DEF RegisterRun, EntryOf, SetUp
    <3> QED
      BY <2>11, <2>k, <2>h, <3>1, <3>2 DEF RegisterRun, LockAndTruncate, Refreshed, NoData, Held, TypeOK
  <2>12. ASSUME NEW r \in Runs, FlushRegister(r) PROVE EntryInv'
    BY <2>12, <2>k, <2>h DEF FlushRegister, Fill, Held
  <2>13. ASSUME NEW r \in Runs, FinishScenarios(r) PROVE EntryInv'
    BY <2>13, <2>k, <2>h DEF FinishScenarios, Held
  <2>14. ASSUME NEW r \in Runs, NEW g \in Groups, TeardownGroup(r, g) PROVE EntryInv'
    BY <2>14, <2>k, <2>h DEF TeardownGroup, Held
  <2>15. ASSUME NEW r \in Runs, InterruptTeardown(r) PROVE EntryInv'
    BY <2>15, <2>k, <2>h DEF InterruptTeardown, Held
  <2>16. ASSUME NEW r \in Runs, UnregisterRun(r) PROVE EntryInv'
    BY <2>16, <2>k, <2>h DEF UnregisterRun, LockAndTruncate, WithoutPid, Refreshed, NoData, Held, TypeOK
  <2>17. ASSUME NEW r \in Runs, FlushUnregister(r) PROVE EntryInv'
    BY <2>17, <2>k, <2>h DEF FlushUnregister, Fill, Held
  <2>18. ASSUME NEW r \in Runs, Exit(r) PROVE EntryInv'
    BY <2>18, <2>k, <2>h DEF Exit, Held
  <2>19. ASSUME NEW r \in Runs, LockTimeout(r) PROVE EntryInv'
    BY <2>19, <2>k, <2>h DEF LockTimeout, Held
  <2>20. ASSUME NEW r \in Runs, Crash(r) PROVE EntryInv'
    BY <2>20, <2>k, <2>h DEF Crash, Held
  <2>21. ASSUME NEW p \in Pids, ForeignTakes(p) \/ ForeignLeaves(p) PROVE EntryInv'
    BY <2>21, <2>k, <2>h DEF ForeignTakes, ForeignLeaves, Held
  <2>22. CASE UNCHANGED vars
    BY <2>22, <2>k, <2>h DEF vars, Held
  <2> QED
    BY <2>1, <2>2, <2>3, <2>4, <2>5, <2>6, <2>7, <2>8, <2>9, <2>10, <2>11,
       <2>12, <2>13, <2>14, <2>15, <2>16, <2>17, <2>18, <2>19, <2>20, <2>21, <2>22
       DEF Next, Progress, AllGone
<1> QED
  BY <1>1, <1>2, TypeCorrect, PTL DEF Spec

(* cleanup_orphans only ever deletes what belongs to a run that is gone.   *)
THEOREM OnlyTheDeadAreDoomed == Spec => []DoomedInv
<1> USE ManifestAssumption
<1>1. Init => DoomedInv
  BY DEF Init, DoomedInv
<1>2. ASSUME TypeOK, PidInv, EntryInv, DoomedInv, [Next]_vars PROVE DoomedInv'
  <2> USE <1>2 DEF DoomedInv
  <2>g. \A q \in Runs : pc[q] = "gone" => pc'[q] = "gone"
    BY GoneForGood
  <2>1. ASSUME NEW r \in Runs, Start(r) PROVE DoomedInv'
    BY <2>1, <2>g DEF Start
  <2>2. ASSUME NEW r \in Runs, NothingToReap(r) PROVE DoomedInv'
    BY <2>2, <2>g DEF NothingToReap
  <2>3. ASSUME NEW r \in Runs, BeginReap(r) PROVE DoomedInv'
    BY <2>3, <2>g DEF BeginReap
  <2>4. ASSUME NEW r \in Runs, NEW e \in todo[r], Examine(r, e) PROVE DoomedInv'
    <3>1. e \in Entry /\ Genuine(e)
      BY DEF TypeOK, EntryInv, Held
    <3>2. ~PidAlive(e) => pc[e.run] = "gone"
      <4>1. ASSUME e.run \in Up PROVE PidAlive(e)
        BY <3>1, <4>1 DEF Genuine, PidAlive
      <4> QED
        BY <3>1, <4>1 DEF Genuine, Up, Entry, TypeOK, Stages
    <3>3. CASE PidAlive(e)
      BY <2>4, <3>3, <2>g DEF Examine
    <3>4. CASE ~PidAlive(e)
      <4>1. doomed' = [doomed EXCEPT ![r] = {e.run} \X e.groups] /\ pc' = pc
        BY <2>4, <3>4 DEF Examine
      <4>2. \A q \in Runs, g \in Groups : <<q, g>> \in {e.run} \X e.groups => q = e.run
        OBVIOUS
      <4> QED
        BY <3>2, <3>4, <4>1, <4>2 DEF TypeOK
    <3> QED
      BY <3>3, <3>4
  <2>5. ASSUME NEW r \in Runs, NEW q \in Runs, NEW g \in Groups, DeleteOrphan(r, q, g) PROVE DoomedInv'
    BY <2>5, <2>g DEF DeleteOrphan, TypeOK
  <2>6. ASSUME NEW r \in Runs, EndReap(r) PROVE DoomedInv'
    BY <2>6, <2>g DEF EndReap
  <2>7. ASSUME NEW r \in Runs, FlushReap(r) PROVE DoomedInv'
    BY <2>7, <2>g DEF FlushReap
  <2>8. ASSUME NEW r \in Runs, NEW g \in Groups, SetupOk(r, g) PROVE DoomedInv'
    BY <2>8, <2>g DEF SetupOk, SettingUp
  <2>9. ASSUME NEW r \in Runs, NEW g \in Groups, SetupFail(r, g) PROVE DoomedInv'
    BY <2>9, <2>g DEF SetupFail, SettingUp
  <2>10. ASSUME NEW r \in Runs, AbortSetup(r) PROVE DoomedInv'
    BY <2>10, <2>g DEF AbortSetup
  <2>11. ASSUME NEW r \in Runs, RegisterRun(r) PROVE DoomedInv'
    BY <2>11, <2>g DEF RegisterRun
  <2>12. ASSUME NEW r \in Runs, FlushRegister(r) PROVE DoomedInv'
    BY <2>12, <2>g DEF FlushRegister
  <2>13. ASSUME NEW r \in Runs, FinishScenarios(r) PROVE DoomedInv'
    BY <2>13, <2>g DEF FinishScenarios
  <2>14. ASSUME NEW r \in Runs, NEW g \in Groups, TeardownGroup(r, g) PROVE DoomedInv'
    BY <2>14, <2>g DEF TeardownGroup
  <2>15. ASSUME NEW r \in Runs, InterruptTeardown(r) PROVE DoomedInv'
    BY <2>15, <2>g DEF InterruptTeardown
  <2>16. ASSUME NEW r \in Runs, UnregisterRun(r) PROVE DoomedInv'
    BY <2>16, <2>g DEF UnregisterRun
  <2>17. ASSUME NEW r \in Runs, FlushUnregister(r) PROVE DoomedInv'
    BY <2>17, <2>g DEF FlushUnregister
  <2>18. ASSUME NEW r \in Runs, Exit(r) PROVE DoomedInv'
    BY <2>18, <2>g DEF Exit
  <2>19. ASSUME NEW r \in Runs, LockTimeout(r) PROVE DoomedInv'
    BY <2>19, <2>g DEF LockTimeout
  <2>20. ASSUME NEW r \in Runs, Crash(r) PROVE DoomedInv'
    BY <2>20, <2>g DEF Crash
  <2>21. ASSUME NEW p \in Pids, ForeignTakes(p) \/ ForeignLeaves(p) PROVE DoomedInv'
    BY <2>21, <2>g DEF ForeignTakes, ForeignLeaves
  <2>22. CASE UNCHANGED vars
    BY <2>22, <2>g DEF vars
  <2> QED
    BY <2>1, <2>2, <2>3, <2>4, <2>5, <2>6, <2>7, <2>8, <2>9, <2>10, <2>11,
       <2>12, <2>13, <2>14, <2>15, <2>16, <2>17, <2>18, <2>19, <2>20, <2>21, <2>22
       DEF Next, Progress, AllGone
<1> QED
  BY <1>1, <1>2, TypeCorrect, EntriesGenuine, PTL DEF Spec

(* A live run's resources are torn down by nobody but itself, with or      *)
(* without psutil, torn files and lost registrations.                      *)
Spared ==
  \A q \in Runs, g \in Groups :
    res[q][g] = "up" /\ res'[q][g] = "down" => pc[q] \in {"teardown", "gone"}

THEOREM LiveRunsAreSpared == Spec => LiveRunSpared
<1> USE ManifestAssumption
<1>1. ASSUME TypeOK, DoomedInv, [Next]_vars PROVE Spared
  <2> USE <1>1
  <2>1. ASSUME NEW r \in Runs, Start(r) PROVE Spared
    BY <2>1 DEF Spared, Start
  <2>2. ASSUME NEW r \in Runs, NothingToReap(r) PROVE Spared
    BY <2>2 DEF Spared, NothingToReap
  <2>3. ASSUME NEW r \in Runs, BeginReap(r) PROVE Spared
    BY <2>3 DEF Spared, BeginReap
  <2>4. ASSUME NEW r \in Runs, NEW e \in todo[r], Examine(r, e) PROVE Spared
    BY <2>4 DEF Spared, Examine
  <2>5. ASSUME NEW r \in Runs, NEW q \in Runs, NEW g \in Groups, DeleteOrphan(r, q, g) PROVE Spared
    BY <2>5 DEF Spared, DeleteOrphan, TearDown, TypeOK, DoomedInv
  <2>6. ASSUME NEW r \in Runs, EndReap(r) PROVE Spared
    BY <2>6 DEF Spared, EndReap
  <2>7. ASSUME NEW r \in Runs, FlushReap(r) PROVE Spared
    BY <2>7 DEF Spared, FlushReap
  <2>8. ASSUME NEW r \in Runs, NEW g \in Groups, SetupOk(r, g) PROVE Spared
    BY <2>8 DEF Spared, SetupOk, SettingUp, TypeOK
  <2>9. ASSUME NEW r \in Runs, NEW g \in Groups, SetupFail(r, g) PROVE Spared
    BY <2>9 DEF Spared, SetupFail, SettingUp
  <2>10. ASSUME NEW r \in Runs, AbortSetup(r) PROVE Spared
    BY <2>10 DEF Spared, AbortSetup
  <2>11. ASSUME NEW r \in Runs, RegisterRun(r) PROVE Spared
    BY <2>11 DEF Spared, RegisterRun
  <2>12. ASSUME NEW r \in Runs, FlushRegister(r) PROVE Spared
    BY <2>12 DEF Spared, FlushRegister
  <2>13. ASSUME NEW r \in Runs, FinishScenarios(r) PROVE Spared
    BY <2>13 DEF Spared, FinishScenarios
  <2>14. ASSUME NEW r \in Runs, NEW g \in Groups, TeardownGroup(r, g) PROVE Spared
    BY <2>14 DEF Spared, TeardownGroup, TearDown, TypeOK
  <2>15. ASSUME NEW r \in Runs, InterruptTeardown(r) PROVE Spared
    BY <2>15 DEF Spared, InterruptTeardown
  <2>16. ASSUME NEW r \in Runs, UnregisterRun(r) PROVE Spared
    BY <2>16 DEF Spared, UnregisterRun
  <2>17. ASSUME NEW r \in Runs, FlushUnregister(r) PROVE Spared
    BY <2>17 DEF Spared, FlushUnregister
  <2>18. ASSUME NEW r \in Runs, Exit(r) PROVE Spared
    BY <2>18 DEF Spared, Exit
  <2>19. ASSUME NEW r \in Runs, LockTimeout(r) PROVE Spared
    BY <2>19 DEF Spared, LockTimeout
  <2>20. ASSUME NEW r \in Runs, Crash(r) PROVE Spared
    BY <2>20 DEF Spared, Crash
  <2>21. ASSUME NEW p \in Pids, ForeignTakes(p) \/ ForeignLeaves(p) PROVE Spared
    BY <2>21 DEF Spared, ForeignTakes, ForeignLeaves
  <2>22. CASE UNCHANGED vars
    BY <2>22 DEF vars, Spared
  <2> QED
    BY <2>1, <2>2, <2>3, <2>4, <2>5, <2>6, <2>7, <2>8, <2>9, <2>10, <2>11,
       <2>12, <2>13, <2>14, <2>15, <2>16, <2>17, <2>18, <2>19, <2>20, <2>21, <2>22
       DEF Next, Progress, AllGone
<1>2. TypeOK /\ DoomedInv /\ [Next]_vars => [Spared]_vars
  BY <1>1
<1> QED
  BY <1>2, TypeCorrect, OnlyTheDeadAreDoomed, PTL DEF Spec, LiveRunSpared, Spared

-----------------------------------------------------------------------------
(* The inductive strengthening of LiveRunRecorded.  A busy run's entry is  *)
(* in the copy of whichever process holds the lock and, when nobody is in  *)
(* the middle of a write, in the file.                                     *)
Busy(s) == pc[s] \in {"running", "teardown"}

RecordInv ==
  \A s \in Runs :
    /\ pc[s] = "teardown" => left[s] \subseteq SetUp(s)
    /\ pc[s] = "enrollFlush" => EntryOf(s) \in data[s].runs
    /\ Busy(s) =>
         /\ \A r \in Runs : pc[r] \in Holding => EntryOf(s) \in data[r].runs
         /\ (\A r \in Runs : pc[r] \notin Flushing) => EntryOf(s) \in disk.runs

(* As long as no process dies between truncating and filling the file, a   *)
(* run that is executing or tearing down is in the manifest with all its   *)
(* groups, however the operations of the other processes interleave.       *)
THEOREM LiveRunsStayRecorded ==
  ASSUME ~MayTear
  PROVE  Spec => []LiveRunRecorded
<1> USE ManifestAssumption
<1>1. Init => RecordInv
  BY DEF Init, RecordInv, Busy
<1>2. ASSUME TypeOK, PidInv, OneWriter, DoomedInv, RecordInv, [Next]_vars PROVE RecordInv'
  <2> USE <1>2 DEF TypeOK, PidInv, OneWriter, RecordInv, Stages, Holding, Flushing
  <2>1. ASSUME NEW r \in Runs, Start(r) PROVE RecordInv'
    <3>1. \A s \in Runs : s # r => EntryOf(s)' = EntryOf(s)
      BY <2>1 DEF Start, EntryOf, SetUp
    <3>2. \A s \in Runs : SetUp(s)' = SetUp(s)
      BY <2>1 DEF Start, SetUp
    <3>3. pc' = [pc EXCEPT ![r] = "boot"] /\ disk' = disk /\ left' = left /\ pc[r] = "new"
      BY <2>1 DEF Start
    <3>4. \A s \in Runs : s # r => data'[s] = data[s]
      BY <2>1 DEF Start
    <3>5. \A s \in Runs : Busy(s)' => s # r /\ Busy(s)
      BY <3>3 DEF Busy
    <3> QED
      BY <3>1, <3>2, <3>3, <3>4, <3>5
  <2>2. ASSUME NEW r \in Runs, NothingToReap(r) PROVE RecordInv'
    <3>1. \A s \in Runs : EntryOf(s)' = EntryOf(s) /\ SetUp(s)' = SetUp(s)
      BY <2>2 DEF NothingToReap, EntryOf, SetUp
    <3> QED
      BY <2>2, <3>1 DEF NothingToReap, EnterSetup, Refreshed, Busy
  <2>3. ASSUME NEW r \in Runs, BeginReap(r) PROVE RecordInv'
    <3>1. \A s \in Runs : EntryOf(s)' = EntryOf(s) /\ SetUp(s)' = SetUp(s)
      BY <2>3 DEF BeginReap, EntryOf, SetUp
    <3> QED
      BY <2>3, <3>1 DEF BeginReap, Refreshed, Busy
  <2>4. ASSUME NEW r \in Runs, NEW e \in todo[r], Examine(r, e) PROVE RecordInv'
    <3>1. \A s \in Runs : Busy(s) => PidAlive(EntryOf(s))
      BY DEF PidAlive, EntryOf, Busy, Up
    <3>2. \A s \in Runs : EntryOf(s)' = EntryOf(s)
      BY <2>4 DEF Examine, EntryOf, SetUp
    <3>3. \A q, s \in Runs : Busy(s) /\ EntryOf(s) \in data[q].runs => EntryOf(s) \in data'[q].runs
      BY <2>4, <3>1 DEF Examine, Data
    <3>4. pc[r] = "reaping" /\ pc' = pc /\ disk' = disk /\ left' = left /\ res' = res
      BY <2>4 DEF Examine
    <3>5. \A s \in Runs : pc[s] # "enrollFlush"
      BY <3>4
    <3> QED
      BY <3>2, <3>3, <3>4, <3>5 DEF Busy, SetUp
  <2>5. ASSUME NEW r \in Runs, NEW q \in Runs, NEW g \in Groups, DeleteOrphan(r, q, g) PROVE RecordInv'
    <3>1. pc[q] = "gone"
      BY <2>5 DEF DeleteOrphan, DoomedInv
    <3>2. \A s \in Runs : s # q => res'[s] = res[s]
      BY <2>5 DEF DeleteOrphan, TearDown
    <3>3. UNCHANGED <<pc, pid, left, disk, data>>
      BY <2>5 DEF DeleteOrphan
    <3>4. \A s \in Runs : s # q => EntryOf(s)' = EntryOf(s) /\ SetUp(s)' = SetUp(s)
      BY ZenonT(40), <3>2, <3>3 DEF EntryOf, SetUp
    <3> QED
      BY SMTT(30), <3>1, <3>3, <3>4 DEF Busy
  <2>6. ASSUME NEW r \in Runs, EndReap(r) PROVE RecordInv'
    <3>1. \A s \in Runs : EntryOf(s)' = EntryOf(s) /\ SetUp(s)' = SetUp(s)
      BY <2>6 DEF EndReap, EntryOf, SetUp
    <3> QED
      BY <2>6, <3>1 DEF EndReap, Busy
  <2>7. ASSUME NEW r \in Runs, FlushReap(r) PROVE RecordInv'
    <3>1. \A s \in Runs : EntryOf(s)' = EntryOf(s) /\ SetUp(s)' = SetUp(s)
      BY <2>7 DEF FlushReap, EntryOf, SetUp
    <3> QED
      BY <2>7, <3>1 DEF FlushReap, Fill, EnterSetup, Busy
  <2>8. ASSUME NEW r \in Runs, NEW g \in Groups, SetupOk(r, g) PROVE RecordInv'
    <3>1. pc[r] \in {"setup", "aborting"} /\ UNCHANGED <<pc, pid, disk, data>>
      BY <2>8 DEF SetupOk, SettingUp
    <3>2. \A s \in Runs : s # r => EntryOf(s)' = EntryOf(s) /\ SetUp(s)' = SetUp(s) /\ left'[s] = left[s]
      BY <2>8 DEF SetupOk, SettingUp, EntryOf, SetUp
    <3> QED
      BY <3>1, <3>2 DEF Busy
  <2>9. ASSUME NEW r \in Runs, NEW g \in Groups, SetupFail(r, g) PROVE RecordInv'
    <3>1. \A s \in Runs : EntryOf(s)' = EntryOf(s) /\ SetUp(s)' = SetUp(s)
      BY <2>9 DEF SetupFail, SettingUp, EntryOf, SetUp
    <3> QED
      BY <2>9, <3>1 DEF SetupFail, SettingUp, Busy
  <2>10. ASSUME NEW r \in Runs, AbortSetup(r) PROVE RecordInv'
    <3>1. \A s \in Runs : EntryOf(s)' = EntryOf(s) /\ SetUp(s)' = SetUp(s)
      BY <2>10 DEF AbortSetup, EntryOf, SetUp
    <3> QED
      BY <2>10, <3>1 DEF AbortSetup, SetupDone, Busy
  <2>11. ASSUME NEW r \in Runs, RegisterRun(r) PROVE RecordInv'
    <3>1. \A s \in Runs : EntryOf(s)' = EntryOf(s) /\ SetUp(s)' = SetUp(s)
      BY <2>11 DEF RegisterRun, EntryOf, SetUp
    <3> QED
      BY SMTT(30), <2>11, <3>1 DEF RegisterRun, LockAndTruncate, SetupDone, Refreshed, Busy
  <2>12. ASSUME NEW r \in Runs, FlushRegister(r) PROVE RecordInv'
    <3>1. \A s \in Runs : EntryOf(s)' = EntryOf(s) /\ SetUp(s)' = SetUp(s)
      BY <2>12 DEF FlushRegister, EntryOf, SetUp
    <3> QED
      BY <2>12, <3>1 DEF FlushRegister, Fill, Busy
  <2>13. ASSUME NEW r \in Runs, FinishScenarios(r) PROVE RecordInv'
    <3>1. \A s \in Runs : EntryOf(s)' = EntryOf(s) /\ SetUp(s)' = SetUp(s)
      BY <2>13 DEF FinishScenarios, EntryOf, SetUp
    <3> QED
      BY SMTT(30), <2>13, <3>1 DEF FinishScenarios, Busy
  <2>14. ASSUME NEW r \in Runs, NEW g \in Groups, TeardownGroup(r, g) PROVE RecordInv'
    <3>1. pc[r] = "teardown" /\ UNCHANGED <<pc, pid, disk, data>>
      BY <2>14 DEF TeardownGroup
    <3>2. res[r][g] # "none"
      BY <2>14, <3>1 DEF TeardownGroup, SetUp
    <3>3. \A s \in Runs, h \in Groups : res'[s][h] = "none" <=> res[s][h] = "none"
      <4>1. CASE UNCHANGED res
        BY <4>1
      <4>2. CASE res' = [res EXCEPT ![r][g] = "down"]
        BY <3>2, <4>2
      <4> QED
        BY <2>14, <4>1, <4>2 DEF TeardownGroup, TearDown
    <3>4. \A s \in Runs : EntryOf(s)' = EntryOf(s) /\ SetUp(s)' = SetUp(s)
      <4>1. \A s \in Runs : SetUp(s)' = SetUp(s)
        BY <3>3, Zenon DEF SetUp
      <4> QED
        BY <3>1, <4>1 DEF EntryOf
    <3>5. \A s \in Runs : left'[s] \subseteq left[s]
      BY <2>14 DEF TeardownGroup
    <3>6. \A s \in Runs : Busy(s)' <=> Busy(s)
      BY <3>1 DEF Busy
    <3> QED
      BY <3>1, <3>4, <3>5, <3>6
  <2>15. ASSUME NEW r \in Runs, InterruptTeardown(r) PROVE RecordInv'
    <3>1. \A s \in Runs : EntryOf(s)' = EntryOf(s) /\ SetUp(s)' = SetUp(s)
      BY <2>15 DEF InterruptTeardown, EntryOf, SetUp
    <3> QED
      BY <2>15, <3>1 DEF InterruptTeardown, Busy
  <2>16. ASSUME NEW r \in Runs, UnregisterRun(r) PROVE RecordInv'
    <3>1. \A s \in Runs : EntryOf(s)' = EntryOf(s) /\ SetUp(s)' = SetUp(s)
      BY <2>16 DEF UnregisterRun, EntryOf, SetUp
    <3>2. pc[r] = "teardown" /\ lock = NoRun /\ left' = left
      BY <2>16 DEF UnregisterRun, LockAndTruncate
    <3>3. pc' = [pc EXCEPT ![r] = "leaveFlush"] /\ data' = [data EXCEPT ![r] = WithoutPid(disk, pid[r])]
      BY <2>16 DEF UnregisterRun, LockAndTruncate, Refreshed
    <3>4. \A s \in Runs : s # r /\ Busy(s) => EntryOf(s) \in disk.runs
      BY <3>2
    <3>5. \A s \in Runs : s # r /\ Busy(s) => EntryOf(s).pid # pid[r]
      BY <3>2 DEF EntryOf, Busy, Up
    <3>6. \A s \in Runs : s # r /\ Busy(s) => EntryOf(s) \in WithoutPid(disk, pid[r]).runs
      BY <3>4, <3>5 DEF WithoutPid, Data
    <3> QED
      BY <3>1, <3>2, <3>3, <3>6 DEF Busy
  <2>17. ASSUME NEW r \in Runs, FlushUnregister(r) PROVE RecordInv'
    <3>1. \A s \in Runs : EntryOf(s)' = EntryOf(s) /\ SetUp(s)' = SetUp(s)
      BY <2>17 DEF FlushUnregister, EntryOf, SetUp
    <3> QED
      BY <2>17, <3>1 DEF FlushUnregister, Fill, Busy
  <2>18. ASSUME NEW r \in Runs, Exit(r) PROVE RecordInv'
    <3>1. \A s \in Runs : EntryOf(s)' = EntryOf(s) /\ SetUp(s)' = SetUp(s)
      BY <2>18 DEF Exit, EntryOf, SetUp
    <3> QED
      BY <2>18, <3>1 DEF Exit, Busy
  <2>19. ASSUME NEW r \in Runs, LockTimeout(r) PROVE RecordInv'
    <3>1. \A s \in Runs : EntryOf(s)' = EntryOf(s) /\ SetUp(s)' = SetUp(s)
      BY <2>19 DEF LockTimeout, EntryOf, SetUp
    <3> QED
      BY <2>19, <3>1 DEF LockTimeout, WaitsForLock, SetupDone, Busy
  <2>20. ASSUME NEW r \in Runs, Crash(r) PROVE RecordInv'
    <3>1. \A s \in Runs : EntryOf(s)' = EntryOf(s) /\ SetUp(s)' = SetUp(s)
      BY <2>20 DEF Crash, EntryOf, SetUp
    <3> QED
      BY <2>20, <3>1 DEF Crash, Busy
  <2>21. ASSUME NEW p \in Pids, ForeignTakes(p) \/ ForeignLeaves(p) PROVE RecordInv'
    BY ZenonT(40), <2>21 DEF ForeignTakes, ForeignLeaves, EntryOf, SetUp, Busy
  <2>22. CASE UNCHANGED vars
    BY <2>22 DEF vars, EntryOf, SetUp, Busy
  <2> QED
    BY <2>1, <2>2, <2>3, <2>4, <2>5, <2>6, <2>7, <2>8, <2>9, <2>10, <2>11,
       <2>12, <2>13, <2>14, <2>15, <2>16, <2>17, <2>18, <2>19, <2>20, <2>21, <2>22
       DEF Next, Progress, AllGone
<1>3. RecordInv /\ OneWriter => LiveRunRecorded
  BY DEF RecordInv, LiveRunRecorded, Recorded, Logical, Busy, Holding
<1> QED
  BY <1>1, <1>2, <1>3, TypeCorrect, OneWriterAlways, OnlyTheDeadAreDoomed, PTL DEF Spec

-----------------------------------------------------------------------------
(* The registry.                                                           *)

Everywhere == disk.runs \cup UNION {Held(r) : r \in Runs}

(* A run that has not come to its registration yet.                        *)
Early == {"new", "boot", "reaping", "reapFlush", "setup", "aborting"}

(* A run between its own reaping and the end of its unregistration.        *)
Cleared == {"setup", "enrollFlush", "running", "teardown", "leaveFlush"}

(* Only runs that came to their registration have entries, and what an     *)
(* entry lists was set up.                                                 *)
KnownInv == \A e \in Everywhere : pc[e.run] \notin Early /\ e.groups \subseteq SetUp(e.run)

(* No entry of another run has r's pid.                                    *)
Own(r, entries) == \A e \in entries : e.pid = pid[r] => e.run = r

(* Once a run has reaped, whoever had its pid before is out of the         *)
(* manifest.  This is what the recorded create time is for.                *)
OwnInv ==
  \A r \in Runs :
    /\ pc[r] \in Cleared =>
         /\ Own(r, disk.runs)
         /\ \A s \in Runs : pc[s] \in Holding => Own(r, data[s].runs)
    /\ pc[r] = "reaping" => Own(r, data[r].runs \ todo[r])
    /\ pc[r] = "reapFlush" => Own(r, data[r].runs)

(* What a reaping process drops from the file belongs to a run that is     *)
(* gone, and each group of it had its turn or is about to have it.         *)
ReapInv ==
  \A r \in Runs : pc[r] = "reaping" =>
    /\ data[r].latest = disk.latest
    /\ data[r].runs \subseteq disk.runs
    /\ \A e \in disk.runs \ data[r].runs :
         /\ pc[e.run] = "gone"
         /\ \A g \in e.groups : g \in HadTurn(e.run) \/ <<e.run, g>> \in doomed[r]

TornInv == \A r \in Runs : pc[r] \in Flushing => disk = NoData

LeftInv == \A r \in Runs : pc[r] = "teardown" => SetUp(r) \ left[r] \subseteq HadTurn(r)

(* The logical content, without CHOOSE.                                    *)
LogicalInv ==
  /\ \A r \in Runs : pc[r] \in Flushing => Logical = data[r]
  /\ (\A r \in Runs : pc[r] \notin Flushing) => Logical = disk

-----------------------------------------------------------------------------
(* While a process flushes, the manifest says what that process is about   *)
(* to write; otherwise it says what is in the file.                        *)
THEOREM LogicalAlways == Spec => []LogicalInv
<1>1. OneWriter => LogicalInv
  <2> SUFFICES ASSUME OneWriter PROVE LogicalInv
    OBVIOUS
  <2>1. \A r, s \in Runs : pc[r] \in Flushing /\ pc[s] \in Flushing => r = s
    BY DEF OneWriter, Holding
  <2>2. ASSUME NEW r \in Runs, pc[r] \in Flushing PROVE Logical = data[r]
    <3>1. (CHOOSE s \in Runs : pc[s] \in Flushing) = r
      BY <2>1, <2>2
    <3> QED
      BY <2>2, <3>1 DEF Logical
  <2> QED
    BY <2>2 DEF LogicalInv, Logical
<1> QED
  BY <1>1, OneWriterAlways, PTL

(* A write in progress shows the reader an empty file.                     *)
THEOREM TornAlways == Spec => []TornInv
<1> USE ManifestAssumption
<1>1. Init => TornInv
  BY DEF Init, TornInv, Flushing
<1>2. ASSUME TypeOK, OneWriter, TornInv, [Next]_vars PROVE TornInv'
  <2> USE <1>2 DEF TypeOK, OneWriter, TornInv, Stages, Holding, Flushing
  <2>1. ASSUME NEW r \in Runs, Start(r) PROVE TornInv'
    BY <2>1 DEF Start
  <2>2. ASSUME NEW r \in Runs, NothingToReap(r) PROVE TornInv'
    BY <2>2 DEF NothingToReap, EnterSetup, Refreshed
  <2>3. ASSUME NEW r \in Runs, BeginReap(r) PROVE TornInv'
    BY <2>3 DEF BeginReap, Refreshed
  <2>4. ASSUME NEW r \in Runs, NEW e \in todo[r], Examine(r, e) PROVE TornInv'
    BY <2>4 DEF Examine
  <2>5. ASSUME NEW r \in Runs, NEW q \in Runs, NEW g \in Groups, DeleteOrphan(r, q, g) PROVE TornInv'
    BY <2>5 DEF DeleteOrphan, TearDown
  <2>6. ASSUME NEW r \in Runs, EndReap(r) PROVE TornInv'
    BY <2>6 DEF EndReap
  <2>7. ASSUME NEW r \in Runs, FlushReap(r) PROVE TornInv'
    BY <2>7 DEF FlushReap, Fill, EnterSetup
  <2>8. ASSUME NEW r \in Runs, NEW g \in Groups, SetupOk(r, g) PROVE TornInv'
    BY <2>8 DEF SetupOk, SettingUp
  <2>9. ASSUME NEW r \in Runs, NEW g \in Groups, SetupFail(r, g) PROVE TornInv'
    BY <2>9 DEF SetupFail, SettingUp
  <2>10. ASSUME NEW r \in Runs, AbortSetup(r) PROVE TornInv'
    BY <2>10 DEF AbortSetup, SetupDone
  <2>11. ASSUME NEW r \in Runs, RegisterRun(r) PROVE TornInv'
    BY <2>11 DEF RegisterRun, LockAndTruncate, SetupDone, Refreshed
  <2>12. ASSUME NEW r \in Runs, FlushRegister(r) PROVE TornInv'
    BY <2>12 DEF FlushRegister, Fill
  <2>13. ASSUME NEW r \in Runs, FinishScenarios(r) PROVE TornInv'
    BY <2>13 DEF FinishScenarios
  <2>14. ASSUME NEW r \in Runs, NEW g \in Groups, TeardownGroup(r, g) PROVE TornInv'
    BY <2>14 DEF TeardownGroup, TearDown
  <2>15. ASSUME NEW r \in Runs, InterruptTeardown(r) PROVE TornInv'
    BY <2>15 DEF InterruptTeardown
  <2>16. ASSUME NEW r \in Runs, UnregisterRun(r) PROVE TornInv'
    BY <2>16 DEF UnregisterRun, LockAndTruncate, Refreshed
  <2>17. ASSUME NEW r \in Runs, FlushUnregister(r) PROVE TornInv'
    BY <2>17 DEF FlushUnregister, Fill
  <2>18. ASSUME NEW r \in Runs, Exit(r) PROVE TornInv'
    BY <2>18 DEF Exit
  <2>19. ASSUME NEW r \in Runs, LockTimeout(r) PROVE TornInv'
    BY <2>19 DEF LockTimeout, WaitsForLock, SetupDone
  <2>20. ASSUME NEW r \in Runs, Crash(r) PROVE TornInv'
    BY <2>20 DEF Crash
  <2>21. ASSUME NEW p \in Pids, ForeignTakes(p) \/ ForeignLeaves(p) PROVE TornInv'
    BY <2>21 DEF ForeignTakes, ForeignLeaves
  <2>22. CASE UNCHANGED vars
    BY <2>22 DEF vars
  <2> QED
    BY <2>1, <2>2, <2>3, <2>4, <2>5, <2>6, <2>7, <2>8, <2>9, <2>10, <2>11,
       <2>12, <2>13, <2>14, <2>15, <2>16, <2>17, <2>18, <2>19, <2>20, <2>21, <2>22
       DEF Next, Progress, AllGone
<1> QED
  BY <1>1, <1>2, TypeCorrect, OneWriterAlways, PTL DEF Spec

-----------------------------------------------------------------------------
(* A run never comes back before its registration; it keeps its pid; what  *)
(* was set up, or had its turn at a teardown, stays so.                    *)
Onward(q) ==
  /\ pc[q] \notin Early => pc'[q] \notin Early
  /\ pc[q] # "new" => pid'[q] = pid[q]
  /\ SetUp(q) \subseteq SetUp(q)'
  /\ HadTurn(q) \subseteq HadTurn(q)'

LEMMA OnlyOnward ==
  ASSUME TypeOK, [Next]_vars, NEW q0 \in Runs
  PROVE  Onward(q0)
<1> USE DEF TypeOK, Onward, SetUp, HadTurn, Early, Stages, Flushing, Holding, Up
<1>1. ASSUME NEW r \in Runs, Start(r) PROVE Onward(q0)
  BY <1>1 DEF Start
<1>2. ASSUME NEW r \in Runs, NothingToReap(r) PROVE Onward(q0)
  BY <1>2 DEF NothingToReap, EnterSetup, Refreshed
<1>3. ASSUME NEW r \in Runs, BeginReap(r) PROVE Onward(q0)
  BY <1>3 DEF BeginReap, Refreshed
<1>4. ASSUME NEW r \in Runs, NEW e \in todo[r], Examine(r, e) PROVE Onward(q0)
  BY <1>4 DEF Examine
<1>5. ASSUME NEW r \in Runs, NEW q \in Runs, NEW g \in Groups, DeleteOrphan(r, q, g) PROVE Onward(q0)
  <2>1. SetUp(q0) \subseteq SetUp(q0)'
    BY <1>5, TearDownKeeps DEF DeleteOrphan, ResType
  <2>2. HadTurn(q0) \subseteq HadTurn(q0)'
    BY <1>5 DEF DeleteOrphan, TearDown
  <2> QED
    BY <1>5, <2>1, <2>2 DEF DeleteOrphan
<1>6. ASSUME NEW r \in Runs, EndReap(r) PROVE Onward(q0)
  BY <1>6 DEF EndReap
<1>7. ASSUME NEW r \in Runs, FlushReap(r) PROVE Onward(q0)
  BY <1>7 DEF FlushReap, Fill, EnterSetup
<1>8. ASSUME NEW r \in Runs, NEW g \in Groups, SetupOk(r, g) PROVE Onward(q0)
  BY <1>8 DEF SetupOk, SettingUp
<1>9. ASSUME NEW r \in Runs, NEW g \in Groups, SetupFail(r, g) PROVE Onward(q0)
  BY <1>9 DEF SetupFail, SettingUp
<1>10. ASSUME NEW r \in Runs, AbortSetup(r) PROVE Onward(q0)
  BY <1>10 DEF AbortSetup, SetupDone
<1>11. ASSUME NEW r \in Runs, RegisterRun(r) PROVE Onward(q0)
  BY <1>11 DEF RegisterRun, LockAndTruncate, SetupDone, Refreshed
<1>12. ASSUME NEW r \in Runs, FlushRegister(r) PROVE Onward(q0)
  BY <1>12 DEF FlushRegister, Fill
<1>13. ASSUME NEW r \in Runs, FinishScenarios(r) PROVE Onward(q0)
  BY <1>13 DEF FinishScenarios
<1>14. ASSUME NEW r \in Runs, NEW g \in Groups, TeardownGroup(r, g) PROVE Onward(q0)
  <2>1. SetUp(q0) \subseteq SetUp(q0)'
    BY <1>14, TearDownKeeps DEF TeardownGroup, ResType
  <2>2. HadTurn(q0) \subseteq HadTurn(q0)'
    BY <1>14 DEF TeardownGroup, TearDown
  <2> QED
    BY <1>14, <2>1, <2>2 DEF TeardownGroup
<1>15. ASSUME NEW r \in Runs, InterruptTeardown(r) PROVE Onward(q0)
  BY <1>15 DEF InterruptTeardown
<1>16. ASSUME NEW r \in Runs, UnregisterRun(r) PROVE Onward(q0)
  BY <1>16 DEF UnregisterRun, LockAndTruncate, Refreshed
<1>17. ASSUME NEW r \in Runs, FlushUnregister(r) PROVE Onward(q0)
  BY <1>17 DEF FlushUnregister, Fill
<1>18. ASSUME NEW r \in Runs, Exit(r) PROVE Onward(q0)
  BY <1>18 DEF Exit
<1>19. ASSUME NEW r \in Runs, LockTimeout(r) PROVE Onward(q0)
  BY <1>19 DEF LockTimeout, WaitsForLock, SetupDone
<1>20. ASSUME NEW r \in Runs, Crash(r) PROVE Onward(q0)
  BY <1>20 DEF Crash
<1>21. ASSUME NEW p \in Pids, ForeignTakes(p) \/ ForeignLeaves(p) PROVE Onward(q0)
  BY <1>21 DEF ForeignTakes, ForeignLeaves
<1>22. CASE UNCHANGED vars
  BY <1>22 DEF vars
<1> QED
  BY <1>1, <1>2, <1>3, <1>4, <1>5, <1>6, <1>7, <1>8, <1>9, <1>10, <1>11,
     <1>12, <1>13, <1>14, <1>15, <1>16, <1>17, <1>18, <1>19, <1>20, <1>21, <1>22
     DEF Next, Progress, AllGone

(* Where the entries in the file and in the copies of them come from.      *)
Sources ==
  /\ \A e \in disk'.runs :
       \/ e \in disk.runs
       \/ \E s \in Runs : pc[s] \in Flushing /\ e \in data[s].runs
  /\ \A s \in Runs : \A e \in Held(s)' :
       e \in Held(s) \/ e \in disk.runs \/ (RegisterRun(s) /\ e = EntryOf(s))
  /\ \A s \in Runs : \A e \in data'[s].runs :
       \/ pc[s] \in Holding /\ e \in data[s].runs
       \/ e \in disk.runs
       \/ RegisterRun(s) /\ e = EntryOf(s)
       \/ pc'[s] \notin Holding

LEMMA EntriesHaveSources ==
  ASSUME TypeOK, [Next]_vars
  PROVE  Sources
<1> USE DEF TypeOK, Sources, Held, Stages, Flushing, Holding
<1>1. ASSUME NEW r \in Runs, Start(r) PROVE Sources
  BY <1>1 DEF Start
<1>2. ASSUME NEW r \in Runs, NothingToReap(r) PROVE Sources
  BY <1>2 DEF NothingToReap, EnterSetup, Refreshed
<1>3. ASSUME NEW r \in Runs, BeginReap(r) PROVE Sources
  BY <1>3 DEF BeginReap, Refreshed
<1>4. ASSUME NEW r \in Runs, NEW e \in todo[r], Examine(r, e) PROVE Sources
  <2>1. \A s \in Runs : data'[s].runs \subseteq data[s].runs /\ todo'[s] \subseteq todo[s]
    BY <1>4 DEF Examine, Data
  <2> QED
    BY <1>4, <2>1 DEF Examine
<1>5. ASSUME NEW r \in Runs, NEW q \in Runs, NEW g \in Groups, DeleteOrphan(r, q, g) PROVE Sources
  BY <1>5 DEF DeleteOrphan, TearDown
<1>6. ASSUME NEW r \in Runs, EndReap(r) PROVE Sources
  BY <1>6 DEF EndReap, NoData
<1>7. ASSUME NEW r \in Runs, FlushReap(r) PROVE Sources
  BY <1>7 DEF FlushReap, Fill, EnterSetup
<1>8. ASSUME NEW r \in Runs, NEW g \in Groups, SetupOk(r, g) PROVE Sources
  BY <1>8 DEF SetupOk, SettingUp
<1>9. ASSUME NEW r \in Runs, NEW g \in Groups, SetupFail(r, g) PROVE Sources
  BY <1>9 DEF SetupFail, SettingUp
<1>10. ASSUME NEW r \in Runs, AbortSetup(r) PROVE Sources
  BY <1>10 DEF AbortSetup, SetupDone
<1>11. ASSUME NEW r \in Runs, RegisterRun(r) PROVE Sources
  BY ZenonT(40), <1>11 DEF RegisterRun, LockAndTruncate, Refreshed, NoData
<1>12. ASSUME NEW r \in Runs, FlushRegister(r) PROVE Sources
  BY <1>12 DEF FlushRegister, Fill
<1>13. ASSUME NEW r \in Runs, FinishScenarios(r) PROVE Sources
  BY <1>13 DEF FinishScenarios
<1>14. ASSUME NEW r \in Runs, NEW g \in Groups, TeardownGroup(r, g) PROVE Sources
  BY <1>14 DEF TeardownGroup, TearDown
<1>15. ASSUME NEW r \in Runs, InterruptTeardown(r) PROVE Sources
  BY <1>15 DEF InterruptTeardown
<1>16. ASSUME NEW r \in Runs, UnregisterRun(r) PROVE Sources
  BY <1>16 DEF UnregisterRun, LockAndTruncate, WithoutPid, Refreshed, NoData, Data
<1>17. ASSUME NEW r \in Runs, FlushUnregister(r) PROVE Sources
  BY <1>17 DEF FlushUnregister, Fill
<1>18. ASSUME NEW r \in Runs, Exit(r) PROVE Sources
  BY <1>18 DEF Exit
<1>19. ASSUME NEW r \in Runs, LockTimeout(r) PROVE Sources
  BY <1>19 DEF LockTimeout, WaitsForLock, SetupDone
<1>20. ASSUME NEW r \in Runs, Crash(r) PROVE Sources
  BY <1>20 DEF Crash
<1>21. ASSUME NEW p \in Pids, ForeignTakes(p) \/ ForeignLeaves(p) PROVE Sources
  BY <1>21 DEF ForeignTakes, ForeignLeaves
<1>22. CASE UNCHANGED vars
  BY <1>22 DEF vars
<1> QED
  BY <1>1, <1>2, <1>3, <1>4, <1>5, <1>6, <1>7, <1>8, <1>9, <1>10, <1>11,
     <1>12, <1>13, <1>14, <1>15, <1>16, <1>17, <1>18, <1>19, <1>20, <1>21, <1>22
     DEF Next, Progress, AllGone

(* How a run gets to the places the invariants speak of, and that what     *)
(* they say there survives the steps of all the others.                    *)
Arrives(s) ==
  /\ pc'[s] \in Cleared => pc[s] \in Cleared \/ NothingToReap(s) \/ FlushReap(s)
  /\ pc'[s] = "reapFlush" => EndReap(s) \/ (pc[s] = "reapFlush" /\ data'[s] = data[s])
  /\ pc'[s] = "reaping" =>
       \/ BeginReap(s)
       \/ \E e \in todo[s] : Examine(s, e)
       \/ /\ pc[s] = "reaping" /\ data'[s] = data[s] /\ todo'[s] = todo[s] /\ disk' = disk
          /\ \A q \in Runs, g \in Groups :
               <<q, g>> \in doomed[s] => <<q, g>> \in doomed'[s] \/ g \in HadTurn(q)'
  /\ pc'[s] = "teardown" =>
       \/ FinishScenarios(s)
       \/ \E g \in Groups : TeardownGroup(s, g)
       \/ pc[s] = "teardown" /\ left'[s] = left[s] /\ res'[s] = res[s]

LEMMA RunsArrive ==
  ASSUME TypeOK, OneWriter, DoomedInv, [Next]_vars, NEW s0 \in Runs
  PROVE  Arrives(s0)
<1> USE ManifestAssumption DEF TypeOK, OneWriter, Arrives, HadTurn, Cleared, Stages, Flushing, Holding
<1>1. ASSUME NEW r \in Runs, Start(r) PROVE Arrives(s0)
  BY <1>1 DEF Start
<1>2. ASSUME NEW r \in Runs, NothingToReap(r) PROVE Arrives(s0)
  BY <1>2 DEF NothingToReap, EnterSetup, Refreshed
<1>3. ASSUME NEW r \in Runs, BeginReap(r) PROVE Arrives(s0)
  BY <1>3 DEF BeginReap, Refreshed
<1>4. ASSUME NEW r \in Runs, NEW e \in todo[r], Examine(r, e) PROVE Arrives(s0)
  BY <1>4 DEF Examine
<1>5. ASSUME NEW r \in Runs, NEW q \in Runs, NEW g \in Groups, DeleteOrphan(r, q, g) PROVE Arrives(s0)
  <2>1. pc[q] = "gone"
    BY <1>5 DEF DeleteOrphan, DoomedInv
  <2> QED
    BY <1>5, <2>1 DEF DeleteOrphan, TearDown
<1>6. ASSUME NEW r \in Runs, EndReap(r) PROVE Arrives(s0)
  BY <1>6 DEF EndReap
<1>7. ASSUME NEW r \in Runs, FlushReap(r) PROVE Arrives(s0)
  BY <1>7 DEF FlushReap, Fill, EnterSetup
<1>8. ASSUME NEW r \in Runs, NEW g \in Groups, SetupOk(r, g) PROVE Arrives(s0)
  BY <1>8 DEF SetupOk, SettingUp
<1>9. ASSUME NEW r \in Runs, NEW g \in Groups, SetupFail(r, g) PROVE Arrives(s0)
  BY <1>9 DEF SetupFail, SettingUp
<1>10. ASSUME NEW r \in Runs, AbortSetup(r) PROVE Arrives(s0)
  BY <1>10 DEF AbortSetup, SetupDone
<1>11. ASSUME NEW r \in Runs, RegisterRun(r) PROVE Arrives(s0)
  BY <1>11 DEF RegisterRun, LockAndTruncate, SetupDone, Refreshed
<1>12. ASSUME NEW r \in Runs, FlushRegister(r) PROVE Arrives(s0)
  BY <1>12 DEF FlushRegister, Fill
<1>13. ASSUME NEW r \in Runs, FinishScenarios(r) PROVE Arrives(s0)
  BY <1>13 DEF FinishScenarios
<1>14. ASSUME NEW r \in Runs, NEW g \in Groups, TeardownGroup(r, g) PROVE Arrives(s0)
  BY <1>14 DEF TeardownGroup, TearDown
<1>15. ASSUME NEW r \in Runs, InterruptTeardown(r) PROVE Arrives(s0)
  BY <1>15 DEF InterruptTeardown
<1>16. ASSUME NEW r \in Runs, UnregisterRun(r) PROVE Arrives(s0)
  BY <1>16 DEF UnregisterRun, LockAndTruncate, Refreshed
<1>17. ASSUME NEW r \in Runs, FlushUnregister(r) PROVE Arrives(s0)
  BY <1>17 DEF FlushUnregister, Fill
<1>18. ASSUME NEW r \in Runs, Exit(r) PROVE Arrives(s0)
  BY <1>18 DEF Exit
<1>19. ASSUME NEW r \in Runs, LockTimeout(r) PROVE Arrives(s0)
  BY <1>19 DEF LockTimeout, WaitsForLock, SetupDone
<1>20. ASSUME NEW r \in Runs, Crash(r) PROVE Arrives(s0)
  BY <1>20 DEF Crash
<1>21. ASSUME NEW p \in Pids, ForeignTakes(p) \/ ForeignLeaves(p) PROVE Arrives(s0)
  BY <1>21 DEF ForeignTakes, ForeignLeaves
<1>22. CASE UNCHANGED vars
  BY <1>22 DEF vars
<1> QED
  BY <1>1, <1>2, <1>3, <1>4, <1>5, <1>6, <1>7, <1>8, <1>9, <1>10, <1>11,
     <1>12, <1>13, <1>14, <1>15, <1>16, <1>17, <1>18, <1>19, <1>20, <1>21, <1>22
     DEF Next, Progress, AllGone

-----------------------------------------------------------------------------
(* An entry of the manifest, or of a copy, names a run that came to its    *)
(* registration, and groups this run did set up.                           *)
THEOREM KnownAlways == Spec => []KnownInv
<1> USE ManifestAssumption
<1>1. Init => KnownInv
  BY DEF Init, KnownInv, Everywhere, Held, NoData
<1>2. ASSUME TypeOK, KnownInv, [Next]_vars PROVE KnownInv'
  <2> SUFFICES ASSUME NEW e \in Everywhere' PROVE pc'[e.run] \notin Early /\ e.groups \subseteq SetUp(e.run)'
    BY DEF KnownInv
  <2>1. \/ e \in Everywhere
        \/ \E r \in Runs : RegisterRun(r) /\ e = EntryOf(r)
    BY <1>2, EntriesHaveSources DEF Sources, Everywhere, Held
  <2>2. CASE e \in Everywhere
    <3>1. e.run \in Runs
      BY <1>2, <2>2 DEF TypeOK, Everywhere, Held, Data, Entry
    <3> QED
      BY <1>2, <2>2, <3>1, OnlyOnward DEF KnownInv, Onward
  <2>3. ASSUME NEW r \in Runs, RegisterRun(r), e = EntryOf(r)
        PROVE  pc'[e.run] \notin Early /\ e.groups \subseteq SetUp(e.run)'
    <3>1. e.run = r /\ e.groups = SetUp(r)
      BY <2>3 DEF EntryOf
    <3>2. pc'[r] = "enrollFlush"
      BY <1>2, <2>3 DEF RegisterRun, LockAndTruncate, TypeOK
    <3>3. SetUp(r) \subseteq SetUp(r)'
      BY <1>2, OnlyOnward DEF Onward
    <3> QED
      BY <3>1, <3>2, <3>3 DEF Early
  <2> QED
    BY <2>1, <2>2, <2>3
<1> QED
  BY <1>1, <1>2, TypeCorrect, PTL DEF Spec

(* With create times recorded, a run that has reaped shares its pid with   *)
(* no entry of another run: the process of that entry must be dead, and    *)
(* the clean-up has dropped it.                                            *)
THEOREM OwnAlways ==
  ASSUME HasPsutil
  PROVE  Spec => []OwnInv
<1> USE ManifestAssumption
<1>1. Init => OwnInv
  BY DEF Init, OwnInv, Cleared
<1>2. ASSUME TypeOK, PidInv, PidInv', OneWriter, OneWriter', DoomedInv, OwnInv, [Next]_vars PROVE OwnInv'
  <2> USE <1>2
  <2> SUFFICES ASSUME NEW r \in Runs
      PROVE /\ pc'[r] \in Cleared =>
                 /\ Own(r, disk.runs)'
                 /\ \A s \in Runs : pc'[s] \in Holding => Own(r, data[s].runs)'
            /\ pc'[r] = "reaping" => Own(r, data[r].runs \ todo[r])'
            /\ pc'[r] = "reapFlush" => Own(r, data[r].runs)'
    BY DEF OwnInv
  <2>a. Arrives(r) /\ Sources /\ Onward(r)
    BY RunsArrive, EntriesHaveSources, OnlyOnward
  <2>1. ASSUME pc'[r] \in Cleared, pc[r] \in Cleared
        PROVE  Own(r, disk.runs)' /\ \A s \in Runs : pc'[s] \in Holding => Own(r, data[s].runs)'
    <3>1. pid'[r] = pid[r]
      BY <2>1, <2>a DEF Onward, Cleared
    <3>2. Own(r, disk.runs) /\ \A s \in Runs : pc[s] \in Holding => Own(r, data[s].runs)
      BY <2>1 DEF OwnInv
    <3>3. \A s \in Runs : RegisterRun(s) => Own(r, {EntryOf(s)})
      BY <2>1 DEF RegisterRun, SetupDone, Own, EntryOf, PidInv, Up, Cleared
    <3>4. Own(r, disk.runs)'
      BY <2>a, <3>1, <3>2 DEF Sources, Own, Holding
    <3>5. ASSUME NEW s \in Runs, pc'[s] \in Holding PROVE Own(r, data[s].runs)'
      BY <2>a, <3>1, <3>2, <3>3, <3>5 DEF Sources, Own
    <3> QED
      BY <3>4, <3>5
  <2>2. ASSUME NothingToReap(r)
        PROVE  Own(r, disk.runs)' /\ \A s \in Runs : pc'[s] \in Holding => Own(r, data[s].runs)'
    <3>1. disk'.runs = {} /\ lock' = NoRun
      BY <2>2 DEF NothingToReap, Refreshed
    <3>2. \A s \in Runs : pc'[s] \notin Holding
      BY <3>1 DEF OneWriter
    <3> QED
      BY <3>1, <3>2 DEF Own
  <2>3. ASSUME FlushReap(r)
        PROVE  Own(r, disk.runs)' /\ \A s \in Runs : pc'[s] \in Holding => Own(r, data[s].runs)'
    <3>1. disk' = data[r] /\ lock' = NoRun /\ pid' = pid /\ pc[r] = "reapFlush"
      BY <2>3 DEF FlushReap, Fill
    <3>2. \A s \in Runs : pc'[s] \notin Holding
      BY <3>1 DEF OneWriter
    <3> QED
      BY <3>1, <3>2 DEF Own, OwnInv
  <2>4. ASSUME BeginReap(r) PROVE Own(r, data[r].runs \ todo[r])'
    BY <2>4 DEF BeginReap, Own, TypeOK
  <2>5. ASSUME NEW e \in todo[r], Examine(r, e) PROVE Own(r, data[r].runs \ todo[r])'
    <3>1. Own(r, data[r].runs \ todo[r]) /\ pid' = pid
      BY <2>5 DEF Examine, OwnInv
    <3>2. PidAlive(e) => Own(r, {e})
      BY <2>5 DEF PidAlive, Own, PidInv, Up, Examine
    <3>3. todo'[r] = todo[r] \ {e}
      BY <2>5 DEF Examine, TypeOK
    <3>4. CASE PidAlive(e)
      <4>1. data' = data
        BY <2>5, <3>4 DEF Examine
      <4> QED
        BY <3>1, <3>2, <3>3, <3>4, <4>1 DEF Own
    <3>5. CASE ~PidAlive(e)
      <4>1. data'[r].runs = data[r].runs \ {e}
        BY <2>5, <3>5 DEF Examine, TypeOK, Data
      <4> QED
        BY <3>1, <3>3, <4>1 DEF Own
    <3> QED
      BY <3>4, <3>5
  <2>6. ASSUME pc[r] = "reaping", data'[r] = data[r], todo'[r] = todo[r]
        PROVE  Own(r, data[r].runs \ todo[r])'
    BY <2>a, <2>6 DEF Own, OwnInv, Onward
  <2>7. ASSUME EndReap(r) PROVE Own(r, data[r].runs)'
    BY <2>7 DEF EndReap, Own, OwnInv
  <2>8. ASSUME pc[r] = "reapFlush", data'[r] = data[r] PROVE Own(r, data[r].runs)'
    BY <2>a, <2>8 DEF Own, OwnInv, Onward
  <2> QED
    BY <2>a, <2>1, <2>2, <2>3, <2>4, <2>5, <2>6, <2>7, <2>8 DEF Arrives
<1> QED
  BY <1>1, <1>2, TypeCorrect, OneWriterAlways, OnlyTheDeadAreDoomed, PTL DEF Spec

(* The orphan clean-up drops only entries of runs that are gone, and only  *)
(* on the way to giving each of their groups its turn.                     *)
THEOREM ReapAlways == Spec => []ReapInv
<1> USE ManifestAssumption
<1>1. Init => ReapInv
  BY DEF Init, ReapInv
<1>2. ASSUME TypeOK, OneWriter, EntryInv, DoomedInv, ReapInv, [Next]_vars PROVE ReapInv'
  <2> USE <1>2
  <2> DEFINE R(r) ==
        /\ data[r].latest = disk.latest
        /\ data[r].runs \subseteq disk.runs
        /\ \A e \in disk.runs \ data[r].runs :
             /\ pc[e.run] = "gone"
             /\ \A g \in e.groups : g \in HadTurn(e.run) \/ <<e.run, g>> \in doomed[r]
  <2> SUFFICES ASSUME NEW r \in Runs, pc'[r] = "reaping" PROVE R(r)'
    BY DEF ReapInv
  <2>a. Arrives(r) /\ \A q \in Runs : Onward(q)
    BY RunsArrive, OnlyOnward
  <2>b. \A e \in disk.runs : e.run \in Runs /\ e.groups \subseteq Groups
    BY DEF TypeOK, Data, Entry
  <2>c. \A q \in Runs : pc[q] = "gone" => pc'[q] = "gone"
    BY GoneForGood
  <2>1. CASE BeginReap(r)
    BY <2>1 DEF BeginReap, Refreshed, TypeOK
  <2>2. ASSUME NEW e \in todo[r], Examine(r, e) PROVE R(r)'
    <3>1. R(r) /\ doomed[r] = {} /\ UNCHANGED <<pc, disk, tried, unmade>>
      BY <2>2 DEF Examine, ReapInv
    <3> USE DEF HadTurn
    <3>2. CASE PidAlive(e)
      BY <2>2, <3>1, <3>2 DEF Examine
    <3>3. CASE ~PidAlive(e)
      <4>1. data'[r].runs = data[r].runs \ {e} /\ data'[r].latest = data[r].latest
        BY <2>2, <3>3 DEF Examine, TypeOK, Data
      <4>2. doomed'[r] = {e.run} \X e.groups
        BY <2>2, <3>3 DEF Examine, TypeOK
      <4>3. e \in Entry /\ Genuine(e)
        BY DEF TypeOK, EntryInv, Held
      <4>4. pc[e.run] = "gone"
        BY <3>3, <4>3 DEF Genuine, PidAlive, Up, Entry, TypeOK, Stages
      <4>5. \A g \in e.groups : <<e.run, g>> \in doomed'[r]
        BY <4>2
      <4> QED
        BY <3>1, <4>1, <4>4, <4>5
    <3> QED
      BY <3>2, <3>3
  <2>3. ASSUME pc[r] = "reaping", data'[r] = data[r], disk' = disk,
               \A q \in Runs, g \in Groups :
                 <<q, g>> \in doomed[r] => <<q, g>> \in doomed'[r] \/ g \in HadTurn(q)'
        PROVE  R(r)'
    <3>1. R(r)
      BY <2>3 DEF ReapInv
    <3> QED
      BY <2>a, <2>b, <2>c, <2>3, <3>1 DEF Onward
  <2> QED
    BY <2>a, <2>1, <2>2, <2>3 DEF Arrives
<1> QED
  BY <1>1, <1>2, TypeCorrect, OneWriterAlways, EntriesGenuine, OnlyTheDeadAreDoomed, PTL DEF Spec

(* teardown_groups gave a turn to every group it does not still have to.   *)
THEOREM LeftAlways == Spec => []LeftInv
<1> USE ManifestAssumption
<1>1. Init => LeftInv
  BY DEF Init, LeftInv
<1>2. ASSUME TypeOK, OneWriter, DoomedInv, LeftInv, [Next]_vars PROVE LeftInv'
  <2> USE <1>2
  <2> SUFFICES ASSUME NEW r \in Runs, pc'[r] = "teardown" PROVE (SetUp(r) \ left[r])' \subseteq HadTurn(r)'
    BY DEF LeftInv
  <2>a. Arrives(r) /\ Onward(r)
    BY RunsArrive, OnlyOnward
  <2>1. CASE FinishScenarios(r)
    BY <2>1 DEF FinishScenarios, SetUp, TypeOK
  <2>2. ASSUME NEW g \in Groups, TeardownGroup(r, g) PROVE (SetUp(r) \ left[r])' \subseteq HadTurn(r)'
    <3>1. left'[r] = left[r] \ {g} /\ HadTurn(r)' = HadTurn(r) \cup {g} /\ pc[r] = "teardown"
      BY <2>2 DEF TeardownGroup, TearDown, TypeOK, HadTurn
    <3>2. SetUp(r)' \subseteq SetUp(r) \cup {g}
      BY <2>2 DEF TeardownGroup, TearDown, TypeOK, SetUp
    <3> QED
      BY <3>1, <3>2 DEF LeftInv
  <2>3. CASE pc[r] = "teardown" /\ left'[r] = left[r] /\ res'[r] = res[r]
    BY <2>a, <2>3 DEF LeftInv, SetUp, Onward
  <2> QED
    BY <2>a, <2>1, <2>2, <2>3 DEF Arrives
<1> QED
  BY <1>1, <1>2, TypeCorrect, OneWriterAlways, OnlyTheDeadAreDoomed, PTL DEF Spec

-----------------------------------------------------------------------------
(* The steps of Manifest as the registry sees them.                        *)
StepKinds ==
  \/ Up' = Up /\ Logical' = Logical
  \/ \E r \in Runs : pc[r] = "new" /\ Up' = Up \cup {r} /\ Logical' = Logical
  \/ \E r \in Up :
       /\ Up' = Up \ {r}
       /\ Logical' = Logical \/ (MayTear /\ Logical' = NoData)
  \/ \E r \in Up : EndReap(r) /\ Up' = Up /\ Logical = disk /\ Logical' = data[r]
  \/ \E r \in Up : RegisterRun(r) /\ Up' = Up /\ Logical = disk
                   /\ Logical' = [runs |-> disk.runs \cup {EntryOf(r)}, latest |-> r]
  \/ \E r \in Up : UnregisterRun(r) /\ Up' = Up /\ Logical = disk /\ Logical' = WithoutPid(disk, pid[r])

LEMMA LogicalSteps ==
  ASSUME TypeOK, OneWriter, OneWriter', TornInv, LogicalInv, LogicalInv', [Next]_vars
  PROVE  StepKinds
<1> USE ManifestAssumption DEF TypeOK, OneWriter, LogicalInv, Stages, Holding, Flushing, Up
<1>q. ASSUME \A r \in Runs : pc'[r] \in Flushing <=> pc[r] \in Flushing,
             \A r \in Runs : pc[r] \in Flushing => data'[r] = data[r],
             disk' = disk
      PROVE  Logical' = Logical
  <2>1. CASE \E r \in Runs : pc[r] \in Flushing
    BY <1>q, <2>1
  <2>2. CASE \A r \in Runs : pc[r] \notin Flushing
    BY <1>q, <2>2
  <2> QED
    BY <2>1, <2>2
<1>1. ASSUME NEW r \in Runs, Start(r) PROVE StepKinds
  <2>1. Logical' = Logical
    BY <1>1, <1>q DEF Start
  <2>2. pc[r] = "new" /\ Up' = Up \cup {r}
    BY <1>1 DEF Start
  <2> QED
    BY <1>1, <2>1, <2>2 DEF StepKinds
<1>2. ASSUME NEW r \in Runs, NothingToReap(r) PROVE StepKinds
  <2>1. Logical' = Logical
    BY <1>2, <1>q DEF NothingToReap, EnterSetup, Refreshed
  <2>2. Up' = Up
    BY <1>2 DEF NothingToReap, EnterSetup, Refreshed
  <2> QED
    BY <1>2, <2>1, <2>2 DEF StepKinds
<1>3. ASSUME NEW r \in Runs, BeginReap(r) PROVE StepKinds
  <2>1. Logical' = Logical
    BY <1>3, <1>q DEF BeginReap, Refreshed
  <2>2. Up' = Up
    BY <1>3 DEF BeginReap, Refreshed
  <2> QED
    BY <1>3, <2>1, <2>2 DEF StepKinds
<1>4. ASSUME NEW r \in Runs, NEW e \in todo[r], Examine(r, e) PROVE StepKinds
  <2>1. Logical' = Logical
    BY <1>4, <1>q DEF Examine
  <2>2. Up' = Up
    BY <1>4 DEF Examine
  <2> QED
    BY <1>4, <2>1, <2>2 DEF StepKinds
<1>5. ASSUME NEW r \in Runs, NEW q \in Runs, NEW g \in Groups, DeleteOrphan(r, q, g) PROVE StepKinds
  <2>1. Logical' = Logical
    BY <1>5, <1>q DEF DeleteOrphan, TearDown
  <2>2. Up' = Up
    BY <1>5 DEF DeleteOrphan, TearDown
  <2> QED
    BY <1>5, <2>1, <2>2 DEF StepKinds
<1>6. ASSUME NEW r \in Runs, EndReap(r) PROVE StepKinds
  <2>1. r \in Up /\ Up' = Up /\ lock = r
    BY <1>6 DEF EndReap
  <2>2. pc'[r] \in Flushing /\ data'[r] = data[r]
    BY <1>6 DEF EndReap
  <2>3. \A s \in Runs : pc[s] \notin Flushing
    BY <2>1, <1>6 DEF EndReap
  <2>4. Logical = disk /\ Logical' = data[r]
    BY <2>2, <2>3
  <2> QED
    BY <1>6, <2>1, <2>4 DEF StepKinds
<1>7. ASSUME NEW r \in Runs, FlushReap(r) PROVE StepKinds
  <2>1. pc[r] \in Flushing /\ lock = r /\ disk' = data[r] /\ lock' = NoRun
    BY <1>7 DEF FlushReap, Fill, EnterSetup
  <2>2. \A s \in Runs : pc'[s] \notin Flushing
    BY <2>1
  <2>3. Logical' = Logical
    BY <2>1, <2>2
  <2>4. Up' = Up
    BY <1>7 DEF FlushReap, Fill, EnterSetup
  <2> QED
    BY <2>3, <2>4 DEF StepKinds
<1>8. ASSUME NEW r \in Runs, NEW g \in Groups, SetupOk(r, g) PROVE StepKinds
  <2>1. Logical' = Logical
    BY <1>8, <1>q DEF SetupOk, SettingUp
  <2>2. Up' = Up
    BY <1>8 DEF SetupOk, SettingUp
  <2> QED
    BY <1>8, <2>1, <2>2 DEF StepKinds
<1>9. ASSUME NEW r \in Runs, NEW g \in Groups, SetupFail(r, g) PROVE StepKinds
  <2>1. Logical' = Logical
    BY <1>9, <1>q DEF SetupFail, SettingUp
  <2>2. Up' = Up
    BY <1>9 DEF SetupFail, SettingUp
  <2> QED
    BY <1>9, <2>1, <2>2 DEF StepKinds
<1>10. ASSUME NEW r \in Runs, AbortSetup(r) PROVE StepKinds
  <2>1. Logical' = Logical
    BY <1>10, <1>q DEF AbortSetup, SetupDone
  <2>2. r \in Up /\ Up' = Up \ {r}
    BY <1>10 DEF AbortSetup, SetupDone
  <2> QED
    BY <1>10, <2>1, <2>2 DEF StepKinds
<1>11. ASSUME NEW r \in Runs, RegisterRun(r) PROVE StepKinds
  <2>1. r \in Up /\ Up' = Up /\ lock = NoRun
    BY <1>11 DEF RegisterRun, LockAndTruncate, SetupDone, Refreshed
  <2>2. pc'[r] \in Flushing /\ data'[r] = [runs |-> disk.runs \cup {EntryOf(r)}, latest |-> r]
    BY <1>11 DEF RegisterRun, LockAndTruncate, SetupDone, Refreshed
  <2>3. \A s \in Runs : pc[s] \notin Flushing
    BY <2>1, <1>11 DEF RegisterRun, LockAndTruncate, SetupDone, Refreshed
  <2>4. Logical = disk /\ Logical' = [runs |-> disk.runs \cup {EntryOf(r)}, latest |-> r]
    BY <2>2, <2>3
  <2> QED
    BY <1>11, <2>1, <2>4 DEF StepKinds
<1>12. ASSUME NEW r \in Runs, FlushRegister(r) PROVE StepKinds
  <2>1. pc[r] \in Flushing /\ lock = r /\ disk' = data[r] /\ lock' = NoRun
    BY <1>12 DEF FlushRegister, Fill
  <2>2. \A s \in Runs : pc'[s] \notin Flushing
    BY <2>1
  <2>3. Logical' = Logical
    BY <2>1, <2>2
  <2>4. Up' = Up
    BY <1>12 DEF FlushRegister, Fill
  <2> QED
    BY <2>3, <2>4 DEF StepKinds
<1>13. ASSUME NEW r \in Runs, FinishScenarios(r) PROVE StepKinds
  <2>1. Logical' = Logical
    BY <1>13, <1>q DEF FinishScenarios
  <2>2. Up' = Up
    BY <1>13 DEF FinishScenarios
  <2> QED
    BY <1>13, <2>1, <2>2 DEF StepKinds
<1>14. ASSUME NEW r \in Runs, NEW g \in Groups, TeardownGroup(r, g) PROVE StepKinds
  <2>1. Logical' = Logical
    BY <1>14, <1>q DEF TeardownGroup, TearDown
  <2>2. Up' = Up
    BY <1>14 DEF TeardownGroup, TearDown
  <2> QED
    BY <1>14, <2>1, <2>2 DEF StepKinds
<1>15. ASSUME NEW r \in Runs, InterruptTeardown(r) PROVE StepKinds
  <2>1. Logical' = Logical
    BY <1>15, <1>q DEF InterruptTeardown
  <2>2. Up' = Up
    BY <1>15 DEF InterruptTeardown
  <2> QED
    BY <1>15, <2>1, <2>2 DEF StepKinds
<1>16. ASSUME NEW r \in Runs, UnregisterRun(r) PROVE StepKinds
  <2>1. r \in Up /\ Up' = Up /\ lock = NoRun
    BY <1>16 DEF UnregisterRun, LockAndTruncate, Refreshed
  <2>2. pc'[r] \in Flushing /\ data'[r] = WithoutPid(disk, pid[r])
    BY <1>16 DEF UnregisterRun, LockAndTruncate, Refreshed
  <2>3. \A s \in Runs : pc[s] \notin Flushing
    BY <2>1, <1>16 DEF UnregisterRun, LockAndTruncate, Refreshed
  <2>4. Logical = disk /\ Logical' = WithoutPid(disk, pid[r])
    BY <2>2, <2>3
  <2> QED
    BY <1>16, <2>1, <2>4 DEF StepKinds
<1>17. ASSUME NEW r \in Runs, FlushUnregister(r) PROVE StepKinds
  <2>1. pc[r] \in Flushing /\ lock = r /\ disk' = data[r] /\ lock' = NoRun
    BY <1>17 DEF FlushUnregister, Fill
  <2>2. \A s \in Runs : pc'[s] \notin Flushing
    BY <2>1
  <2>3. Logical' = Logical
    BY <2>1, <2>2
  <2>4. Up' = Up
    BY <1>17 DEF FlushUnregister, Fill
  <2> QED
    BY <2>3, <2>4 DEF StepKinds
<1>18. ASSUME NEW r \in Runs, Exit(r) PROVE StepKinds
  <2>1. Logical' = Logical
    BY <1>18, <1>q DEF Exit
  <2>2. r \in Up /\ Up' = Up \ {r}
    BY <1>18 DEF Exit
  <2> QED
    BY <1>18, <2>1, <2>2 DEF StepKinds
<1>19. ASSUME NEW r \in Runs, LockTimeout(r) PROVE StepKinds
  <2>1. Logical' = Logical
    BY <1>19, <1>q DEF LockTimeout, WaitsForLock, SetupDone
  <2>2. r \in Up /\ Up' = Up \ {r}
    BY <1>19 DEF LockTimeout, WaitsForLock, SetupDone
  <2> QED
    BY <1>19, <2>1, <2>2 DEF StepKinds
<1>20. ASSUME NEW r \in Runs, Crash(r) PROVE StepKinds
  <2>1. r \in Up /\ Up' = Up \ {r}
    BY <1>20 DEF Crash
  <2>2. CASE pc[r] \in Flushing
    <3>1. MayTear /\ disk' = NoData
      BY <1>20, <2>2 DEF Crash, TornInv
    <3>2. \A s \in Runs : pc'[s] \notin Flushing
      BY <1>20, <2>2 DEF Crash
    <3>3. Logical' = NoData
      BY <3>1, <3>2
    <3> QED
      BY <2>1, <3>1, <3>3 DEF StepKinds
  <2>3. CASE pc[r] \notin Flushing
    <3>1. Logical' = Logical
      BY <1>20, <1>q, <2>3 DEF Crash
    <3> QED
      BY <2>1, <3>1 DEF StepKinds
  <2> QED
    BY <2>2, <2>3
<1>21. ASSUME NEW p \in Pids, ForeignTakes(p) \/ ForeignLeaves(p) PROVE StepKinds
  <2>1. Logical' = Logical
    BY <1>21, <1>q DEF ForeignTakes, ForeignLeaves
  <2>2. Up' = Up
    BY <1>21 DEF ForeignTakes, ForeignLeaves
  <2> QED
    BY <1>21, <2>1, <2>2 DEF StepKinds
<1>22. CASE UNCHANGED vars
  <2>1. Logical' = Logical /\ Up' = Up
    BY <1>22, <1>q DEF vars
  <2> QED
    BY <2>1 DEF StepKinds
<1> QED
  BY <1>1, <1>2, <1>3, <1>4, <1>5, <1>6, <1>7, <1>8, <1>9, <1>10, <1>11,
     <1>12, <1>13, <1>14, <1>15, <1>16, <1>17, <1>18, <1>19, <1>20, <1>21, <1>22
     DEF Next, Progress, AllGone

(* The facts about a state that the two theorems below need.               *)
Facts ==
  /\ TypeOK /\ PidInv /\ OneWriter /\ TornInv /\ LogicalInv
  /\ EntryInv /\ KnownInv /\ OwnInv /\ ReapInv /\ LeftInv

LEMMA FactsAlways == ASSUME HasPsutil PROVE Spec => []Facts
BY TypeCorrect, OneWriterAlways, TornAlways, LogicalAlways, EntriesGenuine, KnownAlways,
   OwnAlways, ReapAlways, LeftAlways, PTL DEF Facts

LEMMA LogicalEntries ==
  ASSUME Facts
  PROVE  Logical \in Data /\ Recorded \subseteq Everywhere
<1>1. CASE \E r \in Runs : pc[r] \in Flushing
  BY <1>1 DEF Facts, LogicalInv, TypeOK, Recorded, Everywhere, Held
<1>2. CASE \A r \in Runs : pc[r] \notin Flushing
  BY <1>2 DEF Facts, LogicalInv, TypeOK, Recorded, Everywhere
<1> QED
  BY <1>1, <1>2

(* unregister_run takes out the entries of the process that calls it, and  *)
(* no other: entries with its pid are its own.                             *)
LEMMA OnlyOwnEntriesGo ==
  ASSUME Facts, NEW r \in Runs, UnregisterRun(r)
  PROVE  /\ WithoutPid(disk, pid[r]).latest = disk.latest
         /\ WithoutPid(disk, pid[r]).runs = {e \in disk.runs : e.run # r}
<1>1. pc[r] = "teardown" /\ r \in Up
  BY DEF UnregisterRun, Up, Facts, TypeOK
<1>2. \A e \in disk.runs : e.pid = pid[r] <=> e.run = r
  BY <1>1 DEF Facts, OwnInv, Own, Cleared, EntryInv, Genuine
<1> QED
  BY <1>2 DEF WithoutPid, Facts, TypeOK, Data

Forgets == \E e \in Recorded \ Recorded' : ~(e.groups \subseteq HadTurn(e.run))

(* With psutil and no torn write, no entry ever leaves the manifest before *)
(* each of its groups had its turn at a teardown, be it that no agent      *)
(* could be made for it or that its teardown_group raised.                 *)
THEOREM NoGroupIsPassedOver ==
  ASSUME HasPsutil, ~MayTear
  PROVE  Spec => NoGroupPassedOver
<1>1. ASSUME Facts, Facts', [Next]_vars PROVE ~Forgets
  <2> SUFFICES ASSUME NEW e \in Recorded, e \notin Recorded' PROVE e.groups \subseteq HadTurn(e.run)
    BY DEF Forgets
  <2> USE <1>1
  <2>1. StepKinds
    BY LogicalSteps DEF Facts
  <2>2. Logical' # Logical
    BY DEF Recorded
  <2>3. ASSUME NEW r \in Up, EndReap(r), Logical = disk, Logical' = data[r]
        PROVE  e.groups \subseteq HadTurn(e.run)
    <3>1. e \in disk.runs \ data[r].runs
      BY <2>3 DEF Recorded
    <3>2. pc[r] = "reaping" /\ doomed[r] = {} /\ r \in Runs
      BY <2>3 DEF EndReap, Up
    <3> QED
      BY <3>1, <3>2 DEF Facts, ReapInv
  <2>4. ASSUME NEW r \in Up, RegisterRun(r), Logical = disk,
               Logical' = [runs |-> disk.runs \cup {EntryOf(r)}, latest |-> r]
        PROVE  e.groups \subseteq HadTurn(e.run)
    BY <2>4 DEF Recorded
  <2>5. ASSUME NEW r \in Up, UnregisterRun(r), Logical = disk, Logical' = WithoutPid(disk, pid[r])
        PROVE  e.groups \subseteq HadTurn(e.run)
    <3>1. r \in Runs
      BY DEF Up
    <3>2. e.run = r
      BY <2>5, <3>1, OnlyOwnEntriesGo DEF Recorded
    <3>3. e.groups \subseteq SetUp(r)
      BY <3>2, LogicalEntries DEF Facts, KnownInv
    <3>4. SetUp(r) \subseteq HadTurn(r)
      BY <2>5, <3>1 DEF UnregisterRun, Facts, LeftInv
    <3> QED
      BY <3>2, <3>3, <3>4
  <2> QED
    BY <2>1, <2>2, <2>3, <2>4, <2>5 DEF StepKinds
<1>2. Facts /\ Facts' /\ [Next]_vars => [\A e \in Recorded \ Recorded' : e.groups \subseteq HadTurn(e.run)]_vars
  BY <1>1 DEF Forgets
<1> QED
  BY <1>2, FactsAlways, PTL DEF Spec, NoGroupPassedOver

-----------------------------------------------------------------------------
(* The manifest is the registry it is meant to be: whatever the processes  *)
(* do, each of their steps is one atomic operation of RunRegistry on the   *)
(* recorded runs, or none.  Needs psutil; a torn write shows as a registry *)
(* that is not durable.                                                    *)
THEOREM ManifestKeepsRegistry ==
  ASSUME HasPsutil
  PROVE  Spec => RegistryKept
<1> DEFINE Names == {e.run : e \in Recorded}
<1> USE ManifestAssumption
<1>1. Init => Registry!Init
  BY DEF Init, Registry!Init, Up, Recorded, Logical, Flushing, NoData
<1>2. ASSUME Facts, Facts', [Next]_vars PROVE [Registry!Next]_Registry!registry
  <2> USE <1>2
  <2>1. StepKinds
    BY LogicalSteps DEF Facts
  <2>a. \A e \in Recorded : pc[e.run] \notin Early /\ e.run \in Runs
    BY LogicalEntries DEF Facts, KnownInv, Recorded, Data, Entry
  <2>b. Up \subseteq Runs
    BY DEF Up
  <2>2. CASE Up' = Up /\ Logical' = Logical
    BY <2>2 DEF Recorded, Registry!registry
  <2>3. ASSUME NEW r \in Runs, pc[r] = "new", Up' = Up \cup {r}, Logical' = Logical
        PROVE  Registry!Join(r)
    <3>1. r \notin Up /\ r \notin Names
      BY <2>a, <2>3 DEF Up, Early
    <3> QED
      BY <2>3, <3>1 DEF Registry!Join, Recorded
  <2>4. ASSUME NEW r \in Up, Up' = Up \ {r}, Logical' = Logical \/ (MayTear /\ Logical' = NoData)
        PROVE  Registry!Stop(r)
    BY <2>4 DEF Registry!Stop, Recorded, NoData
  <2>5. ASSUME NEW r \in Up, EndReap(r), Up' = Up, Logical = disk, Logical' = data[r]
        PROVE  Registry!Reap(r)
    <3>1. /\ data[r].latest = disk.latest
          /\ data[r].runs \subseteq disk.runs
          /\ \A e \in disk.runs \ data[r].runs : pc[e.run] = "gone"
      BY <2>5, <2>b DEF EndReap, Facts, ReapInv
    <3>2. Recorded = disk.runs /\ Recorded' = data[r].runs
      BY <2>5 DEF Recorded
    <3>3. Names' \subseteq Names /\ Names \ Names' \in SUBSET (Names \ Up)
      BY <3>1, <3>2 DEF Up
    <3>4. Names' = Names \ (Names \ Names')
      BY <3>3
    <3> QED
      BY <2>5, <3>1, <3>3, <3>4 DEF Registry!Reap
  <2>6. ASSUME NEW r \in Up, RegisterRun(r), Up' = Up, Logical = disk,
               Logical' = [runs |-> disk.runs \cup {EntryOf(r)}, latest |-> r]
        PROVE  Registry!Register(r)
    <3>1. r \notin Names
      BY <2>6, <2>a DEF RegisterRun, SetupDone, Early
    <3>2. Recorded' = Recorded \cup {EntryOf(r)} /\ EntryOf(r).run = r
      BY <2>6 DEF Recorded, EntryOf
    <3>3. Names' = Names \cup {r}
      BY <3>2
    <3> QED
      BY <2>6, <3>1, <3>3 DEF Registry!Register
  <2>7. ASSUME NEW r \in Up, UnregisterRun(r), Up' = Up, Logical = disk, Logical' = WithoutPid(disk, pid[r])
        PROVE  Registry!Withdraw(r)
    <3>1. Recorded' = {e \in Recorded : e.run # r} /\ Logical'.latest = Logical.latest
      BY <2>7, <2>b, OnlyOwnEntriesGo DEF Recorded
    <3>2. Names' = Names \ {r}
      BY <3>1
    <3> QED
      BY <2>7, <3>1, <3>2 DEF Registry!Withdraw
  <2> QED
    BY <2>1, <2>b, <2>2, <2>3, <2>4, <2>5, <2>6, <2>7 DEF StepKinds, Registry!Next
<1> QED
  BY <1>1, <1>2, FactsAlways, PTL DEF Spec, RegistryKept, Registry!Spec

-----------------------------------------------------------------------------
(* Part 3: gc beside the runs.                                             *)
(* A whole read finds every registered run at work; gc plans none of those.*)
PlanInv ==
  /\ gcAt \in {"idle", "read"} => gcPlan = {}
  /\ gcAt = "read" /\ gcWhole => gcKnown \subseteq gcLive
  /\ gcWhole => gcPlan \cap gcKnown = {}

DirsInv == dirs \in Seq(Runs)

-----------------------------------------------------------------------------
(* gc takes no lock and writes no manifest: beside it the runs behave as   *)
(* they do alone, so that every theorem about Manifest holds beside gc.    *)
THEOREM GcLeavesRunsAlone == GcSpec => Spec
<1>1. GcInit => Init
  BY DEF GcInit
<1>2. [GcNext]_allVars => [Next]_vars
  <2> SUFFICES ASSUME GcNext PROVE Next \/ UNCHANGED vars
    BY DEF allVars
  <2>1. ASSUME NEW r \in Runs, StartRun(r) PROVE Next
    BY <2>1 DEF StartRun, Next
  <2>2. ASSUME NEW r \in Runs, WriteArtifact(r) \/ GcDelete(r) PROVE UNCHANGED vars
    BY <2>2 DEF WriteArtifact, GcDelete
  <2>3. ASSUME NEW r \in Runs, RunStep(r) PROVE Next
    BY <2>3 DEF RunStep, Next
  <2>4. ASSUME NEW p \in Pids, ForeignTakes(p) \/ ForeignLeaves(p) PROVE Next
    BY <2>4 DEF Next
  <2>5. CASE GcReadManifest \/ GcPlanDeletions \/ GcEnd
    BY <2>5 DEF GcReadManifest, GcPlanDeletions, GcEnd
  <2> QED
    BY <2>1, <2>2, <2>3, <2>4, <2>5 DEF GcNext
<1> QED
  BY <1>1, <1>2, PTL DEF GcSpec, Spec

(* What the runs keep to among themselves they keep to beside gc: all that *)
(* is claimed of the manifest holds of the two together.                   *)
THEOREM ManifestBesideGc ==
  ASSUME HasPsutil, ~MayTear
  PROVE  GcSpec => []LiveRunRecorded /\ LiveRunSpared /\ NoGroupPassedOver /\ RegistryKept
BY GcLeavesRunsAlone, LiveRunsStayRecorded, LiveRunsAreSpared, NoGroupIsPassedOver,
   ManifestKeepsRegistry, PTL

-----------------------------------------------------------------------------
(* The places behind i come one forward, the others stay.                  *)
LEMMA WithoutOne ==
  ASSUME NEW s \in Seq(Runs), NEW i \in DOMAIN s
  PROVE  /\ RemoveAt(s, i) \in Seq(Runs)
         /\ ToSet(s) \subseteq ToSet(RemoveAt(s, i)) \cup {s[i]}
<1>1. i \in 1..Len(s) /\ Len(s) \in Nat /\ \A k \in 1..Len(s) : s[k] \in Runs
  BY LenProperties, ElementOfSeq
<1> DEFINE a == SubSeq(s, 1, i - 1)
           b == SubSeq(s, i + 1, Len(s))
<1>2. a \in Seq(Runs) /\ Len(a) = i - 1 /\ \A k \in 1..(i - 1) : a[k] = s[k]
  <2>1. \A k \in 1..(i - 1) : s[k] \in Runs
    BY <1>1
  <2>2. /\ a \in Seq(Runs)
        /\ Len(a) = IF 1 <= i - 1 THEN (i - 1) - 1 + 1 ELSE 0
        /\ \A k \in 1..((i - 1) - 1 + 1) : a[k] = s[1 + k - 1]
    BY <1>1, <2>1, SubSeqProperties
  <2> QED
    BY <1>1, <2>2
<1>3. b \in Seq(Runs) /\ Len(b) = Len(s) - i /\ \A k \in 1..(Len(s) - i) : b[k] = s[i + k]
  <2>1. \A k \in (i + 1)..Len(s) : s[k] \in Runs
    BY <1>1
  <2>2. /\ b \in Seq(Runs)
        /\ Len(b) = IF i + 1 <= Len(s) THEN Len(s) - (i + 1) + 1 ELSE 0
        /\ \A k \in 1..(Len(s) - (i + 1) + 1) : b[k] = s[(i + 1) + k - 1]
    BY <1>1, <2>1, SubSeqProperties
  <2> QED
    BY <1>1, <2>2
<1> HIDE DEF a, b
<1> DEFINE c == a \o b
<1>4. /\ c \in Seq(Runs) /\ Len(c) = Len(s) - 1 /\ DOMAIN c = 1..(Len(s) - 1)
      /\ \A k \in 1..(Len(s) - 1) : c[k] = IF k <= i - 1 THEN a[k] ELSE b[k - (i - 1)]
  <2>1. /\ c \in Seq(Runs) /\ Len(c) = Len(a) + Len(b)
        /\ \A k \in 1..(Len(a) + Len(b)) : c[k] = IF k <= Len(a) THEN a[k] ELSE b[k - Len(a)]
    BY <1>2, <1>3, ConcatProperties
  <2> HIDE DEF c
  <2>2. Len(a) + Len(b) = Len(s) - 1 /\ Len(a) = i - 1
    BY <1>1, <1>2, <1>3
  <2>3. Len(c) = Len(s) - 1 /\ DOMAIN c = 1..Len(c)
    BY <2>1, <2>2, LenProperties
  <2> QED
    BY <2>1, <2>2, <2>3
<1> HIDE DEF c
<1>5. ASSUME NEW k \in 1..Len(s), s[k] # s[i]
      PROVE  \E j \in 1..(Len(s) - 1) : c[j] = s[k]
  <2>1. CASE k < i
    <3>1. k \in 1..(Len(s) - 1) /\ k <= i - 1 /\ k \in 1..(i - 1)
      BY <1>1, <2>1
    <3> QED
      BY <1>2, <1>4, <3>1
  <2>2. CASE k > i
    <3> DEFINE j == k - 1
    <3>1. j \in 1..(Len(s) - 1) /\ ~(j <= i - 1) /\ j - (i - 1) = k - i /\ k - i \in 1..(Len(s) - i)
      BY <1>1, <2>2
    <3>2. c[j] = b[k - i]
      BY <1>4, <3>1
    <3>3. b[k - i] = s[i + (k - i)] /\ i + (k - i) = k
      <4>1. k - i \in 1..(Len(s) - i)
        BY <3>1
      <4>2. b[k - i] = s[i + (k - i)]
        BY <1>3, <4>1
      <4>3. i + (k - i) = k
        BY <1>1
      <4> QED
        BY <4>2, <4>3
    <3> QED
      BY <3>1, <3>2, <3>3
  <2>3. k < i \/ k > i \/ k = i
    BY <1>1
  <2> QED
    BY <1>5, <2>1, <2>2, <2>3
<1>6. DOMAIN s = 1..Len(s)
  BY <1>1, LenProperties
<1>7. c = RemoveAt(s, i)
  BY DEF c, a, b, RemoveAt
<1> QED
  BY SMTT(30), <1>4, <1>5, <1>6, <1>7 DEF ToSet

LEMMA InFront ==
  ASSUME NEW s \in Seq(Runs), NEW r \in Runs
  PROVE  /\ <<r>> \o s \in Seq(Runs)
         /\ ToSet(<<r>> \o s) = ToSet(s) \cup {r}
<1> DEFINE o == <<r>>
           t == o \o s
<1>1. o \in Seq(Runs) /\ Len(o) = 1 /\ o[1] = r
  OBVIOUS
<1> HIDE DEF o
<1>2. /\ t \in Seq(Runs) /\ Len(t) = Len(o) + Len(s)
      /\ \A i \in 1..(Len(o) + Len(s)) : t[i] = IF i <= Len(o) THEN o[i] ELSE s[i - Len(o)]
  BY <1>1, ConcatProperties
<1> HIDE DEF t
<1>3. /\ Len(s) \in Nat /\ DOMAIN s = 1..Len(s) /\ DOMAIN t = 1..(Len(s) + 1)
      /\ \A i \in 1..(Len(s) + 1) : t[i] = IF i <= 1 THEN o[i] ELSE s[i - 1]
  BY <1>1, <1>2, LenProperties
<1>4. \A i \in 1..Len(s) : i + 1 \in DOMAIN t /\ t[i + 1] = s[i]
  BY <1>3
<1>5. 1 \in DOMAIN t /\ t[1] = r
  BY <1>1, <1>3
<1>6. \A i \in DOMAIN t : i = 1 \/ (i - 1 \in DOMAIN s /\ t[i] = s[i - 1])
  BY <1>3
<1>7. t \in Seq(Runs) /\ ToSet(t) = ToSet(s) \cup {r}
  <2>1. r \in ToSet(t)
    BY <1>5 DEF ToSet
  <2>2. ASSUME NEW x \in ToSet(s) PROVE x \in ToSet(t)
    <3>1. PICK i \in DOMAIN s : x = s[i]
      BY <2>2 DEF ToSet
    <3>2. i + 1 \in DOMAIN t /\ t[i + 1] = x
      BY <1>3, <1>4, <3>1
    <3> QED
      BY <3>2 DEF ToSet
  <2>3. ASSUME NEW x \in ToSet(t) PROVE x \in ToSet(s) \cup {r}
    <3>1. PICK i \in DOMAIN t : x = t[i]
      BY <2>3 DEF ToSet
    <3> QED
      BY <1>5, <1>6, <3>1 DEF ToSet
  <2> QED
    BY <1>2, <2>1, <2>2, <2>3
<1>8. t = <<r>> \o s
  BY DEF t, o
<1> QED
  BY <1>7, <1>8

LEMMA DirsAlways == GcSpec => []DirsInv
<1>1. GcInit => DirsInv
  BY DEF GcInit, DirsInv
<1>2. ASSUME DirsInv, [GcNext]_allVars PROVE DirsInv'
  <2> USE <1>2 DEF DirsInv
  <2>1. ASSUME NEW r \in Runs, StartRun(r) PROVE DirsInv'
    BY <2>1, InFront DEF StartRun
  <2>2. ASSUME NEW r \in Runs, WriteArtifact(r) PROVE DirsInv'
    <3>1. PICK i \in 2..Len(dirs) : dirs' = <<r>> \o RemoveAt(dirs, i)
      BY <2>2 DEF WriteArtifact
    <3>2. RemoveAt(dirs, i) \in Seq(Runs)
      <4>1. i \in DOMAIN dirs
        BY LenProperties
      <4> QED
        BY <4>1, WithoutOne
    <3> QED
      BY <3>1, <3>2, InFront
  <2>3. ASSUME NEW r \in Runs, GcDelete(r) PROVE DirsInv'
    BY <2>3, WithoutOne DEF GcDelete
  <2>4. CASE UNCHANGED dirs
    BY <2>4
  <2> QED
    BY <2>1, <2>2, <2>3, <2>4
       DEF GcNext, RunStep, gcVars, allVars, GcReadManifest, GcPlanDeletions, GcEnd
<1> QED
  BY <1>1, <1>2, PTL DEF GcSpec

(* A run that is registered and at work is in the file, unless somebody is *)
(* writing it, and the check of its pid finds it, whoever else was or is   *)
(* in the file and whatever pids were used before.                         *)
LEMMA WholeReadSeesAll ==
  ASSUME TypeOK, LiveRunRecorded, \A s \in Runs : pc[s] \notin Flushing,
         NEW r \in Runs, pc[r] \in {"running", "teardown"}
  PROVE  r \in ListedLive
<1>1. EntryOf(r) \in disk.runs
  BY DEF LiveRunRecorded, Recorded, Logical
<1>2. PidAlive(EntryOf(r))
  BY DEF PidAlive, EntryOf, Up
<1>3. EntryOf(r).run = r
  BY DEF EntryOf
<1> QED
  BY <1>1, <1>2, <1>3 DEF ListedLive

LEMMA PlanAlways ==
  ASSUME ~MayTear
  PROVE  GcSpec => []PlanInv
<1>1. GcInit => PlanInv
  BY DEF GcInit, PlanInv
<1>2. TypeOK /\ LiveRunRecorded /\ PlanInv /\ [GcNext]_allVars => PlanInv'
  <2> SUFFICES ASSUME TypeOK, LiveRunRecorded, PlanInv, [GcNext]_allVars PROVE PlanInv'
    OBVIOUS
  <2>1. CASE GcReadManifest
    <3>1. gcWhole' => gcKnown' \subseteq gcLive'
      <4> SUFFICES ASSUME gcWhole', NEW r \in gcKnown' PROVE r \in gcLive'
        OBVIOUS
      <4>1. r \in Runs /\ pc[r] \in {"running", "teardown"}
        BY <2>1 DEF GcReadManifest
      <4>2. \A s \in Runs : pc[s] \notin Flushing
        BY <2>1 DEF GcReadManifest
      <4> QED
        BY <2>1, <4>1, <4>2, WholeReadSeesAll DEF GcReadManifest
    <3> QED
      BY <2>1, <3>1 DEF PlanInv, GcReadManifest
  <2>2. CASE GcPlanDeletions
    BY <2>2 DEF PlanInv, GcPlanDeletions, Deletions
  <2>3. CASE GcEnd
    BY <2>3 DEF PlanInv, GcEnd
  <2>4. ASSUME NEW r \in Runs, GcDelete(r) PROVE PlanInv'
    BY <2>4 DEF PlanInv, GcDelete
  <2>5. CASE UNCHANGED <<gcAt, gcLive, gcPlan, gcKnown, gcWhole>>
    BY <2>5 DEF PlanInv
  <2> QED
    BY <2>1, <2>2, <2>3, <2>4, <2>5 DEF GcNext, StartRun, WriteArtifact, RunStep, gcVars, allVars
<1> QED
  BY <1>1, <1>2, GcLeavesRunsAlone, TypeCorrect, LiveRunsStayRecorded, PTL DEF GcSpec

(* Unless gc reads the file while somebody writes it, a run that had       *)
(* registered keeps its directory while it lives: its entry survives the   *)
(* updates of all the others, its pid is found to be its own, and no step  *)
(* but gc's removes a directory.  Needs that no writer dies writing.       *)
THEOREM WholeReadsKeepRuns ==
  ASSUME ~MayTear
  PROVE  GcSpec => WholeReadKeepsRuns
<1> DEFINE Kept == \A r \in Deleted : gcWhole /\ r \in gcKnown => pc[r] = "gone"
<1>1. ASSUME DirsInv, PlanInv, [GcNext]_allVars PROVE Kept
  <2> USE <1>1 DEF DirsInv
  <2>1. ASSUME NEW r \in Runs, StartRun(r) PROVE Kept
    BY <2>1, InFront DEF StartRun, Deleted
  <2>2. ASSUME NEW r \in Runs, WriteArtifact(r) PROVE Kept
    <3>1. PICK i \in 2..Len(dirs) : dirs[i] = r /\ dirs' = <<r>> \o RemoveAt(dirs, i)
      BY <2>2 DEF WriteArtifact
    <3>2. /\ RemoveAt(dirs, i) \in Seq(Runs)
          /\ ToSet(dirs) \subseteq ToSet(RemoveAt(dirs, i)) \cup {r}
      <4>1. i \in DOMAIN dirs
        BY LenProperties
      <4> QED
        BY <3>1, <4>1, WithoutOne
    <3> QED
      BY <3>1, <3>2, InFront DEF Deleted
  <2>3. ASSUME NEW r \in Runs, GcDelete(r) PROVE Kept
    <3>1. Deleted \subseteq {r}
      BY <2>3, WithoutOne DEF GcDelete, Deleted
    <3> QED
      BY <2>3, <3>1 DEF GcDelete, PlanInv
  <2>4. CASE UNCHANGED dirs
    BY <2>4 DEF Deleted
  <2> QED
    BY <2>1, <2>2, <2>3, <2>4
       DEF GcNext, RunStep, gcVars, allVars, GcReadManifest, GcPlanDeletions, GcEnd
<1> QED
  BY <1>1, DirsAlways, PlanAlways, PTL DEF GcSpec, WholeReadKeepsRuns
=============================================================================
