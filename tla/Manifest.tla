------------------------------ MODULE Manifest ------------------------------
(***************************************************************************)
(* The run manifest shared by the belt processes of one outcomes root      *)
(* (src/belt/manifest.py) together with the part of `belt run` that uses   *)
(* it: orphan cleanup at startup, group setup, registration, group         *)
(* teardown and unregistration (runner/phases/setup_groups.py and          *)
(* teardown.py, commands/run.py main).                                     *)
(*                                                                         *)
(* A run is one process.  Its groups own remote resources (an assistant,   *)
(* an index, ...) that outlive the process: the manifest is what lets a    *)
(* later run find the resources of a run that died.  Every mutation of the *)
(* file happens under a file lock, but the write itself truncates the file *)
(* and then fills it, and the lock is acquired with a timeout.             *)
(***************************************************************************)
EXTENDS Naturals

CONSTANTS
  Runs,            (* the processes, each an invocation of belt run / eval *)
  Pids,            (* process ids, reused once their process is gone       *)
  Groups,          (* the scenario groups every run matched                *)
  NoRun,           (* "nobody": lock free, no latest run                   *)
  NoPid,           (* the pid of a run that has not started                *)
  HasPsutil,       (* psutil importable: create times are recorded         *)
  MayCrash,        (* a process may be killed at any point ...             *)
  MayTear,         (* ... even between truncating and filling the file     *)
  Stubborn,        (* groups whose teardown_group may raise                *)
  Unmakeable,      (* groups whose agent may not be made for the teardown  *)
  StrictRuns,      (* the runs given --strict                              *)
  KeepRuns,        (* the runs given --no-cleanup                          *)
  ForeignPids      (* pids that a process of another user may take         *)

ASSUME ManifestAssumption ==
  /\ NoRun \notin Runs
  /\ NoPid \notin Pids
  /\ StrictRuns \subseteq Runs /\ KeepRuns \subseteq Runs
  /\ ForeignPids \subseteq Pids /\ Stubborn \cup Unmakeable \subseteq Groups
  /\ {HasPsutil, MayCrash, MayTear} \subseteq BOOLEAN

VARIABLES
  pc,      (* where each run's main thread is                              *)
  pid,     (* the pid the kernel gave each run                             *)
  res,     (* remote resource of each group of each run                    *)
  left,    (* groups the current loop of a run has still to handle         *)
  lock,    (* holder of the file lock                                      *)
  disk,    (* what a reader of the manifest file gets                      *)
  data,    (* each process's Manifest._data                                *)
  todo,    (* cleanup_orphans: entries not examined yet                    *)
  doomed,  (* cleanup_orphans: resources of the entry being deleted        *)
  tried,   (* groups on which teardown_group was called (history)          *)
  unmade,  (* groups whose turn came without an agent to call (history)    *)
  foreign  (* pids held by processes of another user                       *)

vars == <<pc, pid, res, left, lock, disk, data, todo, doomed, tried, unmade, foreign>>

-----------------------------------------------------------------------------
(* One element of the manifest's "runs" list.  create_time is the identity *)
(* of the process, so the run itself stands for it.                        *)
Entry == [run : Runs, pid : Pids, groups : SUBSET Groups]

Data == [runs : SUBSET Entry, latest : Runs \cup {NoRun}]

(* A missing, truncated or unparsable file reads as {}.                    *)
NoData == [runs |-> {}, latest |-> NoRun]

(* The program points at which a process holds the lock: examining orphans *)
(* and, with the file truncated, before each of the three writes.          *)
Flushing == {"reapFlush", "enrollFlush", "leaveFlush"}
Holding == Flushing \cup {"reaping"}
Stages == Holding \cup
  {"new", "boot", "setup", "aborting", "running", "teardown", "after", "gone"}

Up == {r \in Runs : pc[r] \notin {"new", "gone"}}

SetUp(r) == {g \in Groups : res[r][g] # "none"}

HadTurn(r) == tried[r] \cup unmade[r]

EntryOf(r) == [run |-> r, pid |-> pid[r], groups |-> SetUp(r)]

(* What the manifest says, looking through a write in progress.            *)
Logical ==
  IF \E r \in Runs : pc[r] \in Flushing
    THEN data[CHOOSE r \in Runs : pc[r] \in Flushing]
    ELSE disk

Recorded == Logical.runs

(* Mutants: any process with the pid will do; the comparison of the create *)
(* times the wrong way round.                                              *)
AnyProcess(e) == e.pid \in foreign \/ \E q \in Up : pid[q] = e.pid
OnlyOthers(e) ==
  e.pid \in foreign \/ \E q \in Up : pid[q] = e.pid /\ (HasPsutil => q # e.run)

(* os.kill(pid, 0) finds a process; with a recorded create time it must be *)
(* the one that registered, unless the pid belongs to another user, when   *)
(* PermissionError answers "alive" before the times are compared.          *)
PidAlive(e) ==
  \/ e.pid \in foreign
  \/ \E q \in Up : pid[q] = e.pid /\ (HasPsutil => q = e.run)

-----------------------------------------------------------------------------
Init ==
  /\ pc = [r \in Runs |-> "new"]
  /\ pid = [r \in Runs |-> NoPid]
  /\ res = [r \in Runs |-> [g \in Groups |-> "none"]]
  /\ left = [r \in Runs |-> {}]
  /\ lock = NoRun
  /\ disk = NoData
  /\ data = [r \in Runs |-> NoData]
  /\ todo = [r \in Runs |-> {}]
  /\ doomed = [r \in Runs |-> {}]
  /\ tried = [r \in Runs |-> {}] /\ unmade = [r \in Runs |-> {}]
  /\ foreign = {}

(* Manifest(...) in cleanup_orphans(ctx) reads the file without the lock.  *)
Start(r) ==
  /\ pc[r] = "new"
  /\ \E p \in Pids \ (foreign \cup {pid[q] : q \in Up}) :
       pid' = [pid EXCEPT ![r] = p]
  /\ pc' = [pc EXCEPT ![r] = "boot"]
  /\ data' = [data EXCEPT ![r] = disk]
  /\ UNCHANGED <<res, left, lock, disk, todo, doomed, tried, unmade, foreign>>

(* Mutant: no _refresh() once the lock is held.                            *)
StaleCopy(r) == data[r]

(* The state a process mutates is what the file holds once it has the lock *)
Refreshed(r) == disk

(* _locked() then _write(): r takes the lock, refreshes, sets its data to  *)
(* d and opens the file for writing, which truncates it.                   *)
LockAndTruncate(r, d, stage) ==
  /\ lock = NoRun
  /\ lock' = r
  /\ data' = [data EXCEPT ![r] = d]
  /\ disk' = NoData
  /\ pc' = [pc EXCEPT ![r] = stage]

(* The rest of _write(): the content reaches the file, the lock is freed.  *)
Fill(r) ==
  /\ disk' = data[r]
  /\ lock' = NoRun

-----------------------------------------------------------------------------
(* Startup: cleanup_orphans.  The lock is held for the whole loop.         *)

(* The gates of setup_groups reject some groups; the others are set up.    *)
EnterSetup(r) ==
  /\ pc' = [pc EXCEPT ![r] = "setup"]
  /\ \E rejected \in SUBSET Groups : left' = [left EXCEPT ![r] = Groups \ rejected]

(* No runs recorded: return 0 without writing.                             *)
NothingToReap(r) ==
  /\ pc[r] = "boot"
  /\ lock = NoRun
  /\ Refreshed(r).runs = {}
  /\ data' = [data EXCEPT ![r] = Refreshed(r)]
  /\ EnterSetup(r)
  /\ UNCHANGED <<pid, res, lock, disk, todo, doomed, tried, unmade, foreign>>

BeginReap(r) ==
  /\ pc[r] = "boot"
  /\ lock = NoRun
  /\ Refreshed(r).runs # {}
  /\ lock' = r
  /\ data' = [data EXCEPT ![r] = Refreshed(r)]
  /\ todo' = [todo EXCEPT ![r] = Refreshed(r).runs]
  /\ pc' = [pc EXCEPT ![r] = "reaping"]
  /\ UNCHANGED <<pid, res, left, disk, doomed, tried, unmade, foreign>>

(* Next entry of the loop, in any order: a live run's entry is kept, a     *)
(* dead run's leaves the list and its groups are to be deleted.            *)
Examine(r, e) ==
  /\ pc[r] = "reaping"
  /\ doomed[r] = {}
  /\ e \in todo[r]
  /\ todo' = [todo EXCEPT ![r] = @ \ {e}]
  /\ \/ /\ PidAlive(e)
        /\ UNCHANGED <<data, doomed>>
     \/ /\ ~PidAlive(e)
        /\ data' = [data EXCEPT ![r].runs = @ \ {e}]
        /\ doomed' = [doomed EXCEPT ![r] = {e.run} \X e.groups]
  /\ UNCHANGED <<pc, pid, res, left, lock, disk, tried, unmade, foreign>>

(* The turn of group g of run q: an agent is made and its teardown_group   *)
(* called.  The callers swallow whatever either raises, and an entry       *)
(* without an agent's name is passed over.                                 *)
TearDown(q, g) ==
  \/ /\ tried' = [tried EXCEPT ![q] = @ \cup {g}]
     /\ \/ res' = [res EXCEPT ![q][g] = "down"]
        \/ g \in Stubborn /\ UNCHANGED res
     /\ UNCHANGED unmade
  \/ /\ g \in Unmakeable
     /\ unmade' = [unmade EXCEPT ![q] = @ \cup {g}]
     /\ UNCHANGED <<res, tried>>

DeleteOrphan(r, q, g) ==
  /\ pc[r] = "reaping"
  /\ <<q, g>> \in doomed[r]
  /\ doomed' = [doomed EXCEPT ![r] = @ \ {<<q, g>>}]
  /\ TearDown(q, g)
  /\ UNCHANGED <<pc, pid, left, lock, disk, data, todo, foreign>>

(* Mutant: a failing group ends the clean-up of its run.                   *)
EndReapEarly(r) ==
  /\ pc[r] = "reaping"
  /\ todo[r] = {}
  /\ disk' = NoData
  /\ pc' = [pc EXCEPT ![r] = "reapFlush"]
  /\ UNCHANGED <<pid, res, left, lock, data, todo, doomed, tried, unmade, foreign>>

(* Mutant: the block is left only after something was reaped.              *)
EndReapIfChanged(r) ==
  /\ pc[r] = "reaping"
  /\ todo[r] = {} /\ doomed[r] = {} /\ data[r] # disk
  /\ disk' = NoData
  /\ pc' = [pc EXCEPT ![r] = "reapFlush"]
  /\ UNCHANGED <<pid, res, left, lock, data, todo, doomed, tried, unmade, foreign>>

EndReap(r) ==
  /\ pc[r] = "reaping"
  /\ todo[r] = {} /\ doomed[r] = {}
  /\ disk' = NoData
  /\ pc' = [pc EXCEPT ![r] = "reapFlush"]
  /\ UNCHANGED <<pid, res, left, lock, data, todo, doomed, tried, unmade, foreign>>

FlushReap(r) ==
  /\ pc[r] = "reapFlush"
  /\ Fill(r)
  /\ EnterSetup(r)
  /\ UNCHANGED <<pid, res, data, todo, doomed, tried, unmade, foreign>>

-----------------------------------------------------------------------------
(* setup_groups: one thread per group, then registration.                  *)

SettingUp(r, g) ==
  /\ pc[r] \in {"setup", "aborting"}
  /\ g \in left[r]
  /\ left' = [left EXCEPT ![r] = @ \ {g}]

SetupOk(r, g) ==
  /\ SettingUp(r, g)
  /\ res' = [res EXCEPT ![r][g] = "up"]
  /\ UNCHANGED <<pc, pid, lock, disk, data, todo, doomed, tried, unmade, foreign>>

(* check_available, health_check or setup_group raised: the group joins    *)
(* failed_groups.  Under --strict setup_groups returns 1, but only once    *)
(* the executor has seen the other groups through.                         *)
SetupFail(r, g) ==
  /\ SettingUp(r, g)
  /\ pc' = IF r \in StrictRuns THEN [pc EXCEPT ![r] = "aborting"] ELSE pc
  /\ UNCHANGED <<pid, res, lock, disk, data, todo, doomed, tried, unmade, foreign>>

SetupDone(r) == pc[r] = "setup" /\ left[r] = {}

(* The early returns 1 of setup_groups: main returns without any teardown. *)
AbortSetup(r) ==
  /\ \/ SetupDone(r) /\ SetUp(r) = {}
     \/ pc[r] = "aborting" /\ left[r] = {}
  /\ pc' = [pc EXCEPT ![r] = "gone"]
  /\ UNCHANGED <<pid, res, left, lock, disk, data, todo, doomed, tried, unmade, foreign>>

(* Mutant: the new entry takes the place of the list.                      *)
RegisterAlone(r) ==
  /\ SetupDone(r) /\ SetUp(r) # {}
  /\ LockAndTruncate(r, [runs |-> {EntryOf(r)}, latest |-> r], "enrollFlush")
  /\ UNCHANGED <<pid, res, left, todo, doomed, tried, unmade, foreign>>

RegisterRun(r) ==
  /\ SetupDone(r) /\ SetUp(r) # {}
  /\ LockAndTruncate(r, [runs |-> Refreshed(r).runs \cup {EntryOf(r)}, latest |-> r], "enrollFlush")
  /\ UNCHANGED <<pid, res, left, todo, doomed, tried, unmade, foreign>>

FlushRegister(r) ==
  /\ pc[r] = "enrollFlush"
  /\ Fill(r)
  /\ pc' = [pc EXCEPT ![r] = "running"]
  /\ UNCHANGED <<pid, res, left, data, todo, doomed, tried, unmade, foreign>>

-----------------------------------------------------------------------------
(* run_scenarios is one step here; then teardown_groups.                   *)

FinishScenarios(r) ==
  /\ pc[r] = "running"
  /\ IF r \in KeepRuns
       THEN /\ pc' = [pc EXCEPT ![r] = "after"]
            /\ UNCHANGED left
       ELSE /\ pc' = [pc EXCEPT ![r] = "teardown"]
            /\ left' = [left EXCEPT ![r] = SetUp(r)]
  /\ UNCHANGED <<pid, res, lock, disk, data, todo, doomed, tried, unmade, foreign>>

TeardownGroup(r, g) ==
  /\ pc[r] = "teardown"
  /\ g \in left[r]
  /\ left' = [left EXCEPT ![r] = @ \ {g}]
  /\ TearDown(r, g)
  /\ UNCHANGED <<pc, pid, lock, disk, data, todo, doomed, foreign>>

(* Ctrl-C during teardown: "skipped", the entry stays in the manifest.     *)
InterruptTeardown(r) ==
  /\ MayCrash
  /\ pc[r] = "teardown"
  /\ pc' = [pc EXCEPT ![r] = "after"]
  /\ UNCHANGED <<pid, res, left, lock, disk, data, todo, doomed, tried, unmade, foreign>>

(* Mutant: what is written is the list alone.                              *)
OnlyTheRuns(d, p) == [NoData EXCEPT !.runs = {e \in d.runs : e.pid # p}]

(* unregister_run(os.getpid()) drops every entry with this pid.            *)
WithoutPid(d, p) == [d EXCEPT !.runs = {e \in @ : e.pid # p}]

UnregisterRun(r) ==
  /\ pc[r] = "teardown"
  /\ left[r] = {}
  /\ LockAndTruncate(r, WithoutPid(Refreshed(r), pid[r]), "leaveFlush")
  /\ UNCHANGED <<pid, res, left, todo, doomed, tried, unmade, foreign>>

FlushUnregister(r) ==
  /\ pc[r] = "leaveFlush"
  /\ Fill(r)
  /\ pc' = [pc EXCEPT ![r] = "after"]
  /\ UNCHANGED <<pid, res, left, data, todo, doomed, tried, unmade, foreign>>

(* After the run phase (scoring and aggregation under belt eval): exit.    *)
Exit(r) ==
  /\ pc[r] = "after"
  /\ pc' = [pc EXCEPT ![r] = "gone"]
  /\ UNCHANGED <<pid, res, left, lock, disk, data, todo, doomed, tried, unmade, foreign>>

-----------------------------------------------------------------------------
(* FileLock(timeout=30) gives up on a lock somebody holds: filelock.Timeout*)
(* is caught nowhere and ends the process.                                 *)
WaitsForLock(r) ==
  \/ pc[r] = "boot"
  \/ SetupDone(r) /\ SetUp(r) # {}
  \/ pc[r] = "teardown" /\ left[r] = {}

LockTimeout(r) ==
  /\ WaitsForLock(r)
  /\ lock # NoRun
  /\ pc' = [pc EXCEPT ![r] = "gone"]
  /\ UNCHANGED <<pid, res, left, lock, disk, data, todo, doomed, tried, unmade, foreign>>

(* The process dies; the kernel frees its lock, the file stays as it is.   *)
Crash(r) ==
  /\ MayCrash
  /\ r \in Up
  /\ pc[r] \in Flushing => MayTear
  /\ pc' = [pc EXCEPT ![r] = "gone"]
  /\ lock' = IF lock = r THEN NoRun ELSE lock
  /\ UNCHANGED <<pid, res, left, disk, data, todo, doomed, tried, unmade, foreign>>

ForeignTakes(p) ==
  /\ p \in ForeignPids \ (foreign \cup {pid[q] : q \in Up})
  /\ foreign' = foreign \cup {p}
  /\ UNCHANGED <<pc, pid, res, left, lock, disk, data, todo, doomed, tried, unmade>>

ForeignLeaves(p) ==
  /\ p \in foreign
  /\ foreign' = foreign \ {p}
  /\ UNCHANGED <<pc, pid, res, left, lock, disk, data, todo, doomed, tried, unmade>>

(* What a started run does of its own accord.                              *)
Progress(r) ==
  \/ NothingToReap(r)
  \/ BeginReap(r)
  \/ \E e \in todo[r] : Examine(r, e)
  \/ \E q \in Runs, g \in Groups : DeleteOrphan(r, q, g)
  \/ EndReap(r)
  \/ FlushReap(r)
  \/ \E g \in Groups : SetupOk(r, g)
  \/ \E g \in Groups : SetupFail(r, g)
  \/ AbortSetup(r)
  \/ RegisterRun(r)
  \/ FlushRegister(r)
  \/ FinishScenarios(r)
  \/ \E g \in Groups : TeardownGroup(r, g)
  \/ UnregisterRun(r)
  \/ FlushUnregister(r)
  \/ Exit(r)
  \/ LockTimeout(r)

(* Every run is over: nothing is left to do, and this is no deadlock.      *)
AllGone == (\A r \in Runs : pc[r] = "gone") /\ UNCHANGED vars

Next ==
  \/ \E r \in Runs : Start(r) \/ Progress(r) \/ InterruptTeardown(r) \/ Crash(r)
  \/ \E p \in Pids : ForeignTakes(p) \/ ForeignLeaves(p)
  \/ AllGone

Spec == Init /\ [][Next]_vars

(* The OS schedules every started process, and teardown_group returns.     *)
FairSpec == Spec /\ \A r \in Runs : WF_vars(Progress(r))

-----------------------------------------------------------------------------
(* The values the variables take: manifest.py's record shapes and the      *)
(* program points of main, setup_groups and teardown_groups.               *)
TypeOK ==
  /\ pc \in [Runs -> Stages]
  /\ pid \in [Runs -> Pids \cup {NoPid}]
  /\ res \in [Runs -> [Groups -> {"none", "up", "down"}]]
  /\ left \in [Runs -> SUBSET Groups]
  /\ lock \in Runs \cup {NoRun}
  /\ disk \in Data
  /\ data \in [Runs -> Data]
  /\ todo \in [Runs -> SUBSET Entry]
  /\ doomed \in [Runs -> SUBSET (Runs \X Groups)]
  /\ tried \in [Runs -> SUBSET Groups] /\ unmade \in [Runs -> SUBSET Groups]
  /\ foreign \in SUBSET ForeignPids

(* A run whose scenarios run, or whose groups are being torn down, is in   *)
(* the manifest with every group it set up, whatever other processes       *)
(* register, unregister or reap meanwhile (ARCHITECTURE.md section 5.2).   *)
(* Needs ~MayTear.                                                         *)
LiveRunRecorded ==
  \A r \in Runs : pc[r] \in {"running", "teardown"} => EntryOf(r) \in Recorded

(* cleanup_orphans never tears down the resource of a live run: a resource *)
(* goes down only at the hands of its own run or once that run is gone     *)
(* ("Live runs are left untouched", manifest.py module docstring).         *)
LiveRunSpared ==
  [][\A q \in Runs, g \in Groups :
       res[q][g] = "up" /\ res'[q][g] = "down" => pc[q] \in {"teardown", "gone"}]_vars

(* An entry leaves the manifest only after each of its groups had its      *)
(* turn: teardown_group was called, or no agent could be made to call it   *)
(* on.  This is all the code promises: the turn may have failed and the    *)
(* resource be up, though unregister_run says "after successful cleanup"   *)
(* (manifest.py:152).  Needs HasPsutil, without which unregister_run also  *)
(* drops the entry of a dead run whose pid its own process has, and        *)
(* ~MayTear.                                                               *)
NoGroupPassedOver ==
  [][\A e \in Recorded \ Recorded' : e.groups \subseteq HadTurn(e.run)]_vars

(* "If a process crashes without calling unregister_run, its resources     *)
(* become orphans" that the next startup finds (ARCHITECTURE.md 5.3): a    *)
(* resource left behind by a dead run is in the manifest.  The code        *)
(* registers only after setup, so a crash in between breaks it.            *)
OrphansRecorded ==
  \A q \in Runs, g \in Groups :
    pc[q] = "gone" /\ res[q][g] = "up"
      => \E e \in Recorded : e.run = q /\ g \in e.groups

(* At most one process changes the manifest at a time, and it is the one   *)
(* that holds the lock.                                                    *)
OneWriter ==
  \A r \in Runs : pc[r] \in Holding <=> lock = r

(* Every process that starts ends, since each starts once: nobody waits    *)
(* for the lock for ever.                                                  *)
EveryRunEnds == []<>(Up = {})

(* cleanup_orphans of a process that gets through its startup: the entry   *)
(* of a run that was dead when that process started goes, be it reaped by  *)
(* this process or by another; unless its pid is one that another user's   *)
(* process may take, which PidAlive takes for the run itself.              *)
OrphansReaped ==
  \A q \in Runs :
    (/\ pc[q] = "gone" /\ \E e \in Recorded : e.run = q /\ e.pid \notin ForeignPids
     /\ \E s \in Runs \ {q} : pc[s] = "boot" /\ <>(pc[s] = "setup"))
      ~> (\A e \in Recorded : e.run # q)

(* The registry of RunRegistry, through the logical content of the file.   *)
Registry ==
  INSTANCE RunRegistry WITH
    alive <- Up,
    recorded <- {e.run : e \in Recorded},
    latest <- Logical.latest,
    Durable <- ~MayTear

RegistryKept == Registry!Spec
=============================================================================
