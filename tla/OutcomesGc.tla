----------------------------- MODULE OutcomesGc -----------------------------
(***************************************************************************)
(* `belt gc` (src/belt/commands/gc.py) pruning the outcomes root while     *)
(* other processes run in it.  gc reads the manifest once, without the     *)
(* lock, to learn which run directories are in flight; lists and sorts the *)
(* directories; and then deletes.  The runs are those of Manifest, each    *)
(* with one directory, created before it first looks at the manifest.      *)
(***************************************************************************)
EXTENDS Manifest, Sequences, FiniteSets, SequencesExt

CONSTANTS
  KeepLast,  (* --keep-last; 0 disables it                                 *)
  AgeLimit   (* whether --older-than was given                             *)

ASSUME GcAssumption == KeepLast \in Nat /\ AgeLimit \in BOOLEAN

VARIABLES
  dirs,     (* run directories by mtime, newest first; named by their run  *)
  gcAt,     (* where the gc process is                                     *)
  gcLive,   (* _live_run_dirs: runs it takes to be in flight, until it plans*)
  gcPlan,   (* to_delete                                                   *)
  gcKnown,  (* runs registered and at work when gc read it (history)       *)
  gcWhole   (* whether no writer had the file truncated then (history)     *)

gcVars == <<dirs, gcAt, gcLive, gcPlan, gcKnown, gcWhole>>
allVars == <<vars, gcVars>>

GcInit ==
  /\ Init
  /\ dirs = <<>> /\ gcAt = "idle"
  /\ gcLive = {} /\ gcPlan = {} /\ gcKnown = {} /\ gcWhole = FALSE

-----------------------------------------------------------------------------
(* The runs.  initialize_run_dir makes the directory; artifacts written    *)
(* into it later renew its mtime.                                          *)

StartRun(r) ==
  /\ Start(r)
  /\ dirs' = <<r>> \o dirs
  /\ UNCHANGED <<gcAt, gcLive, gcPlan, gcKnown, gcWhole>>

WriteArtifact(r) ==
  /\ r \in Up
  /\ \E i \in 2..Len(dirs) : dirs[i] = r /\ dirs' = <<r>> \o RemoveAt(dirs, i)
  /\ UNCHANGED <<vars, gcAt, gcLive, gcPlan, gcKnown, gcWhole>>

RunStep(r) ==
  /\ Progress(r) \/ InterruptTeardown(r) \/ Crash(r)
  /\ UNCHANGED gcVars

-----------------------------------------------------------------------------
(* The gc process.                                                         *)

ListedLive == {e.run : e \in {x \in disk.runs : PidAlive(x)}}

GcReadManifest ==
  /\ gcAt = "idle"
  /\ gcLive' = ListedLive
  /\ gcKnown' = {r \in Runs : pc[r] \in {"running", "teardown"}}
  /\ gcWhole' = (\A r \in Runs : pc[r] \notin Flushing)
  /\ gcAt' = "read"
  /\ UNCHANGED <<vars, dirs, gcPlan>>

(* plan_deletions over the sorted candidates, when those from position     *)
(* `old` on are past the age threshold.                                    *)
Deletions(candidates, live, old) ==
  {candidates[i] : i \in {j \in DOMAIN candidates :
     /\ candidates[j] \notin live
     /\ (KeepLast > 0 /\ j > KeepLast) \/ j >= old}}

GcPlanDeletions ==
  /\ gcAt = "read"
  /\ \E old \in 1..(Len(dirs) + 1) :
       /\ AgeLimit \/ old = Len(dirs) + 1
       /\ gcPlan' = Deletions(dirs, gcLive, old)
  /\ gcAt' = "deleting" /\ gcLive' = {}
  /\ UNCHANGED <<vars, dirs, gcKnown, gcWhole>>

(* shutil.rmtree of one planned directory, which may fail.                 *)
GcDelete(r) ==
  /\ gcAt = "deleting"
  /\ r \in gcPlan
  /\ gcPlan' = gcPlan \ {r}
  /\ \/ \E i \in DOMAIN dirs : dirs[i] = r /\ dirs' = RemoveAt(dirs, i)
     \/ UNCHANGED dirs
  /\ UNCHANGED <<vars, gcAt, gcLive, gcKnown, gcWhole>>

(* gc ends; a later invocation starts over.                                *)
GcEnd ==
  /\ gcAt = "deleting" /\ gcPlan = {}
  /\ gcAt' = "idle" /\ gcKnown' = {} /\ gcWhole' = FALSE
  /\ UNCHANGED <<vars, dirs, gcLive, gcPlan>>

GcNext ==
  \/ \E r \in Runs : StartRun(r) \/ WriteArtifact(r) \/ RunStep(r) \/ GcDelete(r)
  \/ \E p \in Pids : (ForeignTakes(p) \/ ForeignLeaves(p)) /\ UNCHANGED gcVars
  \/ GcReadManifest
  \/ GcPlanDeletions
  \/ GcEnd

GcSpec == GcInit /\ [][GcNext]_allVars

-----------------------------------------------------------------------------
Deleted == ToSet(dirs) \ ToSet(dirs')

(* "Skip runs registered as live in .manifest.json - never delete an       *)
(* in-flight run" (gc.py module docstring): a run that had registered when *)
(* gc read the manifest keeps its directory while it lives.  The read      *)
(* takes no lock, so it can find the file truncated by a writer.           *)
RegisteredRunKept ==
  [][\A r \in Deleted : r \in gcKnown => pc[r] = "gone"]_allVars

(* The same when no writer had the file truncated as gc read it: whatever  *)
(* other runs register, unregister or reap before and after that one read, *)
(* and whoever takes the pids of the dead, the registered runs are in the  *)
(* file and taken for live.  A run that registers between the read and the *)
(* deletions is not protected, by the code or by this.                     *)
WholeReadKeepsRuns ==
  [][\A r \in Deleted : gcWhole /\ r \in gcKnown => pc[r] = "gone"]_allVars
=============================================================================
