----------------------------- MODULE Workspace -----------------------------
(***************************************************************************)
(* Worktree isolation (src/belt/runner/workspace.py): the scenarios of a   *)
(* run that share a fixture directory.  Each scenario builds a             *)
(* WorkspaceManager of its own, in its own thread.  The constructor turns  *)
(* a plain directory into a git repository, under a lock per directory,    *)
(* or checks that a repository belt made earlier still matches the         *)
(* directory; acquire() adds a worktree, release() removes it, and an      *)
(* atexit handler removes what was not released.  The fixture outlives the *)
(* process, which may be killed, and its author edits it between runs.     *)
(*                                                                         *)
(* The contents of the fixture are a version number.  Deleting local files *)
(* works; any git command may fail or time out.                            *)
(***************************************************************************)
EXTENDS Naturals, FiniteSets

CONSTANTS
  Scenarios,   (* the scenarios of the run that use the fixture            *)
  Pinned,      (* those whose workspace_ref is not HEAD                    *)
  NoScenario,  (* a lock nobody holds                                      *)
  NoCommit,    (* HEAD of a repository without a commit                    *)
  MaxEdits     (* bound on the author's edits                              *)

ASSUME WorkspaceAssumption ==
  /\ Pinned \subseteq Scenarios
  /\ NoScenario \notin Scenarios
  /\ NoCommit \notin Nat
  /\ MaxEdits \in Nat

VARIABLES
  content,   (* version of the files in the fixture directory              *)
  dotgit,    (* .git exists                                                *)
  staged,    (* version in the index                                       *)
  head,      (* version of the commit HEAD names                           *)
  marker,    (* .git/belt-init-marker exists                               *)
  plain,     (* the author ships plain files, not a repository             *)
  unguarded, (* the drift gate was defeated by a failure (history)         *)
  proc,      (* the belt process: "up", "exiting", "exited", "killed"      *)
  at,        (* where each scenario's thread is                            *)
  initLock,  (* _init_locks[base]                                          *)
  addLock,   (* _worktree_add_locks[base]                                  *)
  tree,      (* each scenario's worktree directory                         *)
  managers   (* scenarios whose manager registered cleanup_all with atexit *)

repo == <<content, dotgit, staged, head, marker, plain, unguarded>>
wsVars == <<repo, proc, at, initLock, addLock, tree, managers>>

Versions == 0..MaxEdits
Initialising == {"init", "stage", "commit", "mark"}
Points == Initialising \cup
  {"idle", "wantInit", "drift", "acquire", "adding", "in", "out", "failed"}

(* A worktree directory: none, one an interrupted `worktree add` left, or  *)
(* a checkout of a version.                                                *)
Trees == [dir : {"none", "partial"}] \cup [dir : {"checkout"}, version : Versions]
NoTree == [dir |-> "none"]

WsInit ==
  /\ content = 0
  /\ plain \in BOOLEAN
  /\ dotgit = ~plain
  /\ staged = NoCommit
  /\ head = IF plain THEN NoCommit ELSE 0
  /\ marker = FALSE /\ unguarded = FALSE
  /\ proc = "up"
  /\ at = [s \in Scenarios |-> "idle"]
  /\ initLock = NoScenario /\ addLock = NoScenario
  /\ tree = [s \in Scenarios |-> NoTree]
  /\ managers = {}

Goto(s, point) == at' = [at EXCEPT ![s] = point]

-----------------------------------------------------------------------------
(* WorkspaceManager(base_repo, ref).                                       *)

(* The check for .git is made before, and without, the lock.               *)
Construct(s) ==
  /\ at[s] = "idle"
  /\ Goto(s, IF dotgit THEN "drift" ELSE "wantInit")
  /\ UNCHANGED <<repo, proc, initLock, addLock, tree, managers>>

(* An invalid ref, or no git on the PATH.                                  *)
ConstructFails(s) ==
  /\ at[s] = "idle"
  /\ Goto(s, "failed")
  /\ UNCHANGED <<repo, proc, initLock, addLock, tree, managers>>

(* The constructor returns: cleanup_all is registered.                     *)
Constructed(s) ==
  /\ Goto(s, "acquire")
  /\ managers' = managers \cup {s}

(* Mutant: .git is not looked for again under the lock.                    *)
EnterInitUnseen(s) ==
  /\ at[s] = "wantInit"
  /\ initLock = NoScenario
  /\ initLock' = s /\ Goto(s, "init") /\ UNCHANGED managers
  /\ UNCHANGED <<repo, proc, addLock, tree>>

(* _auto_init_repo: under the lock, look again.                            *)
EnterInit(s) ==
  /\ at[s] = "wantInit"
  /\ initLock = NoScenario
  /\ \/ dotgit /\ Constructed(s) /\ UNCHANGED initLock
     \/ ~dotgit /\ initLock' = s /\ Goto(s, "init") /\ UNCHANGED managers
  /\ UNCHANGED <<repo, proc, addLock, tree>>

(* Mutant: the error leaves the lock held.                                 *)
GiveUpHolding(s) == Goto(s, "failed") /\ UNCHANGED <<initLock, managers>>

(* WorkspaceError out of the `with lock` block.                            *)
GiveUp(s) == Goto(s, "failed") /\ initLock' = NoScenario /\ UNCHANGED managers

(* The directory is another user's, or git init, add or commit exits with  *)
(* an error: the repository stays as it is.  git add does so without a     *)
(* repository, git commit when the index holds nothing new.                *)
InitFails(s) ==
  /\ at[s] \in {"init", "stage", "commit"}
  /\ GiveUp(s)
  /\ UNCHANGED <<repo, proc, addLock, tree>>

(* The git commands of the initialisation.  run_git answers None to a      *)
(* timeout, check=True or not, and the next command runs all the same: a   *)
(* step may also have no effect.  Where git init had none, the next ones   *)
(* work on the repository around the fixture, if it lies inside one.       *)
GitInit(s) ==
  /\ at[s] = "init"
  /\ Goto(s, "stage")
  /\ dotgit' \in {TRUE, dotgit}
  /\ UNCHANGED <<content, staged, head, marker, plain, unguarded, proc, initLock, addLock, tree, managers>>

GitAdd(s) ==
  /\ at[s] = "stage"
  /\ Goto(s, "commit")
  /\ staged' \in IF dotgit THEN {content, staged} ELSE {staged}
  /\ UNCHANGED <<content, dotgit, head, marker, plain, unguarded, proc, initLock, addLock, tree, managers>>

GitCommit(s) ==
  /\ at[s] = "commit"
  /\ Goto(s, "mark")
  /\ \/ staged # NoCommit /\ head # staged /\ head' = staged
     \/ UNCHANGED head
  /\ UNCHANGED <<content, dotgit, staged, marker, plain, unguarded, proc, initLock, addLock, tree, managers>>

(* The ownership marker, and the end of the lock's block.  A repository    *)
(* that has a commit and no marker counts as the author's ever after.      *)
Mark(s) ==
  /\ at[s] = "mark"
  /\ \/ dotgit /\ marker' = TRUE /\ Constructed(s) /\ initLock' = NoScenario /\ UNCHANGED unguarded
     \/ GiveUp(s) /\ unguarded' = (unguarded \/ head # NoCommit) /\ UNCHANGED marker
  /\ UNCHANGED <<content, dotgit, staged, head, plain, proc, addLock, tree>>

Clean == head = content /\ staged \in {head, NoCommit}

(* Mutant: the gate looks at the commit and the index only.                *)
DriftUnseen(s) ==
  /\ at[s] = "drift"
  /\ Constructed(s)
  /\ UNCHANGED <<repo, proc, initLock, addLock, tree>>

(* _check_auto_init_drift: only where the marker is; git status decides,   *)
(* and one that fails or times out lets the scenario pass.                 *)
Drift(s) ==
  /\ at[s] = "drift"
  /\ \/ ~marker /\ Constructed(s) /\ UNCHANGED unguarded
     \/ marker /\ Clean /\ Constructed(s) /\ UNCHANGED unguarded
     \/ marker /\ ~Clean /\ Goto(s, "failed") /\ UNCHANGED <<managers, unguarded>>
     \/ marker /\ Constructed(s) /\ unguarded' = TRUE
  /\ UNCHANGED <<content, dotgit, staged, head, marker, plain, proc, initLock, addLock, tree>>

-----------------------------------------------------------------------------
(* acquire and release.                                                    *)

BeginAdd(s) ==
  /\ at[s] = "acquire"
  /\ addLock = NoScenario
  /\ addLock' = s
  /\ Goto(s, "adding")
  /\ UNCHANGED <<repo, proc, initLock, tree, managers>>

(* What self._ref names: HEAD, or a commit that workspace_ref pins.        *)
Ref(s) == IF s \in Pinned THEN 0..head ELSE {head}

(* git worktree add --detach: a checkout; or an error or a timeout, which  *)
(* may leave a part of it, and no entry in _worktrees.                     *)
EndAdd(s) ==
  /\ at[s] = "adding"
  /\ addLock' = NoScenario
  /\ \/ /\ head # NoCommit
        /\ \E v \in Ref(s) : tree' = [tree EXCEPT ![s] = [dir |-> "checkout", version |-> v]]
        /\ Goto(s, "in")
     \/ /\ tree' \in {tree, [tree EXCEPT ![s] = [dir |-> "partial"]]}
        /\ Goto(s, "failed")
  /\ UNCHANGED <<repo, proc, initLock, managers>>

(* git worktree remove, or rmtree where git fails.                         *)
Release(s) ==
  /\ at[s] = "in"
  /\ tree' = [tree EXCEPT ![s] = NoTree]
  /\ Goto(s, "out")
  /\ UNCHANGED <<repo, proc, initLock, addLock, managers>>

(* The scenario ends without release(): see ScenarioRun.                   *)
LeaveBehind(s) ==
  /\ at[s] = "in"
  /\ Goto(s, "out")
  /\ UNCHANGED <<repo, proc, initLock, addLock, tree, managers>>

(* No thread has the scenario: it is over, or it was never begun.          *)
AtRest == {"idle", "out", "failed"}

InWorkspace(s) ==
  \/ EnterInit(s) \/ InitFails(s) \/ GitInit(s) \/ GitAdd(s) \/ GitCommit(s) \/ Mark(s)
  \/ Drift(s) \/ BeginAdd(s) \/ EndAdd(s) \/ Release(s) \/ LeaveBehind(s)

-----------------------------------------------------------------------------
(* The process and the author.                                             *)

BeginExit == proc = "up" /\ proc' = "exiting" /\ UNCHANGED <<repo, at, initLock, addLock, tree, managers>>

(* Mutant: only the worktrees in the list are removed, not the temporary   *)
(* directory they are in.                                                  *)
CleanupListed(s) ==
  /\ proc = "exiting" /\ s \in managers
  /\ managers' = managers \ {s}
  /\ tree' = IF tree[s].dir = "checkout" THEN [tree EXCEPT ![s] = NoTree] ELSE tree
  /\ UNCHANGED <<repo, proc, at, initLock, addLock>>

(* cleanup_all of one manager: its worktrees, then its temporary directory.*)
CleanupAll(s) ==
  /\ proc = "exiting" /\ s \in managers
  /\ managers' = managers \ {s}
  /\ tree' = [tree EXCEPT ![s] = NoTree]
  /\ UNCHANGED <<repo, proc, at, initLock, addLock>>

EndExit ==
  /\ proc = "exiting" /\ managers = {}
  /\ proc' = "exited"
  /\ UNCHANGED <<repo, at, initLock, addLock, tree, managers>>

(* The threads, locks and temporary directories of a run.                  *)
FreshRun ==
  /\ at' = [s \in Scenarios |-> "idle"]
  /\ initLock' = NoScenario /\ addLock' = NoScenario
  /\ tree' = [s \in Scenarios |-> NoTree]
  /\ managers' = {}

(* The process is killed: its worktrees stay where nobody looks again.     *)
Kill ==
  /\ proc \in {"up", "exiting"}
  /\ proc' = "killed"
  /\ unguarded' = (unguarded \/ \E s \in Scenarios : at[s] = "mark" /\ head # NoCommit)
  /\ FreshRun
  /\ UNCHANGED <<content, dotgit, staged, head, marker, plain>>

NewRun ==
  /\ proc \in {"exited", "killed"}
  /\ proc' = "up"
  /\ FreshRun
  /\ UNCHANGED repo

(* Between runs the author edits the fixture, or commits what is there,    *)
(* which makes a repository without the marker his own.                    *)
EditFixture ==
  /\ proc \in {"exited", "killed"}
  /\ content < MaxEdits
  /\ content' = content + 1
  /\ UNCHANGED <<dotgit, staged, head, marker, plain, unguarded, proc, at, initLock, addLock, tree, managers>>

CommitFixture ==
  /\ proc \in {"exited", "killed"}
  /\ dotgit
  /\ staged' = content /\ head' = content
  /\ plain' = (plain /\ marker)
  /\ UNCHANGED <<content, dotgit, marker, unguarded, proc, at, initLock, addLock, tree, managers>>

BetweenRuns == EditFixture \/ CommitFixture

WsNext ==
  \/ proc = "up" /\ \E s \in Scenarios : Construct(s) \/ ConstructFails(s) \/ InWorkspace(s)
  \/ BeginExit /\ \A s \in Scenarios : at[s] \in AtRest
  \/ (\E s \in Scenarios : CleanupAll(s)) \/ EndExit \/ Kill
  \/ BetweenRuns \/ NewRun

WsSpec == WsInit /\ [][WsNext]_wsVars

-----------------------------------------------------------------------------
(* git init never runs in a directory that has a .git, be it the author's, *)
(* an earlier run's or another scenario's of this run (_auto_init_repo     *)
(* looks for it once before and once under the lock).                      *)
NeverReinit == \A s \in Scenarios : at[s] = "init" => ~dotgit

(* A scenario of a fixture shipped as plain files works on what the        *)
(* directory holds, whatever was edited, committed, killed or timed out    *)
(* since belt made the repository ("Refusing to spin off worktrees against *)
(* the stale snapshot"): unless a failure kept the marker from being       *)
(* written or git status from answering.  (Not where workspace_ref asks    *)
(* for a commit of its own.)                                               *)
FreshSnapshot ==
  \A s \in Scenarios \ Pinned :
    proc = "up" /\ at[s] = "in" /\ plain /\ ~unguarded
      => tree[s] = [dir |-> "checkout", version |-> content]

(* A process that exits has no worktree directory left, though scenarios   *)
(* ended without release() or git worktree add timed out half way.  (A     *)
(* process whose exit is cut short, by a kill or a Ctrl-C, may have.)      *)
ExitClean == proc = "exited" => \A s \in Scenarios : tree[s] = NoTree

(* "parallel scenarios sharing the same base_repo wait on a per-path lock" *)
(* (_auto_init_repo): no worktree is added while the repository is being   *)
(* made.  The constructor's check for .git is outside the lock, so a       *)
(* scenario that finds it half made does not wait.                         *)
InitIsAwaited == \A s \in Scenarios : at[s] = "adding" => initLock = NoScenario
=============================================================================
