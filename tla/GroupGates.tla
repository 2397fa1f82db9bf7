------------------------------ MODULE GroupGates ------------------------------
(***************************************************************************)
(* The setup of a run's groups (src/belt/runner/phases/setup_groups.py):   *)
(* three gates reject groups and clone the fixtures of the others, then    *)
(* each group that is left is set up; and the repository that the worktree *)
(* of a group's scenarios is taken from (run_scenarios.py).                *)
(*                                                                         *)
(* A group is a record: its `name` (a path), the name `dir` of its         *)
(* directory, where its working_dir lies ("" for none), its `fixture`      *)
(* repository and `ref`, its `isolation`, what becomes of its `clone` and  *)
(* whether its `setup` raises.                                             *)
(***************************************************************************)
EXTENDS Naturals, Sequences, FiniteSets, SequencesExt, Functions

CONSTANT None

Worktrees == "git-worktree"

(* A working_dir outside the scenarios root, without the opt-in.           *)
ExternalWorkingDirGate(groups, allowed) ==
  {g.name : g \in {h \in ToSet(groups) :
     ~allowed /\ h.working = "outside" /\ h.fixture = "" /\ h.isolation = Worktrees}}

(* A group without isolation, without the opt-in.                          *)
InplaceGate(groups, allowed) ==
  {g.name : g \in {h \in ToSet(groups) : ~allowed /\ h.isolation # Worktrees}}

With(f, k, v) == [x \in DOMAIN f \union {k} |-> IF x = k THEN v ELSE f[x]]
Nothing == [x \in {} |-> None]

(* Mutant: a clone that is there already is taken for the group's own.     *)
CloneFixtureRepoReused(cache, g) ==
  IF g.dir \in DOMAIN cache THEN [ok |-> TRUE, cache |-> cache]
  ELSE [ok |-> g.clone = "ok",
        cache |-> IF g.clone = "fails" THEN cache
                  ELSE With(cache, g.dir, [source |-> g.fixture, ref |-> IF g.clone = "ok" THEN g.ref ELSE None])]

(* The clone goes to a directory of the run's cache that is named like the *)
(* group's own, and must not be there yet.  A clone whose checkout fails   *)
(* stays; one that git gave up on is gone.                                 *)
CloneFixtureRepo(cache, g) ==
  IF g.dir \in DOMAIN cache THEN [ok |-> FALSE, cache |-> cache]
  ELSE [ok |-> g.clone = "ok",
        cache |-> IF g.clone = "fails" THEN cache
                  ELSE With(cache, g.dir, [source |-> g.fixture, ref |-> IF g.clone = "ok" THEN g.ref ELSE None])]

(* One group's turn in the loop.                                           *)
PrepareGroup(a, g) ==
  LET clone == CloneFixtureRepo(a.cache, g)
      failed == a.failed \union {g.name}
  IN  IF g.fixture = "" THEN a
      ELSE IF g.working # "" THEN [failed |-> failed, cache |-> a.cache, fixtures |-> a.fixtures]
      ELSE IF clone.ok
           THEN [failed |-> a.failed, cache |-> clone.cache, fixtures |-> With(a.fixtures, g.name, g.dir)]
      ELSE [failed |-> failed, cache |-> clone.cache, fixtures |-> a.fixtures]

(* Groups that an earlier gate has rejected are cloned for all the same.   *)
PrepareGroupFixtures(groups, rejected) ==
  LET after[i \in 0..Len(groups)] ==
        IF i = 0 THEN [failed |-> rejected, cache |-> Nothing, fixtures |-> Nothing]
        ELSE PrepareGroup(after[i - 1], groups[i])
  IN  after[Len(groups)]

(* The groups that passed are set up, all of them at once.  --strict ends  *)
(* the run with a setup that raised, but not with a group that a gate has  *)
(* rejected; a run without a group ends.                                   *)
SetupGroups(groups, o) ==
  LET gates == PrepareGroupFixtures(groups, ExternalWorkingDirGate(groups, o.external)
                                            \union InplaceGate(groups, o.inplace))
      tried == {g \in ToSet(groups) : g.name \notin gates.failed}
      ready == {g.name : g \in {h \in tried : h.setup = "ok"}}
      failed == gates.failed \union {g.name : g \in {h \in tried : h.setup = "raises"}}
      strict == o.strict /\ failed # gates.failed
  IN  [fatal |-> strict \/ ready = {}, ready |-> ready, failed |-> failed, tried |-> {g.name : g \in tried},
       cache |-> gates.cache, fixtures |-> gates.fixtures]

(* Where the worktree of a scenario comes from; None if the agent works in *)
(* the directory that belt was started in.                                 *)
BaseRepo(g, fixtures) ==
  IF g.isolation # Worktrees THEN None
  ELSE IF g.name \in DOMAIN fixtures THEN [kind |-> "clone", at |-> fixtures[g.name], ref |-> g.ref]
  ELSE IF g.working # "" THEN [kind |-> "working_dir", at |-> g.working, ref |-> "workspace_ref"]
  ELSE None
=============================================================================
