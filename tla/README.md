# A TLA+ model of belt

`belt` runs AI coding agents through multi-turn scenarios, scores what they did
with rules and LLM judges, and aggregates the scores. The program is a command
line tool, but a busy one: several `belt` processes share one outcomes root, a
run drives many scenarios from a thread pool, scenarios share fixture
directories that are turned into git repositories on the fly, judges share a
cache and running totals, and everything the later phases know is what earlier
phases left on disk before they ended, failed or were killed. Those are the parts
modelled here. The paths below are relative to `src/src/belt/`.

Contents: [the system](#the-system), [the modules](#the-modules),
[the runs](#the-runs), [fairness](#fairness), [what is proved](#what-is-proved),
[findings](#findings), [what is not modelled](#what-is-not-modelled),
[plan](#plan), [running it](#running-it).

## The system

| Component | State it keeps | Operations | Module |
| --- | --- | --- | --- |
| run manifest (`manifest.py`) | `.manifest.json` of an outcomes root (entries of runs in flight, the latest run), a file lock, each process's copy | register, unregister, orphan cleanup | `Manifest`, `RunRegistry` |
| run lifecycle (`commands/run.py`, `runner/phases/setup_groups.py`, `teardown.py`) | the groups set up and their remote resources, the cache of fixture clones, the exit code | gates, startup, group setup, registration, teardown | `GroupGates`, `Manifest`, `RunPool` |
| outcomes gc (`commands/gc.py`) | the plan of one invocation | read the manifest, plan, delete | `OutcomesGc` |
| scenario pool (`runner/phases/run_scenarios.py`) | executor queue, futures, results | submit, collect, interrupt, join | `RunPool` |
| scenario orchestrator (`runner/orchestrator.py`) | worktree, sandbox and agent session, the turn files, `turn_outputs_so_far`, the turn stream | set-up, turns, teardown | `ScenarioRun`, `AgentTurn` |
| workspaces (`runner/workspace.py`, `_git.py`) | fixture repository, ownership marker, two locks per fixture, worktrees | clone, auto-init, drift gate, acquire, release, atexit cleanup | `Workspace`, `GroupGates` |
| agents and subprocesses (`agent/`, `runner/process/`) | child process, two pipes, stderr thread, session id | spawn, stream, time out, kill, fetch the results | `AgentTurn`, `Adapters`, `Launch` |
| sandbox (`runner/sandbox/`) | a container | build, start, exec, stop | `Launch`, inside `ScenarioRun` |
| scoring phase (`commands/score.py`, `scorer/pipeline.py`) | `score.json` per outcome directory, running totals | load the turns, call each scorer, combine, write | `Judging` |
| LLM judge, score cache, consensus (`scorer/llm/`) | `.score_cache`, cost totals of a scorer, votes, a backend's learned header and token | probe, ask, retry, cache, evict, merge | `Judging`, `JudgeBackend` |
| rules scorer (`scorer/rules/`) | none (functions of the turn outputs) | the checks of an expectation | `Grading` |
| aggregator (`aggregator/`, `commands/aggregate.py`, `compare.py`) | none (reads `score.json`) | statistics, trials, thresholds, comparison | `Aggregate`, `Compare` |
| eval chain (`commands/eval.py`, `export.py`) | the exit code of each phase | run, then score, then aggregate, then export | `EvalChain` |
| progress and watch (`progress.py`, `commands/watch.py`) | counters, panels, a read position per stream file | count, poll, render, stop | `Display`, `Watch` |
| loading and filtering (`parser/`, `scenario.py`, `filter.py`) | none | walk, inherit, validate, select | `Selection` |
| exporters' formats, benchmark card, CLI, redaction | none that outlives a call | convert | not modelled |

How they interact:

- **Processes** meet in the outcomes root. A starting run takes the manifest's
  lock and reaps the entries of dead runs; it then sets its groups up, and only
  after the last one registers. `gc` reads the same file without the lock.
- **Threads.** The main thread submits scenarios and waits; workers run one
  scenario each. `Ctrl-C` is delivered to the main thread only, so with
  `--workers 1` it strikes inside a scenario and otherwise inside the wait.
  Score workers share the scorers (their totals) and the cache directory. A turn
  has a thread of its own for the child's stderr, the live view one that polls.
- **Children.** A turn is a CLI whose stdout is read line by line, under one cap for
  what is kept in memory and one for the turn stream; the CLI's own children may keep
  its stdout open.
- **Fixtures.** Scenarios with `workspace` isolation and the same fixture share
  its git repository; each has a `WorkspaceManager`, locks are per path.
- **Files.** A turn leaves `turn_<i>_cli.txt`, then `turn_<i>_output.json`;
  failures leave a sentinel in the former. `score` sees nothing else of a run, and
  `aggregate` nothing but scores, outputs and `setup_errors.json`. `belt watch` and the
  live view read `turn_*_stream.ndjson` while it grows.

The behaviours that are hard, and what must hold (each is a hazard in
`PROJECT.json` with its line, the properties that watch it, or the reason that
none does):

- *Who owns a resource when a process dies*: no live run's entry is lost and no
  live run's resource deleted, no entry is dropped with resources untried, what a
  dead run registered is found. Reused pids, foreign processes with a recorded
  pid, a torn file and a lock that times out are all in play.
- *Stale decisions*: gc deletes on the strength of a manifest it read earlier; the
  drift gate looks at `.git` without the lock; cached verdicts and old `score.json`
  files are reused.
- *Partial failure*: any step of a scenario may raise after the world around it is
  up; any git command may fail, time out (and be ignored) or half succeed; a CLI may
  die in the middle of a line or of a tool call; a judge may answer some turns and not
  others; a scorer may raise; one of several judges may be down before the run.
- *Early exit*: one Ctrl-C, two, a kill.
- *Two pipes and a time limit*: neither a full pipe nor one that somebody else holds
  open may hang a turn, and a child must not outlive it.
- *Readers of files being written*: a line in two pieces, a character in two pieces.
- *Limits*: the caches' and streams' budgets, the number of tries, the workers that
  serve the queue, percentages at their ends.
- *A green result*: a chain of three phases that ignore each other's exit codes must
  not end with 0 without a turn, a score or a verdict.

## The modules

`RunRegistry` is an abstract specification; `Manifest` implements it.
`OutcomesGc` composes the gc process with the processes of `Manifest`; `RunPool`
composes executor and main thread with the scenarios of `Workspace`; `AgentTurn` is
the process around the event folds of `Adapters`; `EvalChain` composes the three
phases with the arithmetic of `Aggregate` and the readers of `Watch`. `GroupGates`,
`Launch`, `JudgeBackend`, `Display`, `Grading`, `Selection` and `Compare` are modules
of operators: the parts of belt that compute an answer from their arguments. Each code
function there is one operator of the same name, and `MCStart`, `MCNumbers` and
`MCChecks` ask them questions. `Lists` holds two operations on lists,
and `ListLemmas` what is proved of them; `PyNone` declares `None` once for the modules
that are asked together. The modules ending in `Proofs` hold theorems only, and one may
speak of several components that share lemmas. No module declares a RECURSIVE operator, so
all of them can be proved about.

In the modules, definitions introduced by a comment that begins with *Mutant* are
slightly wrong versions of the definition that follows them. No specification uses
them; each stands for a plausible bug and, put in place of the right definition,
breaks the property that `PROJECT.json` pairs it with.

### Manifest, RunRegistry

Each run is a process with a program point `pc`, a pid the kernel gave it, its
own `_data` (`data`) and a loop variable (`left`, `todo`, `doomed`). `disk` is what
somebody who opens the file would read; a missing, truncated or damaged file reads
as empty, as `_read` has it. `lock` is the `FileLock`.

A mutation is two steps, as in the code: `LockAndTruncate` (take the lock, re-read,
change, `open("w")`) and `Fill` (the bytes arrive, the lock is freed). Between them
a reader sees an empty file, and a process killed there (`MayTear`) leaves it so.
`cleanup_orphans` holds the lock over its whole loop: `BeginReap`, `Examine` per
entry, `DeleteOrphan` per group, `EndReap`, `FlushReap`. `PidAlive` is
`_is_pid_alive` with its order of tests: `PermissionError` answers "alive" before
create times are compared. `unregister_run` drops every entry with the pid.
`LockTimeout` is the uncaught `filelock.Timeout`. `AbortSetup` is a set-up that ends the
run: `--strict` when a group's own set-up raises (a group that a gate rejects is passed
over), or no group left. `KeepRuns` are `--no-cleanup` runs, which do not unregister.

`TearDown` is the turn of one group at a teardown, in a clean-up of orphans as in the
run's own: an agent is made and its `teardown_group` called (`tried`), which may raise
(`Stubborn`), or no agent can be made and nothing is called (`Unmakeable`, `unmade`). The
callers swallow all of it, and the entry goes either way. So what holds of an entry that
goes is that each of its groups *had its turn*, and `NoGroupPassedOver` says no more.

The refinement maps the file to what it *means*: `Logical` looks through a write
in progress at the copy about to be written. Under it a register is one step of
`RunRegistry` although a reader of the raw file sees it vanish in between.

A run starts once. The number of runs therefore bounds the history, and three are
enough for one that dies, one that reaps and one that is registered meanwhile,
with two pids so that a pid is reused.

### OutcomesGc

`Deletions` is `plan_deletions` over directories ordered by mtime, newest first.
gc reads the manifest (`disk`, without the lock), plans, and deletes one directory
per step; in between any run may start, register, write (which renews its mtime),
crash or end. An `rmtree` may fail. Two history variables say what the read was worth:
`gcKnown`, the runs that had registered then and were at work, and `gcWhole`, that no
writer had the file truncated.

### ScenarioRun

`run_scenario_turns` inside `_run_one`, a program point per call that can raise:
worktree, sandbox, resources, `agent.setup`; per turn rendering and opening the
stream, `execute`, `fetch_results`, the captures and the append, the two writes;
then the four steps of the `finally` block; then the handler of `_run_one`. A write
that fails may leave an empty file behind (`"empty"`). `WriteSentinel` never
overwrites and swallows its own failure. `job` is what the scenario asks for, any
combination; `needs` says which earlier outputs each message refers to. `Place` is
where `score_scenario` puts a turn in the list that it reads afterwards.

An interrupt before the turns, or in the `finally` block, abandons whatever is up
(`"abandoned"`); inside the turn loop it passes through the `finally` block
(`"cut"`).

### Workspace, RunPool

The fixture's contents are a version number; `staged` and `head` are the versions
in the index and in the commit, so that "snapshot", "drift" and "commit" can be
told apart. A fixture may lie inside another repository: where `git init` timed out, the
next git commands work in that one (`GitAdd`). `Pinned` scenarios ask for a commit of
their own (`workspace_ref`) and get that one (`Ref`). `run_git` answers `None` to a timeout whatever `check` says and callers
go on, so each git step may also be a step without effect; each may also fail.
Removing local files is assumed to work. `plain` says that the author ships plain files; a
directory he has committed himself is his own. `unguarded` is a history variable:
it is set when a failure leaves a belt-made repository without its marker, or
`git status` fails inside the gate, after which the gate cannot work by design.

`RunPool` adds executor and main thread. A worker takes the head of the queue and
goes through the steps of `Workspace`; `Return` is `_run_one`'s end, including a
future that raised, which is reported and leaves no result. `Interrupt` moves the
main thread on as an exception would; `InterruptMain` is a Ctrl-C while main reports
(exit code 130), and `InterruptExit` one during the cleanup at exit, which cuts it
short as a kill does. After the process exits or is killed, the
author may edit or commit the fixture, and a further run may start, any number of
times. The sequential branch of `run_scenarios` (`--workers 1`) is `ScenarioRun`
with `MainThread`.

### Judging

The score phase. `setup` says what this scoring is asked to do and what it finds:
the directories, which turns of each can be read, how many judges, merged or not,
per turn or per scenario, per-turn skips, which scenarios have a scoring strategy of
their own (their scorers are fresh, and rebuilt *without the judge's name* unless in
a consensus: `KeepsName`). A worker takes a directory, and each judge then makes its
calls: `SkipTurn`, `CacheHit`, `CacheMiss` (which removes a damaged entry), and
while posting `Answer`, `Unparsable`, `Throttled`, `Unreachable`, `RetryAuth`,
`Fatal`. `Decide` combines the votes (`MergedPass`, `JudgePass`, `OverallPass`)
and writes the score.

Abstractions: a verdict is pass or fail on one dimension; a cache entry has size one
and carries the evidence it was given for; money is counted in answered calls; the
addition to a scorer's totals is atomic (no call and no
loop lies between its read and its write, so the interpreter switches threads before
or after it); a rules verdict is any verdict; whether a backend
has a second header to try is left open. At the start the cache holds at most one
entry, whole or damaged; taking it to be of directory 1 loses nothing, since
directories differ in number only.

### Adapters, AgentTurn

`Adapters` is `fetch_results` of the seven adapters: the events of a CLI's output
folded into a turn output, one step per event, and the classification of what went
wrong. A printed line is a record of what the adapters look at: `type`, content block
(`part`), call id, session id, error flag and label, size, and as its text the set
of failure patterns in it (`marks`).

`AgentTurn` runs a scenario's turns through it. The child writes lines of its CLI's
vocabulary into a pipe that holds `PipeCap` of them, complains on stderr, closes its
output, crashes or ends, perhaps leaving its stdout open in another process (`HeirEnds`).
belt's side is `_execute_streaming`: `ReadLine` with `iter_bounded_stream`'s caps
(`Clip`, `draining`) and the turn stream's (`SinkWrite`), `DrainStderr` as a thread,
`Wait`, `TimeOut` with `_kill_process_tree`, `Join`, `Fetch`. `ReadBreaks` is the loop
that raises: four adapters let it go, three log it and carry on (`Streaming`).
`KeyboardInterrupt` is a Ctrl-C in the loop or in the wait after it, which the scenario
gets if it runs in the main thread (`--workers 1`, `MainThread`): it passes through
`_execute_streaming`, which catches the time limit alone, and leaves the child, in a
session of its own, running. `FetchFails` is a `fetch_results` that raises. `named`,
`resumed`, `unread` (a result that stands for such a `fetch_results`) and `cutOff` (turns
whose loop raised or that a Ctrl-C ended) are history variables.

### GroupGates, Launch, JudgeBackend

Everything before a scenario's first turn. `GroupGates` is `setup_groups`: two gates
on a group's `working_dir` and isolation, the clone of its fixture into the run's
cache, the set-up of the rest, and what repository a scenario's worktree is taken from.
`Launch` is the denied flags, the command of each adapter, the resolution of its
binary, the environment of its child on the host and in a container, and the sandbox
that is built. A command-line argument is `key` or `key=value`, so that `--flag=v` and
`--flag v` differ as they do in `_check_denied_flags`. `JudgeBackend` is provider
resolution, probes (`DoGetPreflight` with its header retry), classes of errors, Azure's
token with its expiry, `PreflightJudges` over all judges, and `CallApi`. A judge's `reply`
is what its server answers to a request with a given header, and `models` says whether the
server has the endpoint for single models that the probes of OpenAI and Anthropic ask;
without it the probe is answered 404 whatever a request would be (`Shown`).

### Watch, Aggregate, EvalChain

`Watch` is a writer that puts lines into stream files, whole or in two writes, where the
first may end inside a character (a line that lacks its newline alone is whole: the
readers split the text they find), and one reader: `belt watch`, `belt watch --follow` or
the live view. A pass looks for files and reads each from its offset to its end.

`Aggregate` computes `results.json` from the scores: verdicts per dimension,
thresholds, statistics, trials, costs, environment failures, exit code.

`EvalChain` is `belt eval` over both. `fate` says how each scenario ends in the run
phase, `files` what `score.json` holds; scoring one scenario may raise (the old file
stays) and the process may be killed, inside the write of a score too. `Gate` is eval's
look for real turns. `ScoreOne` may give any verdict to any scenario with turns, one that
raised included: a sentinel passes every check that only forbids. `Rerun` is a `belt score` or `belt aggregate` afterwards on the same
directory.

`MCEvalChain` bounds it for TLC, see below.

### Compare, Display, Grading, Selection

`Compare` matches two runs by key, or by name where groups differ (`Normalized`).
`Display` is the rendering of events (`parse_stream_event` of the adapters and the
generic `StreamParser`), the panels of the live view, the counters and the run's
summary. `Grading` is each rule check of an expectation from the turn's output; a text
is the set of words to be found in it. `Selection` is the walk over a suite, inherited
and overridden configuration, the filters, and the validation of keys at every depth
under `--strict-config`.

### MCStart, MCNumbers, MCChecks, Asking

A behaviour asks one question (`asked`) and stores what the code computes (`answer`);
each property looks at the answers of its questions. The inputs are the definitions
whose names begin with `Some`. This is a harness for TLC and not a part of belt.

## The runs

| Run | States | What it shows |
| --- | --- | --- |
| `Manifest_liveness` | 223 k | Three runs, two pids, one of which a process of another user may take. `EveryRunEnds`: the lock does not make a run hang; `OrphansReaped`: if a later run gets through its startup, what a dead run had registered is gone. `OrphansReaped` excepts entries whose pid another user's process may have, since those are rightly kept, and the run is one of its own since `--no-cleanup` entries make it false, rightly too. |
| `Manifest_orphan_lost` | - | Violation: resources are made before they are recorded. |
| `Gc_safety` | 1.33 M | Two runs and a gc with `--keep-last 1`, a `teardown_group` that may raise, a group whose agent may not be made, one `--no-cleanup` and one `--strict` run, a foreign process that may take a pid, kills everywhere but inside a write. `WholeReadKeepsRuns`: a run that had registered when gc read a file that nobody was writing keeps its directory while it lives, whoever registers, reaps, ends or takes a pid before the read and after it; `LiveRunRecorded`: whatever others register, reap or unregister, a running run stays recorded with all its groups; `LiveRunSpared`: nobody deletes the resources of a live run; `NoGroupPassedOver`: an entry goes only after each of its groups had its turn; `RegistryKept`: the whole implements `RunRegistry`. |
| `Gc_torn_read` | - | Violation, with `--older-than`: gc may read the file truncated and see nobody. |
| `Scenario_faults` | 497 k | Three turns, all makes of scenario, a fault at any step, Ctrl-C at any point: the world is undone (`SetUpIsUndone`) and outlives the agent in it (`AgentInItsWorld`), the scorer finds each turn in its place (`TurnsInPlace`), templates find the right earlier turn (`PriorInPlace`), a scenario cut short by a fault shows it (`FailureVisible`). |
| `Pool_safety` | 725 k | Two scenarios, one with a `workspace_ref`, two workers, two Ctrl-Cs, an edit, kills and any number of further runs: git init never hits a directory that has a `.git` (`NeverReinit`); nobody works on a stale snapshot (`FreshSnapshot`); an exit leaves no worktree (`ExitClean`); groups outlive their scenarios (`TeardownAfterScenarios`); exit code 0 means what it says (`ZeroMeansAllRan`); and the run ends unless a scenario never comes out of its turns (`RunEnds`). |
| `Workspace_race` | - | Violation: a half-made repository is taken for a finished one. |
| `Agent_turns` | 265 k | Seven adapters, two turns, every two lines of each CLI's vocabulary, a Ctrl-C anywhere in the loop or the wait: the turn stream shows a prefix of the output (`SinkShowsAPrefix`); the conversation is not forgotten (`SessionKept`); results hang at their calls (`ResultsBelong`); a failure that was reported is recorded, and lacks a type exactly when `fetch_results` raised (`FailuresAreTyped`); a child is up after its turn only if the loop raised or a Ctrl-C ended it (`ChildrenAreOver`); a turn ends unless a process holds stdout open for ever (`TurnEnds`). |
| `Judging_safety` | 376 k | Two workers, two directories with one judge, or one with up to two and up to two oddities (lost turns, skips), two turns, a cache budget of two: `CacheBounded`, `VotesAreOwn` (no verdict of other evidence, through cache or turn numbering), `PassIsEarned`, `CostsCovered`, and `PhaseEnds`. |
| `Judging_uncovered` | - | Violation: a turn nobody judged may pass. |
| `Eval_chain` | 557 k | Two scenarios, every command line and every fate, scores of four kinds, a further command, kills; and each reader beside a run. `GreenIsEarned`: exit code 0 needs a turn, a score, no failed judge and kept thresholds, though no phase hands on its code; `OverallIsEarned`: `overall_pass` speaks for every scenario that was scored; `SplitAddsUp`: environment failures are neither passes nor lost; `ShownFaithfully` and `ViewEnds` of the readers. |
| `Checks` | 456 k | `LaunchKeepsTheRules` (flags, commands, binaries, environments, probes, tokens, groups), `DisplayShowsWhatCounts` (events, panels, counters, summary), `GradesMeanWhatTheySay` (checks of a turn, against the definition of an embedding and under one more tool call), `NumbersAreFair` (statistics, thresholds, trials, costs, comparisons), `SelectionIsWhatWasAsked`. |

Bounds, and why they are enough. Every module's actors are alike, so two that
contend plus, for the manifest, a third that cleans up after one of them cover the
pairs and the chain; `Gc_safety` has two runs beside gc, and its properties are all
proved for any number of them (below). Two groups there let `--strict` fail
halfway. Three turns give a first, a middle and a last one, hence a gap in the middle.
Three scenarios in `RunPool` (two working, one queued) were checked once as well: 14.9
million states, no error; the run keeps two, with which the queue is still longer
than what runs whenever a worker is slow to take. `MaxEdits = 1` distinguishes fresh
from stale, and further edits only differ in number. `MaxInterrupts = 2` reaches
every effect a Ctrl-C has. `Budget = 2` with three possible entries forces eviction;
`MaxTries = 2` separates the first from the last try; `MaxLoad` and `MaxOdd` keep
the product of scenarios, judges and oddities finite: lost turns and skips are looked
at in a directory scored alone, since they meet nothing that directories share, and a
consensus with two of them is among the instances. `Consensus` and `Cumulative` are fixed
in the configurations.

`Agent_turns`: a pipe that holds one line is full after the first of two; a cap of 1
stops a turn at its second line, one of 3 after a long line (size 4 once cut to 3) or
not at all; two call ids let two calls be confused, one session id a session be
forgotten. Two lines a turn and two turns give a call and its answer, in one turn or in
two. `Eval_chain`: `MCEvalChain` explores the chain without a reader, and each reader
only beside a run whose scenarios raise, so that nothing is scored: readers never look
at the later phases and those do not write streams. Two pieces of two lines are a whole
line in front of a torn one and after it; two idle passes separate "once quiet" from
"quiet long enough".

`Checks`: up to three flags, so that an option stands before, between and behind its
neighbours; up to three outputs of a progress; judges alone with every reply and
in pairs and triples with one of each end; up to three requests of an Azure judge over a
token's life; two groups in directories of one name and a third in another; outputs of
up to three calls; runs of up to two scores; suites over four nested directories with one
odd file or configuration and up to two filters. Events are those of all seven
adapters, labelled ones included. Where a reader is shown less than the turn counts,
`EventShown` says so exactly: nothing of codex (`Unseen`), no call of copilot's before it
starts, copilot's failure that only a label tells as a success, and the text that cursor
repeats in its result as the result.

Deadlock is checked in every run but `Eval_chain` and `Checks`, where a command that has
ended and a question that is answered are ends. In `Manifest`, `ScenarioRun`, `AgentTurn` and `Judging` the end
is an explicit step (`AllGone`, `Ended`, `Done`, `Summary`); gc and further runs go on
for ever.

Conditions that are part of what is claimed. `LiveRunRecorded` and
`NoGroupPassedOver` suppose that no process dies between truncating and filling the
manifest (`MayTear = FALSE`): after that nothing in the file can hold.
`NoGroupPassedOver` also supposes psutil, without which a pid says nothing about who
registered. `TeardownAfterScenarios` is stated for at most one Ctrl-C: the second
breaks the executor's wait, and groups are then torn down under running scenarios.
`ZeroMeansAllRan` excepts scenarios whose future raised, `SetUpIsUndone` those that fail
before the `try` is entered, and `FreshSnapshot` repositories that a failure or a kill
left without a marker; `ExitClean` is about exits that nothing cuts short.
`WholeReadKeepsRuns` supposes a read between writes and says nothing of runs that register
after it. `RunEnds` supposes that scenarios come out of their turns, `TurnEnds` that no
process holds stdout open for ever. `ChildrenAreOver` is not claimed of a turn whose
reading loop raised or that a Ctrl-C ended, `ResultsBelong` of calls without an id, `ShownFaithfully` of lines written in two pieces, `OverallIsEarned`
of scenarios whose scoring raised, `SelectionIsWhatWasAsked` (no more than was
asked for) of groups within groups: in each of these the code does less, and the
observations below say what.

## Fairness

- `Manifest!FairSpec`: weak fairness of each started process. The OS schedules it, and
  `teardown_group` returns. A wait for the lock ends by `LockTimeout` at worst. That a
  run *starts* is not assumed, so `OrphansReaped` speaks of runs that do.
- `RunPool!FairPoolSpec`: weak fairness of the main thread, of taking a task and of
  each worker, but for the step that ends an agent's turns: git commands have time limits
  and both locks are released on every path out of their `with` blocks, while the loop
  that reads a CLI's stdout has none (`claude_code.py:231`; the wait with a time limit
  comes after it). So `RunEnds` speaks of runs whose scenarios do not stay in their agent
  for ever.
- `Judging!FairSpec`: weak fairness of the phase as a whole. Requests have a
  timeout and retries are counted, so some thread always gets on.
- `AgentTurn!FairSpec`: weak fairness of belt's loop and of its stderr thread, which the
  interpreter schedules, and of a CLI that writes what it has to write when a pipe has
  room, and then ends. The second half is an assumption about CLIs: a child that prints
  nothing and does not close its stdout keeps the reading loop for ever, since the time
  limit starts after it. Of the processes that a CLI leaves behind nothing is assumed:
  one that holds its stdout open may never end, and `TurnEnds` says that this is then
  the only way to hang.
- `EvalChain!EvalSpec`: weak fairness of the reader's steps, a loop with a sleep.

`ScenarioRun`, `OutcomesGc` and the questions of `Checks` have no liveness property, and
assume no fairness.

## What is proved

`tlapm` checks the eight proof modules. The assumptions are the `ASSUME`s of the
modules proved about, which TLC evaluates in the runs: ranges of constants, finite sets
of scenarios, sentinels that are not values (`NoId` is no call id, `None` no session and
no label). Where a theorem says so it also assumes `HasPsutil` or `~MayTear`. No theorem
bounds the number of runs, scenarios, workers, turns, judges, lines or tries; the bounds
of the configurations are for TLC only.

Of the properties the passing runs check, the theorems state every invariant and
every action property, and the refinement. For the five invariants of `Checks` they go
beyond the run in another way: TLC asks the questions that are listed, the theorems speak
of any question of the form that the code takes, and suppose only that the answer is what
the code's operators make of it (the definitions whose names end in `Answered`).

**ManifestProofs**, for any sets of runs, pids and groups:

- `TypeCorrect`: `TypeOK`, with `PidInv`: processes that are up have pids of their own.
- `OneWriterAlways`: the process inside a mutation is the lock's holder.
- `LiveRunsAreSpared`: the action property `LiveRunSpared`, with crashes, torn writes
  and pid reuse, with or without psutil. Inductive part: `EntryInv`, every entry that
  exists anywhere (file, copies, entries waiting to be examined) is genuine, that is,
  if its run is up it carries that run's own pid; so `PidAlive` is true of it
  (`EntriesGenuine`). Hence only the dead are put up for deletion
  (`OnlyTheDeadAreDoomed`, using that dead runs stay dead). `TypeOK` alone is not
  inductive for it, since a stale `todo` could name a live run under another pid.
- `LiveRunsStayRecorded`: `LiveRunRecorded`, assuming `~MayTear`. The invariant
  follows the copies: the holder's copy is the file it read, minus entries it found
  dead, plus its own.

And, with psutil:

- `ManifestKeepsRegistry`: the refinement `RegistryKept`, torn writes included (the
  registry is then one that is not durable).
- `NoGroupIsPassedOver`: the action property `NoGroupPassedOver`, assuming `~MayTear`.

The last two are about `Logical`, what the file means, so `LogicalSteps` first reduces the
actions to six kinds of step on it. What is then needed of a state is `Facts`:
`KnownInv` (an entry is of a run that came to its registration, and names groups that
this run did set up), `OwnInv` (a run that has reaped shares its pid with no entry of
another run, which is why `unregister_run` by pid takes nobody else's), `ReapInv` (what a
clean-up drops is of a dead run, each group of which had its turn or is about to) and
`LeftInv` (in a run's own teardown every group that is not still to come had its turn). `OwnInv` is the heart, and
where the create time is used: an entry with the pid of the process that reaps is of a
dead run, and the clean-up does not take the process itself for its owner.

And of **gc**, in the same module, beside any number of runs and of invocations:

- `GcLeavesRunsAlone`: `GcSpec => Spec`, so all of the above holds beside gc
  (`ManifestBesideGc`).
- `WholeReadsKeepRuns`: `WholeReadKeepsRuns`, assuming `~MayTear`. At its heart is
  `WholeReadSeesAll`: since every registered run that is up is in the file
  (`LiveRunRecorded`) under its own pid, a read between writes finds it and takes it for
  live. `PlanInv` carries that from the read to the deletions, and two lemmas say what a
  step does to the list of directories.

**RunProofs**, of scenarios, for any number of turns:

- `SetUpIsAlwaysUndone` and `AgentAlwaysInItsWorld`, from `WorldInv`
  (`WorldFollows`), which says what is up at each program point and that `leaving`
  tells an exception that went through the `finally` block from one that came before
  it. Without `leaving`, the handler could not be told apart in the two cases and
  nothing inductive could be said of it.
- `PriorAlwaysInPlace`, from `PriorInv`: between the append and the end of the turn
  `turn_outputs_so_far` is one longer than the number of turns done, otherwise equal.
- `FailureAlwaysVisible`, from `VisibleInv`: until `fetch_results` returns the turn that
  runs has left nothing on disk, so the sentinel of a turn that raises finds its place
  free; and a result without an error is one that went through the `finally` block.
- `TurnsAlwaysInPlace`, from `GapsInv`: the turns before the current one have left
  their output and those after it nothing, so no sentinel opens a gap.
- `TypeCorrect`: `TypeOK`, including that neither count of a result exceeds the number
  of turns; the parts (`TurnInv`, `CountInv`, `PlaceInv`, `FilesInv`, ...) are lemmas
  of their own.

Of workspaces, for any set of scenarios that share a fixture and any number of edits:

- `WsTypeCorrect`: the values of the variables, and that a fixture's lock is held by
  exactly the thread that is initialising it (`LockInv`).
- `NeverReinitAlways`, from `StagesInv`: how far the repository is, by the program
  point of the thread that makes it.
- `SnapshotsAreFresh`, from `FreshInv`: a commit without the marker is one that somebody
  is about to mark, and behind the gate a commit holds what the directory holds.
  `StagesInv` alone does not give it, since the repository may be an earlier run's.
- `ExitsAreClean`, from `ManagedInv`: a scenario that is to have a worktree has a
  registered manager.

And of the pool, for any finite set of scenarios, any number of workers and Ctrl-Cs:

- `PoolImplementsWorkspace`: each step of the pool is one of `Workspace` or none, which
  needs that a scenario in the queue has not begun (`QueueInv`) and that a future is
  done only once its scenario has left the workspace (`DoneInv`). So the theorems
  on workspaces hold of a run (`WorkspacesOfARun`).
- `TeardownComesLast` and `ZeroIsEarned`, from `MainInv`: what is known at each stage
  of the main thread, by the number of Ctrl-Cs; the executor is left without a second
  one only when the queue is empty and nothing runs.

**ListLemmas**: what `Lists` computes. Folds over lists are recursive functions here,
and an induction theorem that takes a predicate cannot be used by the provers;
`SetInduction` says the same of a *set* of numbers, `CountUp` of those up to a bound, and
`Iterates` that a recursion over 1..n has a value at each of them. From these follow that a
filtered list keeps the order and loses nothing that it should keep (`KeptSelects`), that
two filters with nothing in common split a list between them (`KeptSplits`, `KeptPlaces`),
and what becomes of a sum when an element is added or one is changed (`SumGrows`,
`SumChanges`).

**JudgingProofs**, for any number of directories, turns, judges, workers and tries:

- `CacheStaysBounded`: `CacheBounded`; a put is followed by the eviction of the oldest
  entries, and `Fitted` is a suffix that fits (`FittedFits`).
- `VotesStayOwn`: `VotesAreOwn`, from `VoteInv`. `said` records what a model answered to
  which evidence. Inductive are that each whole cache entry is in it under its key
  (`CacheInv`) and that a job's votes are, in the judge's and the place's order
  (`Backed`, `InTurn`). Neither goes without the other, since votes come from the cache
  and entries from votes. `InTurn` also says that a judge is not asked about a place
  twice, so that nothing overwrites a vote.
- `PassesAreEarned`: `PassIsEarned`, from `PassInv`: a score that passes is one of a
  settled job whose votes earned it, and a settled job does not vote again.
- `CostsAreCovered`: `CostsCovered`, from `CostInv`: the sum of the totals over judges
  is the sum of what was billed over scenarios. That is an equation between two sums over
  different indices, which each answered call moves by one (`BillMoves`).

**TurnProofs**, for any number of turns and lines, any pipes and caps, and each of the
seven adapters:

- `ChildrenAreAlwaysOver`, from `ChildInv`: a child outlives its turn only if the reading
  loop raised or a Ctrl-C fell in it or in the wait after it.
- `StreamsShowAPrefix`: `SinkShowsAPrefix`, from `SinkInv`: until the cap is reached the
  stream holds the message and *all* lines read, so its size is a sum that every write
  extends; after that nothing is written. Lines go on being read meanwhile, hence a prefix.
- `SessionsAreKept`, `FailuresHaveTypes`, `ResultsStayTogether`: what `fetch_results`
  makes of any output. For each adapter `EventMoves` says what one event may do to what
  has been read so far: which calls it adds or answers, and whether it speaks, names a
  session or reports a failure. An induction over the lines (`CountUp`) lifts that to the
  whole output (`FoldCalls`, `FoldNames`, `FoldFails`, `FoldSpeaks`). Around it are
  invariants of the process: `SaidInv` (every line is of the CLI's vocabulary or was cut
  to junk), `ClosingInv` (an event that closes a turn is the last before the cut, so that
  a session or a failure read from it is not undone by one behind it), `ResultInv` (a
  result is that of the whole `raw`) and `KeptInv` (the session in use is one that was
  named, or none was).

**ChainProofs**, for any finite set of scenarios, any streams and any number of further
commands:

- `WatchersAreFaithful`: `ShownFaithfully`, from `WatchInv`: pieces are written in order,
  and what is shown is faithful to the pieces in front of the offset; a pass extends both
  (`ReadingOn`).
- `GreenIsAlwaysEarned`, `OverallIsAlwaysEarned`, `SplitsAlwaysAddUp`, from `ChainInv`.
  The first two compare the exit code, or the results, with the files that are on disk
  *now*, and a further `belt score` changes those: so the invariant says in which phases
  there can be results at all, and what eval's gate found. The lemma `Aggregates` is about
  a single aggregation, over whatever files there are. Under it, `FoundIs` says that the
  scores found are those of the files, each once, and `SplitsAddUp` that counts over the
  scores partition: scenarios blocked by the agent's environment and by a judge overlap,
  and must be counted once.

Of the numbers, in the same module, for any scores over any dimensions:

- `AnyStatisticsAddUp`, with any thresholds. A dimension's worst turn exists
  (`WorstExists`), so its verdict is that of its turns (`VerdictIs`, `VerdictMeans`) and
  not of the order they are met in. A set's parts add up to it (`PartsAddUp`); this gives
  the counts per dimension (`PlacesAddUp`, `RowsAddUp`, `DimsAddUp`) and the trials of a
  scenario (`TrialsAddUp`). pass^k, the pass rate and pass@k are in this order for any k
  (`PassesInOrder`), and what thresholds promise of scenarios comes from counting those
  that miss them (`CountMeans`, `ThresholdsHold`).
- `AnyCostsAddUp`: the costs of two scenarios are the sum of those of each, agent's and
  judge's (`CostsOfTwo`).
- `AnyComparisonIsFair`: comparing the other way round is the same comparison with the
  signs changed. `Delta` is antisymmetric; the rest is that a list taken in
  reverse is a bijection on places, so that nothing is counted otherwise
  (`ReverseCounts`, `TurnedIsSame`).
- `AnyNumbersAreFair`: the three together, `NumbersAreFair`. All suppose that `None` is
  neither a number nor a verdict.

**ChecksProofs**, three parts on questions of `Checks`:

- `AnySelectionIsWhatWasAsked`, for any suite, any filters and both kinds of strictness, from
  `SelectedIsAsked`, which does not mention the harness. It sets what each filter entry is
  *meant* to name (`Means`) against the walk's matching by prefixes, and a configuration
  that loads against one without unknown keys at any depth. `None` is taken for no name
  and no model, and a suite's groups for the directories that the walk finds.
- `AnyGradeMeansWhatItSays`, for any expectation, any output and any further call. Its heart is
  `GreedyIsEnough`: the greedy scan for the expected calls in order finds an
  embedding whenever there is one. Lemmas ending in `Follows` say of each check what one
  more call can do to it, and those that begin with `Lost` what becomes of it in a turn
  that was lost.
- `AnyDisplayShowsWhatCounts`, of four: `AnyEventIsShown` (each adapter's renderer shows
  what its fold counts: `Tells` against `Sees`, for all seven adapters and with the
  exceptions that `EventShown` names),
  `AnyPanelIsComplete` (the user's messages and the rest split the panel, and what is
  not shown is counted), `AnyProgressIsRight` (the counters are a recursion over what is
  done; a stream goes with the nearest group's agent) and `AnySummaryIsHonest`.

**LaunchProofs**, on the questions that precede a scenario's first turn:

- `AnyFlagsAreKept`: of any flags exactly those go that are denied by name or together
  with their value, in one argument or two, this value with them, and what is kept stays
  in order: also what follows an option denied by name (an observation below). The scan takes one place or two at a time, and would
  lose its step if denied entries could overlap; `PairsApart` says that none do, for each
  adapter.
- `AnyChildSeesItsOwn`: what reaches the child's environment, on the host and inside.
- `AnyCommandIsWhole`: each adapter's command has the message once and last, all flags in
  front of it, a session iff one is to be resumed, and for codex one sandbox flag, the
  author's if he gives one. It supposes that no option is itself the message or a flag of
  the sandbox.
- `AnyBinaryIsFound`: the binary is the first of the candidates in belt's order (`FirstIn`,
  `ResolvedIsFound`), and what is reported is what the command starts.
- `AnyTokenIsFresh`: over any sequence of requests no token is sent whose life has ended,
  and none that can be had is missed; `RequestsUnfold` follows the cached one from request
  to request.
- `AnyJudgeIsProbed`, for any list of judges: one that the probe rejects would fail its
  requests, has a server without the endpoint that the probe asks, and is then rejected
  always (`Hidden`), or is OpenAI's without a key (`Bare`); and of those that would fail
  none is let through but ollama's that ask for authentication and `Bare` ones
  (`EveryProbeFits`); a judge that was answered asks once
  from then on (`AsksOnce`); and a rejection names all who are rejected (`ProbedTogether`).
- `AnyGroupIsInItsWorld`, for any list of groups with names of their own: no group is set up
  that a gate has denied, none fails without a reason, and each with a fixture has the clone
  of its own. The clones are made in one loop, whose invariant says which places in the
  cache are taken, and by whom.
- `AnyLaunchKeepsTheRules`: all of these, `LaunchKeepsTheRules`.

These suppose that `None` is none of the values that it stands beside: no time, provider,
header or repository record.

Model-checked only: liveness (`EveryRunEnds`, `OrphansReaped`, `RunEnds`, `PhaseEnds`,
`TurnEnds`, `ViewEnds`), since fairness and `ENABLED` are beyond the prover.

## Findings

Each is a run that TLC ends with a counterexample; `PROJECT.json` quotes the text
that the code disagrees with.

1. `OrphansRecorded`: a run registers after all its groups are set up
   (`setup_groups.py:416`), so one that is killed, interrupted, aborted by `--strict`
   or timed out on the lock in between leaves resources that no entry names.
2. `RegisteredRunKept`: gc reads the manifest without the lock (`gc.py:46`) and may
   see it truncated, whereupon no run counts as live.
3. `InitIsAwaited`: the constructor's look for `.git` is outside the lock
   (`workspace.py:397`); a scenario that finds it half made does not wait.
4. `UncoveredTurnFails`: a consensus drops a judge that erred everywhere before it
   looks at the turns (`consensus.py:490`); a turn the others skip then passes unjudged.

### Observations

Seen while modelling, without a run of their own; the models have each of these
behaviours. Where a doc or a comment promises something else, the property nearest to it
states what the code does, exactly, and names the exception.

*Runs and groups.*
- A teardown that fails, or for which no agent can be made, is swallowed
  (`teardown.py:25-31`, `setup_groups.py:317-328`) and the entry is dropped all the same,
  the resource with it; `manifest.py:152` speaks of "successful cleanup".
- A turn whose `execute` raises (`orchestrator.py:352`) leaves neither `error` nor
  `agent_errors`, and the run exits with 0. So it may where a future raised: that leaves
  no result (`run_scenarios.py:208`), and the exit code looks at results only.
- `agent.setup` and the resource install run outside the `try` whose `finally` tears
  down (`orchestrator.py:302-318`): if one raises, what is up stays up.
- `turn_outputs_so_far` holds failed turns too (`orchestrator.py:385`). The comment at
  331-334 says that outputs are "intentionally not appended on agent failure"; but
  `{{turn_k}}` is looked up by position, so leaving one out would hand later turns the
  wrong output. `PriorInPlace` states that positions are right, which they are.
- `manifest.py:98` writes in place although `_io.py:25-27` says that the manifest's
  writer is atomic.
- Two groups with fixtures in directories of one name cannot run together: the second
  clone finds the first one's place taken (`setup_groups.py:220`, `workspace.py:89`). A
  group that has a fixture but no isolation is cloned and then run in belt's own directory
  (`run_scenarios.py:153`). Of the groups that a gate has rejected the clone is still made.
- If `git init` times out for a fixture inside another repository, the `git add` and
  `git commit` after it are made in that one.

*Agents.*
- No time limit covers the reading loop: the one of `claude_code.py:250` starts when
  stdout has ended. A CLI that hangs, or a process it left behind that holds stdout open,
  hangs the turn.
- A child outlives belt's interest in it if the reading loop raises, or if a Ctrl-C falls
  in the loop or in the wait with `--workers 1`: only `TimeoutExpired` kills it
  (`claude_code.py:251`), and it is in a session of its own.
- An authentication failure without a result event is no error for claude, copilot and
  cursor (`AGENT-FEATURES.md:97`). `fetch_results` that raises gives `has_error` without a
  type, which `claude_code.py:386-390` wants never to happen; the adapters keep to that,
  `run_scenario_turns` does not. A claude result with a vendor label and `is_error` false
  keeps the label.
- An option denied by name loses only its own word: in `--flag value` the value stays, and
  reaches the CLI as an argument (`base.py:310-313`), though the docstring says that the
  two-token form is covered (`base.py:275-276`).

*Watching.*
- codex's turns are invisible: the generic renderer knows none of its event types
  (`AGENT-FEATURES.md:36` and the note at 44-46 promise live progress, if only generic).
  A copilot result of which only a label says that it failed shows as a success.
- A half-read character ends the poller thread or the command; `splitlines()` breaks an
  event at U+2028 and an event written in two pieces is dropped (`watch.py:420-430`). The
  run summary lists agent failures only if no infrastructure failure occurred. A pooled
  scoring that raises does not advance the progress.

*Selection.* A filter below a category or a group that names nothing (`agents/typo`)
selects everything beneath it (`filter.py:75-82`), where `CLI.md` 4.4 announces an error.
`--strict-config` rejects every valid `llm_judges` mapping and checks no key inside one. A
group whose configuration does not load is skipped without `--strict-config`.

*Judges.*
- A server that speaks OpenAI's or Anthropic's protocol but has no endpoint for single
  models stops the run, though it would serve the requests: the comment at
  `backend.py:496-502` says that unknown bases are skipped, the code (503-508) probes all.
- One judge's `ConfigError` hides the other judges' rejections, though the docs promise one
  composite error (`preflight.py:71-112`). Ollama's 401 passes the probe and fails the
  calls; an Azure token that cannot be had is probed without, answered 401 and stops the
  run; the header that the probe learned is learned again in scoring.
- `ScorerError` is swallowed by the pipeline although `SCORING.md` says that authentication
  errors end the run (`pipeline.py:476`). Per-turn overrides are not found for judges
  rebuilt without a name (`score.py:361-373`). A turn that was lost passes every check that
  forbids something.

*Numbers.* `judge_cost_usd` of a scenario is a running total that the aggregator sums
(`score.py:385-392`, `stats.py:634-636`), so earlier scenarios count again. A scenario
whose scoring raised is missing from the results, which may then pass overall, or is there
with an older score. eval ignores the exit codes of run and score, so failed rules without a
`--threshold` exit with 0. A threshold on a dimension that nothing was scored in is kept, a
typo included. `mean_pass_at_k` is taken from the mean rate. Under `--llm-fail-on low,fail`
an inconclusive turn hides a failing one. A skipped check counts as failed in the statistics
and not for thresholds. A change from pass to fail has no delta in a comparison.

## What is not modelled

- **Data conversions**: prompts and their truncation, redaction, transcripts, JSON
  shapes, what exporters and the benchmark card write, colours and tables, the pages of
  `belt view`. They keep no state, and their correctness is a matter of wording.
- **Pure I/O and configuration**: argument parsing, `doctor`, `quickstart`.
- **Provider and CLI behaviour** beyond what the code distinguishes (status classes,
  event types, whether a reply parses).
- **Parts of modelled components**: resources copied into a worktree and the diffs of
  workspaces, dry runs of the scoring, dimensions only some judges have, sizes of cache
  entries, Wilson intervals, the inside of a container's start.
- **Windows** branches of the lock and of process groups.

## Plan

Written so far, in this order: `RunRegistry`, `Manifest`, `OutcomesGc`,
`ScenarioRun`, `Workspace`, `RunPool`, `Judging`, `ManifestProofs`,
`RunProofs`, `Adapters`, `AgentTurn`, `Launch`, `Watch`, `Aggregate`, `EvalChain`,
`Compare`, `Display`, `Grading`, `Selection`, `JudgeBackend`, `GroupGates`, the
modules of the questions, `TurnProofs`, `Lists`, `ListLemmas`, `JudgingProofs`,
`ChainProofs`, `PyNone`, `ChecksProofs`, `LaunchProofs`. Next, most important first:

1. Dimensions that only some judges have, in `Judging`'s consensus.
2. Workspaces' resources and diffs, with `Grading`'s file checks on top of them.
3. The container's life cycle beside `AgentTurn`.

## Running it

    tlc -workers 2 -config Gc_safety.cfg OutcomesGc
    tlapm ManifestProofs.tla

(and so for `RunProofs`, `TurnProofs`, `ListLemmas`, `JudgingProofs`, `ChainProofs`,
`ChecksProofs`, `LaunchProofs`; the last three take up to ten minutes each from nothing, the
others less).

`PROJECT.json` lists the module and configuration of each run, the mutants that break
each property, and for each definition the source lines it models. The longest runs are
`Manifest_liveness`, `Gc_safety`, `Agent_turns` and `Pool_safety`, about two minutes each on
two workers.
