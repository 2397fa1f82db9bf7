------------------------------ MODULE Selection ------------------------------
(***************************************************************************)
(* Which scenarios a run consists of: the loading of group configurations  *)
(* and scenario files (src/belt/parser, src/belt/scenario.py), the filters *)
(* of the command line (src/belt/filter.py) and parse_and_filter.          *)
(*                                                                         *)
(* A path is the sequence of the names below the scenarios root, <<>> the  *)
(* root; a suite is [name, dirs, groups, config, files]: the root's name,  *)
(* its directories, those of them with a _config.json, and per group the   *)
(* configuration and the set of the other JSON files.  A document is       *)
(* [keys, values]: the paths of its keys, the positions in lists left out, *)
(* and what is odd about the values, as <<field, kind>>.  A scenario file  *)
(* has `name`, `tags` and `asset` (its name begins with "_") besides, a    *)
(* configuration `tags` and `agent`.                                       *)
(***************************************************************************)
EXTENDS Naturals, Sequences, FiniteSets, SequencesExt, PyNone

-----------------------------------------------------------------------------
(* The models.                                                             *)

TurnExpectationKeys ==
  {"no_errors", "not_contains", "tools_invoked", "tools_invoked_any", "tools_invoked_in_order",
   "only_used_tools", "forbidden_tools", "tool_args_contain", "tool_result_contains",
   "tool_result_pattern", "skills_invoked", "has_reply", "contains", "reply_pattern", "max_llm_turns",
   "max_tool_calls", "max_cost_usd", "error_type_is", "has_thinking", "max_ttfe_seconds",
   "max_ttft_seconds", "max_ttlt_seconds", "max_total_seconds", "files_modified_any",
   "files_modified_exact", "files_not_modified", "git_diff_contains"}
StateExpectationKeys == {"files_exist", "files_contain", "files_not_exist", "capture_git_diff"}
TurnJudgeOverrideKeys ==
  {"instruction", "dimensions", "extend_default_dimensions", "evidence_files", "skip"}
TurnKeys == {"message", "flags", "expect", "state_expect", "llm_judges"}
ScenarioKeys ==
  {"name", "description", "tags", "llm_scorer_instruction", "llm_scorer_raw_transcript",
   "llm_scorer_evidence_files", "turns"}
SandboxProfileKeys ==
  {"provider", "image", "network_policy", "allowed_hosts", "writable_paths", "env_passthrough"}
ResourceKeys == {"kind", "source", "dest", "name", "version"}
GroupConfigKeys ==
  {"agent", "default_tags", "llm_dimensions", "llm_dimensions_extend_defaults", "working_dir",
   "workspace_isolation", "workspace_ref", "fixture_repo", "fixture_ref", "resources", "sandbox"}

ModelFields ==
  [TurnExpectation |-> TurnExpectationKeys, StateExpectation |-> StateExpectationKeys,
   TurnJudgeOverride |-> TurnJudgeOverrideKeys, Turn |-> TurnKeys, Scenario |-> ScenarioKeys,
   SandboxProfile |-> SandboxProfileKeys, Resource |-> ResourceKeys, GroupConfig |-> GroupConfigKeys]

(* Plugins may add keys to an expectation and to a group's configuration.  *)
ExtraForbidden == DOMAIN ModelFields \ {"TurnExpectation", "GroupConfig"}

(* The models in the annotations of a model's fields.                      *)
Nested ==
  {<<"Scenario", "turns", "Turn">>, <<"Turn", "expect", "TurnExpectation">>,
   <<"Turn", "state_expect", "StateExpectation">>, <<"Turn", "llm_judges", "TurnJudgeOverride">>,
   <<"GroupConfig", "resources", "Resource">>, <<"GroupConfig", "sandbox", "SandboxProfile">>}

ResolveSubmodel(model, key) ==
  IF \E n \in Nested : n[1] = model /\ n[2] = key
  THEN (CHOOSE n \in Nested : n[1] = model /\ n[2] = key)[3] ELSE None

(* The field validators.                                                   *)
DirectoryPath(field, kind) ==
  kind = "directory" /\ field \in {"files_modified_any", "files_modified_exact", "files_not_modified"}
BadRegex(field, kind) == kind = "bad regex" /\ field \in {"reply_pattern", "tool_result_pattern"}
Wildcard(field, kind) ==
  \/ field = "allowed_hosts" /\ kind \in {"wildcard", "empty"}
  \/ field = "env_passthrough" /\ kind \in {"wildcard", "empty", "expansion", "space"}

(* Where Pydantic is when it reads the keys below a path: a model, the     *)
(* judges' names of a turn, or a value without a model of its own.         *)
Below(at, key) ==
  CASE at = "judges" -> "TurnJudgeOverride"
    [] at = "Turn" /\ key = "llm_judges" -> "judges"
    [] OTHER -> ResolveSubmodel(at, key)

SchemaAt(root, path) ==
  LET at[i \in 0..Len(path)] == IF i = 0 THEN root ELSE Below(at[i - 1], path[i])
  IN  at[Len(path)]

ModelValidates(root, doc) ==
  /\ \A v \in doc.values : /\ v[2] \notin {"not JSON", "wrong type"}
                           /\ ~DirectoryPath(v[1], v[2]) /\ ~BadRegex(v[1], v[2])
                           /\ ~Wildcard(v[1], v[2])
  /\ \A k \in doc.keys : LET m == SchemaAt(root, Front(k))
                         IN  m \in ExtraForbidden => Last(k) \in ModelFields[m]

-----------------------------------------------------------------------------
(* --strict-config.                                                        *)

ReservedKeys == {"name", "description", "tags", "turns", "agent", "schema_version"}

(* What a plugin registers is the set of its <<model, key>>; a reserved    *)
(* key raises, in the plugin's import.                                     *)
RegisteredKeys(plugins) == {r \in plugins : r[2] \notin ReservedKeys}

AllowedKeys(model, plugins) ==
  ModelFields[model] \union {r[2] : r \in {x \in RegisteredKeys(plugins) : x[1] = model}}

(* Mutant: the keys of the document itself are compared, none below.       *)
ValidateStrictTop(root, doc, plugins) == {k \in doc.keys : Len(k) = 1 /\ k[1] \notin AllowedKeys(root, plugins)}

(* A mapping is taken for the model of its values: the judges' names are   *)
(* compared with the keys of an override, and nothing below them is.       *)
SubmodelAt(root, path) ==
  LET at[i \in 0..Len(path)] == IF i = 0 THEN root ELSE ResolveSubmodel(at[i - 1], path[i])
  IN  at[Len(path)]

ValidateStrict(root, doc, plugins) ==
  {k \in doc.keys : LET m == SubmodelAt(root, Front(k))
                    IN  m # None /\ Last(k) \notin AllowedKeys(m, plugins)}

(* load_group_config, load_scenario: whether the document loads.           *)
Loads(root, doc, strictConfig, plugins) ==
  /\ strictConfig => ValidateStrict(root, doc, plugins) = {}
  /\ ModelValidates(root, doc)

IsScenarioFile(f) == ~f.asset

LoadGroupScenarios(files, strictConfig, plugins) ==
  LET candidates == {f \in files : IsScenarioFile(f)}
      valid == {f \in candidates : Loads("Scenario", f, strictConfig, plugins)}
  IN  [scenarios |-> valid, errors |-> candidates \ valid]

-----------------------------------------------------------------------------
(* Filters.  --scenarios is a set of paths below the root, their suffix    *)
(* ".json" taken off; --tags a set of tags.                                *)

RootIsGroup(suite) == <<>> \in suite.groups

(* What is left without the root's own name, <<>> if nothing was to strip. *)
StripRootBasename(f, suite) ==
  CASE Len(f) = 1 -> f
    [] Len(f) > 1 /\ Head(f) = suite.name -> Tail(f)
    [] OTHER -> <<>>

(* One entry of _parse_path_filter: a directory, a scenario in one, or     *)
(* None for an error.                                                      *)
ParseEntry(f, suite) ==
  LET stripped == StripRootBasename(f, suite)
      inRoot == RootIsGroup(suite) /\ Len(stripped) = 1
  IN  CASE inRoot -> [path |-> <<>>, name |-> stripped[1]]
        [] ~inRoot /\ f \in suite.dirs -> [path |-> f, name |-> None]
        [] ~inRoot /\ f \notin suite.dirs /\ Len(f) > 1 /\ Front(f) \in suite.dirs ->
             [path |-> Front(f), name |-> Last(f)]
        [] OTHER -> None

(* The directories that the error proposes.                                *)
ListAvailableGroups(suite) ==
  IF suite.groups # {} THEN suite.groups ELSE {d \in suite.dirs : Len(d) = 1}

(* An empty filter is none.                                                *)
FromCliArgs(opts, suite) ==
  LET parsed == {ParseEntry(f, suite) : f \in opts.scenarios}
  IN  IF None \in parsed THEN None ELSE [tags |-> opts.tags, paths |-> parsed]

IsDescendant(child, parent) == IsPrefix(parent, child)

(* Mutant: a scenario that is named hides what else is asked for.          *)
MatchesGroupNamed(g, paths) ==
  LET named == {e.name : e \in {x \in paths : x.path = g /\ x.name # None}}
      whole == \E e \in paths : IsDescendant(g, e.path) \/ IsDescendant(e.path, g)
  IN  IF paths = {} THEN [matched |-> TRUE, allowed |-> {}]
      ELSE [matched |-> whole, allowed |-> named]

(* Any entry above or below a group asks for all of it, one that names a   *)
(* scenario elsewhere too.                                                 *)
MatchesGroup(g, paths) ==
  LET related(e) == IsDescendant(g, e.path) \/ IsDescendant(e.path, g)
      whole == \E e \in paths : related(e) /\ (e.name = None \/ e.path # g)
      named == {e.name : e \in {x \in paths : x.path = g}}
  IN  CASE paths = {} -> [matched |-> TRUE, allowed |-> {}]
        [] paths # {} /\ whole -> [matched |-> TRUE, allowed |-> {}]
        [] OTHER -> [matched |-> named # {}, allowed |-> named]

MatchesScenario(scenario, config, tags) == tags \subseteq scenario.tags \union config.tags

-----------------------------------------------------------------------------
(* parse_and_filter.                                                       *)

(* A root that is itself a group goes by its own name.                     *)
GroupName(g, suite) == IF g = <<>> THEN <<suite.name>> ELSE g

(* One group that passed the filter; "bad" if its configuration does not   *)
(* load.  The scenarios that a filter names have to be among the loaded.   *)
LoadGroup(g, filter, suite, opts, plugins) ==
  LET config == suite.config[g]
      loads == Loads("GroupConfig", config, opts.strictConfig, plugins)
      load == LoadGroupScenarios(suite.files[g], opts.strictConfig, plugins)
      allowed == MatchesGroup(g, filter.paths).allowed
      chosen == {s \in load.scenarios : /\ allowed # {} => s.name \in allowed
                                        /\ MatchesScenario(s, config, filter.tags)}
  IN  [loads |-> loads,
       skipped |-> IF loads THEN load.errors ELSE {},
       unknown |-> IF loads THEN allowed \ {s.name : s \in load.scenarios} ELSE {},
       scenarios |-> IF loads THEN chosen ELSE {},
       name |-> GroupName(g, suite),
       agent |-> IF opts.agent = None THEN config.agent ELSE opts.agent]

(* None is exit code 1, whichever of the checks found something.           *)
ParseAndFilter(suite, opts, plugins) ==
  LET filter == FromCliArgs(opts, suite)
      matched == {g \in suite.groups : MatchesGroup(g, filter.paths).matched}
      load == [g \in matched |-> LoadGroup(g, filter, suite, opts, plugins)]
      skipped == UNION {{g} \X load[g].skipped : g \in matched}
      refused == \/ \E g \in matched : load[g].unknown # {}
                 \/ opts.strictConfig /\ \E g \in matched : ~load[g].loads
                 \/ (opts.strict \/ opts.strictConfig) /\ skipped # {}
  IN  IF suite.groups = {} \/ filter = None THEN None
      ELSE IF refused THEN None
      ELSE [groups |-> [g \in {h \in matched : load[h].scenarios # {}} |-> load[g]],
            skipped |-> Cardinality(skipped)]

-----------------------------------------------------------------------------
(* What a user means.                                                      *)

(* A filter asks for a directory, or for a scenario of a group; the root's *)
(* name in front is optional.                                              *)
Means(f, g, s, suite) ==
  \/ f \in suite.dirs /\ IsPrefix(f, g)
  \/ f = Append(g, s.name)
  \/ g = <<>> /\ f = <<suite.name, s.name>>

Wanted(g, s, suite, opts) ==
  /\ opts.scenarios = {} \/ \E f \in opts.scenarios : Means(f, g, s, suite)
  /\ opts.tags \subseteq s.tags \union suite.config[g].tags

(* What loads, of the groups that load.                                    *)
Loadable(g, suite) ==
  IF ModelValidates("GroupConfig", suite.config[g])
  THEN {s \in suite.files[g] : ~s.asset /\ ModelValidates("Scenario", s)} ELSE {}

(* No group lies below another, a directory that is asked for does not lie *)
(* within a group, and a filter that is no directory names a scenario of a *)
(* group.                                                                  *)
Plain(suite, opts) ==
  /\ \A g, h \in suite.groups : IsPrefix(g, h) => g = h
  /\ \A f \in opts.scenarios \intersect suite.dirs : \A g \in suite.groups : IsPrefix(g, f) => g = f
  /\ \A f \in opts.scenarios \ suite.dirs :
       Front(f) \in suite.groups \/ (<<>> \in suite.groups /\ Front(f) = <<suite.name>>)

(* A key that neither the model where it stands declares nor a plugin has  *)
(* registered.                                                             *)
Typo(root, doc, plugins) ==
  \E k \in doc.keys :
    LET m == SchemaAt(root, Front(k))
    IN  m \notin {None, "judges"} /\ Last(k) \notin ModelFields[m] /\ <<m, Last(k)>> \notin plugins

(* A run that is not refused contains every scenario that was asked for,   *)
(* by directory, by name and by tag, and that can be loaded, and in a      *)
(* suite that is laid out plainly it contains no other; under --strict and *)
(* --strict-config no file was left out, and under --strict-config no key  *)
(* of what it contains is a typo.                                          *)
SelectedAsAsked(suite, opts, plugins, run) ==
  LET chosen(g) == IF g \in DOMAIN run.groups THEN run.groups[g].scenarios ELSE {}
  IN  run # None =>
        /\ \A g \in suite.groups : {s \in Loadable(g, suite) : Wanted(g, s, suite, opts)} \subseteq chosen(g)
        /\ Plain(suite, opts) =>
             \A g \in suite.groups : \A s \in chosen(g) : Wanted(g, s, suite, opts)
        /\ opts.strict \/ opts.strictConfig => run.skipped = 0
        /\ opts.strictConfig =>
             \A g \in DOMAIN run.groups :
               /\ ~Typo("GroupConfig", suite.config[g], plugins)
               /\ \A s \in chosen(g) : ~Typo("Scenario", s, plugins)
=============================================================================
