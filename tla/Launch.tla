-------------------------------- MODULE Launch --------------------------------
(***************************************************************************)
(* How an adapter starts its CLI (src/belt/agent, runner/process and       *)
(* runner/sandbox): which of a scenario's flags it passes on, the command  *)
(* of a first and of a resumed turn, the binary, the variables that the    *)
(* child sees on the host and in a container, and the version probe.       *)
(*                                                                         *)
(* A command-line argument is a record: `key` alone, or `key=value` where  *)
(* `eq` is true.                                                           *)
(***************************************************************************)
EXTENDS Naturals, Sequences, FiniteSets, SequencesExt

Word(k) == [key |-> k, eq |-> FALSE, value |-> ""]
Setting(k, v) == [key |-> k, eq |-> TRUE, value |-> v]
Words(ks) == [i \in DOMAIN ks |-> Word(ks[i])]

(* A piece of the command that is there only if `present`.                 *)
Opt(present, args) == IF present THEN args ELSE <<>>

-----------------------------------------------------------------------------
(* What no scenario may pass on, per adapter: an option with any value, or *)
(* with one value.                                                         *)

ClaudeDenied == {Word("--dangerously-skip-permissions")}
CodexDenied == {Word("--dangerously-bypass-approvals-and-sandbox"),
                Setting("--sandbox", "danger-full-access"), Setting("-s", "danger-full-access")}
CopilotDenied == {Word(k) : k \in {"--allow-all", "--allow-all-tools", "--allow-all-paths",
                                   "--allow-all-urls", "--yolo", "--remote", "--connect"}}
CursorDenied == {Word("--yolo")}
GeminiDenied == {Word("--yolo")}
GooseDenied == {Word("--with-extension"), Word("--with-streamable-http-extension")}
OpenCodeDenied == {Word("--yolo"), Word("--dangerously-skip-permissions")}

DeniedFlags ==
  [claude |-> ClaudeDenied, codex |-> CodexDenied, copilot |-> CopilotDenied,
   cursor |-> CursorDenied, gemini |-> GeminiDenied, goose |-> GooseDenied,
   opencode |-> OpenCodeDenied]

(* How many arguments are dropped where the list stands at `i`.            *)
Dropped(flags, i, denied) ==
  LET f == flags[i]
  IN  IF Word(f.key) \in denied \/ (f.eq /\ f \in denied) THEN 1
      ELSE IF ~f.eq /\ i < Len(flags) /\ ~flags[i + 1].eq
              /\ Setting(f.key, flags[i + 1].key) \in denied THEN 2
      ELSE 0

(* Mutant: a denied value given as an argument of its own passes.          *)
CheckDeniedOneWord(flags, denied) ==
  SelectSeq(flags, LAMBDA f : ~(Word(f.key) \in denied \/ (f.eq /\ f \in denied)))

(* One round of the loop: `skip` counts what of a dropped pair is to come. *)
Scan(flags, denied, a, i) ==
  IF a.skip > 0 THEN [clean |-> a.clean, skip |-> a.skip - 1]
  ELSE IF Dropped(flags, i, denied) = 0 THEN [clean |-> Append(a.clean, flags[i]), skip |-> 0]
  ELSE [clean |-> a.clean, skip |-> Dropped(flags, i, denied) - 1]

(* _check_denied_flags.                                                    *)
CheckDenied(flags, denied) ==
  LET scanned[i \in 0..Len(flags)] ==
        IF i = 0 THEN [clean |-> <<>>, skip |-> 0] ELSE Scan(flags, denied, scanned[i - 1], i)
  IN  scanned[Len(flags)].clean

FilterFlags(adapter, flags, unsafe) ==
  IF unsafe THEN flags ELSE CheckDenied(flags, DeniedFlags[adapter])

-----------------------------------------------------------------------------
(* The commands.  `o` is the adapter's configuration and state: model,     *)
(* profile, workspace and session, each "" if there is none.               *)

ClaudeCommand(o, flags) ==
  Words(<<"claude", "-p", "--verbose", "--output-format", "stream-json">>)
  \o Opt(o.session # "", Words(<<"--resume", o.session>>))
  \o flags \o Words(<<"--", "MESSAGE">>)

HasSandboxFlag(flags) == \E i \in DOMAIN flags : flags[i].key \in {"-s", "--sandbox"}

(* The options of `codex exec` that `codex exec resume` does not take are  *)
(* given as configuration there.                                           *)
CodexCommand(o, flags) ==
  (IF o.session = ""
   THEN Words(<<"codex", "exec", "--json", "--skip-git-repo-check", "-o", "reply">>)
        \o Opt(o.model # "", Words(<<"-m", o.model>>))
        \o Opt(o.profile # "", Words(<<"-p", o.profile>>))
        \o Opt(o.workspace # "", Words(<<"-C", o.workspace>>))
        \o Opt(~HasSandboxFlag(flags), Words(<<"-s", "workspace-write">>))
   ELSE Words(<<"codex", "exec", "resume", o.session, "--json", "-o", "reply">>)
        \o Opt(o.model # "", Words(<<"-m", o.model>>))
        \o Opt(o.profile # "", <<Word("-c"), Setting("model_provider", o.profile)>>)
        \o Opt(o.workspace # "", <<Word("-c"), Setting("trusted", o.workspace)>>))
  \o flags \o Words(<<"--", "MESSAGE">>)

CopilotCommand(o, flags) ==
  Words(<<"copilot", "--output-format", "json", "--allow-all-tools", "--no-auto-update">>)
  \o Opt(o.model # "", Words(<<"--model", o.model>>))
  \o Opt(o.session # "", Words(<<"--resume", o.session>>))
  \o flags \o Words(<<"-p", "MESSAGE">>)

(* The IDE's `cursor` binary needs the subcommand `agent`.                 *)
CursorCommand(o, flags) ==
  Words(<<o.binary>>) \o Opt(o.binary = "cursor", Words(<<"agent">>))
  \o Words(<<"-p", "--output-format", "stream-json", "--force", "--approve-mcps">>)
  \o Opt(o.session # "", Words(<<"--resume", o.session>>))
  \o flags \o Words(<<"--", "MESSAGE">>)

GeminiCommand(o, flags) ==
  Words(<<"gemini", "--output-format", "stream-json">>)
  \o Opt(o.session # "", Words(<<"--resume", o.session>>))
  \o flags \o Words(<<"-p", "MESSAGE">>)

(* A first turn gives the session a name of belt's.                        *)
GooseCommand(o, flags) ==
  Words(<<"goose", "run", "--output-format", "stream-json">>)
  \o Opt(o.model # "", Words(<<"--model", o.model>>))
  \o Opt(o.profile # "", Words(<<"--provider", o.profile>>))
  \o (IF o.session # "" THEN Words(<<"--resume", "--name", o.session>>)
      ELSE Words(<<"--name", "belt">>))
  \o flags \o Words(<<"-t", "MESSAGE">>)

OpenCodeCommand(o, flags) ==
  Words(<<"opencode", "run", "--format", "json">>)
  \o Opt(o.model # "", Words(<<"--model", o.model>>))
  \o Opt(o.session # "", Words(<<"--session", o.session, "--continue">>))
  \o flags \o Words(<<"--", "MESSAGE">>)

Command(adapter, o, flags) ==
  CASE adapter = "claude" -> ClaudeCommand(o, flags)
    [] adapter = "codex" -> CodexCommand(o, flags)
    [] adapter = "copilot" -> CopilotCommand(o, flags)
    [] adapter = "cursor" -> CursorCommand(o, flags)
    [] adapter = "gemini" -> GeminiCommand(o, flags)
    [] adapter = "goose" -> GooseCommand(o, flags)
    [] adapter = "opencode" -> OpenCodeCommand(o, flags)

-----------------------------------------------------------------------------
(* Where the first element of a list is that belongs to a set; 0 if none.  *)
FirstIn(s, set) == SelectInSeq(s, LAMBDA x : x \in set)

(* Binaries.  `onPath` and `installed` are the names to be found on PATH   *)
(* and in the installers' directories.                                     *)

Candidates(adapter) == IF adapter = "cursor" THEN <<"cursor-agent", "cursor", "agent">> ELSE <<adapter>>

ResolveBinary(candidates, onPath, installed) ==
  LET p == FirstIn(candidates, onPath)
      x == FirstIn(candidates, installed)
  IN  IF p # 0 THEN candidates[p] ELSE IF x # 0 THEN candidates[x] ELSE ""

(* codex alone is asked for its version before a run: a banner that can be *)
(* read, 0.130 or newer; `banner` is "unreadable", "old" or "new".         *)
CheckAvailable(adapter, binary, starts, banner) ==
  /\ binary # ""
  /\ adapter = "codex" => starts /\ banner = "new"

(* _capture_cli_version: everything but a first line of a binary that      *)
(* starts, ends in time and with 0 is None (here "").                      *)
CaptureCliVersion(probe) ==
  IF probe.starts /\ probe.ends /\ probe.code = 0 /\ probe.reads THEN probe.line ELSE ""

RuntimeInfo(binary, probe, signals) ==
  [path |-> binary, version |-> IF binary = "" THEN "" ELSE CaptureCliVersion(probe),
   auth |-> signals]

(* The first variable that is set, then the first path that exists.        *)
DetectAuthSignals(envs, paths, set, existing) ==
  LET e == FirstIn(envs, set)
      p == FirstIn(paths, existing)
  IN  Opt(e # 0, <<envs[e]>>) \o Opt(p # 0, <<paths[p]>>)

-----------------------------------------------------------------------------
(* Environments.  A variable is a name and the kind of name it is: in the  *)
(* base set, a provider's, one only a certain adapter asks for, one of the *)
(* prefix families, belt's own (BELT_ or _BELT_) or another.               *)

Var(n, k) == [name |-> n, kind |-> k]
BeltNamespaced(v) == v.kind = "belt"

BaseEnvVars == {Var("PATH", "base"), Var("HOME", "base")}
DefaultProviderEnvVars ==
  {Var("ANTHROPIC_API_KEY", "provider"), Var("BELT_OPENAI_BASE_URL", "belt")}

(* required_env_vars: the adapter's options' variables, the providers' and *)
(* what the adapter adds.                                                  *)
ClaudeEnv == DefaultProviderEnvVars \union {Var("ANTHROPIC_MODEL", "claude")}
CodexEnv == DefaultProviderEnvVars \union {Var("CODEX_DEFAULT_MODEL", "codex"), Var("CODEX_HOME", "codex")}
CopilotEnv == DefaultProviderEnvVars \union {Var("COPILOT_MODEL", "copilot"), Var("GH_TOKEN", "copilot")}
GooseEnv == DefaultProviderEnvVars \union {Var("GOOSE_MODEL", "goose"), Var("GOOSE_PROVIDER", "goose")}
OpenCodeEnv == DefaultProviderEnvVars \union {Var("OPENCODE_DEFAULT_MODEL", "opencode")}

RequiredEnvVars(adapter) ==
  CASE adapter = "claude" -> ClaudeEnv [] adapter = "codex" -> CodexEnv
    [] adapter = "copilot" -> CopilotEnv [] adapter = "goose" -> GooseEnv
    [] adapter = "opencode" -> OpenCodeEnv [] OTHER -> DefaultProviderEnvVars

(* build_subprocess_env, as the set of the parent's variables that go on.  *)
BuildSubprocessEnv(required, parent, allowFull) ==
  {v \in parent :
     IF allowFull THEN ~BeltNamespaced(v)
     ELSE (v \in BaseEnvVars \union required /\ ~BeltNamespaced(v)) \/ v.kind = "family"}

(* The names that `docker run -e` gets, and the arguments before the image *)
(* that come from the profile.                                             *)
ContainerEnv(required, passthrough, env) == {v \in env : v \in required \union passthrough}

(* allowed_hosts is looked at only where there is a network.               *)
AddHosts(profile) ==
  IF profile.network = "none" THEN {} ELSE profile.hosts \intersect profile.resolves

Wrap(profile, required, env, command) ==
  [flags |-> {"--rm", "--cap-drop=ALL", "--read-only"}
             \union (IF profile.network = "none" THEN {"--network=none"} ELSE {}),
   mounts |-> {profile.workspace} \union profile.writable,
   hosts |-> AddHosts(profile),
   env |-> ContainerEnv(required, profile.passthrough, env),
   home |-> "tmpfs", image |-> profile.image,
   command |-> command]

-----------------------------------------------------------------------------
(* Where the command runs.  `override` is --sandbox, or "".                *)

EffectiveProvider(profile, override) == IF override = "" THEN profile.provider ELSE override

(* A host cannot enforce a network policy; docker needs an image.          *)
HostAccepts(profile) == profile.network = "open"
DockerAccepts(profile) == profile.image # ""

(* _build_sandbox_for_scenario: "raises" before anything is spawned, or    *)
(* where the children run.                                                 *)
BuildSandbox(profile, override, dockerThere) ==
  LET p == EffectiveProvider(profile, override)
  IN  CASE p = "host" /\ HostAccepts(profile) -> "host"
        [] p = "docker" /\ DockerAccepts(profile) /\ dockerThere -> "docker"
        [] OTHER -> "raises"

(* LocalSpawner and SandboxedSpawner: what is run, with which variables.   *)
Popen(where, profile, required, env, command) ==
  IF where = "docker" THEN Wrap(profile, required, env, command)
  ELSE [flags |-> {}, mounts |-> {}, hosts |-> {}, env |-> env, home |-> "host",
        image |-> "", command |-> command]
=============================================================================
