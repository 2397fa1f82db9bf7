------------------------------- MODULE MCStart -------------------------------
(***************************************************************************)
(* The questions of MCChecks about what comes before a turn: a CLI's       *)
(* flags, command, environment and binary, the probe of the judges, and    *)
(* the setup of a run's groups.                                            *)
(***************************************************************************)
EXTENDS Asking, Launch, Lists

J == INSTANCE JudgeBackend
R == INSTANCE GroupGates

-----------------------------------------------------------------------------
(* Launching a CLI.                                                        *)

SomeFlags ==
  SeqsUpTo({Word("--yolo"), Word("-s"), Word("danger-full-access"), Word("--verbose"),
            Setting("--sandbox", "danger-full-access"), Setting("--sandbox", "read-only"),
            Word("--allow-all"), Setting("--allow-all", "x")}, 3)
SomeAdapters == {"claude", "codex", "copilot", "cursor", "gemini", "goose", "opencode"}
SomeConfigs ==
  [model : {"m"}, profile : {"", "p"}, workspace : {"", "w"}, session : {"", "s"}, binary : {"cursor", "agent"}]

AskFlags ==
  /\ asked = About("flags")
  /\ \E a \in SomeAdapters, flags \in SomeFlags, unsafe \in BOOLEAN :
       /\ asked' = [family |-> "flags", adapter |-> a, flags |-> flags, unsafe |-> unsafe]
       /\ answer' = [flags |-> FilterFlags(a, flags, unsafe)]

AskCommand ==
  /\ asked = About("command")
  /\ \E a \in SomeAdapters, o \in SomeConfigs, sandbox \in {"", "read-only"} :
       LET flags == IF sandbox = "" THEN <<>> ELSE <<Setting("--sandbox", sandbox)>>
       IN  /\ asked' = [family |-> "command", adapter |-> a, options |-> o, flags |-> flags]
           /\ answer' = [command |-> Command(a, o, flags)]

SomeVars ==
  {Var("PATH", "base"), Var("ANTHROPIC_API_KEY", "provider"), Var("GH_TOKEN", "copilot"),
   Var("BELT_OPENAI_BASE_URL", "belt"), Var("LC_ALL", "family"), Var("SECRET", "other")}

AskSpawn ==
  /\ asked = About("spawn")
  /\ \E a \in {"copilot", "gemini"}, parent \in SUBSET SomeVars, full, there \in BOOLEAN,
        passed \in Small(SomeVars, 1), provider \in {"host", "docker"}, override \in {"", "host", "docker"},
        net \in {"open", "none"}, image \in {"", "i"} :
       LET profile == [provider |-> provider, network |-> net, image |-> image, passthrough |-> passed,
                       hosts |-> {"h"}, resolves |-> {"h"}, workspace |-> "w", writable |-> {}]
           where == BuildSandbox(profile, override, there)
           required == RequiredEnvVars(a)
           env == BuildSubprocessEnv(required, parent, full)
       IN  /\ asked' = [family |-> "spawn", required |-> required, parent |-> parent, full |-> full,
                        profile |-> profile, override |-> override]
           /\ answer' = [where |-> where, env |-> env,
                         child |-> IF where = "raises" THEN None
                                   ELSE Popen(where, profile, required, env, <<>>)]

(* The words that a denied option costs.  One denied by its name alone is  *)
(* dropped without the word after it, whatever that is: a value in a word  *)
(* of its own stays behind and stands for itself.  One that is denied with *)
(* its value goes with it, in one word or two.                             *)
DeniedAt(flags, i, denied) ==
  \/ Word(flags[i].key) \in denied \/ (flags[i].eq /\ flags[i] \in denied)
  \/ /\ ~flags[i].eq /\ i < Len(flags) /\ ~flags[i + 1].eq
     /\ Setting(flags[i].key, flags[i + 1].key) \in denied
  \/ /\ i > 1 /\ ~flags[i - 1].eq /\ ~flags[i].eq
     /\ Setting(flags[i - 1].key, flags[i].key) \in denied

FlagsKept ==
  asked.family = "flags" =>
    LET flags == asked.flags
        kept == Kept([i \in DOMAIN flags |-> i],
                     {i \in DOMAIN flags : ~DeniedAt(flags, i, DeniedFlags[asked.adapter])})
    IN  answer.flags = IF asked.unsafe THEN flags ELSE [j \in DOMAIN kept |-> flags[kept[j]]]

CommandWhole ==
  asked.family = "command" =>
    LET c == answer.command
        flags == asked.flags
        own == Len(c) - Len(flags) - 2   (* words in front of the flags *)
    IN  /\ \A i \in DOMAIN flags : c[own + i] = flags[i]
        /\ c[Len(c)] = Word("MESSAGE") /\ {i \in DOMAIN c : c[i].key = "MESSAGE"} = {Len(c)}
        /\ asked.options.session # "" <=> asked.options.session \in {c[i].key : i \in DOMAIN c}
        /\ asked.adapter = "codex" /\ asked.options.session = "" =>
             Cardinality({i \in 1..own : c[i].key \in {"-s", "--sandbox"}}) = IF HasSandboxFlag(flags) THEN 0 ELSE 1

ChildSeesItsOwn ==
  asked.family = "spawn" =>
    /\ answer.env \subseteq asked.parent /\ \A v \in answer.env : v.kind # "belt"
    /\ answer.child # None => answer.child.env \subseteq answer.env
    /\ answer.where = "docker" =>
         answer.child.env \subseteq asked.required \union asked.profile.passthrough
    /\ asked.profile.network = "none" =>
         /\ answer.where # "host"
         /\ answer.where = "docker" => "--network=none" \in answer.child.flags /\ answer.child.hosts = {}

(* Binaries: where the candidates are, and what the version probe says.    *)
AskBinary ==
  /\ asked = About("binary")
  /\ \E a \in {"claude", "codex", "cursor"}, starts \in BOOLEAN, banner \in {"unreadable", "old", "new"},
        code \in {0, 1}, set \in SUBSET {"KEY", "TOKEN"}, existing \in SUBSET {"login"} :
       \E onPath, installed \in SUBSET ToSet(Candidates(a)) :
         LET binary == ResolveBinary(Candidates(a), onPath, installed)
             probe == [starts |-> starts, ends |-> TRUE, code |-> code, reads |-> banner # "unreadable", line |-> banner]
             signals == DetectAuthSignals(<<"KEY", "TOKEN">>, <<"login">>, set, existing)
         IN  /\ asked' = [family |-> "binary", adapter |-> a, onPath |-> onPath, installed |-> installed,
                          set |-> set, existing |-> existing]
             /\ answer' = [available |-> CheckAvailable(a, binary, starts, banner),
                           info |-> RuntimeInfo(binary, probe, signals),
                           command |-> IF a # "cursor" \/ binary = "" THEN <<>>
                                       ELSE Command(a, [model |-> "m", profile |-> "", workspace |-> "w", session |-> "",
                                                          binary |-> binary], <<>>)]

(* Judges.  The URLs of azure's may be missing.                            *)
SomeUrls == [scheme : {"http", "https"}, host : {"loopback", "remote"}]
SomeReplies == {"ok", "401", "404", "429", "timeout"}
SomeProvided(prefix, option) ==
  [prefix : {prefix}, option : {option}, key : BOOLEAN, url : SomeUrls,
   reply : [{"key", "bearer", "none"} -> SomeReplies], models : BOOLEAN]
NoEndpoint == [prefix |-> "azure", option |-> "", key |-> TRUE, url |-> None,
               reply |-> [h \in {"key", "bearer", "none"} |-> "ok"], models |-> TRUE]
(* One of each end, for judges that are probed together.                   *)
Simple(prefix, first, second) ==
  [prefix |-> prefix, option |-> "", key |-> TRUE, url |-> [scheme |-> "https", host |-> "remote"],
   reply |-> [h \in {"key", "bearer", "none"} |-> IF h = "bearer" THEN second ELSE first],
   models |-> TRUE]
SomeTogether ==
  {Simple("anthropic", "403", r) : r \in {"ok", "500", "403", "404"}}
  \union {Simple("azure", r, r) : r \in {"400", "404", "network"}}
  \union {Simple("ollama", r, r) : r \in {"ok", "404"}} \union {Simple("openai", r, r) : r \in {"ok", "401"}}
  \union {[Simple("other", "ok", "ok") EXCEPT !.option = "openai"]}
SomeJudgeLists ==
  {<<j>> : j \in {NoEndpoint} \union UNION {SomeProvided(p, "") : p \in {"openai", "anthropic", "azure", "ollama"}}
                \union SomeProvided("other", "")}
  \union [1..2 -> SomeTogether] \union [1..3 -> {Simple("openai", "ok", "401"), Simple("openai", "ok", "ok")}]

AskJudges ==
  /\ asked = About("judges")
  /\ \E judges \in SomeJudgeLists, env \in {"", "anthropic"}, insecure \in BOOLEAN :
       LET scorers == <<[judges |-> <<>>], [judges |-> judges]>>
           list == J!CollectLLMScorers(scorers)
           call == [i \in DOMAIN list |-> J!CallApi(list[i], env, insecure, FALSE)]
       IN  /\ asked' = [family |-> "judges", judges |-> judges, env |-> env, insecure |-> insecure]
           /\ answer' = [probe |-> J!PreflightJudges(list, env, insecure),
                         alone |-> [i \in DOMAIN list |-> J!PreflightJudges(<<list[i]>>, env, insecure)],
                         call |-> call,
                         next |-> [i \in DOMAIN list |-> J!CallApi(list[i], env, insecure, call[i].learned)]]

(* Requests of an Azure judge: the time since the last one and what a      *)
(* request for a token would bring.                                        *)
NoRequest == [now |-> 1, cache |-> J!NoToken, sent |-> <<>>, good |-> TRUE]
Request(a, r) ==
  LET now == a.now + r.gap
      header == J!TokenHeader(a.cache, now, r.grant)
  IN  [now |-> now, cache |-> header.cache, sent |-> Append(a.sent, header.sent),
       good |-> a.good /\ (header.sent = "cached" => now < header.cache.ends)]
Requested(requests) ==
  LET after[i \in 0..Len(requests)] == IF i = 0 THEN NoRequest ELSE Request(after[i - 1], requests[i])
  IN  after[Len(requests)]

AskToken ==
  /\ asked = About("token")
  /\ \E requests \in SeqsUpTo([gap : 0..3, grant : {None, 0, 1, 3, 6}], 3) :
       /\ asked' = [family |-> "token", requests |-> requests]
       /\ answer' = Requested(requests)

(* What is found is what runs.                                             *)
BinaryFound ==
  asked.family = "binary" =>
    LET found == asked.onPath \union asked.installed
        c == answer.command
    IN  /\ answer.available => answer.info.path \in found
        /\ answer.info.version # "" => answer.info.path \in found
        /\ asked.onPath # {} => answer.info.path \in asked.onPath
        /\ c # <<>> => c[1].key = answer.info.path /\ (c[2].key = "agent" <=> c[1].key = "cursor")
        /\ ToSet(answer.info.auth) \subseteq asked.set \union asked.existing
        /\ answer.info.auth = <<>> <=> asked.set \union asked.existing = {}

(* Where the answer to the probe is not the one to a request: a server     *)
(* without the endpoint that is asked; and OpenAI's without a key, where a *)
(* probe has no header and a request an empty one.                         *)
Hidden(judge, provider) == provider \in {"openai", "anthropic"} /\ ~judge.models
Bare(judge, provider) == provider = "openai" /\ ~judge.key

JudgesAreProbed ==
  asked.family = "judges" =>
    LET judges == asked.judges
        provider(i) == J!ResolveBackend(judges[i].prefix, judges[i].option, asked.env)
        refused(i) == answer.call[i].end \in {"fatal", "auth_failed"}
        lenient(i) == provider(i) = "ollama" /\ judges[i].reply["none"] \in {"401", "403"}
    IN  /\ \A i \in answer.probe.failures :
             refused(i) \/ Hidden(judges[i], provider(i)) \/ Bare(judges[i], provider(i))
        /\ \A i \in DOMAIN judges : Hidden(judges[i], provider(i)) => answer.alone[i].end # "proceed"
        /\ answer.probe.end = "proceed" =>
             \A i \in DOMAIN judges : answer.call[i].end = "fatal" => lenient(i) \/ Bare(judges[i], provider(i))
        /\ answer.probe.end = "reject" =>
             answer.probe.failures = {i \in DOMAIN judges : answer.alone[i].end = "reject"}
        /\ answer.probe.end = "proceed" <=> \A i \in DOMAIN judges : answer.alone[i].end = "proceed"
        /\ \A i \in DOMAIN judges : answer.call[i].end = "answered" =>
             answer.next[i].end = "answered" /\ answer.next[i].posts = 1
        /\ \A i \in DOMAIN judges : answer.next[i].end = "answered" => answer.call[i].end = "answered"

(* A token that ran out is never sent, and none that can be had is missed. *)
TokenIsFresh ==
  asked.family = "token" =>
    /\ answer.good
    /\ \A i \in DOMAIN answer.sent : answer.sent[i] = "none" => asked.requests[i].grant = None

(* Groups: two in directories of one name, or three of which two are.      *)
SomeGroups(name, dir) ==
  {g \in [name : {name}, dir : {dir}, working : {"", "inside", "outside"}, fixture : {"", "one", "two"},
           ref : {"r"}, isolation : {"git-worktree", "none"}, clone : {"ok", "fails", "stays"},
           setup : {"ok", "raises"}] : g.fixture = "" => g.clone = "ok"}
Cloned(name, dir) ==
  [name |-> name, dir |-> dir, working |-> "", fixture |-> "two", ref |-> "r", isolation |-> "git-worktree",
   clone |-> "ok", setup |-> "ok"]

AskGroups ==
  /\ asked = About("groups")
  /\ \E a \in SomeGroups("a/t", "t"), b \in SomeGroups("b/t", "t"), c \in {<<>>, <<Cloned("c/u", "u")>>},
        external, inplace, strict \in BOOLEAN :
       LET groups == <<a, b>> \o c
           o == [external |-> external, inplace |-> inplace, strict |-> strict]
           done == R!SetupGroups(groups, o)
       IN  /\ asked' = [family |-> "groups", groups |-> groups, options |-> o]
           /\ answer' = [done |-> done,
                         base |-> [i \in DOMAIN groups |->
                                     IF groups[i].name \in done.ready THEN R!BaseRepo(groups[i], done.fixtures) ELSE None]]

GroupsInTheirWorld ==
  asked.family = "groups" =>
    LET done == answer.done
        groups == asked.groups
        denied(g) == \/ g.isolation = "none" /\ ~asked.options.inplace
                     \/ g.fixture # "" /\ g.working # ""
                     \/ /\ g.working = "outside" /\ g.fixture = "" /\ g.isolation = "git-worktree"
                        /\ ~asked.options.external
        taken(i) == \E j \in 1..(i - 1) : groups[j].dir = groups[i].dir /\ groups[j].fixture # ""
    IN  /\ done.ready \union done.failed = {g.name : g \in ToSet(groups)} /\ done.ready \intersect done.failed = {}
        /\ \A i \in DOMAIN groups :
             LET g == groups[i]
                 base == answer.base[i]
             IN  /\ denied(g) => g.name \notin done.tried
                 /\ g.name \in done.failed =>
                      \/ denied(g) \/ g.setup = "raises"
                      \/ g.fixture # "" /\ (g.clone # "ok" \/ taken(i))
                 /\ g.name \in done.ready /\ g.isolation = "git-worktree" =>
                      IF g.fixture # ""
                      THEN /\ base.kind = "clone"
                           /\ done.cache[base.at] = [source |-> g.fixture, ref |-> base.ref]
                      ELSE base = None <=> g.working = ""

(* Of a scenario's flags exactly those are dropped that are denied by name *)
(* or with the value they are given in the same or the next argument, with *)
(* that value, and the rest keep their order: also the next argument of an *)
(* option denied by name, which the code's own comment would have dropped  *)
(* (_check_denied_flags).  A command ends in one message and resumes       *)
(* exactly the session there is; no variable of belt's own reaches a child *)
(* and no variable but the asked for a container; a scenario without a     *)
(* network never runs on the host; the binary that is reported is the one  *)
(* that runs.  The probe before a run stops it for all the judges that     *)
(* would be refused, but for ollama's that ask for authentication and for  *)
(* OpenAI's without a key, and for others only OpenAI's without a key and  *)
(* those whose server does not have the endpoint that the probe asks:      *)
(* these it always stops, also where requests would be answered, against a *)
(* comment (preflight_judges, OpenAIBackend.preflight_model, _call_api).   *)
(* A judge that has found a header that works asks once; a token is not    *)
(* used after its end.  No group that the user has not opted in to, or     *)
(* whose setup contradicts itself, is set up at all, none is rejected      *)
(* without a reason, and a scenario's worktree is of its own group's       *)
(* fixture (setup_groups, run_scenarios).                                  *)
LaunchKeepsTheRules ==
  FlagsKept /\ CommandWhole /\ ChildSeesItsOwn /\ BinaryFound /\ JudgesAreProbed /\ TokenIsFresh
  /\ GroupsInTheirWorld
=============================================================================
