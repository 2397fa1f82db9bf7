---------------------------- MODULE LaunchProofs ----------------------------
(***************************************************************************)
(* What is computed before a turn, for any input, where the run Checks     *)
(* asks listed questions: a CLI's flags, command, environment and binary,  *)
(* the requests and the probe of the judges, and the setup of the groups.  *)
(***************************************************************************)
EXTENDS MCStart, ListLemmas, FiniteSetTheorems

-----------------------------------------------------------------------------
(* Flags.                                                                  *)

(* An option that is denied with one value is not denied as a whole, and   *)
(* its value is not such an option itself: so that a pair that is dropped  *)
(* begins no other.                                                        *)
PairsApart(denied) ==
  \A u, v : Setting(u, v) \in denied => Word(u) \notin denied /\ \A w : Setting(v, w) \notin denied

LEMMA DeniedPairsApart ==
  ASSUME NEW a \in SomeAdapters
  PROVE  PairsApart(DeniedFlags[a])
<1>1. \A u, v : \A k : Setting(u, v) # Word(k)
  BY DEF Setting, Word
<1>2. \A u, v, k, w : Setting(u, v) = Setting(k, w) => u = k /\ v = w
  <2> TAKE u, v, k, w
  <2> HAVE Setting(u, v) = Setting(k, w)
  <2>1. Setting(u, v).key = u /\ Setting(u, v).value = v /\ Setting(k, w).key = k /\ Setting(k, w).value = w
    BY DEF Setting
  <2> QED BY <2>1
<1>3. \A k, w : Word(k) = Word(w) => k = w
  <2> TAKE k, w
  <2>1. Word(k).key = k /\ Word(w).key = w
    BY DEF Word
  <2> QED BY <2>1
<1>4. DeniedFlags["claude"] = ClaudeDenied /\ DeniedFlags["codex"] = CodexDenied /\ DeniedFlags["copilot"] = CopilotDenied
      /\ DeniedFlags["cursor"] = CursorDenied /\ DeniedFlags["gemini"] = GeminiDenied /\ DeniedFlags["goose"] = GooseDenied
      /\ DeniedFlags["opencode"] = OpenCodeDenied
  BY DEF DeniedFlags
<1>5. PairsApart(CodexDenied)
  BY <1>1, <1>2, <1>3 DEF PairsApart, CodexDenied
<1>6. PairsApart(CopilotDenied)
  BY <1>1 DEF PairsApart, CopilotDenied
<1>7. PairsApart(ClaudeDenied) /\ PairsApart(CursorDenied) /\ PairsApart(GeminiDenied) /\ PairsApart(GooseDenied)
      /\ PairsApart(OpenCodeDenied)
  BY <1>1 DEF PairsApart, ClaudeDenied, CursorDenied, GeminiDenied, GooseDenied, OpenCodeDenied
<1> QED BY <1>4, <1>5, <1>6, <1>7 DEF SomeAdapters

Pair(flags, i, denied) ==
  /\ 0 < i /\ i < Len(flags) /\ ~flags[i].eq /\ ~flags[i + 1].eq
  /\ Setting(flags[i].key, flags[i + 1].key) \in denied
Chosen(flags, places) == [j \in DOMAIN places |-> flags[places[j]]]

(* The loop's state after i rounds: what is kept of the first i arguments, *)
(* and whether the next one belongs to a pair.                             *)
LEMMA ScanStep ==
  ASSUME NEW flags, Len(flags) \in Nat, NEW denied, PairsApart(denied),
         NEW i \in 1..Len(flags), NEW places \in Seq(Nat), NEW a,
         a.clean = Chosen(flags, places), a.skip = IF Pair(flags, i - 1, denied) THEN 1 ELSE 0
  PROVE  /\ Scan(flags, denied, a, i).clean =
              Chosen(flags, IF DeniedAt(flags, i, denied) THEN places ELSE Append(places, i))
         /\ Scan(flags, denied, a, i).skip = IF Pair(flags, i, denied) THEN 1 ELSE 0
<1> DEFINE f == flags[i]
           whole == Word(f.key) \in denied \/ (f.eq /\ f \in denied)
           b == Scan(flags, denied, a, i)
<1>1. Dropped(flags, i, denied) = IF whole THEN 1 ELSE IF Pair(flags, i, denied) THEN 2 ELSE 0
  BY DEF Dropped, Pair
<1>2. DeniedAt(flags, i, denied) <=> whole \/ Pair(flags, i, denied) \/ Pair(flags, i - 1, denied)
  BY DEF DeniedAt, Pair
<1>3. whole => ~Pair(flags, i, denied)
  BY DEF Pair, PairsApart
<1>4. Pair(flags, i - 1, denied) => ~Pair(flags, i, denied)
  BY DEF Pair, PairsApart
<1>5. Append(Chosen(flags, places), f) = Chosen(flags, Append(places, i))
  <2>1. DOMAIN places = 1..Len(places) /\ Len(places) \in Nat
    OBVIOUS
  <2>2. DOMAIN Append(places, i) = 1..(Len(places) + 1) /\ \A j \in 1..Len(places) : Append(places, i)[j] = places[j]
    BY AppendProperties
  <2>3. Append(places, i)[Len(places) + 1] = i
    BY AppendProperties
  <2>4. Chosen(flags, places) \in Seq({flags[places[j]] : j \in 1..Len(places)}) /\ Len(Chosen(flags, places)) = Len(places)
    BY <2>1 DEF Chosen
  <2>5. /\ DOMAIN Append(Chosen(flags, places), f) = 1..(Len(places) + 1)
        /\ \A j \in 1..Len(places) : Append(Chosen(flags, places), f)[j] = Chosen(flags, places)[j]
        /\ Append(Chosen(flags, places), f)[Len(places) + 1] = f
    BY <2>1, <2>4
  <2> QED BY <2>1, <2>2, <2>3, <2>5 DEF Chosen
<1>6. CASE Pair(flags, i - 1, denied)
  BY <1>2, <1>4, <1>6 DEF Scan
<1>7. CASE ~Pair(flags, i - 1, denied) /\ whole
  BY <1>1, <1>2, <1>3, <1>7 DEF Scan
<1>8. CASE ~Pair(flags, i - 1, denied) /\ ~whole
  BY <1>1, <1>2, <1>5, <1>8 DEF Scan
<1> QED BY <1>6, <1>7, <1>8

LEMMA ScanUnfolds ==
  ASSUME NEW S, NEW flags \in Seq(S), NEW denied
  PROVE  \E f : /\ f[0] = [clean |-> <<>>, skip |-> 0]
                /\ \A i \in 1..Len(flags) : f[i] = Scan(flags, denied, f[i - 1], i)
                /\ CheckDenied(flags, denied) = f[Len(flags)].clean
<1> DEFINE n == Len(flags)
           X == [clean : Seq(S), skip : Int]
           b == [clean |-> <<>>, skip |-> 0]
           step == [i \in 1..n |-> [v \in X |-> Scan(flags, denied, v, i)]]
           G(f) == [i \in 0..Len(flags) |-> IF i = 0 THEN [clean |-> <<>>, skip |-> 0]
                                            ELSE Scan(flags, denied, f[i - 1], i)]
<1>1. n \in Nat
  OBVIOUS
<1>2. b \in X /\ step \in [1..n -> [X -> X]]
  <2>1. \A v \in X : \A i \in 1..n : Scan(flags, denied, v, i) \in X
    <3> TAKE v \in X
    <3> TAKE i \in 1..n
    <3>1. Dropped(flags, i, denied) \in Int
      BY DEF Dropped
    <3>2. flags[i] \in S /\ v.clean \in Seq(S) /\ v.skip \in Int
      OBVIOUS
    <3>3. Append(v.clean, flags[i]) \in Seq(S)
      BY <3>2
    <3>4. \A c \in Seq(S), k \in Int : [clean |-> c, skip |-> k] \in X
      OBVIOUS
    <3>5. v.skip - 1 \in Int /\ Dropped(flags, i, denied) - 1 \in Int /\ 0 \in Int
      BY <3>1, <3>2
    <3> HIDE DEF X
    <3>6. CASE v.skip > 0
      BY <3>2, <3>4, <3>5, <3>6 DEF Scan
    <3>7. CASE ~(v.skip > 0) /\ Dropped(flags, i, denied) = 0
      BY <3>3, <3>4, <3>5, <3>7 DEF Scan
    <3>8. CASE ~(v.skip > 0) /\ Dropped(flags, i, denied) # 0
      BY <3>2, <3>4, <3>5, <3>8 DEF Scan
    <3> QED BY <3>6, <3>7, <3>8
  <2>2. b \in X
    OBVIOUS
  <2> HIDE DEF X, b
  <2> QED BY <2>1, <2>2
<1>3. PICK f \in [0..n -> X] : Iterate(f, b, n, step)
  <2> HIDE DEF n, step, X, b
  <2> QED BY <1>1, <1>2, Iterates
<1>4. f = G(f)
  <2>1. \A i \in 0..n : f[i] = G(f)[i]
    <3> TAKE i \in 0..n
    <3>1. CASE i = 0
      BY <3>1, <1>3 DEF Iterate
    <3>2. CASE i # 0
      <4>1. i \in 1..n /\ i - 1 \in 0..n
        BY <3>2
      <4>2. f[i - 1] \in X
        BY <4>1, <1>3
      <4> HIDE DEF X
      <4> QED BY <4>1, <4>2, <1>3, <3>2 DEF Iterate
    <3> QED BY <3>1, <3>2
  <2> QED BY <2>1
<1>5. \E g : g = G(g)
  BY <1>4
<1> DEFINE K == CHOOSE g : g = G(g)
<1>6. K = G(K)
  <2> HIDE DEF G
  <2> QED BY <1>5
<1>7. CheckDenied(flags, denied) = K[Len(flags)].clean
  BY DEF CheckDenied
<1>8. \A g : \A i \in 0..n : G(g)[i] = IF i = 0 THEN [clean |-> <<>>, skip |-> 0] ELSE Scan(flags, denied, g[i - 1], i)
  OBVIOUS
<1> HIDE DEF K, G
<1>9. \A i \in 0..n : K[i] = IF i = 0 THEN [clean |-> <<>>, skip |-> 0] ELSE Scan(flags, denied, K[i - 1], i)
  BY <1>6, <1>8
<1>10. K[0] = [clean |-> <<>>, skip |-> 0] /\ \A i \in 1..n : K[i] = Scan(flags, denied, K[i - 1], i)
  BY <1>1, <1>9
<1> QED BY <1>7, <1>10

(* What is left of any flags is what belongs to no denied option.          *)
LEMMA CleanIsKept ==
  ASSUME NEW S, NEW flags \in Seq(S), NEW denied, PairsApart(denied)
  PROVE  LET kept == Kept([i \in DOMAIN flags |-> i], {i \in DOMAIN flags : ~DeniedAt(flags, i, denied)})
         IN  CheckDenied(flags, denied) = [j \in DOMAIN kept |-> flags[kept[j]]]
<1> DEFINE n == Len(flags)
           s == [i \in DOMAIN flags |-> i]
           A == {i \in DOMAIN flags : ~DeniedAt(flags, i, denied)}
<1>1. n \in Nat /\ DOMAIN flags = 1..n
  OBVIOUS
<1>2. s \in Seq(Nat) /\ Len(s) = n /\ \A i \in 1..n : s[i] = i
  BY <1>1
<1>3. PICK f : /\ f[0] = <<>>
               /\ \A i \in 0..(Len(s) - 1) : f[i + 1] = IF s[i + 1] \in A THEN Append(f[i], s[i + 1]) ELSE f[i]
               /\ Kept(s, A) = f[Len(s)]
  <2> HIDE DEF s, A
  <2> QED BY <1>2, KeptUnfolds
<1>4. PICK g : /\ g[0] = [clean |-> <<>>, skip |-> 0]
               /\ \A i \in 1..Len(flags) : g[i] = Scan(flags, denied, g[i - 1], i)
               /\ CheckDenied(flags, denied) = g[Len(flags)].clean
  BY ScanUnfolds
<1> DEFINE Good(i) == /\ f[i] \in Seq(Nat)
                      /\ g[i].clean = Chosen(flags, f[i])
                      /\ g[i].skip = IF Pair(flags, i, denied) THEN 1 ELSE 0
           T == {i \in Nat : i <= n => Good(i)}
<1>5. 0 \in T
  <2>1. Chosen(flags, <<>>) = <<>>
    BY DEF Chosen
  <2>2. ~Pair(flags, 0, denied)
    BY DEF Pair
  <2>3. f[0] \in Seq(Nat) /\ g[0].clean = <<>> /\ g[0].skip = 0
    BY <1>3, <1>4
  <2>4. Good(0)
    BY <1>3, <2>1, <2>2, <2>3
  <2> HIDE DEF Good
  <2> QED BY <2>4
<1>6. ASSUME NEW i \in 1..n, i - 1 \in T PROVE i \in T
  <2>1. Good(i - 1) /\ i \in Nat
    BY <1>1, <1>6
  <2>2. f[i] = IF DeniedAt(flags, i, denied) THEN f[i - 1] ELSE Append(f[i - 1], i)
    <3>1. i - 1 \in 0..(Len(s) - 1) /\ i - 1 + 1 = i
      BY <1>1, <1>2
    <3>2. s[i] \in A <=> ~DeniedAt(flags, i, denied)
      BY <1>1, <1>2
    <3> HIDE DEF s, A
    <3> QED BY <1>2, <1>3, <3>1, <3>2
  <2>3. f[i] \in Seq(Nat)
    BY <2>1, <2>2
  <2>4. g[i] = Scan(flags, denied, g[i - 1], i)
    BY <1>4
  <2>5. g[i].clean = Chosen(flags, f[i]) /\ g[i].skip = IF Pair(flags, i, denied) THEN 1 ELSE 0
    BY <1>1, <2>1, <2>2, <2>4, ScanStep
  <2> QED BY <2>1, <2>3, <2>5
<1>7. n \in T
  <2> HIDE DEF T
  <2> QED BY <1>1, <1>5, <1>6, CountUp
<1>8. CheckDenied(flags, denied) = Chosen(flags, Kept(s, A))
  BY <1>1, <1>2, <1>3, <1>4, <1>7
<1> QED BY <1>8 DEF Chosen

(* Of any flags of any adapter exactly those are dropped that are denied   *)
(* by name or together with their value, this value with them, in the      *)
(* same or the next argument; what follows an option that is denied by     *)
(* name stays, also where it is its value (_check_denied_flags).           *)
THEOREM AnyFlagsAreKept ==
  ASSUME NEW S,
         asked.family = "flags" =>
           /\ asked.adapter \in SomeAdapters /\ asked.flags \in Seq(S)
           /\ answer = [flags |-> FilterFlags(asked.adapter, asked.flags, asked.unsafe)]
  PROVE  FlagsKept
<1> SUFFICES ASSUME asked.family = "flags" PROVE FlagsKept
  BY DEF FlagsKept
<1> DEFINE flags == asked.flags
           denied == DeniedFlags[asked.adapter]
           kept == Kept([i \in DOMAIN flags |-> i], {i \in DOMAIN flags : ~DeniedAt(flags, i, denied)})
<1>1. CheckDenied(flags, denied) = [j \in DOMAIN kept |-> flags[kept[j]]]
  <2>1. PairsApart(denied) /\ flags \in Seq(S)
    BY DeniedPairsApart
  <2> HIDE DEF denied, flags
  <2> QED BY <2>1, CleanIsKept
<1>2. answer.flags = IF asked.unsafe THEN flags ELSE CheckDenied(flags, denied)
  BY DEF FilterFlags
<1> HIDE DEF kept
<1>3. answer.flags = IF asked.unsafe THEN flags ELSE [j \in DOMAIN kept |-> flags[kept[j]]]
  BY <1>1, <1>2
<1> QED BY <1>3 DEF FlagsKept, kept

-----------------------------------------------------------------------------
(* Children.                                                               *)

(* Whatever an adapter asks for, the parent's variables, the profile and    *)
(* the options: no variable of belt's own reaches a child, a container gets    *)
(* none but those that were asked for, and what has no network does not    *)
(* run on the host (build_subprocess_env, the sandboxes, the spawners).    *)
THEOREM AnyChildSeesItsOwn ==
  ASSUME NEW there, NEW command,
         asked.family = "spawn" =>
           LET where == BuildSandbox(asked.profile, asked.override, there)
               env == BuildSubprocessEnv(asked.required, asked.parent, asked.full)
           IN  answer = [where |-> where, env |-> env,
                         child |-> IF where = "raises" THEN None
                                   ELSE Popen(where, asked.profile, asked.required, env, command)]
  PROVE  ChildSeesItsOwn
<1> SUFFICES ASSUME asked.family = "spawn" PROVE ChildSeesItsOwn
  BY DEF ChildSeesItsOwn
<1> DEFINE profile == asked.profile
           where == BuildSandbox(profile, asked.override, there)
           env == BuildSubprocessEnv(asked.required, asked.parent, asked.full)
           child == Popen(where, profile, asked.required, env, command)
<1>1. answer.where = where /\ answer.env = env /\ answer.child = IF where = "raises" THEN None ELSE child
  OBVIOUS
<1>2. env \subseteq asked.parent /\ \A v \in env : v.kind # "belt"
  BY DEF BuildSubprocessEnv, BeltNamespaced
<1>3. where \in {"host", "docker", "raises"} /\ (profile.network = "none" => where # "host")
  BY DEF BuildSandbox, EffectiveProvider, HostAccepts, DockerAccepts
<1> HIDE DEF where, env, profile
<1>4. where = "docker" => /\ child.env = ContainerEnv(asked.required, profile.passthrough, env)
                          /\ child.hosts = AddHosts(profile)
                          /\ profile.network = "none" => "--network=none" \in child.flags
  BY DEF Popen, Wrap
<1>5. where # "docker" => child.env = env
  BY DEF Popen
<1>6. ContainerEnv(asked.required, profile.passthrough, env) \subseteq env
      /\ ContainerEnv(asked.required, profile.passthrough, env) \subseteq asked.required \union profile.passthrough
  BY DEF ContainerEnv
<1>7. profile.network = "none" => AddHosts(profile) = {}
  BY DEF AddHosts
<1> HIDE DEF child
<1> QED BY <1>1, <1>2, <1>3, <1>4, <1>5, <1>6, <1>7 DEF ChildSeesItsOwn, profile

-----------------------------------------------------------------------------
(* Concatenations.                                                         *)

LEMMA Joined ==
  ASSUME NEW S, NEW s \in Seq(S), NEW t \in Seq(S)
  PROVE  /\ s \o t \in Seq(S) /\ Len(s \o t) = Len(s) + Len(t) /\ Len(s) \in Nat /\ Len(t) \in Nat
         /\ \A i \in 1..Len(s) : (s \o t)[i] = s[i]
         /\ \A i \in 1..Len(t) : (s \o t)[Len(s) + i] = t[i]
OBVIOUS

Elements(s) == {s[i] : i \in 1..Len(s)}

LEMMA JoinedElements ==
  ASSUME NEW S, NEW s \in Seq(S), NEW t \in Seq(S)
  PROVE  Elements(s \o t) = Elements(s) \union Elements(t)
<1> DEFINE u == s \o t
<1>1. /\ Len(u) = Len(s) + Len(t) /\ Len(s) \in Nat /\ Len(t) \in Nat
      /\ \A i \in 1..Len(s) : u[i] = s[i]
      /\ \A i \in 1..Len(t) : u[Len(s) + i] = t[i]
  BY Joined
<1> HIDE DEF u
<1>2. ASSUME NEW i \in 1..Len(u) PROVE (\E j \in 1..Len(s) : u[i] = s[j]) \/ (\E j \in 1..Len(t) : u[i] = t[j])
  <2>1. CASE i <= Len(s)
    <3>1. i \in 1..Len(s)
      BY <1>1, <2>1
    <3> QED BY <1>1, <3>1
  <2>2. CASE ~(i <= Len(s))
    <3>1. i - Len(s) \in 1..Len(t) /\ Len(s) + (i - Len(s)) = i
      BY <1>1, <2>2
    <3> QED BY <1>1, <3>1
  <2> QED BY <2>1, <2>2
<1>3. ASSUME NEW j \in 1..Len(s) PROVE \E i \in 1..Len(u) : u[i] = s[j]
  <2>1. j \in 1..Len(u)
    BY <1>1
  <2> QED BY <1>1, <2>1
<1>4. ASSUME NEW j \in 1..Len(t) PROVE \E i \in 1..Len(u) : u[i] = t[j]
  <2>1. Len(s) + j \in 1..Len(u)
    BY <1>1
  <2> QED BY <1>1, <2>1
<1>5. Elements(u) \subseteq Elements(s) \union Elements(t)
  BY <1>2 DEF Elements
<1>6. Elements(s) \subseteq Elements(u)
  BY <1>3 DEF Elements
<1>7. Elements(t) \subseteq Elements(u)
  BY <1>4 DEF Elements
<1> QED BY <1>5, <1>6, <1>7 DEF u

-----------------------------------------------------------------------------
(* Binaries.                                                               *)

LEMMA FirstInIs ==
  ASSUME NEW S, NEW s \in Seq(S), NEW A
  PROVE  IF ToSet(s) \intersect A = {} THEN FirstIn(s, A) = 0
         ELSE FirstIn(s, A) \in 1..Len(s) /\ s[FirstIn(s, A)] \in A
<1> DEFINE I == {i \in 1..Len(s) : s[i] \in A}
<1>1. FirstIn(s, A) = IF I # {} THEN Min(I) ELSE 0
  BY DEF FirstIn, SelectInSeq
<1>2. I = {} <=> ToSet(s) \intersect A = {}
  BY DEF ToSet
<1>3. ASSUME I # {} PROVE Min(I) \in I
  <2>1. PICK x \in I : \A y \in I : x <= y
    <3>1. I \subseteq Nat
      OBVIOUS
    <3> HIDE DEF I
    <3> QED BY <1>3, <3>1, LeastElement
  <2> HIDE DEF I
  <2> QED BY <2>1 DEF Min
<1>4. \A i \in I : i \in 1..Len(s) /\ s[i] \in A
  OBVIOUS
<1> HIDE DEF I
<1> QED BY <1>1, <1>2, <1>3, <1>4

LEMMA ResolvedIsFound ==
  ASSUME NEW S, NEW s \in Seq(S), NEW onPath, NEW installed
  PROVE  LET b == ResolveBinary(s, onPath, installed)
             on == ToSet(s) \intersect onPath
             in == ToSet(s) \intersect installed
         IN  (b # "" => b \in on \union in) /\ (on # {} => b \in on)
<1> DEFINE p == FirstIn(s, onPath)
           x == FirstIn(s, installed)
<1>1. ResolveBinary(s, onPath, installed) = IF p # 0 THEN s[p] ELSE IF x # 0 THEN s[x] ELSE ""
  BY DEF ResolveBinary
<1>2. /\ IF ToSet(s) \intersect onPath = {} THEN p = 0 ELSE p \in 1..Len(s) /\ s[p] \in onPath
      /\ IF ToSet(s) \intersect installed = {} THEN x = 0 ELSE x \in 1..Len(s) /\ s[x] \in installed
  BY FirstInIs
<1>3. \A i \in 1..Len(s) : s[i] \in ToSet(s) /\ i # 0
  BY DEF ToSet
<1> HIDE DEF p, x
<1> QED BY <1>1, <1>2, <1>3

AuthSeen(auth, set, existing) ==
  ToSet(auth) \subseteq set \union existing /\ (auth = <<>> <=> set \union existing = {})

LEMMA AuthIsSeen ==
  ASSUME NEW S, NEW envs \in Seq(S), NEW paths \in Seq(S),
         NEW set, set \subseteq ToSet(envs), NEW existing, existing \subseteq ToSet(paths)
  PROVE  AuthSeen(DetectAuthSignals(envs, paths, set, existing), set, existing)
<1> DEFINE e == FirstIn(envs, set)
           p == FirstIn(paths, existing)
           auth == DetectAuthSignals(envs, paths, set, existing)
<1>1. auth = Opt(e # 0, <<envs[e]>>) \o Opt(p # 0, <<paths[p]>>)
  BY DEF DetectAuthSignals
<1>2. /\ IF set = {} THEN e = 0 ELSE e # 0 /\ envs[e] \in set
      /\ IF existing = {} THEN p = 0 ELSE p # 0 /\ paths[p] \in existing
  <2>1. ToSet(envs) \intersect set = set /\ ToSet(paths) \intersect existing = existing
    OBVIOUS
  <2> QED BY <2>1, FirstInIs
<1> HIDE DEF e, p, auth
<1>3. /\ Opt(e # 0, <<envs[e]>>) = (IF e # 0 THEN <<envs[e]>> ELSE <<>>)
      /\ Opt(p # 0, <<paths[p]>>) = (IF p # 0 THEN <<paths[p]>> ELSE <<>>)
  BY DEF Opt
<1> DEFINE S2 == {envs[e], paths[p]}
           x == Opt(e # 0, <<envs[e]>>)
           y == Opt(p # 0, <<paths[p]>>)
<1>4. x \in Seq(S2) /\ y \in Seq(S2)
  <2>1. envs[e] \in S2 /\ paths[p] \in S2
    OBVIOUS
  <2>2. <<>> \in Seq(S2) /\ <<envs[e]>> \in Seq(S2) /\ <<paths[p]>> \in Seq(S2)
    BY <2>1
  <2> HIDE DEF S2
  <2> QED BY <1>3, <2>2
<1>5. /\ e = 0 => Len(x) = 0
      /\ e # 0 => Len(x) = 1 /\ x[1] = envs[e]
      /\ p = 0 => Len(y) = 0
      /\ p # 0 => Len(y) = 1 /\ y[1] = paths[p]
  BY <1>3
<1> HIDE DEF x, y, S2
<1>6. auth \in Seq(S2) /\ Len(auth) = Len(x) + Len(y) /\ Elements(auth) = Elements(x) \union Elements(y)
  <2>1. auth = x \o y
    BY <1>1 DEF x, y
  <2> QED BY <1>4, <2>1, Joined, JoinedElements
<1>7. auth = <<>> <=> e = 0 /\ p = 0
  BY <1>5, <1>6
<1>8. Elements(x) \subseteq set /\ Elements(y) \subseteq existing
  BY <1>2, <1>5 DEF Elements
<1>9. ToSet(auth) \subseteq set \union existing
  <2>1. ToSet(auth) = Elements(auth)
    <3>1. DOMAIN auth = 1..Len(auth)
      BY <1>6
    <3> QED BY <3>1 DEF ToSet, Elements
  <2> QED BY <1>6, <1>8, <2>1
<1>10. set \union existing = {} <=> e = 0 /\ p = 0
  BY <1>2
<1>11. ToSet(auth) \subseteq set \union existing /\ (auth = <<>> <=> set \union existing = {})
  BY <1>7, <1>9, <1>10
<1> QED BY <1>11 DEF auth, AuthSeen

-----------------------------------------------------------------------------
(* Command lines.                                                          *)

(* The words that the adapters put into their commands themselves.         *)
Vocabulary ==
  {"", "MESSAGE", "--", "-c", "-C", "-m", "-o", "-p", "-s", "-t", "--allow-all-tools", "--approve-mcps", "--continue", "--force",
   "--format", "--json", "--model", "--name", "--no-auto-update", "--output-format", "--provider", "--resume", "--session",
   "--skip-git-repo-check", "--verbose", "agent", "belt", "claude", "codex", "copilot", "exec", "gemini", "goose", "json",
   "model_provider", "opencode", "reply", "resume", "run", "stream-json", "trusted", "workspace-write"}

Arguments(Names) == [key : Names, eq : BOOLEAN, value : Names]
Options(Names) == [model : Names, profile : Names, workspace : Names, session : Names, binary : Names]

LEMMA WordIs ==
  ASSUME NEW Names, Vocabulary \subseteq Names, NEW k \in Names
  PROVE  Word(k) \in Arguments(Names) /\ Word(k).key = k
<1>1. "" \in Names
  BY DEF Vocabulary
<1> QED BY <1>1 DEF Word, Arguments

LEMMA WordsAre ==
  ASSUME NEW Names, Vocabulary \subseteq Names, NEW ks \in Seq(Names)
  PROVE  /\ Words(ks) \in Seq(Arguments(Names)) /\ Len(Words(ks)) = Len(ks)
         /\ \A i \in 1..Len(ks) : Words(ks)[i] = Word(ks[i]) /\ Words(ks)[i].key = ks[i]
<1>1. \A i \in 1..Len(ks) : ks[i] \in Names
  OBVIOUS
<1>2. \A i \in 1..Len(ks) : Word(ks[i]) \in Arguments(Names) /\ Word(ks[i]).key = ks[i]
  BY <1>1, WordIs
<1>3. Words(ks) = [i \in 1..Len(ks) |-> Word(ks[i])] /\ Len(ks) \in Nat
  BY DEF Words
<1> QED BY <1>2, <1>3

LEMMA OptIs ==
  ASSUME NEW S, NEW p, NEW args \in Seq(S)
  PROVE  Opt(p, args) \in Seq(S) /\ (p => Opt(p, args) = args) /\ (~p => Opt(p, args) = <<>>)
BY DEF Opt

Keys(s) == {x.key : x \in Elements(s)}

(* A piece of a command and the keys in it.                                *)
Piece(s, keys, Names) == s \in Seq(Arguments(Names)) /\ Keys(s) = keys

LEMMA PieceOfWords ==
  ASSUME NEW Names, Vocabulary \subseteq Names, NEW ks \in Seq(Names)
  PROVE  Piece(Words(ks), Elements(ks), Names)
<1> DEFINE w == Words(ks)
<1>1. w \in Seq(Arguments(Names)) /\ Len(w) = Len(ks) /\ \A i \in 1..Len(ks) : w[i].key = ks[i]
  BY WordsAre
<1> HIDE DEF w
<1>2. Keys(w) = {w[i].key : i \in 1..Len(w)}
  BY DEF Keys, Elements
<1>3. Keys(w) = Elements(ks)
  BY <1>1, <1>2 DEF Elements
<1> QED BY <1>1, <1>3 DEF Piece, w

LEMMA PieceIfThere ==
  ASSUME NEW Names, NEW s, NEW keys, Piece(s, keys, Names), NEW p \in BOOLEAN
  PROVE  Piece(Opt(p, s), IF p THEN keys ELSE {}, Names)
<1>1. Piece(<<>>, {}, Names)
  <2>1. Keys(<<>>) = {}
    BY DEF Keys, Elements
  <2> QED BY <2>1 DEF Piece
<1>2. CASE p
  BY <1>2 DEF Opt
<1>3. CASE ~p
  BY <1>1, <1>3 DEF Opt
<1> QED BY <1>2, <1>3

LEMMA PiecesJoined ==
  ASSUME NEW Names, NEW s, NEW k, Piece(s, k, Names), NEW t, NEW l, Piece(t, l, Names)
  PROVE  Piece(s \o t, k \union l, Names)
<1>1. s \o t \in Seq(Arguments(Names)) /\ Elements(s \o t) = Elements(s) \union Elements(t)
  BY Joined, JoinedElements DEF Piece
<1> QED BY <1>1 DEF Piece, Keys

(* The parts of a command: what the adapter puts in front, the flags, and  *)
(* the message.                                                            *)
CommandParts(pre, keys, o, Names) ==
  /\ Piece(pre, keys, Names) /\ "MESSAGE" \notin keys /\ "" \notin keys
  /\ o.session # "" => o.session \in keys

Stated(o) == o.binary # ""

LEMMA ClaudeParts ==
  ASSUME NEW Names, Vocabulary \subseteq Names, NEW o \in Options(Names), NEW flags,
         "MESSAGE" \notin {o.session}
  PROVE  \E pre, keys : /\ CommandParts(pre, keys, o, Names)
                        /\ ClaudeCommand(o, flags) = pre \o flags \o Words(<<"--", "MESSAGE">>)
<1> DEFINE w1 == <<"claude", "-p", "--verbose", "--output-format", "stream-json">>
           w2 == <<"--resume", o.session>>
           pre == Words(w1) \o Opt(o.session # "", Words(w2))
           keys == Elements(w1) \union (IF o.session # "" THEN Elements(w2) ELSE {})
<1>1. o.session \in Names
  BY DEF Options
<1>2. w1 \in Seq(Names) /\ Elements(w1) = {"claude", "-p", "--verbose", "--output-format", "stream-json"}
  <2>1. {"claude", "-p", "--verbose", "--output-format", "stream-json"} \subseteq Names
    BY DEF Vocabulary
  <2> QED BY <2>1 DEF Elements
<1>3. w2 \in Seq(Names) /\ Elements(w2) = {"--resume", o.session}
  <2>1. {"--resume", o.session} \subseteq Names
    BY <1>1 DEF Vocabulary
  <2> QED BY <2>1 DEF Elements
<1> HIDE DEF w1, w2
<1>4. Piece(Words(w1), Elements(w1), Names) /\ Piece(Words(w2), Elements(w2), Names)
  BY <1>2, <1>3, PieceOfWords
<1>5. Piece(pre, keys, Names)
  <2>1. Piece(Words(w1), Elements(w1), Names)
    BY <1>4
  <2>2. Piece(Opt(o.session # "", Words(w2)), (IF o.session # "" THEN Elements(w2) ELSE {}), Names)
    BY <1>4, PieceIfThere
  <2> QED BY <2>1, <2>2, PiecesJoined
<1>6. ClaudeCommand(o, flags) = pre \o flags \o Words(<<"--", "MESSAGE">>)
  BY DEF ClaudeCommand, w1, w2
<1> HIDE DEF pre
<1>7. CommandParts(pre, keys, o, Names)
  BY <1>2, <1>3, <1>5 DEF CommandParts
<1> QED BY <1>6, <1>7

LEMMA CopilotParts ==
  ASSUME NEW Names, Vocabulary \subseteq Names, NEW o \in Options(Names), NEW flags,
         "MESSAGE" \notin {o.model, o.session}
  PROVE  \E pre, keys : /\ CommandParts(pre, keys, o, Names)
                        /\ CopilotCommand(o, flags) = pre \o flags \o Words(<<"-p", "MESSAGE">>)
<1> DEFINE w1 == <<"copilot", "--output-format", "json", "--allow-all-tools", "--no-auto-update">>
           w2 == <<"--model", o.model>>
           w3 == <<"--resume", o.session>>
           pre == Words(w1) \o Opt(o.model # "", Words(w2)) \o Opt(o.session # "", Words(w3))
           keys == Elements(w1) \union (IF o.model # "" THEN Elements(w2) ELSE {}) \union (IF o.session # "" THEN Elements(w3) ELSE {})
<1>1. o.model \in Names /\ o.session \in Names
  BY DEF Options
<1>2. w1 \in Seq(Names) /\ Elements(w1) = {"copilot", "--output-format", "json", "--allow-all-tools", "--no-auto-update"}
  <2>1. {"copilot", "--output-format", "json", "--allow-all-tools", "--no-auto-update"} \subseteq Names
    BY DEF Vocabulary
  <2> QED BY <2>1 DEF Elements
<1>3. w2 \in Seq(Names) /\ Elements(w2) = {"--model", o.model}
  <2>1. {"--model", o.model} \subseteq Names
    BY <1>1 DEF Vocabulary
  <2> QED BY <2>1 DEF Elements
<1>4. w3 \in Seq(Names) /\ Elements(w3) = {"--resume", o.session}
  <2>1. {"--resume", o.session} \subseteq Names
    BY <1>1 DEF Vocabulary
  <2> QED BY <2>1 DEF Elements
<1> HIDE DEF w1, w2, w3
<1>5. Piece(Words(w1), Elements(w1), Names) /\ Piece(Words(w2), Elements(w2), Names) /\ Piece(Words(w3), Elements(w3), Names)
  BY <1>2, <1>3, <1>4, PieceOfWords
<1>6. Piece(pre, keys, Names)
  <2>1. Piece(Words(w1), Elements(w1), Names)
    BY <1>5
  <2>2. Piece(Opt(o.model # "", Words(w2)), (IF o.model # "" THEN Elements(w2) ELSE {}), Names)
    BY <1>5, PieceIfThere
  <2>3. Piece(Opt(o.session # "", Words(w3)), (IF o.session # "" THEN Elements(w3) ELSE {}), Names)
    BY <1>5, PieceIfThere
  <2>4. Piece(Words(w1) \o Opt(o.model # "", Words(w2)),
              Elements(w1) \union (IF o.model # "" THEN Elements(w2) ELSE {}), Names)
    BY <2>1, <2>2, PiecesJoined
  <2> QED BY <2>4, <2>3, PiecesJoined
<1>7. CopilotCommand(o, flags) = pre \o flags \o Words(<<"-p", "MESSAGE">>)
  BY DEF CopilotCommand, w1, w2, w3
<1> HIDE DEF pre
<1>8. CommandParts(pre, keys, o, Names)
  BY <1>2, <1>3, <1>4, <1>6 DEF CommandParts
<1> QED BY <1>7, <1>8

LEMMA CursorParts ==
  ASSUME NEW Names, Vocabulary \subseteq Names, NEW o \in Options(Names), NEW flags,
         "MESSAGE" \notin {o.binary, o.session}, Stated(o)
  PROVE  \E pre, keys : /\ CommandParts(pre, keys, o, Names)
                        /\ CursorCommand(o, flags) = pre \o flags \o Words(<<"--", "MESSAGE">>)
<1> DEFINE w1 == <<o.binary>>
           w2 == <<"agent">>
           w3 == <<"-p", "--output-format", "stream-json", "--force", "--approve-mcps">>
           w4 == <<"--resume", o.session>>
           pre == Words(w1) \o Opt(o.binary = "cursor", Words(w2)) \o Words(w3) \o Opt(o.session # "", Words(w4))
           keys == Elements(w1) \union (IF o.binary = "cursor" THEN Elements(w2) ELSE {}) \union Elements(w3) \union (IF o.session # "" THEN Elements(w4) ELSE {})
<1>1. o.binary \in Names /\ o.session \in Names
  BY DEF Options
<1>2. w1 \in Seq(Names) /\ Elements(w1) = {o.binary}
  BY <1>1 DEF Elements
<1>3. w2 \in Seq(Names) /\ Elements(w2) = {"agent"}
  <2>1. {"agent"} \subseteq Names
    BY DEF Vocabulary
  <2> QED BY <2>1 DEF Elements
<1>4. w3 \in Seq(Names) /\ Elements(w3) = {"-p", "--output-format", "stream-json", "--force", "--approve-mcps"}
  <2>1. {"-p", "--output-format", "stream-json", "--force", "--approve-mcps"} \subseteq Names
    BY DEF Vocabulary
  <2> QED BY <2>1 DEF Elements
<1>5. w4 \in Seq(Names) /\ Elements(w4) = {"--resume", o.session}
  <2>1. {"--resume", o.session} \subseteq Names
    BY <1>1 DEF Vocabulary
  <2> QED BY <2>1 DEF Elements
<1> HIDE DEF w1, w2, w3, w4
<1>6. Piece(Words(w1), Elements(w1), Names) /\ Piece(Words(w2), Elements(w2), Names) /\ Piece(Words(w3), Elements(w3), Names) /\ Piece(Words(w4), Elements(w4), Names)
  BY <1>2, <1>3, <1>4, <1>5, PieceOfWords
<1>7. Piece(pre, keys, Names)
  <2>1. Piece(Words(w1), Elements(w1), Names)
    BY <1>6
  <2>2. Piece(Opt(o.binary = "cursor", Words(w2)), (IF o.binary = "cursor" THEN Elements(w2) ELSE {}), Names)
    BY <1>6, PieceIfThere
  <2>3. Piece(Words(w3), Elements(w3), Names)
    BY <1>6
  <2>4. Piece(Opt(o.session # "", Words(w4)), (IF o.session # "" THEN Elements(w4) ELSE {}), Names)
    BY <1>6, PieceIfThere
  <2>5. Piece(Words(w1) \o Opt(o.binary = "cursor", Words(w2)),
              Elements(w1) \union (IF o.binary = "cursor" THEN Elements(w2) ELSE {}), Names)
    BY <2>1, <2>2, PiecesJoined
  <2>6. Piece(Words(w1) \o Opt(o.binary = "cursor", Words(w2)) \o Words(w3),
              Elements(w1) \union (IF o.binary = "cursor" THEN Elements(w2) ELSE {}) \union Elements(w3), Names)
    BY <2>5, <2>3, PiecesJoined
  <2> QED BY <2>6, <2>4, PiecesJoined
<1>8. CursorCommand(o, flags) = pre \o flags \o Words(<<"--", "MESSAGE">>)
  BY DEF CursorCommand, w1, w2, w3, w4
<1> HIDE DEF pre
<1>9. CommandParts(pre, keys, o, Names)
  BY <1>2, <1>3, <1>4, <1>5, <1>7 DEF CommandParts, Stated
<1> QED BY <1>8, <1>9

LEMMA GeminiParts ==
  ASSUME NEW Names, Vocabulary \subseteq Names, NEW o \in Options(Names), NEW flags,
         "MESSAGE" \notin {o.session}
  PROVE  \E pre, keys : /\ CommandParts(pre, keys, o, Names)
                        /\ GeminiCommand(o, flags) = pre \o flags \o Words(<<"-p", "MESSAGE">>)
<1> DEFINE w1 == <<"gemini", "--output-format", "stream-json">>
           w2 == <<"--resume", o.session>>
           pre == Words(w1) \o Opt(o.session # "", Words(w2))
           keys == Elements(w1) \union (IF o.session # "" THEN Elements(w2) ELSE {})
<1>1. o.session \in Names
  BY DEF Options
<1>2. w1 \in Seq(Names) /\ Elements(w1) = {"gemini", "--output-format", "stream-json"}
  <2>1. {"gemini", "--output-format", "stream-json"} \subseteq Names
    BY DEF Vocabulary
  <2> QED BY <2>1 DEF Elements
<1>3. w2 \in Seq(Names) /\ Elements(w2) = {"--resume", o.session}
  <2>1. {"--resume", o.session} \subseteq Names
    BY <1>1 DEF Vocabulary
  <2> QED BY <2>1 DEF Elements
<1> HIDE DEF w1, w2
<1>4. Piece(Words(w1), Elements(w1), Names) /\ Piece(Words(w2), Elements(w2), Names)
  BY <1>2, <1>3, PieceOfWords
<1>5. Piece(pre, keys, Names)
  <2>1. Piece(Words(w1), Elements(w1), Names)
    BY <1>4
  <2>2. Piece(Opt(o.session # "", Words(w2)), (IF o.session # "" THEN Elements(w2) ELSE {}), Names)
    BY <1>4, PieceIfThere
  <2> QED BY <2>1, <2>2, PiecesJoined
<1>6. GeminiCommand(o, flags) = pre \o flags \o Words(<<"-p", "MESSAGE">>)
  BY DEF GeminiCommand, w1, w2
<1> HIDE DEF pre
<1>7. CommandParts(pre, keys, o, Names)
  BY <1>2, <1>3, <1>5 DEF CommandParts
<1> QED BY <1>6, <1>7

LEMMA GooseParts ==
  ASSUME NEW Names, Vocabulary \subseteq Names, NEW o \in Options(Names), NEW flags,
         "MESSAGE" \notin {o.model, o.profile, o.session}
  PROVE  \E pre, keys : /\ CommandParts(pre, keys, o, Names)
                        /\ GooseCommand(o, flags) = pre \o flags \o Words(<<"-t", "MESSAGE">>)
<1> DEFINE w1 == <<"goose", "run", "--output-format", "stream-json">>
           w2 == <<"--model", o.model>>
           w3 == <<"--provider", o.profile>>
           w4 == <<"--resume", "--name", o.session>>
           w5 == <<"--name", "belt">>
           pre == Words(w1) \o Opt(o.model # "", Words(w2)) \o Opt(o.profile # "", Words(w3)) \o (IF o.session # "" THEN Words(w4) ELSE Words(w5))
           keys == Elements(w1) \union (IF o.model # "" THEN Elements(w2) ELSE {}) \union (IF o.profile # "" THEN Elements(w3) ELSE {}) \union (IF o.session # "" THEN Elements(w4) ELSE Elements(w5))
<1>1. o.model \in Names /\ o.profile \in Names /\ o.session \in Names
  BY DEF Options
<1>2. w1 \in Seq(Names) /\ Elements(w1) = {"goose", "run", "--output-format", "stream-json"}
  <2>1. {"goose", "run", "--output-format", "stream-json"} \subseteq Names
    BY DEF Vocabulary
  <2> QED BY <2>1 DEF Elements
<1>3. w2 \in Seq(Names) /\ Elements(w2) = {"--model", o.model}
  <2>1. {"--model", o.model} \subseteq Names
    BY <1>1 DEF Vocabulary
  <2> QED BY <2>1 DEF Elements
<1>4. w3 \in Seq(Names) /\ Elements(w3) = {"--provider", o.profile}
  <2>1. {"--provider", o.profile} \subseteq Names
    BY <1>1 DEF Vocabulary
  <2> QED BY <2>1 DEF Elements
<1>5. w4 \in Seq(Names) /\ Elements(w4) = {"--resume", "--name", o.session}
  <2>1. {"--resume", "--name", o.session} \subseteq Names
    BY <1>1 DEF Vocabulary
  <2> QED BY <2>1 DEF Elements
<1>6. w5 \in Seq(Names) /\ Elements(w5) = {"--name", "belt"}
  <2>1. {"--name", "belt"} \subseteq Names
    BY DEF Vocabulary
  <2> QED BY <2>1 DEF Elements
<1> HIDE DEF w1, w2, w3, w4, w5
<1>7. Piece(Words(w1), Elements(w1), Names) /\ Piece(Words(w2), Elements(w2), Names) /\ Piece(Words(w3), Elements(w3), Names) /\ Piece(Words(w4), Elements(w4), Names) /\ Piece(Words(w5), Elements(w5), Names)
  BY <1>2, <1>3, <1>4, <1>5, <1>6, PieceOfWords
<1>8. Piece(pre, keys, Names)
  <2>1. Piece(Words(w1), Elements(w1), Names)
    BY <1>7
  <2>2. Piece(Opt(o.model # "", Words(w2)), (IF o.model # "" THEN Elements(w2) ELSE {}), Names)
    BY <1>7, PieceIfThere
  <2>3. Piece(Opt(o.profile # "", Words(w3)), (IF o.profile # "" THEN Elements(w3) ELSE {}), Names)
    BY <1>7, PieceIfThere
  <2>4. Piece((IF o.session # "" THEN Words(w4) ELSE Words(w5)), (IF o.session # "" THEN Elements(w4) ELSE Elements(w5)), Names)
    BY <1>7
  <2>5. Piece(Words(w1) \o Opt(o.model # "", Words(w2)),
              Elements(w1) \union (IF o.model # "" THEN Elements(w2) ELSE {}), Names)
    BY <2>1, <2>2, PiecesJoined
  <2>6. Piece(Words(w1) \o Opt(o.model # "", Words(w2)) \o Opt(o.profile # "", Words(w3)),
              Elements(w1) \union (IF o.model # "" THEN Elements(w2) ELSE {}) \union (IF o.profile # "" THEN Elements(w3) ELSE {}), Names)
    BY <2>5, <2>3, PiecesJoined
  <2> QED BY <2>6, <2>4, PiecesJoined
<1>9. GooseCommand(o, flags) = pre \o flags \o Words(<<"-t", "MESSAGE">>)
  BY DEF GooseCommand, w1, w2, w3, w4, w5
<1> HIDE DEF pre
<1>10. CommandParts(pre, keys, o, Names)
  BY <1>2, <1>3, <1>4, <1>5, <1>6, <1>8 DEF CommandParts
<1> QED BY <1>9, <1>10

LEMMA OpenCodeParts ==
  ASSUME NEW Names, Vocabulary \subseteq Names, NEW o \in Options(Names), NEW flags,
         "MESSAGE" \notin {o.model, o.session}
  PROVE  \E pre, keys : /\ CommandParts(pre, keys, o, Names)
                        /\ OpenCodeCommand(o, flags) = pre \o flags \o Words(<<"--", "MESSAGE">>)
<1> DEFINE w1 == <<"opencode", "run", "--format", "json">>
           w2 == <<"--model", o.model>>
           w3 == <<"--session", o.session, "--continue">>
           pre == Words(w1) \o Opt(o.model # "", Words(w2)) \o Opt(o.session # "", Words(w3))
           keys == Elements(w1) \union (IF o.model # "" THEN Elements(w2) ELSE {}) \union (IF o.session # "" THEN Elements(w3) ELSE {})
<1>1. o.model \in Names /\ o.session \in Names
  BY DEF Options
<1>2. w1 \in Seq(Names) /\ Elements(w1) = {"opencode", "run", "--format", "json"}
  <2>1. {"opencode", "run", "--format", "json"} \subseteq Names
    BY DEF Vocabulary
  <2> QED BY <2>1 DEF Elements
<1>3. w2 \in Seq(Names) /\ Elements(w2) = {"--model", o.model}
  <2>1. {"--model", o.model} \subseteq Names
    BY <1>1 DEF Vocabulary
  <2> QED BY <2>1 DEF Elements
<1>4. w3 \in Seq(Names) /\ Elements(w3) = {"--session", o.session, "--continue"}
  <2>1. {"--session", o.session, "--continue"} \subseteq Names
    BY <1>1 DEF Vocabulary
  <2> QED BY <2>1 DEF Elements
<1> HIDE DEF w1, w2, w3
<1>5. Piece(Words(w1), Elements(w1), Names) /\ Piece(Words(w2), Elements(w2), Names) /\ Piece(Words(w3), Elements(w3), Names)
  BY <1>2, <1>3, <1>4, PieceOfWords
<1>6. Piece(pre, keys, Names)
  <2>1. Piece(Words(w1), Elements(w1), Names)
    BY <1>5
  <2>2. Piece(Opt(o.model # "", Words(w2)), (IF o.model # "" THEN Elements(w2) ELSE {}), Names)
    BY <1>5, PieceIfThere
  <2>3. Piece(Opt(o.session # "", Words(w3)), (IF o.session # "" THEN Elements(w3) ELSE {}), Names)
    BY <1>5, PieceIfThere
  <2>4. Piece(Words(w1) \o Opt(o.model # "", Words(w2)),
              Elements(w1) \union (IF o.model # "" THEN Elements(w2) ELSE {}), Names)
    BY <2>1, <2>2, PiecesJoined
  <2> QED BY <2>4, <2>3, PiecesJoined
<1>7. OpenCodeCommand(o, flags) = pre \o flags \o Words(<<"--", "MESSAGE">>)
  BY DEF OpenCodeCommand, w1, w2, w3
<1> HIDE DEF pre
<1>8. CommandParts(pre, keys, o, Names)
  BY <1>2, <1>3, <1>4, <1>6 DEF CommandParts
<1> QED BY <1>7, <1>8

(* What is named by no option of codex's: its sandbox.                     *)
NoSandbox(o) == {o.model, o.profile, o.workspace} \intersect {"-s", "--sandbox"} = {}
NoMessage(o) == "MESSAGE" \notin {o.model, o.profile, o.workspace, o.session, o.binary}
Resumed(o) == o.session # ""

LEMMA SettingPiece ==
  ASSUME NEW Names, Vocabulary \subseteq Names, NEW k \in Names, NEW m \in Names, NEW v \in Names
  PROVE  Piece(<<Word(k), Setting(m, v)>>, {k, m}, Names)
<1> DEFINE a == Word(k)
           b == Setting(m, v)
<1>1. a \in Arguments(Names) /\ a.key = k
  BY WordIs
<1>2. b \in Arguments(Names) /\ b.key = m
  BY DEF Setting, Arguments
<1> HIDE DEF a, b
<1>3. <<a, b>> \in Seq(Arguments(Names)) /\ Elements(<<a, b>>) = {a, b}
  BY <1>1, <1>2 DEF Elements
<1> QED BY <1>1, <1>2, <1>3 DEF Piece, Keys, a, b

LEMMA CodexFirst ==
  ASSUME NEW Names, Vocabulary \subseteq Names, NEW o \in Options(Names), NoMessage(o), NoSandbox(o)
  PROVE  \E pre, keys : /\ Piece(pre, keys, Names) /\ "MESSAGE" \notin keys /\ "" \notin keys
                        /\ keys \intersect {"-s", "--sandbox"} = {}
                        /\ pre = Words(<<"codex", "exec", "--json", "--skip-git-repo-check", "-o", "reply">>)
                                  \o Opt(o.model # "", Words(<<"-m", o.model>>))
                                  \o Opt(o.profile # "", Words(<<"-p", o.profile>>))
                                  \o Opt(o.workspace # "", Words(<<"-C", o.workspace>>))
<1> DEFINE w1 == <<"codex", "exec", "--json", "--skip-git-repo-check", "-o", "reply">>
           w2 == <<"-m", o.model>>
           w3 == <<"-p", o.profile>>
           w4 == <<"-C", o.workspace>>
           k2 == IF o.model # "" THEN Elements(w2) ELSE {}
           k3 == IF o.profile # "" THEN Elements(w3) ELSE {}
           k4 == IF o.workspace # "" THEN Elements(w4) ELSE {}
           pre == Words(w1) \o Opt(o.model # "", Words(w2)) \o Opt(o.profile # "", Words(w3)) \o Opt(o.workspace # "", Words(w4))
           keys == Elements(w1) \union k2 \union k3 \union k4
<1>1. o.model \in Names /\ o.profile \in Names /\ o.workspace \in Names
  BY DEF Options
<1>2. w1 \in Seq(Names) /\ Elements(w1) = {"codex", "exec", "--json", "--skip-git-repo-check", "-o", "reply"}
  <2>1. {"codex", "exec", "--json", "--skip-git-repo-check", "-o", "reply"} \subseteq Names
    BY DEF Vocabulary
  <2> QED BY <2>1 DEF Elements
<1>3. w2 \in Seq(Names) /\ Elements(w2) = {"-m", o.model}
  <2>1. {"-m", o.model} \subseteq Names
    BY <1>1 DEF Vocabulary
  <2> QED BY <2>1 DEF Elements
<1>4. w3 \in Seq(Names) /\ Elements(w3) = {"-p", o.profile}
  <2>1. {"-p", o.profile} \subseteq Names
    BY <1>1 DEF Vocabulary
  <2> QED BY <2>1 DEF Elements
<1>5. w4 \in Seq(Names) /\ Elements(w4) = {"-C", o.workspace}
  <2>1. {"-C", o.workspace} \subseteq Names
    BY <1>1 DEF Vocabulary
  <2> QED BY <2>1 DEF Elements
<1> HIDE DEF w1, w2, w3, w4
<1>6. Piece(Words(w1), Elements(w1), Names) /\ Piece(Words(w2), Elements(w2), Names) /\ Piece(Words(w3), Elements(w3), Names)
      /\ Piece(Words(w4), Elements(w4), Names)
  BY <1>2, <1>3, <1>4, <1>5, PieceOfWords
<1>7. Piece(pre, keys, Names)
  <2>1. Piece(Words(w1), Elements(w1), Names)
    BY <1>6
  <2>2. Piece(Opt(o.model # "", Words(w2)), k2, Names)
    BY <1>6, PieceIfThere
  <2>3. Piece(Opt(o.profile # "", Words(w3)), k3, Names)
    BY <1>6, PieceIfThere
  <2>4. Piece(Opt(o.workspace # "", Words(w4)), k4, Names)
    BY <1>6, PieceIfThere
  <2> HIDE DEF k2, k3, k4
  <2>5. Piece(Words(w1) \o Opt(o.model # "", Words(w2)), Elements(w1) \union k2, Names)
    BY <2>1, <2>2, PiecesJoined
  <2>6. Piece(Words(w1) \o Opt(o.model # "", Words(w2)) \o Opt(o.profile # "", Words(w3)),
              Elements(w1) \union k2 \union k3, Names)
    BY <2>5, <2>3, PiecesJoined
  <2> QED BY <2>6, <2>4, PiecesJoined
<1>8. "MESSAGE" \notin keys /\ "" \notin keys /\ keys \intersect {"-s", "--sandbox"} = {}
  BY ZenonT(40), <1>2, <1>3, <1>4, <1>5 DEF NoMessage, NoSandbox
<1> HIDE DEF keys
<1> QED BY <1>7, <1>8 DEF w1, w2, w3, w4

LEMMA CodexResumed ==
  ASSUME NEW Names, Vocabulary \subseteq Names, NEW o \in Options(Names), NoMessage(o), Resumed(o)
  PROVE  \E pre, keys : /\ CommandParts(pre, keys, o, Names)
                        /\ pre = Words(<<"codex", "exec", "resume", o.session, "--json", "-o", "reply">>)
                                  \o Opt(o.model # "", Words(<<"-m", o.model>>))
                                  \o Opt(o.profile # "", <<Word("-c"), Setting("model_provider", o.profile)>>)
                                  \o Opt(o.workspace # "", <<Word("-c"), Setting("trusted", o.workspace)>>)
<1> DEFINE w1 == <<"codex", "exec", "resume", o.session, "--json", "-o", "reply">>
           w2 == <<"-m", o.model>>
           p3 == <<Word("-c"), Setting("model_provider", o.profile)>>
           p4 == <<Word("-c"), Setting("trusted", o.workspace)>>
           k2 == IF o.model # "" THEN Elements(w2) ELSE {}
           k3 == IF o.profile # "" THEN {"-c", "model_provider"} ELSE {}
           k4 == IF o.workspace # "" THEN {"-c", "trusted"} ELSE {}
           pre == Words(w1) \o Opt(o.model # "", Words(w2)) \o Opt(o.profile # "", p3) \o Opt(o.workspace # "", p4)
           keys == Elements(w1) \union k2 \union k3 \union k4
<1>1. o.model \in Names /\ o.profile \in Names /\ o.workspace \in Names /\ o.session \in Names
  BY DEF Options
<1>2. w1 \in Seq(Names) /\ Elements(w1) = {"codex", "exec", "resume", o.session, "--json", "-o", "reply"}
  <2>1. {"codex", "exec", "resume", o.session, "--json", "-o", "reply"} \subseteq Names
    BY <1>1 DEF Vocabulary
  <2> QED BY <2>1 DEF Elements
<1>3. w2 \in Seq(Names) /\ Elements(w2) = {"-m", o.model}
  <2>1. {"-m", o.model} \subseteq Names
    BY <1>1 DEF Vocabulary
  <2> QED BY <2>1 DEF Elements
<1>4. Piece(p3, {"-c", "model_provider"}, Names) /\ Piece(p4, {"-c", "trusted"}, Names)
  <2>1. "-c" \in Names /\ "model_provider" \in Names /\ "trusted" \in Names
    BY DEF Vocabulary
  <2> QED BY <1>1, <2>1, SettingPiece
<1> HIDE DEF w1, w2, p3, p4
<1>6. Piece(Words(w1), Elements(w1), Names) /\ Piece(Words(w2), Elements(w2), Names)
  BY <1>2, <1>3, PieceOfWords
<1>7. Piece(pre, keys, Names)
  <2>1. Piece(Words(w1), Elements(w1), Names)
    BY <1>6
  <2>2. Piece(Opt(o.model # "", Words(w2)), k2, Names)
    BY <1>6, PieceIfThere
  <2>3. Piece(Opt(o.profile # "", p3), k3, Names)
    BY <1>4, PieceIfThere
  <2>4. Piece(Opt(o.workspace # "", p4), k4, Names)
    BY <1>4, PieceIfThere
  <2> HIDE DEF k2, k3, k4
  <2>5. Piece(Words(w1) \o Opt(o.model # "", Words(w2)), Elements(w1) \union k2, Names)
    BY <2>1, <2>2, PiecesJoined
  <2>6. Piece(Words(w1) \o Opt(o.model # "", Words(w2)) \o Opt(o.profile # "", p3),
              Elements(w1) \union k2 \union k3, Names)
    BY <2>5, <2>3, PiecesJoined
  <2> QED BY <2>6, <2>4, PiecesJoined
<1>8. CommandParts(pre, keys, o, Names)
  <2> HIDE DEF pre
  <2> QED BY <1>2, <1>3, <1>7 DEF CommandParts, NoMessage, Resumed
<1>9. CommandParts(pre, keys, o, Names)
      /\ pre = Words(<<"codex", "exec", "resume", o.session, "--json", "-o", "reply">>)
               \o Opt(o.model # "", Words(<<"-m", o.model>>))
               \o Opt(o.profile # "", <<Word("-c"), Setting("model_provider", o.profile)>>)
               \o Opt(o.workspace # "", <<Word("-c"), Setting("trusted", o.workspace)>>)
  <2> HIDE DEF keys
  <2> QED BY <1>8 DEF w1, w2, p3, p4
<1> HIDE DEF pre, keys
<1> QED BY <1>9

(* A command of three parts: the adapter's own, the flags, and the message *)
(* behind a separator.                                                     *)
Shape(c, pre, flags, y, m, e) ==
  /\ Len(c) - Len(flags) - 2 = Len(pre) /\ Len(pre) \in Nat
  /\ \A i \in DOMAIN flags : c[Len(pre) + i] = flags[i]
  /\ \A i \in 1..Len(pre) : c[i] = pre[i]
  /\ c[Len(c)] = y /\ {i \in DOMAIN c : c[i].key = m} = {Len(c)}
  /\ e \notin {c[i].key : i \in DOMAIN c}
  /\ Keys(pre) \subseteq {c[i].key : i \in DOMAIN c}

LEMMA FourParts ==
  ASSUME NEW p \in Nat, NEW f \in Nat, NEW i \in Nat, i <= p + f + 2
  PROVE  i <= p \/ (p < i /\ i <= p + f) \/ i = p + f + 1 \/ i = p + f + 2
OBVIOUS

LEMMA CommandShape ==
  ASSUME NEW S, NEW pre \in Seq(S), NEW flags \in Seq(S), NEW x \in S, NEW y \in S, NEW m, NEW e,
         y.key = m, x.key # m, x.key # e, m # e,
         \A i \in 1..Len(pre) : pre[i].key # m /\ pre[i].key # e,
         \A i \in 1..Len(flags) : flags[i].key # m /\ flags[i].key # e
  PROVE  Shape(pre \o flags \o <<x, y>>, pre, flags, y, m, e)
<1> DEFINE s == pre \o flags
           t == <<x, y>>
           c == pre \o flags \o <<x, y>>
           p == Len(pre)
           f == Len(flags)
<1>1. /\ s \in Seq(S) /\ Len(s) = p + f /\ p \in Nat /\ f \in Nat
      /\ \A i \in 1..p : s[i] = pre[i]
      /\ \A i \in 1..f : s[p + i] = flags[i]
  BY Joined
<1>2. t \in Seq(S) /\ Len(t) = 2 /\ t[1] = x /\ t[2] = y
  OBVIOUS
<1>3. c = s \o t
  OBVIOUS
<1> HIDE DEF s, t, c
<1>4. /\ c \in Seq(S) /\ Len(c) = Len(s) + Len(t)
      /\ \A i \in 1..Len(s) : c[i] = s[i]
      /\ \A i \in 1..Len(t) : c[Len(s) + i] = t[i]
  <2>1. s \in Seq(S) /\ t \in Seq(S)
    BY <1>1, <1>2
  <2>2. /\ s \o t \in Seq(S) /\ Len(s \o t) = Len(s) + Len(t)
        /\ \A i \in 1..Len(s) : (s \o t)[i] = s[i]
        /\ \A i \in 1..Len(t) : (s \o t)[Len(s) + i] = t[i]
    BY <2>1, Joined
  <2> QED BY <1>3, <2>2
<1>5. Len(c) = p + f + 2 /\ Len(c) \in Nat /\ DOMAIN c = 1..Len(c)
  BY <1>1, <1>2, <1>4
<1>6. \A i \in 1..p : i \in DOMAIN c /\ c[i] = pre[i]
  BY <1>1, <1>4, <1>5
<1>7. \A i \in 1..f : p + i \in DOMAIN c /\ c[p + i] = flags[i]
  <2> TAKE i \in 1..f
  <2>1. p + i \in 1..Len(s)
    BY <1>1
  <2> QED BY <1>1, <1>4, <1>5, <2>1
<1>8. c[p + f + 1] = x /\ c[p + f + 2] = y
  <2>1. 1 \in 1..Len(t) /\ 2 \in 1..Len(t)
    BY <1>2
  <2> QED BY <1>1, <1>2, <1>4, <2>1
<1>9. ASSUME NEW i \in DOMAIN c
      PROVE  (c[i].key = m <=> i = Len(c)) /\ c[i].key # e
  <2>1. CASE i <= p
    <3>1. i \in 1..p /\ i # Len(c)
      BY <1>1, <1>5, <2>1
    <3> QED BY <1>6, <3>1
  <2>2. CASE p < i /\ i <= p + f
    <3>1. i - p \in 1..f /\ p + (i - p) = i /\ i # Len(c)
      BY <1>1, <1>5, <2>2
    <3> QED BY <1>7, <3>1
  <2>3. CASE i = p + f + 1
    <3>1. i # Len(c)
      BY <1>1, <1>5, <2>3
    <3> QED BY <1>8, <2>3, <3>1
  <2>4. CASE i = p + f + 2
    BY <1>5, <1>8, <2>4
  <2>5. i \in Nat /\ i <= p + f + 2
    BY <1>1, <1>5
  <2>6. i <= p \/ (p < i /\ i <= p + f) \/ i = p + f + 1 \/ i = p + f + 2
    <3>1. p \in Nat /\ f \in Nat
      BY <1>1
    <3> QED BY <2>5, <3>1, FourParts
  <2> QED BY <2>1, <2>2, <2>3, <2>4, <2>6
<1>10. Len(c) - f - 2 = p /\ Len(c) \in DOMAIN c /\ c[Len(c)] = y
  BY <1>1, <1>5, <1>8
<1>11. {i \in DOMAIN c : c[i].key = m} = {Len(c)}
  BY <1>9, <1>10
<1>12. e \notin {c[i].key : i \in DOMAIN c}
  BY <1>9
<1>13. Keys(pre) \subseteq {c[i].key : i \in DOMAIN c}
  BY <1>6 DEF Keys, Elements
<1>14. DOMAIN flags = 1..f
  OBVIOUS
<1>15. Shape(c, pre, flags, y, m, e)
  BY <1>1, <1>6, <1>7, <1>10, <1>11, <1>12, <1>13, <1>14 DEF Shape
<1> QED BY <1>15 DEF c

(* Where one of the keys stands.                                           *)
Naming(s, K) == {i \in 1..Len(s) : s[i].key \in K}

(* What the second half of a codex command without a session is: a sandbox *)
(* exactly if the flags name none.                                         *)
SandboxOnce(pre, flags) ==
  Cardinality(Naming(pre, {"-s", "--sandbox"})) = IF HasSandboxFlag(flags) THEN 0 ELSE 1

LEMMA SandboxAdded ==
  ASSUME NEW S, NEW pre \in Seq(S), NEW x \in S, NEW y \in S, NEW K,
         \A i \in 1..Len(pre) : pre[i].key \notin K, x.key \in K, y.key \notin K
  PROVE  /\ Cardinality(Naming(pre, K)) = 0
         /\ Cardinality(Naming(pre \o <<x, y>>, K)) = 1
<1> DEFINE c == pre \o <<x, y>>
           p == Len(pre)
<1>1. <<x, y>> \in Seq(S) /\ Len(<<x, y>>) = 2 /\ <<x, y>>[1] = x /\ <<x, y>>[2] = y /\ p \in Nat
  OBVIOUS
<1>2. Len(c) = p + 2 /\ (\A i \in 1..p : c[i] = pre[i]) /\ c[p + 1] = x /\ c[p + 2] = y
  BY <1>1, Joined
<1> HIDE DEF c
<1>3. \A i \in 1..Len(c) : c[i].key \in K <=> i = p + 1
  <2> TAKE i \in 1..Len(c)
  <2>1. CASE i \in 1..p
    BY <1>1, <1>2, <2>1
  <2>2. CASE i = p + 1
    BY <1>2, <2>2
  <2>3. CASE i = p + 2
    BY <1>1, <1>2, <2>3
  <2> QED BY <1>1, <1>2, <2>1, <2>2, <2>3
<1>4. {i \in 1..Len(c) : c[i].key \in K} = {p + 1}
  BY <1>1, <1>2, <1>3
<1>5. {i \in 1..Len(pre) : pre[i].key \in K} = {}
  OBVIOUS
<1> QED BY <1>4, <1>5, FS_Singleton, FS_EmptySet DEF c, Naming

LEMMA PieceKeys ==
  ASSUME NEW Names, NEW s, NEW keys, Piece(s, keys, Names)
  PROVE  s \in Seq(Arguments(Names)) /\ \A i \in 1..Len(s) : s[i].key \in keys
BY DEF Piece, Keys, Elements

LEMMA TwoWords ==
  ASSUME NEW a, NEW b
  PROVE  Words(<<a, b>>) = <<Word(a), Word(b)>>
<1>1. DOMAIN <<a, b>> = 1..2 /\ <<a, b>>[1] = a /\ <<a, b>>[2] = b
  OBVIOUS
<1>2. DOMAIN <<Word(a), Word(b)>> = 1..2 /\ <<Word(a), Word(b)>>[1] = Word(a) /\ <<Word(a), Word(b)>>[2] = Word(b)
  OBVIOUS
<1>3. <<Word(a), Word(b)>> = [i \in 1..2 |-> IF i = 1 THEN Word(a) ELSE Word(b)]
  OBVIOUS
<1>4. Words(<<a, b>>) = [i \in 1..2 |-> Word(<<a, b>>[i])]
  BY <1>1 DEF Words
<1>5. \A i \in 1..2 : Word(<<a, b>>[i]) = IF i = 1 THEN Word(a) ELSE Word(b)
  <2> TAKE i \in 1..2
  <2>1. CASE i = 1
    BY <2>1
  <2>2. CASE i = 2
    BY <2>2
  <2> QED BY <2>1, <2>2
<1> QED BY <1>3, <1>4, <1>5

LEMMA WordKey == \A k : Word(k).key = k
BY DEF Word

LEMMA CodexParts ==
  ASSUME NEW Names, Vocabulary \subseteq Names, NEW o \in Options(Names), NEW flags, NoMessage(o), NoSandbox(o)
  PROVE  \E pre, keys : /\ CommandParts(pre, keys, o, Names)
                        /\ CodexCommand(o, flags) = pre \o flags \o Words(<<"--", "MESSAGE">>)
                        /\ ~Resumed(o) => SandboxOnce(pre, flags)
<1>1. CASE Resumed(o)
  <2>1. PICK pre, keys : /\ CommandParts(pre, keys, o, Names)
                        /\ pre = Words(<<"codex", "exec", "resume", o.session, "--json", "-o", "reply">>)
                                  \o Opt(o.model # "", Words(<<"-m", o.model>>))
                                  \o Opt(o.profile # "", <<Word("-c"), Setting("model_provider", o.profile)>>)
                                  \o Opt(o.workspace # "", <<Word("-c"), Setting("trusted", o.workspace)>>)
    BY <1>1, CodexResumed
  <2>2. CodexCommand(o, flags) = pre \o flags \o Words(<<"--", "MESSAGE">>)
    BY <1>1, <2>1 DEF CodexCommand, Resumed
  <2> QED BY <1>1, <2>1, <2>2
<1>2. CASE ~Resumed(o)
  <2>1. PICK pre, keys : /\ Piece(pre, keys, Names) /\ "MESSAGE" \notin keys /\ "" \notin keys
                        /\ keys \intersect {"-s", "--sandbox"} = {}
                        /\ pre = Words(<<"codex", "exec", "--json", "--skip-git-repo-check", "-o", "reply">>)
                                  \o Opt(o.model # "", Words(<<"-m", o.model>>))
                                  \o Opt(o.profile # "", Words(<<"-p", o.profile>>))
                                  \o Opt(o.workspace # "", Words(<<"-C", o.workspace>>))
    BY CodexFirst
  <2> DEFINE w == Words(<<"-s", "workspace-write">>)
             has == HasSandboxFlag(flags)
             full == pre \o Opt(~has, w)
             all == keys \union (IF ~has THEN {"-s", "workspace-write"} ELSE {})
  <2>2. Piece(w, {"-s", "workspace-write"}, Names)
    <3>1. <<"-s", "workspace-write">> \in Seq(Names) /\ Elements(<<"-s", "workspace-write">>) = {"-s", "workspace-write"}
      <4>1. {"-s", "workspace-write"} \subseteq Names
        BY DEF Vocabulary
      <4> QED BY <4>1 DEF Elements
    <3> QED BY <3>1, PieceOfWords
  <2>3. Piece(full, all, Names)
    <3>1. has \in BOOLEAN
      BY DEF HasSandboxFlag
    <3>2. Piece(Opt(~has, w), IF ~has THEN {"-s", "workspace-write"} ELSE {}, Names)
      <4> HIDE DEF has, w
      <4> QED BY <2>2, <3>1, PieceIfThere
    <3>3. Piece(pre, keys, Names)
      BY <2>1
    <3> HIDE DEF has, w
    <3> QED BY <3>2, <3>3, PiecesJoined
  <2>4. CommandParts(full, all, o, Names)
    <3>1. "MESSAGE" \notin all /\ "" \notin all
      BY <2>1
    <3> HIDE DEF full, all
    <3> QED BY <1>2, <2>3, <3>1 DEF CommandParts, Resumed
  <2>5. CodexCommand(o, flags) = full \o flags \o Words(<<"--", "MESSAGE">>)
    <3> HIDE DEF has
    <3> QED BY <1>2, <2>1 DEF CodexCommand, Resumed, has
  <2>6. SandboxOnce(full, flags)
    <3> DEFINE K == {"-s", "--sandbox"}
    <3>1. \A i \in 1..Len(pre) : pre[i].key \notin K
      <4>1. \A i \in 1..Len(pre) : pre[i].key \in keys
        BY ZenonT(40), <2>1, PieceKeys
      <4>2. keys \intersect K = {}
        BY <2>1
      <4> HIDE DEF K
      <4> QED BY <4>1, <4>2
    <3> DEFINE x == Word("-s")
               y == Word("workspace-write")
    <3>2. w = <<x, y>>
      BY TwoWords
    <3>8. x.key \in K /\ y.key \notin K
      <4>1. x.key = "-s" /\ y.key = "workspace-write"
        BY WordKey
      <4> QED BY <4>1
    <3>3. x \in Arguments(Names) /\ y \in Arguments(Names)
      <4>1. "-s" \in Names /\ "workspace-write" \in Names
        BY DEF Vocabulary
      <4> QED BY <4>1, WordIs
    <3>4. pre \in Seq(Arguments(Names))
      BY <2>1 DEF Piece
    <3> HIDE DEF K, x, y
    <3>5. /\ Cardinality(Naming(pre, K)) = 0
          /\ Cardinality(Naming(pre \o w, K)) = 1
      <4>1. /\ Cardinality(Naming(pre, K)) = 0
            /\ Cardinality(Naming(pre \o <<x, y>>, K)) = 1
        BY <3>1, <3>8, <3>3, <3>4, SandboxAdded
      <4> HIDE DEF w
      <4> QED BY <4>1, <3>2
    <3>6. full = IF has THEN pre ELSE pre \o w
      <4> HIDE DEF has, w
      <4>1. pre \o <<>> = pre
        BY <3>4
      <4> QED BY <4>1 DEF Opt
    <3> HIDE DEF full, has, w
    <3>7. Cardinality(Naming(full, K)) = IF has THEN 0 ELSE 1
      BY <3>5, <3>6
    <3> QED BY <3>7 DEF SandboxOnce, K, has
  <2> HIDE DEF full, all
  <2> QED BY <2>4, <2>5, <2>6
<1> QED BY <1>1, <1>2

(* No argument among the flags is taken for the message or for no word.    *)
FlagsNamed(flags) == \A i \in 1..Len(flags) : flags[i].key # "MESSAGE" /\ flags[i].key # ""

(* What is said of a command whose own words are `pre`.                    *)
WholeWith(c, pre, flags, session) ==
  /\ Len(c) - Len(flags) - 2 = Len(pre) /\ Len(pre) \in Nat
  /\ \A i \in DOMAIN flags : c[Len(pre) + i] = flags[i]
  /\ \A i \in 1..Len(pre) : c[i] = pre[i]
  /\ c[Len(c)] = Word("MESSAGE") /\ {i \in DOMAIN c : c[i].key = "MESSAGE"} = {Len(c)}
  /\ session # "" <=> session \in {c[i].key : i \in DOMAIN c}

LEMMA PartsAreWhole ==
  ASSUME NEW Names, Vocabulary \subseteq Names, NEW o, NEW flags \in Seq(Arguments(Names)),
         FlagsNamed(flags), NEW last \in {"--", "-p", "-t"}, NEW pre, NEW keys, CommandParts(pre, keys, o, Names)
  PROVE  WholeWith(pre \o flags \o Words(<<last, "MESSAGE">>), pre, flags, o.session)
<1> DEFINE x == Word(last)
           y == Word("MESSAGE")
           m == "MESSAGE"
           e == ""
           c == pre \o flags \o <<x, y>>
<1>1. pre \in Seq(Arguments(Names)) /\ (\A i \in 1..Len(pre) : pre[i].key \in keys) /\ Keys(pre) = keys
  BY PieceKeys DEF CommandParts, Piece
<1>2. m \notin keys /\ e \notin keys /\ (o.session # e => o.session \in keys)
  BY DEF CommandParts
<1>3. x \in Arguments(Names) /\ y \in Arguments(Names)
  <2>1. last \in Names /\ "MESSAGE" \in Names
    BY DEF Vocabulary
  <2> QED BY <2>1, WordIs
<1>4. y.key = m /\ x.key # m /\ x.key # e /\ m # e
  <2>1. x.key = last /\ y.key = m
    BY WordKey
  <2> QED BY <2>1
<1>5. \A i \in 1..Len(flags) : flags[i].key # m /\ flags[i].key # e
  BY DEF FlagsNamed
<1>6. Words(<<last, "MESSAGE">>) = <<x, y>>
  BY TwoWords
<1>7. y = Word(m)
  OBVIOUS
<1> HIDE DEF x, y, m, e
<1>8. \A i \in 1..Len(pre) : pre[i].key # m /\ pre[i].key # e
  BY <1>1, <1>2
<1>9. Shape(c, pre, flags, y, m, e)
  BY <1>1, <1>3, <1>4, <1>5, <1>8, CommandShape
<1> DEFINE all == {c[i].key : i \in DOMAIN c}
<1> HIDE DEF c
<1>10. o.session # e <=> o.session \in all
  <2>1. e \notin all /\ keys \subseteq all
    BY <1>1, <1>9 DEF Shape
  <2> HIDE DEF all
  <2> QED BY <1>2, <2>1
<1>11. WholeWith(c, pre, flags, o.session)
  BY <1>7, <1>9, <1>10 DEF WholeWith, Shape, m, e
<1> QED BY <1>6, <1>11 DEF c

LEMMA EveryCommandIsWhole ==
  ASSUME NEW Names, Vocabulary \subseteq Names, NEW o \in Options(Names), NEW flags \in Seq(Arguments(Names)),
         FlagsNamed(flags), NoMessage(o), Stated(o), NoSandbox(o), NEW a \in SomeAdapters
  PROVE  \E pre : /\ WholeWith(Command(a, o, flags), pre, flags, o.session)
                  /\ a = "codex" /\ ~Resumed(o) => SandboxOnce(pre, flags)
<1> DEFINE W(last) == Words(<<last, "MESSAGE">>)
           Fine(c, last) == \E pre, keys : CommandParts(pre, keys, o, Names) /\ c = pre \o flags \o W(last)
<1>1. ASSUME NEW c, NEW last \in {"--", "-p", "-t"}, Fine(c, last)
      PROVE  \E pre : WholeWith(c, pre, flags, o.session)
  BY <1>1, PartsAreWhole
<1>2. /\ "MESSAGE" \notin {o.session} /\ "MESSAGE" \notin {o.model, o.session}
      /\ "MESSAGE" \notin {o.binary, o.session} /\ "MESSAGE" \notin {o.model, o.profile, o.session}
  BY DEF NoMessage
<1>3. Fine(ClaudeCommand(o, flags), "--")
  BY <1>2, ClaudeParts
<1>4. Fine(CopilotCommand(o, flags), "-p")
  BY <1>2, CopilotParts
<1>5. Fine(CursorCommand(o, flags), "--")
  BY <1>2, CursorParts
<1>6. Fine(GeminiCommand(o, flags), "-p")
  BY <1>2, GeminiParts
<1>7. Fine(GooseCommand(o, flags), "-t")
  BY <1>2, GooseParts
<1>8. Fine(OpenCodeCommand(o, flags), "--")
  BY <1>2, OpenCodeParts
<1>9. \E pre : WholeWith(CodexCommand(o, flags), pre, flags, o.session) /\ (~Resumed(o) => SandboxOnce(pre, flags))
  <2> DEFINE Parts(pre, keys) == CommandParts(pre, keys, o, Names)
             Is(pre) == CodexCommand(o, flags) = pre \o flags \o W("--")
             Once(pre) == ~Resumed(o) => SandboxOnce(pre, flags)
  <2>1. \E pre, keys : Parts(pre, keys) /\ Is(pre) /\ Once(pre)
    BY CodexParts
  <2>2. \A pre, keys : Parts(pre, keys) /\ Is(pre) => WholeWith(CodexCommand(o, flags), pre, flags, o.session)
    BY PartsAreWhole
  <2>3. \E pre : WholeWith(CodexCommand(o, flags), pre, flags, o.session) /\ Once(pre)
    <3> HIDE DEF Parts, Is, Once
    <3> QED BY <2>1, <2>2
  <2> QED BY <2>3
<1> HIDE DEF Fine
<1>10. CASE a = "codex"
  BY <1>9, <1>10 DEF Command
<1>11. CASE a = "claude"
  <2>1. Command(a, o, flags) = ClaudeCommand(o, flags)
    BY <1>11 DEF Command
  <2> QED BY <1>1, <1>3, <1>11, <2>1
<1>12. CASE a = "copilot"
  <2>1. Command(a, o, flags) = CopilotCommand(o, flags)
    BY <1>12 DEF Command
  <2> QED BY <1>1, <1>4, <1>12, <2>1
<1>13. CASE a = "cursor"
  <2>1. Command(a, o, flags) = CursorCommand(o, flags)
    BY <1>13 DEF Command
  <2> QED BY <1>1, <1>5, <1>13, <2>1
<1>14. CASE a = "gemini"
  <2>1. Command(a, o, flags) = GeminiCommand(o, flags)
    BY <1>14 DEF Command
  <2> QED BY <1>1, <1>6, <1>14, <2>1
<1>15. CASE a = "goose"
  <2>1. Command(a, o, flags) = GooseCommand(o, flags)
    BY <1>15 DEF Command
  <2> QED BY <1>1, <1>7, <1>15, <2>1
<1>16. CASE a = "opencode"
  <2>1. Command(a, o, flags) = OpenCodeCommand(o, flags)
    BY <1>16 DEF Command
  <2> QED BY <1>1, <1>8, <1>16, <2>1
<1> QED BY <1>10, <1>11, <1>12, <1>13, <1>14, <1>15, <1>16 DEF SomeAdapters

LEMMA SandboxCounted ==
  ASSUME NEW c, NEW pre, NEW flags, NEW session, WholeWith(c, pre, flags, session), SandboxOnce(pre, flags)
  PROVE  LET own == Len(c) - Len(flags) - 2
         IN  Cardinality({i \in 1..own : c[i].key \in {"-s", "--sandbox"}}) = IF HasSandboxFlag(flags) THEN 0 ELSE 1
<1> DEFINE own == Len(c) - Len(flags) - 2
           K == {"-s", "--sandbox"}
<1>1. own = Len(pre) /\ \A i \in 1..Len(pre) : c[i] = pre[i]
  BY DEF WholeWith
<1>2. Cardinality(Naming(pre, K)) = IF HasSandboxFlag(flags) THEN 0 ELSE 1
  BY DEF SandboxOnce
<1> HIDE DEF own, K
<1>3. {i \in 1..own : c[i].key \in K} = Naming(pre, K)
  BY <1>1 DEF Naming
<1>4. Cardinality({i \in 1..own : c[i].key \in K}) = IF HasSandboxFlag(flags) THEN 0 ELSE 1
  BY <1>2, <1>3
<1> QED BY <1>4 DEF own, K

(* Whatever an adapter is configured with and whatever flags it is given,  *)
(* its command ends in one message, the flags stand unchanged in front of  *)
(* that, it resumes exactly the session there is, and a first turn of      *)
(* codex names a sandbox exactly if the flags name none (build_command).   *)
THEOREM AnyCommandIsWhole ==
  ASSUME NEW Names, Vocabulary \subseteq Names,
         asked.family = "command" =>
           /\ asked.adapter \in SomeAdapters /\ asked.options \in Options(Names)
           /\ asked.flags \in Seq(Arguments(Names)) /\ FlagsNamed(asked.flags)
           /\ NoMessage(asked.options) /\ Stated(asked.options) /\ NoSandbox(asked.options)
           /\ answer = [command |-> Command(asked.adapter, asked.options, asked.flags)]
  PROVE  CommandWhole
<1> SUFFICES ASSUME asked.family = "command" PROVE CommandWhole
  BY DEF CommandWhole
<1> DEFINE a == asked.adapter
           o == asked.options
           flags == asked.flags
           c == answer.command
<1>1. c = Command(a, o, flags)
  OBVIOUS
<1>2. a \in SomeAdapters /\ o \in Options(Names) /\ flags \in Seq(Arguments(Names)) /\ FlagsNamed(flags)
      /\ NoMessage(o) /\ Stated(o) /\ NoSandbox(o)
  OBVIOUS
<1> HIDE DEF a, o, flags, c
<1>3. PICK pre : /\ WholeWith(c, pre, flags, o.session)
                 /\ a = "codex" /\ ~Resumed(o) => SandboxOnce(pre, flags)
  BY <1>1, <1>2, EveryCommandIsWhole
<1> DEFINE own == Len(c) - Len(flags) - 2
<1> DEFINE Once == Cardinality({i \in 1..own : c[i].key \in {"-s", "--sandbox"}}) = IF HasSandboxFlag(flags) THEN 0 ELSE 1
<1>4. a = "codex" /\ o.session = "" => Once
  <2>1. a = "codex" /\ o.session = "" => SandboxOnce(pre, flags)
    BY <1>3 DEF Resumed
  <2>2. SandboxOnce(pre, flags) => Once
    BY <1>3, SandboxCounted
  <2> HIDE DEF Once
  <2> QED BY <2>1, <2>2
<1>5. /\ \A i \in DOMAIN flags : c[own + i] = flags[i]
      /\ c[Len(c)] = Word("MESSAGE") /\ {i \in DOMAIN c : c[i].key = "MESSAGE"} = {Len(c)}
      /\ o.session # "" <=> o.session \in {c[i].key : i \in DOMAIN c}
  BY <1>3 DEF WholeWith
<1> QED BY <1>4, <1>5 DEF CommandWhole, a, o, flags, c

LEMMA FirstTwo ==
  ASSUME NEW S, NEW s \in Seq(S), Len(s) >= 2, NEW t \in Seq(S)
  PROVE  s \o t \in Seq(S) /\ Len(s \o t) >= 2 /\ (s \o t)[1] = s[1] /\ (s \o t)[2] = s[2]
<1>1. 1 \in 1..Len(s) /\ 2 \in 1..Len(s)
  OBVIOUS
<1> QED BY <1>1, Joined

Pieces(a, b, c, d, e, f, S) ==
  /\ a \in Seq(S) /\ b \in Seq(S) /\ c \in Seq(S) /\ d \in Seq(S) /\ e \in Seq(S) /\ f \in Seq(S)
  /\ Len(a) = 1 /\ Len(b) \in {0, 1} /\ Len(c) > 0

StartsAs(a, b, c, d, e, f) ==
  /\ (a \o b \o c \o d \o e \o f)[1] = a[1]
  /\ (a \o b \o c \o d \o e \o f)[2] = IF Len(b) = 1 THEN b[1] ELSE c[1]

LEMMA TwoInFront ==
  ASSUME NEW S, NEW a, NEW b, NEW c, NEW d, NEW e, NEW f, Pieces(a, b, c, d, e, f, S)
  PROVE  StartsAs(a, b, c, d, e, f)
<1> DEFINE t == a \o b
           u == t \o c
           v == u \o d
           w == v \o e
<1>1. t \in Seq(S) /\ Len(t) = 1 + Len(b) /\ t[1] = a[1] /\ (Len(b) = 1 => t[2] = b[1])
  <2>1. a \in Seq(S) /\ b \in Seq(S)
    BY DEF Pieces
  <2>2. t \in Seq(S) /\ Len(t) = Len(a) + Len(b)
        /\ (\A i \in 1..Len(a) : t[i] = a[i]) /\ (\A i \in 1..Len(b) : t[Len(a) + i] = b[i])
    BY <2>1, Joined
  <2> HIDE DEF t
  <2>4. Len(a) = 1
    BY DEF Pieces
  <2>3. Len(a) = 1 /\ 1 \in 1..Len(a) /\ (Len(b) = 1 => 1 \in 1..Len(b))
    BY <2>4
  <2> QED BY <2>2, <2>3
<1> HIDE DEF t
<1>2. u \in Seq(S) /\ Len(u) >= 2 /\ u[1] = a[1] /\ u[2] = IF Len(b) = 1 THEN b[1] ELSE c[1]
  <2>1. t \in Seq(S) /\ c \in Seq(S)
    BY <1>1 DEF Pieces
  <2>2. u \in Seq(S) /\ Len(u) = Len(t) + Len(c)
        /\ (\A i \in 1..Len(t) : u[i] = t[i]) /\ (\A i \in 1..Len(c) : u[Len(t) + i] = c[i]) /\ Len(c) \in Nat
    BY <2>1, Joined
  <2> HIDE DEF u
  <2>3. 1 \in 1..Len(t) /\ 1 \in 1..Len(c) /\ Len(b) \in {0, 1}
    BY <1>1, <2>2 DEF Pieces
  <2>4. CASE Len(b) = 1
    <3>1. 2 \in 1..Len(t)
      BY <1>1, <2>4
    <3> QED BY <1>1, <2>2, <2>3, <2>4, <3>1
  <2>5. CASE Len(b) = 0
    <3>1. Len(t) = 1
      BY <1>1, <2>5
    <3> QED BY <1>1, <2>2, <2>3, <2>5, <3>1
  <2> QED BY <2>3, <2>4, <2>5
<1> HIDE DEF u
<1>3. v \in Seq(S) /\ Len(v) >= 2 /\ v[1] = u[1] /\ v[2] = u[2]
  <2>1. u \in Seq(S) /\ Len(u) >= 2 /\ d \in Seq(S)
    BY <1>2 DEF Pieces
  <2> QED BY <2>1, FirstTwo
<1> HIDE DEF v
<1>4. w \in Seq(S) /\ Len(w) >= 2 /\ w[1] = v[1] /\ w[2] = v[2]
  <2>1. v \in Seq(S) /\ Len(v) >= 2 /\ e \in Seq(S)
    BY <1>3 DEF Pieces
  <2> QED BY <2>1, FirstTwo
<1> HIDE DEF w
<1>5. (w \o f)[1] = w[1] /\ (w \o f)[2] = w[2]
  <2>1. w \in Seq(S) /\ Len(w) >= 2 /\ f \in Seq(S)
    BY <1>4 DEF Pieces
  <2> QED BY <2>1, FirstTwo
<1>6. (w \o f)[1] = a[1] /\ (w \o f)[2] = IF Len(b) = 1 THEN b[1] ELSE c[1]
  BY <1>2, <1>3, <1>4, <1>5
<1> QED BY <1>6 DEF w, v, u, t, StartsAs

(* The IDE's binary alone is given the subcommand.                         *)
LEMMA CursorStarts ==
  ASSUME NEW Names, Vocabulary \subseteq Names, NEW o \in Options(Names), NEW flags \in Seq(Arguments(Names))
  PROVE  /\ CursorCommand(o, flags)[1].key = o.binary
         /\ CursorCommand(o, flags)[2].key = IF o.binary = "cursor" THEN "agent" ELSE "-p"
<1> DEFINE k1 == <<o.binary>>
           k2 == <<"agent">>
           k3 == <<"-p", "--output-format", "stream-json", "--force", "--approve-mcps">>
           k4 == <<"--resume", o.session>>
           k5 == <<"--", "MESSAGE">>
           a == Words(k1)
           b == Opt(o.binary = "cursor", Words(k2))
           c == Words(k3)
           d == Opt(o.session # "", Words(k4))
           f == Words(k5)
           g == flags
           S == Arguments(Names)
<1>1. o.binary \in Names /\ o.session \in Names
  BY DEF Options
<1>2. k1 \in Seq(Names) /\ Len(k1) = 1 /\ k1[1] = o.binary
  BY <1>1
<1>3. k2 \in Seq(Names) /\ Len(k2) = 1 /\ k2[1] = "agent"
  <2>1. "agent" \in Names
    BY DEF Vocabulary
  <2> QED BY <2>1
<1>4. k3 \in Seq(Names) /\ Len(k3) = 5 /\ k3[1] = "-p"
  <2>1. {"-p", "--output-format", "stream-json", "--force", "--approve-mcps"} \subseteq Names
    BY DEF Vocabulary
  <2> QED BY <2>1
<1>5. k4 \in Seq(Names) /\ k5 \in Seq(Names)
  <2>1. "--resume" \in Names /\ "--" \in Names /\ "MESSAGE" \in Names
    BY DEF Vocabulary
  <2> QED BY <1>1, <2>1
<1>6. CursorCommand(o, flags) = a \o b \o c \o d \o g \o f
  BY DEF CursorCommand
<1> HIDE DEF k1, k2, k3, k4, k5
<1>7. a \in Seq(S) /\ Len(a) = 1 /\ a[1].key = o.binary
  BY <1>2, WordsAre
<1>8. Words(k2) \in Seq(S) /\ Len(Words(k2)) = 1 /\ Words(k2)[1].key = k2[1]
  BY <1>3, WordsAre
<1>9. c \in Seq(S) /\ Len(c) > 0 /\ c[1].key = k3[1]
  BY <1>4, WordsAre
<1>10. d \in Seq(S) /\ f \in Seq(S)
  <2>1. Words(k4) \in Seq(S) /\ f \in Seq(S)
    BY <1>5, WordsAre
  <2> QED BY <2>1, OptIs
<1>11. b \in Seq(S) /\ Len(b) = (IF o.binary = "cursor" THEN 1 ELSE 0) /\ (o.binary = "cursor" => b[1].key = k2[1])
  <2>1. b \in Seq(S) /\ (o.binary = "cursor" => b = Words(k2)) /\ (o.binary # "cursor" => b = <<>>)
    BY <1>8, OptIs
  <2> HIDE DEF b
  <2> QED BY <1>8, <2>1
<1> DEFINE p == o.binary = "cursor"
<1> HIDE DEF a, b, c, d, f
<1>16. g \in Seq(S) /\ (Len(b) = 1 \/ Len(b) = 0)
  BY <1>11
<1> HIDE DEF S, p, g
<1>12. /\ (a \o b \o c \o d \o g \o f)[1] = a[1]
       /\ (a \o b \o c \o d \o g \o f)[2] = IF Len(b) = 1 THEN b[1] ELSE c[1]
  <2>1. Pieces(a, b, c, d, g, f, S)
    BY <1>7, <1>9, <1>10, <1>11, <1>16 DEF Pieces
  <2>2. StartsAs(a, b, c, d, g, f)
    BY <2>1, TwoInFront
  <2> QED BY <2>2 DEF StartsAs
<1>13. Len(b) = (IF p THEN 1 ELSE 0) /\ (p => b[1].key = k2[1])
  BY <1>11 DEF p
<1>14. (a \o b \o c \o d \o g \o f)[2].key = IF p THEN k2[1] ELSE k3[1]
  BY <1>9, <1>12, <1>13
<1>15. CursorCommand(o, flags)[1].key = o.binary /\ CursorCommand(o, flags)[2].key = IF p THEN k2[1] ELSE k3[1]
  BY <1>6, <1>7, <1>12, <1>14
<1> QED BY <1>3, <1>4, <1>15 DEF p

(* What is said of the binary, of the signs of a login, and of the command.*)
Found(b, onPath, installed) == (b # "" => b \in onPath \union installed) /\ (onPath # {} => b \in onPath)
BinaryStarts(c, b) == c # <<>> => c[1].key = b /\ (c[2].key = "agent" <=> b = "cursor")
Reported(q, r) ==
  /\ r.available => r.info.path \in q.onPath \union q.installed
  /\ r.info.version # "" => r.info.path \in q.onPath \union q.installed
  /\ q.onPath # {} => r.info.path \in q.onPath
  /\ AuthSeen(r.info.auth, q.set, q.existing)

LEMMA CandidateIsFound ==
  ASSUME NEW a, NEW onPath, onPath \subseteq ToSet(Candidates(a)), NEW installed, installed \subseteq ToSet(Candidates(a)),
         NEW b, b = ResolveBinary(Candidates(a), onPath, installed)
  PROVE  Found(b, onPath, installed)
<1> DEFINE s == Candidates(a)
           S == {"cursor-agent", "cursor", "agent", a}
           on == ToSet(s) \intersect onPath
           in == ToSet(s) \intersect installed
<1>1. s \in Seq(S)
  <2>1. <<"cursor-agent", "cursor", "agent">> \in Seq(S) /\ <<a>> \in Seq(S)
    OBVIOUS
  <2> HIDE DEF S
  <2> QED BY <2>1 DEF Candidates
<1>2. on = onPath /\ in = installed
  OBVIOUS
<1> HIDE DEF S, s
<1>3. (b # "" => b \in on \union in) /\ (on # {} => b \in on)
  BY <1>1, ResolvedIsFound DEF s
<1> QED BY <1>2, <1>3 DEF Found

(* The answer to a question about binaries, as AskBinary gives it.         *)
BinaryCommand(a, b, o, flags) == IF a # "cursor" \/ b = "" THEN <<>> ELSE Command(a, o, flags)
BinaryAnswered(q, r, envs, paths, starts, banner, probe, o, flags) ==
  LET b == ResolveBinary(Candidates(q.adapter), q.onPath, q.installed)
  IN  /\ q.onPath \subseteq ToSet(Candidates(q.adapter)) /\ q.installed \subseteq ToSet(Candidates(q.adapter))
      /\ q.set \subseteq ToSet(envs) /\ q.existing \subseteq ToSet(paths) /\ o.binary = b
      /\ r = [available |-> CheckAvailable(q.adapter, b, starts, banner),
              info |-> RuntimeInfo(b, probe, DetectAuthSignals(envs, paths, q.set, q.existing)),
              command |-> BinaryCommand(q.adapter, b, o, flags)]

LEMMA BinaryCommandStarts ==
  ASSUME NEW Names, Vocabulary \subseteq Names, NEW o \in Options(Names), NEW flags \in Seq(Arguments(Names)),
         NEW a, NEW b, o.binary = b
  PROVE  BinaryStarts(BinaryCommand(a, b, o, flags), b)
<1> DEFINE c == BinaryCommand(a, b, o, flags)
           d == CursorCommand(o, flags)
<1>1. c = <<>> \/ c = d
  BY DEF BinaryCommand, Command
<1>2. d[1].key = o.binary /\ d[2].key = IF o.binary = "cursor" THEN "agent" ELSE "-p"
  BY CursorStarts
<1> HIDE DEF c, d
<1>3. d[1].key = b /\ (d[2].key = "agent" <=> b = "cursor")
  BY <1>2
<1>4. c # <<>> => c = d
  BY <1>1
<1>5. BinaryStarts(c, b)
  BY <1>3, <1>4 DEF BinaryStarts
<1> QED BY <1>5 DEF c

LEMMA BinaryReported ==
  ASSUME NEW Names, NEW envs \in Seq(Names), NEW paths \in Seq(Names), NEW starts, NEW banner, NEW probe,
         NEW o, NEW flags, NEW q, NEW r, BinaryAnswered(q, r, envs, paths, starts, banner, probe, o, flags)
  PROVE  /\ Reported(q, r)
         /\ r.command = BinaryCommand(q.adapter, r.info.path, o, flags) /\ o.binary = r.info.path
<1> DEFINE b == ResolveBinary(Candidates(q.adapter), q.onPath, q.installed)
           signals == DetectAuthSignals(envs, paths, q.set, q.existing)
           info == RuntimeInfo(b, probe, signals)
           available == CheckAvailable(q.adapter, b, starts, banner)
           found == q.onPath \union q.installed
           none == ""
<1>1. /\ q.onPath \subseteq ToSet(Candidates(q.adapter)) /\ q.installed \subseteq ToSet(Candidates(q.adapter))
      /\ q.set \subseteq ToSet(envs) /\ q.existing \subseteq ToSet(paths) /\ o.binary = b
      /\ r.available = available /\ r.info = info /\ r.command = BinaryCommand(q.adapter, b, o, flags)
  BY DEF BinaryAnswered
<1>2. AuthSeen(signals, q.set, q.existing)
  BY <1>1, AuthIsSeen
<1>3. info.path = b /\ info.auth = signals /\ (info.version # none => b # none)
  BY DEF RuntimeInfo
<1>4. available => b # none
  BY DEF CheckAvailable
<1>5. (b # none => b \in found) /\ (q.onPath # {} => b \in q.onPath)
  <2>1. Found(b, q.onPath, q.installed)
    BY <1>1, CandidateIsFound
  <2> QED BY <2>1 DEF Found
<1> HIDE DEF b, signals, info, available, none
<1>6. /\ r.available => r.info.path \in found
      /\ r.info.version # none => r.info.path \in found
      /\ q.onPath # {} => r.info.path \in q.onPath
  BY <1>1, <1>3, <1>4, <1>5
<1>7. AuthSeen(r.info.auth, q.set, q.existing)
  BY <1>1, <1>2, <1>3
<1>8. r.command = BinaryCommand(q.adapter, r.info.path, o, flags) /\ o.binary = r.info.path
  BY <1>1, <1>3
<1> QED BY <1>6, <1>7, <1>8 DEF none, Reported

(* Whatever binaries there are, wherever they are, and whatever the probe  *)
(* of the version says: what is reported is found and is what runs, PATH   *)
(* goes first, and a login is reported exactly if there is a sign of one   *)
(* (resolve_binary, capture_runtime_info, _detect_auth_signals).           *)
THEOREM AnyBinaryIsFound ==
  ASSUME NEW Names, Vocabulary \subseteq Names, NEW envs \in Seq(Names), NEW paths \in Seq(Names),
         NEW starts, NEW banner, NEW probe, NEW o \in Options(Names), NEW flags \in Seq(Arguments(Names)),
         asked.family = "binary" => BinaryAnswered(asked, answer, envs, paths, starts, banner, probe, o, flags)
  PROVE  BinaryFound
<1> DEFINE Q == BinaryAnswered(asked, answer, envs, paths, starts, banner, probe, o, flags)
           c == answer.command
           b == answer.info.path
<1>1. Q => Reported(asked, answer) /\ c = BinaryCommand(asked.adapter, b, o, flags) /\ o.binary = b
  BY BinaryReported
<1>2. Q => BinaryStarts(c, b)
  <2> SUFFICES ASSUME Q PROVE BinaryStarts(c, b)
    OBVIOUS
  <2>1. c = BinaryCommand(asked.adapter, b, o, flags) /\ o.binary = b
    BY <1>1
  <2> HIDE DEF c, b
  <2> QED BY <2>1, BinaryCommandStarts
<1>3. Reported(asked, answer) /\ BinaryStarts(c, b) => BinaryFound
  BY DEF BinaryFound, Reported, BinaryStarts, AuthSeen
<1>4. asked.family # "binary" => BinaryFound
  BY DEF BinaryFound
<1>5. asked.family = "binary" => Q
  OBVIOUS
<1> HIDE DEF Q
<1> QED BY <1>1, <1>2, <1>3, <1>4, <1>5

-----------------------------------------------------------------------------
(* Tokens.                                                                 *)

Clock == [now : Nat, cache : [until : Int, ends : Int], sent : Seq({"cached", "new", "none"}), good : BOOLEAN]
SomeTimes == [gap : Nat, grant : Nat \union {None}]

(* A request at a time, after any others.  What is kept is valid for less  *)
(* long than the token lives.                                              *)
Sound(a) == a.now >= 1 /\ (a.cache.until < a.cache.ends \/ a.cache.until <= 0)

HeaderFits(h, cache, now, grant) ==
  /\ h.sent \in {"cached", "new", "none"} /\ h.cache \in [until : Int, ends : Int]
  /\ h.sent = "none" => grant = None
  /\ h.sent = "cached" => h.cache = cache /\ now < cache.until
  /\ h.cache = cache \/ h.cache.until < h.cache.ends

LEMMA HeaderIs ==
  ASSUME None \notin Nat, NEW cache \in [until : Int, ends : Int], NEW now \in Nat, NEW grant \in Nat \union {None}
  PROVE  HeaderFits(J!TokenHeader(cache, now, grant), cache, now, grant)
<1> USE DEF HeaderFits
<1>1. CASE now < cache.until
  BY <1>1 DEF J!TokenHeader
<1>2. CASE ~(now < cache.until) /\ grant = None
  BY <1>2 DEF J!TokenHeader
<1>3. CASE ~(now < cache.until) /\ grant # None
  <2> DEFINE c == [until |-> now + grant - 1, ends |-> now + grant]
  <2>1. c \in [until : Int, ends : Int] /\ c.until < c.ends
    BY <1>3
  <2>2. J!TokenHeader(cache, now, grant) = [sent |-> "new", cache |-> c]
    BY <1>3 DEF J!TokenHeader
  <2> HIDE DEF c
  <2> QED BY <2>1, <2>2
<1> QED BY <1>1, <1>2, <1>3

LEMMA RequestIs ==
  ASSUME None \notin Nat, NEW a \in Clock, NEW r \in SomeTimes
  PROVE  LET b == Request(a, r)
         IN  /\ b \in Clock
             /\ \E s \in {"cached", "new", "none"} : b.sent = Append(a.sent, s) /\ (s = "none" => r.grant = None)
             /\ Sound(a) => Sound(b) /\ (a.good => b.good)
<1> DEFINE now == a.now + r.gap
           header == J!TokenHeader(a.cache, now, r.grant)
           s == header.sent
           c == header.cache
           fresh == header.sent = "cached" => now < header.cache.ends
           b == Request(a, r)
<1>1. /\ a.now \in Nat /\ a.cache \in [until : Int, ends : Int] /\ a.sent \in Seq({"cached", "new", "none"}) /\ a.good \in BOOLEAN
      /\ r.gap \in Nat /\ r.grant \in Nat \union {None}
  BY DEF Clock, SomeTimes
<1>2. now \in Nat
  BY <1>1
<1>3. /\ s \in {"cached", "new", "none"} /\ c \in [until : Int, ends : Int]
      /\ s = "none" => r.grant = None
      /\ s = "cached" => c = a.cache /\ now < a.cache.until
      /\ c = a.cache \/ c.until < c.ends
  <2>1. HeaderFits(header, a.cache, now, r.grant)
    BY <1>1, <1>2, HeaderIs
  <2> HIDE DEF header, now
  <2> QED BY <2>1 DEF HeaderFits
<1>4. b = [now |-> now, cache |-> c, sent |-> Append(a.sent, s), good |-> a.good /\ fresh]
  BY DEF Request
<1>5. Append(a.sent, s) \in Seq({"cached", "new", "none"})
  BY <1>1, <1>3
<1>6. (a.good /\ fresh) \in BOOLEAN
  OBVIOUS
<1>7. Sound(a) => fresh
  <2>1. s = "cached" => c = a.cache /\ now < a.cache.until
    BY <1>3
  <2>2. fresh <=> (s = "cached" => now < c.ends)
    OBVIOUS
  <2>3. a.cache.until \in Int /\ a.cache.ends \in Int
    BY <1>1
  <2> HIDE DEF fresh, s, c, now
  <2> QED BY <1>1, <1>2, <2>1, <2>2, <2>3 DEF Sound, now
<1> HIDE DEF fresh, s, c, header
<1>8. b.now = now /\ b.cache = c /\ b.sent = Append(a.sent, s) /\ b.good = (a.good /\ fresh)
  BY <1>4
<1>9. b \in Clock
  BY <1>2, <1>3, <1>4, <1>5, <1>6 DEF Clock
<1>10. Sound(a) => Sound(b)
  <2>1. now >= a.now
    BY <1>1
  <2> HIDE DEF b, now
  <2> QED BY <1>1, <1>2, <1>3, <1>8, <2>1 DEF Sound
<1>11. Sound(a) /\ a.good => b.good
  BY <1>7, <1>8
<1> QED BY <1>3, <1>8, <1>9, <1>10, <1>11

LEMMA RequestsUnfold ==
  ASSUME None \notin Nat, NEW requests \in Seq(SomeTimes)
  PROVE  \E f : /\ f[0] = NoRequest
                /\ \A i \in 1..Len(requests) : f[i] = Request(f[i - 1], requests[i])
                /\ Requested(requests) = f[Len(requests)]
<1> DEFINE n == Len(requests)
           step == [i \in 1..n |-> [v \in Clock |-> Request(v, requests[i])]]
           G(f) == [i \in 0..Len(requests) |-> IF i = 0 THEN NoRequest ELSE Request(f[i - 1], requests[i])]
<1>1. n \in Nat /\ \A i \in 1..n : requests[i] \in SomeTimes
  OBVIOUS
<1>2. NoRequest \in Clock
  <2>1. J!NoToken \in [until : Int, ends : Int]
    BY DEF J!NoToken
  <2> QED BY <2>1 DEF NoRequest, Clock
<1>3. step \in [1..n -> [Clock -> Clock]]
  <2>1. \A i \in 1..n : \A v \in Clock : Request(v, requests[i]) \in Clock
    BY <1>1, RequestIs
  <2> QED BY <2>1
<1>4. PICK f \in [0..n -> Clock] : Iterate(f, NoRequest, n, step)
  <2> HIDE DEF n, step
  <2> QED BY <1>1, <1>2, <1>3, Iterates
<1>5. f = G(f)
  <2>1. \A i \in 0..n : f[i] = G(f)[i]
    <3> TAKE i \in 0..n
    <3>1. CASE i = 0
      BY <3>1, <1>4 DEF Iterate
    <3>2. CASE i # 0
      <4>1. i \in 1..n /\ i - 1 \in 0..n
        BY <1>1, <3>2
      <4>2. f[i - 1] \in Clock
        BY <4>1, <1>4
      <4> QED BY <4>1, <4>2, <1>4, <3>2 DEF Iterate
    <3> QED BY <3>1, <3>2
  <2> QED BY <2>1
<1>6. \E g : g = G(g)
  BY <1>5
<1> DEFINE K == CHOOSE g : g = G(g)
<1>7. K = G(K)
  <2> HIDE DEF G
  <2> QED BY <1>6
<1>8. Requested(requests) = K[Len(requests)]
  BY DEF Requested
<1>9. \A g : \A i \in 0..n : G(g)[i] = IF i = 0 THEN NoRequest ELSE Request(g[i - 1], requests[i])
  OBVIOUS
<1> HIDE DEF K, G
<1>10. \A i \in 0..n : K[i] = IF i = 0 THEN NoRequest ELSE Request(K[i - 1], requests[i])
  BY <1>7, <1>9
<1>11. K[0] = NoRequest /\ \A i \in 1..n : K[i] = Request(K[i - 1], requests[i])
  BY <1>1, <1>10
<1> QED BY <1>8, <1>11

(* However far apart the requests come and however long each token lives:  *)
(* none is used after its end, and none that can be had is missed          *)
(* (_get_azure_ad_token).                                                  *)
THEOREM AnyTokenIsFresh ==
  ASSUME None \notin Nat,
         asked.family = "token" => asked.requests \in Seq(SomeTimes) /\ answer = Requested(asked.requests)
  PROVE  TokenIsFresh
<1> SUFFICES ASSUME asked.family = "token" PROVE TokenIsFresh
  BY DEF TokenIsFresh
<1> DEFINE requests == asked.requests
           n == Len(requests)
<1>1. requests \in Seq(SomeTimes) /\ answer = Requested(requests)
  OBVIOUS
<1> HIDE DEF requests
<1>2. n \in Nat /\ \A i \in 1..n : requests[i] \in SomeTimes
  BY <1>1
<1>3. PICK f : /\ f[0] = NoRequest
               /\ \A i \in 1..n : f[i] = Request(f[i - 1], requests[i])
               /\ answer = f[n]
  BY <1>1, RequestsUnfold
<1> DEFINE Good(i) == /\ f[i] \in Clock /\ Sound(f[i]) /\ f[i].good
                      /\ Len(f[i].sent) = i
                      /\ \A j \in 1..i : f[i].sent[j] = "none" => requests[j].grant = None
           T == {i \in Nat : i <= n => Good(i)}
<1>4. 0 \in T
  <2>1. J!NoToken \in [until : Int, ends : Int] /\ J!NoToken.until = 0
    BY DEF J!NoToken
  <2>2. NoRequest \in Clock /\ Sound(NoRequest) /\ NoRequest.good /\ Len(NoRequest.sent) = 0
    BY <2>1 DEF NoRequest, Clock, Sound
  <2>3. Good(0)
    BY <1>3, <2>2
  <2> HIDE DEF Good
  <2> QED BY <2>3
<1>5. ASSUME NEW i \in 1..n, i - 1 \in T PROVE i \in T
  <2>1. Good(i - 1) /\ i \in Nat
    BY <1>2, <1>5
  <2> DEFINE a == f[i - 1]
             b == f[i]
  <2>2. a \in Clock /\ Sound(a) /\ a.good /\ Len(a.sent) = i - 1
        /\ \A j \in 1..(i - 1) : a.sent[j] = "none" => requests[j].grant = None
    BY <2>1
  <2>3. b = Request(a, requests[i])
    BY <1>3
  <2> HIDE DEF a, b
  <2>4. PICK s \in {"cached", "new", "none"} : b.sent = Append(a.sent, s) /\ (s = "none" => requests[i].grant = None)
    BY <1>2, <2>2, <2>3, RequestIs
  <2>5. b \in Clock /\ Sound(b) /\ b.good
    BY <1>2, <2>2, <2>3, RequestIs
  <2>6. a.sent \in Seq({"cached", "new", "none"})
    BY <2>2 DEF Clock
  <2>7. Len(b.sent) = i /\ b.sent[i] = s /\ \A j \in 1..(i - 1) : b.sent[j] = a.sent[j]
    BY <2>1, <2>2, <2>4, <2>6
  <2>8. \A j \in 1..i : b.sent[j] = "none" => requests[j].grant = None
    <3> TAKE j \in 1..i
    <3>1. CASE j = i
      BY <2>4, <2>7, <3>1
    <3>2. CASE j \in 1..(i - 1)
      BY <2>2, <2>7, <3>2
    <3> QED BY <2>1, <3>1, <3>2
  <2>9. Good(i)
    BY <2>5, <2>7, <2>8 DEF b
  <2> HIDE DEF Good
  <2> QED BY <2>1, <2>9
<1>6. n \in T
  <2> HIDE DEF T
  <2> QED BY <1>2, <1>4, <1>5, CountUp
<1>7. Good(n)
  BY <1>2, <1>6
<1>8. DOMAIN answer.sent = 1..n
  <2>1. f[n].sent \in Seq({"cached", "new", "none"}) /\ Len(f[n].sent) = n
    BY <1>7 DEF Clock
  <2> QED BY <1>3, <2>1
<1>9. answer.good /\ \A i \in 1..n : answer.sent[i] = "none" => requests[i].grant = None
  BY <1>3, <1>7
<1> QED BY <1>8, <1>9 DEF TokenIsFresh, requests

-----------------------------------------------------------------------------
(* Judges.                                                                 *)

LEMMA ProviderIs ==
  ASSUME NEW prefix, NEW option, NEW env, None \notin J!Providers
  PROVE  J!ResolveBackend(prefix, option, env) \in J!Providers \union {None}
<1> DEFINE s == <<prefix, option, env>>
           S == {prefix, option, env}
           known == Kept(s, J!Providers)
<1>1. s \in Seq(S)
  OBVIOUS
<1>3. J!ResolveBackend(prefix, option, env) = IF known = <<>> THEN None ELSE Head(known)
  <2>1. J!Kept(s, J!Providers) = known
    BY DEF J!Kept, Kept
  <2> QED BY <2>1 DEF J!ResolveBackend
<1> HIDE DEF s, S
<1>2. known \in Seq(S) /\ \A k \in 1..Len(known) : known[k] \in J!Providers
  BY <1>1, KeptElements
<1> HIDE DEF known
<1>4. known # <<>> => Head(known) \in J!Providers
  BY <1>2
<1> QED BY <1>3, <1>4

(* The answers to a request, sorted by what becomes of it.                 *)
Rejected == {"401", "403", "404"}

LEMMA Answers ==
  ASSUME NEW reply
  PROVE  /\ J!Verdict(reply) = IF reply \in Rejected THEN "reject" ELSE "proceed"
         /\ J!Outcome(reply) = "answered" <=> reply = "ok"
         /\ J!Outcome(reply) = "fatal" <=> reply \in Rejected
<1>1. J!ClassifyError(reply) = "auth_failed" <=> reply \in Rejected
  BY DEF J!ClassifyError, Rejected
<1>2. J!ClassifyError(reply) \notin {"answered", "fatal"}
  BY DEF J!ClassifyError
<1>3. CASE reply = "ok"
  BY <1>1, <1>3 DEF J!Verdict, J!Outcome, Rejected
<1>4. CASE reply \in Rejected
  BY <1>1, <1>4 DEF J!Verdict, J!Outcome, Rejected
<1>5. CASE reply # "ok" /\ reply \notin Rejected
  BY <1>1, <1>2, <1>5 DEF J!Verdict, J!Outcome, Rejected
<1> QED BY <1>3, <1>4, <1>5

Built(judge, provider, insecure) ==
  judge.url # None /\ J!BaseUrlAllowed(judge.url, insecure) /\ (provider \in {"azure", "anthropic"} => judge.key)
AskedAgain(judge, header, other) == judge.reply[header] \in {"401", "403"} /\ other # None

(* A request, by what decides it.                                          *)
DecidedCall(c, judge, provider, insecure, learned, header, other) ==
  /\ provider = None => c = [end |-> "raises", posts |-> 0, learned |-> learned]
  /\ provider # None /\ ~Built(judge, provider, insecure) => c = [end |-> "auth_failed", posts |-> 0, learned |-> learned]
  /\ provider # None /\ Built(judge, provider, insecure) /\ AskedAgain(judge, header, other) =>
       c = [end |-> J!Outcome(judge.reply[other]), posts |-> 2, learned |-> learned \/ judge.reply[other] = "ok"]
  /\ provider # None /\ Built(judge, provider, insecure) /\ ~AskedAgain(judge, header, other) =>
       c = [end |-> J!Outcome(judge.reply[header]), posts |-> 1, learned |-> learned]

LEMMA CallIs ==
  ASSUME NEW judge, NEW env, NEW insecure, NEW learned, NEW provider,
         provider = J!ResolveBackend(judge.prefix, judge.option, env),
         NEW header, header = IF provider = None THEN "none" ELSE J!RequestHeader(provider, judge, learned),
         NEW other, other = J!AuthRetryHeader(provider, judge, header),
         NEW c, c = J!CallApi(judge, env, insecure, learned)
  PROVE  DecidedCall(c, judge, provider, insecure, learned, header, other)
<1> DEFINE allowed == J!BaseUrlAllowed(judge.url, insecure)
           built == IF judge.url = None THEN FALSE
                    ELSE allowed /\ (provider \in {"azure", "anthropic"} => judge.key)
           again == judge.reply[header] \in {"401", "403"} /\ other # None
           x1 == [end |-> "raises", posts |-> 0, learned |-> learned]
           x2 == [end |-> "auth_failed", posts |-> 0, learned |-> learned]
           x3 == [end |-> J!Outcome(judge.reply[other]), posts |-> 2, learned |-> learned \/ judge.reply[other] = "ok"]
           x4 == [end |-> J!Outcome(judge.reply[header]), posts |-> 1, learned |-> learned]
<1>1. c = CASE provider = None -> x1
            [] provider # None /\ ~built -> x2
            [] provider # None /\ built /\ again -> x3
            [] OTHER -> x4
  BY Zenon DEF J!CallApi
<1>2. built <=> Built(judge, provider, insecure)
  BY DEF Built
<1>3. again <=> AskedAgain(judge, header, other)
  BY DEF AskedAgain
<1> HIDE DEF built, again, x1, x2, x3, x4
<1>4. provider = None => c = x1
  BY <1>1
<1>5. provider # None /\ ~built => c = x2
  BY <1>1
<1>6. provider # None /\ built /\ again => c = x3
  BY <1>1
<1>7. provider # None /\ built /\ ~again => c = x4
  BY <1>1
<1> QED BY <1>2, <1>3, <1>4, <1>5, <1>6, <1>7, Zenon DEF x1, x2, x3, x4, DecidedCall

(* The next request of a judge.                                            *)
AsksOnce(call, next) ==
  (call.end = "answered" => next.end = "answered" /\ next.posts = 1) /\ (next.end = "answered" => call.end = "answered")

LEMMA NextIs ==
  ASSUME NEW judge, NEW env, NEW insecure, NEW call, call = J!CallApi(judge, env, insecure, FALSE),
         NEW next, next = J!CallApi(judge, env, insecure, call.learned),
         None \notin {"key", "bearer", "none"}
  PROVE  AsksOnce(call, next)
<1> DEFINE no == FALSE
           provider == J!ResolveBackend(judge.prefix, judge.option, env)
           header == IF provider = None THEN "none" ELSE J!RequestHeader(provider, judge, no)
           other == J!AuthRetryHeader(provider, judge, header)
           built == Built(judge, provider, insecure)
           again == AskedAgain(judge, header, other)
           ok == judge.reply[other] = "ok"
           yes == no \/ ok
<1>1. call = J!CallApi(judge, env, insecure, no)
  OBVIOUS
<1>2. DecidedCall(call, judge, provider, insecure, no, header, other)
  <2> HIDE DEF no
  <2> QED BY <1>1, CallIs
<1> DEFINE x1 == [end |-> "raises", posts |-> 0, learned |-> no]
           x2 == [end |-> "auth_failed", posts |-> 0, learned |-> no]
           x3 == [end |-> J!Outcome(judge.reply[other]), posts |-> 2, learned |-> yes]
           x4 == [end |-> J!Outcome(judge.reply[header]), posts |-> 1, learned |-> no]
<1>3. built \in BOOLEAN /\ again \in BOOLEAN /\ ok \in BOOLEAN
  BY DEF Built, AskedAgain
<1>4. ok => yes = TRUE
  BY Zenon
<1>5. ~ok => yes = no
  BY Zenon
<1>6. again => provider = "anthropic" /\ header = "key" /\ other = "bearer"
  BY DEF AskedAgain, J!AuthRetryHeader
<1>7. J!Outcome(judge.reply[other]) = "answered" <=> ok
  BY Answers
<1>8. /\ provider = None => call = x1
      /\ provider # None /\ ~built => call = x2
      /\ provider # None /\ built /\ again => call = x3
      /\ provider # None /\ built /\ ~again => call = x4
  BY <1>2, Zenon DEF DecidedCall
<1> HIDE DEF no, yes, ok, built, again
<1>9. /\ x1.end = "raises" /\ x1.learned = no
      /\ x2.end = "auth_failed" /\ x2.learned = no
      /\ x3.end = J!Outcome(judge.reply[other]) /\ x3.learned = yes
      /\ x4.end = J!Outcome(judge.reply[header]) /\ x4.posts = 1 /\ x4.learned = no
  OBVIOUS
<1> HIDE DEF x1, x2, x3, x4
<1>10. call.learned = no => next = call
  BY <1>1
<1> HIDE DEF provider, header, other
<1> DEFINE goal == (call.end = "answered" => next.end = "answered" /\ next.posts = 1) /\ (next.end = "answered" => call.end = "answered")
<1>11. ASSUME provider = None PROVE goal
  BY <1>8, <1>9, <1>10, <1>11
<1>12. ASSUME provider # None, ~built PROVE goal
  BY <1>8, <1>9, <1>10, <1>12
<1>13. ASSUME provider # None, built, ~again PROVE goal
  <2>1. call = x4 /\ call.posts = 1 /\ call.learned = no
    BY <1>8, <1>9, <1>13
  <2>2. next = call
    BY <1>10, <2>1
  <2> QED BY <2>1, <2>2, Zenon
<1>14. ASSUME provider # None, built, again, ~ok PROVE goal
  BY <1>5, <1>7, <1>8, <1>9, <1>10, <1>14
<1>15. ASSUME provider # None, built, again, ok PROVE goal
  <2> DEFINE h == IF provider = None THEN "none" ELSE J!RequestHeader(provider, judge, yes)
             o == J!AuthRetryHeader(provider, judge, h)
  <2>1. call.learned = yes /\ yes = TRUE
    BY <1>4, <1>8, <1>9, <1>15
  <2>2. DecidedCall(next, judge, provider, insecure, yes, h, o)
    BY <2>1, CallIs DEF provider
  <2>3. h = "bearer"
    BY <1>6, <1>15, <2>1 DEF J!RequestHeader
  <2>4. o = None
    BY <2>3 DEF J!AuthRetryHeader
  <2>5. ~AskedAgain(judge, h, o)
    BY <2>4 DEF AskedAgain
  <2>6. next = [end |-> J!Outcome(judge.reply[h]), posts |-> 1, learned |-> yes]
    BY <1>15, <2>2, <2>5, Zenon DEF DecidedCall, built
  <2>7. J!Outcome(judge.reply[h]) = "answered" /\ call.end = "answered"
    BY <1>6, <1>7, <1>8, <1>9, <1>15, <2>3
  <2> DEFINE e == J!Outcome(judge.reply[h])
  <2> HIDE DEF e
  <2>8. next = [end |-> e, posts |-> 1, learned |-> yes]
    BY <2>6 DEF e
  <2>9. [end |-> e, posts |-> 1, learned |-> yes].end = e /\ [end |-> e, posts |-> 1, learned |-> yes].posts = 1
    OBVIOUS
  <2>10. e = "answered" /\ call.end = "answered"
    BY <2>7 DEF e
  <2> QED BY <2>8, <2>9, <2>10, Zenon
<1>16. goal
  BY <1>3, <1>11, <1>12, <1>13, <1>14, <1>15
<1> QED BY <1>16 DEF AsksOnce

LEMMA EndOfProbe == \A e, l : J!Probed(e, l).end = e
BY DEF J!Probed

(* A probe, by what decides it.                                            *)
LEMMA ProbeOfOpenAI ==
  ASSUME NEW judge, NEW insecure, J!BaseUrlAllowed(judge.url, insecure)
  PROVE  J!OpenAIPreflight(judge, insecure).end = J!Verdict(J!Shown(judge, IF judge.key THEN "bearer" ELSE "none"))
<1> DEFINE h == J!ProbeHeader("openai", judge)
<1>1. h = IF judge.key THEN "bearer" ELSE "none"
  BY DEF J!ProbeHeader
<1>2. J!AuthRetryHeader("openai", judge, h) = None
  BY DEF J!AuthRetryHeader
<1>3. J!OpenAIPreflight(judge, insecure) = J!DoGetPreflight("openai", judge)
  BY DEF J!OpenAIPreflight
<1>4. J!DoGetPreflight("openai", judge) = J!Probed(J!Verdict(J!Shown(judge, h)), FALSE)
  BY <1>2 DEF J!DoGetPreflight
<1> HIDE DEF h
<1> QED BY ZenonT(40), <1>1, <1>3, <1>4, EndOfProbe

LEMMA ProbeOfAnthropic ==
  ASSUME NEW judge, NEW insecure, J!BaseUrlAllowed(judge.url, insecure), None \notin {"key", "bearer", "none"}
  PROVE  LET again == J!Shown(judge, "key") \in {"401", "403"} /\ judge.key
         IN  J!AnthropicPreflight(judge, insecure).end = J!Verdict(J!Shown(judge, IF again THEN "bearer" ELSE "key"))
<1> DEFINE h == J!ProbeHeader("anthropic", judge)
           o == J!AuthRetryHeader("anthropic", judge, h)
           again == J!Shown(judge, "key") \in {"401", "403"} /\ judge.key
           d == J!DoGetPreflight("anthropic", judge)
<1>1. h = "key"
  BY DEF J!ProbeHeader
<1>2. o = IF judge.key THEN "bearer" ELSE None
  BY <1>1 DEF J!AuthRetryHeader
<1>3. J!AnthropicPreflight(judge, insecure) = d
  BY DEF J!AnthropicPreflight
<1>4. d = IF J!Shown(judge, h) \in {"401", "403"} /\ o # None
          THEN J!Probed(J!Verdict(J!Shown(judge, o)), J!Shown(judge, o) = "ok")
          ELSE J!Probed(J!Verdict(J!Shown(judge, h)), FALSE)
  BY Zenon DEF J!DoGetPreflight
<1>5. ASSUME again PROVE d.end = J!Verdict(J!Shown(judge, "bearer"))
  <2>1. o = "bearer" /\ o # None /\ J!Shown(judge, h) \in {"401", "403"}
    BY <1>1, <1>2, <1>5
  <2> HIDE DEF h, o, d
  <2>2. d = J!Probed(J!Verdict(J!Shown(judge, o)), J!Shown(judge, o) = "ok")
    BY <1>4, <2>1
  <2> QED BY <2>1, <2>2, EndOfProbe
<1>6. ASSUME ~again PROVE d.end = J!Verdict(J!Shown(judge, "key"))
  <2>1. ~(J!Shown(judge, h) \in {"401", "403"} /\ o # None)
    BY <1>1, <1>2, <1>6
  <2> HIDE DEF h, o, d
  <2>2. d = J!Probed(J!Verdict(J!Shown(judge, h)), FALSE)
    BY <1>4, <2>1
  <2> QED BY <1>1, <2>2, EndOfProbe
<1> HIDE DEF d, again
<1>7. d.end = J!Verdict(J!Shown(judge, IF again THEN "bearer" ELSE "key"))
  <2>1. CASE again
    BY <1>5, <2>1
  <2>2. CASE ~again
    BY <1>6, <2>2
  <2> QED BY <2>1, <2>2
<1> QED BY <1>3, <1>7 DEF again

DecidedProbe(m, judge, provider, insecure) ==
  /\ provider = None => m = J!Probed("raises", FALSE)
  /\ provider = "openai" => m = J!OpenAIPreflight(judge, insecure)
  /\ provider = "anthropic" => m = J!AnthropicPreflight(judge, insecure)
  /\ provider = "azure" => m = J!AzurePreflight(judge)
  /\ provider = "ollama" => m = J!OllamaPreflight(judge, insecure)

LEMMA ProbeIs ==
  ASSUME NEW judge, NEW env, NEW insecure, NEW provider, provider = J!ResolveBackend(judge.prefix, judge.option, env),
         None \notin J!Providers,
         NEW m, m = J!PreflightModel(judge, env, insecure)
  PROVE  DecidedProbe(m, judge, provider, insecure)
<1>1. None # "openai" /\ None # "anthropic" /\ None # "azure" /\ None # "ollama"
  BY DEF J!Providers
<1>2. m = CASE provider = None -> J!Probed("raises", FALSE)
            [] provider = "openai" -> J!OpenAIPreflight(judge, insecure)
            [] provider = "anthropic" -> J!AnthropicPreflight(judge, insecure)
            [] provider = "azure" -> J!AzurePreflight(judge)
            [] provider = "ollama" -> J!OllamaPreflight(judge, insecure)
  BY Zenon DEF J!PreflightModel
<1> DEFINE x0 == J!Probed("raises", FALSE)
           x1 == J!OpenAIPreflight(judge, insecure)
           x2 == J!AnthropicPreflight(judge, insecure)
           x3 == J!AzurePreflight(judge)
           x4 == J!OllamaPreflight(judge, insecure)
<1>3. m = CASE provider = None -> x0 [] provider = "openai" -> x1 [] provider = "anthropic" -> x2
            [] provider = "azure" -> x3 [] provider = "ollama" -> x4
  BY <1>2
<1> HIDE DEF x0, x1, x2, x3, x4
<1>4. /\ provider = None => m = x0
      /\ provider = "openai" => m = x1
      /\ provider = "anthropic" => m = x2
      /\ provider = "azure" => m = x3
      /\ provider = "ollama" => m = x4
  BY <1>1, <1>3
<1> QED BY <1>4 DEF DecidedProbe, x0, x1, x2, x3, x4

(* The end of a request, of a judge that has not learned anything.         *)
LEMMA EndOfCall ==
  ASSUME NEW judge, NEW env, NEW insecure, NEW provider, provider = J!ResolveBackend(judge.prefix, judge.option, env),
         provider # None, NEW c, c = J!CallApi(judge, env, insecure, FALSE)
  PROVE  LET header == J!RequestHeader(provider, judge, FALSE)
             other == J!AuthRetryHeader(provider, judge, header)
         IN  c.end = IF ~Built(judge, provider, insecure) THEN "auth_failed"
                     ELSE J!Outcome(judge.reply[IF AskedAgain(judge, header, other) THEN other ELSE header])
<1> DEFINE header == J!RequestHeader(provider, judge, FALSE)
           other == J!AuthRetryHeader(provider, judge, header)
           built == Built(judge, provider, insecure)
           again == AskedAgain(judge, header, other)
           no == FALSE
           yes == no \/ judge.reply[other] = "ok"
           e3 == J!Outcome(judge.reply[other])
           e4 == J!Outcome(judge.reply[header])
<1>1. DecidedCall(c, judge, provider, insecure, no, header, other)
  BY CallIs
<1>2. built \in BOOLEAN /\ again \in BOOLEAN
  BY DEF Built, AskedAgain
<1>3. /\ ~built => c = [end |-> "auth_failed", posts |-> 0, learned |-> no]
      /\ built /\ again => c = [end |-> e3, posts |-> 2, learned |-> yes]
      /\ built /\ ~again => c = [end |-> e4, posts |-> 1, learned |-> no]
  BY <1>1, Zenon DEF DecidedCall
<1> HIDE DEF built, again, no, yes, e3, e4
<1> DEFINE x2 == [end |-> "auth_failed", posts |-> 0, learned |-> no]
           x3 == [end |-> e3, posts |-> 2, learned |-> yes]
           x4 == [end |-> e4, posts |-> 1, learned |-> no]
<1>6. x2.end = "auth_failed" /\ x3.end = e3 /\ x4.end = e4
  OBVIOUS
<1>7. (~built => c = x2) /\ (built /\ again => c = x3) /\ (built /\ ~again => c = x4)
  BY <1>3
<1> HIDE DEF x2, x3, x4
<1>4. (~built => c.end = "auth_failed") /\ (built /\ again => c.end = e3) /\ (built /\ ~again => c.end = e4)
  BY <1>6, <1>7
<1>5. c.end = IF ~built THEN "auth_failed" ELSE J!Outcome(judge.reply[IF again THEN other ELSE header])
  <2>1. CASE ~built
    BY <1>4, <2>1
  <2>2. CASE built /\ again
    BY <1>4, <2>2 DEF e3
  <2>3. CASE built /\ ~again
    BY <1>4, <2>3 DEF e4
  <2> QED BY <1>2, <2>1, <2>2, <2>3
<1> QED BY <1>5 DEF built, again

(* The reply that decides over the probe and the request of a judge.       *)
Decides(m, c, judge, provider, insecure, reply) ==
  /\ m.end \in {"proceed", "reject", "raises"}
  /\ m.end = "reject" => reply \in Rejected
  /\ m.end = "proceed" => reply \notin Rejected \/ ~Built(judge, provider, insecure)
  /\ c.end = IF ~Built(judge, provider, insecure) THEN "auth_failed" ELSE J!Outcome(reply)

Lenient(judge, provider) == provider = "ollama" /\ judge.reply["none"] \in {"401", "403"}

ProbeFits(m, c, judge, provider) ==
  /\ m.end \in {"proceed", "reject", "raises"}
  /\ m.end = "reject" => c.end \in {"fatal", "auth_failed"} \/ Hidden(judge, provider) \/ Bare(judge, provider)
  /\ Hidden(judge, provider) => m.end # "proceed"
  /\ m.end = "proceed" /\ c.end = "fatal" => Lenient(judge, provider) \/ Bare(judge, provider)

LEMMA DecidedFits ==
  ASSUME NEW judge, NEW provider, NEW insecure, NEW m, NEW c, NEW reply, Decides(m, c, judge, provider, insecure, reply),
         ~Hidden(judge, provider)
  PROVE  ProbeFits(m, c, judge, provider)
<1> DEFINE built == Built(judge, provider, insecure)
           e == J!Outcome(reply)
<1>1. e = "fatal" <=> reply \in Rejected
  BY Answers
<1>2. /\ m.end \in {"proceed", "reject", "raises"}
      /\ m.end = "reject" => reply \in Rejected
      /\ m.end = "proceed" => reply \notin Rejected \/ ~built
      /\ c.end = IF ~built THEN "auth_failed" ELSE e
  BY DEF Decides
<1>3. built \in BOOLEAN
  BY DEF Built
<1> HIDE DEF e, built
<1>4. CASE built
  BY <1>1, <1>2, <1>4 DEF ProbeFits
<1>5. CASE ~built
  BY <1>2, <1>5 DEF ProbeFits
<1> QED BY <1>3, <1>4, <1>5

LEMMA EveryProbeFits ==
  ASSUME NEW judge, NEW env, NEW insecure, NEW provider, provider = J!ResolveBackend(judge.prefix, judge.option, env),
         None \notin J!Providers, None \notin {"key", "bearer", "none"},
         NEW m, m = J!PreflightModel(judge, env, insecure), NEW c, c = J!CallApi(judge, env, insecure, FALSE)
  PROVE  ProbeFits(m, c, judge, provider)
<1> DEFINE allowed == J!BaseUrlAllowed(judge.url, insecure)
           built == Built(judge, provider, insecure)
           header == J!RequestHeader(provider, judge, FALSE)
           other == J!AuthRetryHeader(provider, judge, header)
           again == AskedAgain(judge, header, other)
           r == judge.reply[IF again THEN other ELSE header]
<1>1. provider \in J!Providers \union {None}
  BY ProviderIs
<1>2. DecidedProbe(m, judge, provider, insecure)
  BY ProbeIs
<1>3. provider # None => c.end = IF ~built THEN "auth_failed" ELSE J!Outcome(r)
  BY EndOfCall
<1>4. \A x : J!Verdict(x) = IF x \in Rejected THEN "reject" ELSE "proceed"
  BY Answers
<1>5. built \in BOOLEAN /\ (built => allowed /\ judge.url # None /\ (provider \in {"azure", "anthropic"} => judge.key))
  BY DEF Built
<1>6. J!Probed("raises", FALSE).end = "raises"
  BY EndOfProbe
<1> HIDE DEF allowed, built
<1>7. CASE provider = None
  <2>1. m.end = "raises"
    BY <1>2, <1>6, <1>7 DEF DecidedProbe
  <2> QED BY <2>1 DEF ProbeFits
<1>8. CASE provider = "openai"
  <2>1. CASE ~allowed
    <3>1. m = J!Probed("raises", FALSE)
      BY <1>2, <1>8, <2>1 DEF DecidedProbe, J!OpenAIPreflight, allowed
    <3> QED BY <1>6, <3>1 DEF ProbeFits
  <2>2. CASE allowed
    <3> DEFINE h == IF judge.key THEN "bearer" ELSE "none"
    <3>1. m.end = J!Verdict(J!Shown(judge, h))
      BY <1>2, <1>8, <2>2, ProbeOfOpenAI DEF DecidedProbe, allowed
    <3>2. header = "bearer" /\ other = None
      BY <1>8 DEF J!RequestHeader, J!AuthRetryHeader
    <3>3. ~again
      BY <3>2 DEF AskedAgain
    <3>4. r = judge.reply["bearer"]
      BY <3>2, <3>3
    <3> HIDE DEF header, other, again, r
    <3>5. CASE Hidden(judge, provider)
      <4>1. J!Shown(judge, h) = "404"
        BY <3>5 DEF Hidden, J!Shown
      <4> QED BY <1>4, <3>1, <3>5, <4>1 DEF ProbeFits, Rejected
    <3>6. CASE ~Hidden(judge, provider) /\ judge.key
      <4>1. J!Shown(judge, h) = r
        BY <1>8, <3>4, <3>6 DEF Hidden, J!Shown
      <4>2. Decides(m, c, judge, provider, insecure, r)
        BY <1>3, <1>4, <1>8, <3>1, <4>1, <1>1 DEF Decides, J!Providers, built
      <4> QED BY <3>6, <4>2, DecidedFits
    <3>7. CASE ~Hidden(judge, provider) /\ ~judge.key
      <4>1. Bare(judge, provider)
        BY <1>8, <3>7 DEF Bare
      <4>2. m.end \in {"proceed", "reject", "raises"}
        BY <1>4, <3>1
      <4> QED BY <3>7, <4>1, <4>2 DEF ProbeFits
    <3> QED BY <3>5, <3>6, <3>7
  <2> QED BY <2>1, <2>2
<1>9. CASE provider = "anthropic"
  <2>1. CASE ~allowed
    <3>1. m = J!Probed("raises", FALSE)
      BY <1>2, <1>9, <2>1 DEF DecidedProbe, J!AnthropicPreflight, allowed
    <3> QED BY <1>6, <3>1 DEF ProbeFits
  <2>2. CASE allowed
    <3> DEFINE twice == J!Shown(judge, "key") \in {"401", "403"} /\ judge.key
               h == IF twice THEN "bearer" ELSE "key"
    <3>1. m = J!AnthropicPreflight(judge, insecure) /\ J!BaseUrlAllowed(judge.url, insecure)
      BY <1>2, <1>9, <2>2 DEF DecidedProbe, allowed
    <3>2. m.end = J!Verdict(J!Shown(judge, h))
      BY <3>1, ProbeOfAnthropic
    <3>3. header = "key" /\ other = IF judge.key THEN "bearer" ELSE None
      BY <1>9 DEF J!RequestHeader, J!ProbeHeader, J!AuthRetryHeader
    <3>4. again <=> judge.reply["key"] \in {"401", "403"} /\ judge.key
      BY <3>3 DEF AskedAgain
    <3>5. CASE Hidden(judge, provider)
      <4>1. J!Shown(judge, h) = "404"
        BY <3>5 DEF Hidden, J!Shown
      <4> QED BY <1>4, <3>2, <3>5, <4>1 DEF ProbeFits, Rejected
    <3>6. CASE ~Hidden(judge, provider)
      <4>1. \A x : J!Shown(judge, x) = judge.reply[x]
        BY <1>9, <3>6 DEF Hidden, J!Shown
      <4>2. twice <=> again
        BY <3>4, <4>1
      <4>3. J!Shown(judge, h) = r
        BY <3>3, <4>1, <4>2
      <4> HIDE DEF header, other, again, r, h, twice
      <4>4. Decides(m, c, judge, provider, insecure, r)
        BY <1>3, <1>4, <1>9, <3>2, <4>3, <1>1 DEF Decides, J!Providers, built
      <4> QED BY <3>6, <4>4, DecidedFits
    <3> QED BY <3>5, <3>6
  <2> QED BY <2>1, <2>2
<1>10. CASE provider = "azure"
  <2> DEFINE h == J!ProbeHeader("azure", judge)
  <2>1. m = J!AzurePreflight(judge)
    BY <1>2, <1>10 DEF DecidedProbe
  <2>2. header = h /\ other = None
    BY <1>10 DEF J!RequestHeader, J!AuthRetryHeader
  <2>3. ~again
    BY <2>2 DEF AskedAgain
  <2>4. r = judge.reply[h]
    BY <2>2, <2>3
  <2>5. m.end = IF judge.url = None THEN "proceed" ELSE J!Verdict(judge.reply[h])
    <3> DEFINE v == J!Verdict(judge.reply[h])
    <3>1. m = IF judge.url = None THEN J!Probed("proceed", FALSE) ELSE J!Probed(v, FALSE)
      BY <2>1 DEF J!AzurePreflight
    <3> HIDE DEF v
    <3>2. CASE judge.url = None
      <4>1. m = J!Probed("proceed", FALSE)
        BY <3>1, <3>2
      <4>2. m.end = "proceed"
        BY <4>1, EndOfProbe
      <4> QED BY <3>2, <4>2
    <3>3. CASE judge.url # None
      <4>1. m.end = v
        BY <3>1, <3>3, EndOfProbe
      <4> QED BY <3>3, <4>1 DEF v
    <3> QED BY <3>2, <3>3
  <2> HIDE DEF header, other, again, r, h
  <2>6. Decides(m, c, judge, provider, insecure, r)
    <3>1. CASE judge.url = None
      <4>1. m.end = "proceed" /\ ~built
        BY <1>5, <2>5, <3>1
      <4>2. c.end = IF ~built THEN "auth_failed" ELSE J!Outcome(r)
        BY <1>1, <1>3, <1>10 DEF J!Providers
      <4> QED BY <4>1, <4>2 DEF Decides, built
    <3>2. CASE judge.url # None
      BY <1>3, <1>4, <1>10, <2>4, <2>5, <3>2, <1>1 DEF Decides, J!Providers, built
    <3> QED BY <3>1, <3>2
  <2>7. ~Hidden(judge, provider)
    BY <1>10 DEF Hidden
  <2> QED BY <2>6, <2>7, DecidedFits
<1>11. CASE provider = "ollama"
  <2> DEFINE q == judge.reply["none"]
             e == IF allowed /\ q = "404" THEN "reject" ELSE "proceed"
  <2>1. m = J!Probed(e, FALSE)
    BY <1>2, <1>11 DEF DecidedProbe, J!OllamaPreflight, allowed
  <2>2. m.end = e
    <3> HIDE DEF e
    <3> QED BY <2>1, EndOfProbe
  <2>3. header = "none" /\ other = None
    BY <1>11 DEF J!RequestHeader, J!ProbeHeader, J!AuthRetryHeader
  <2>4. ~again
    BY <2>3 DEF AskedAgain
  <2>5. r = q
    BY <2>3, <2>4
  <2>6. c.end = IF ~built THEN "auth_failed" ELSE J!Outcome(q)
    <3>1. provider # None
      BY <1>11, <1>1 DEF J!Providers
    <3> QED BY <1>3, <2>5, <3>1
  <2> HIDE DEF header, other, again, r
  <2>7. CASE q \in {"401", "403"}
    <3>1. Lenient(judge, provider) /\ ~Hidden(judge, provider) /\ m.end = "proceed"
      BY <1>11, <2>2, <2>7 DEF Lenient, Hidden
    <3> QED BY <3>1 DEF ProbeFits
  <2>8. CASE q \notin {"401", "403"}
    <3>1. m.end \in {"proceed", "reject"} /\ (m.end = "reject" => q = "404") /\ (m.end = "proceed" => q # "404" \/ ~built)
      BY <1>5, <2>2
    <3> HIDE DEF q, e
    <3>2. Decides(m, c, judge, provider, insecure, q)
      BY <2>6, <2>8, <3>1 DEF Decides, Rejected, built
    <3>3. ~Hidden(judge, provider)
      BY <1>11 DEF Hidden
    <3> QED BY <3>2, <3>3, DecidedFits
  <2> QED BY <2>7, <2>8
<1> QED BY <1>1, <1>7, <1>8, <1>9, <1>10, <1>11 DEF J!Providers

LEMMA TwoFlattened ==
  ASSUME NEW a, NEW b
  PROVE  J!FlattenSeq(<<a, b>>) = a \o b
<1> DEFINE s == <<a, b>>
           G(f) == [i \in 1..Len(s) |-> IF i = 1 THEN s[i] ELSE f[i - 1] \o s[i]]
           g == [i \in 1..2 |-> IF i = 1 THEN a ELSE a \o b]
<1>1. Len(s) = 2 /\ s[1] = a /\ s[2] = b
  OBVIOUS
<1> HIDE DEF s
<1>2. 1..2 = {1, 2} /\ g[1] = a /\ g[2] = a \o b
  OBVIOUS
<1>3. g = G(g)
  <2>1. \A i \in 1..2 : g[i] = IF i = 1 THEN s[i] ELSE g[i - 1] \o s[i]
    <3>1. g[1] = s[1]
      BY <1>1, <1>2
    <3>2. g[2] = g[2 - 1] \o s[2]
      BY <1>1, <1>2
    <3> QED BY <1>2, <3>1, <3>2
  <2> QED BY <1>1, <2>1
<1> DEFINE K == CHOOSE f : f = G(f)
<1>4. K = G(K)
  <2> HIDE DEF G, g
  <2> QED BY <1>3
<1>5. \A f : G(f)[1] = s[1] /\ G(f)[2] = f[1] \o s[2]
  BY <1>1
<1>6. J!FlattenSeq(s) = K[2]
  BY <1>1 DEF J!FlattenSeq
<1> HIDE DEF K, G
<1>7. K[1] = s[1] /\ K[2] = K[1] \o s[2]
  <2>1. G(K)[1] = s[1] /\ G(K)[2] = K[1] \o s[2]
    BY <1>5
  <2> QED BY <1>4, <2>1
<1>8. s[1] = a /\ s[2] = b
  BY <1>1
<1> QED BY <1>6, <1>7, <1>8, Zenon DEF s

LEMMA JudgesOf ==
  ASSUME NEW S, NEW judges \in Seq(S)
  PROVE  J!CollectLLMScorers(<<[judges |-> <<>>], [judges |-> judges]>>) = judges
<1> DEFINE none == <<>>
           s == <<[judges |-> none], [judges |-> judges]>>
<1>1. DOMAIN s = 1..2 /\ s[1].judges = none /\ s[2].judges = judges
  OBVIOUS
<1>2. [i \in DOMAIN s |-> s[i].judges] = <<none, judges>>
  BY <1>1
<1>3. J!CollectLLMScorers(s) = J!FlattenSeq(<<none, judges>>)
  BY <1>2 DEF J!CollectLLMScorers
<1>4. none \o judges = judges
  OBVIOUS
<1> HIDE DEF s
<1>5. J!FlattenSeq(<<none, judges>>) = none \o judges
  BY TwoFlattened
<1> QED BY <1>3, <1>4, <1>5 DEF s, none

(* The probe of a list of judges, by the probe of each.                    *)
ProbedTogether(p, ends, n) ==
  /\ p.end \in {"proceed", "raises", "reject"}
  /\ p.end = "reject" => p.failures = {i \in 1..n : ends[i] = "reject"}
  /\ p.end # "reject" => p.failures = {}
  /\ p.end = "proceed" <=> \A i \in 1..n : ends[i] = "proceed"
  /\ p.end = "reject" => \A i \in 1..n : ends[i] # "raises"
  /\ p.end = "raises" <=> \E i \in 1..n : ends[i] = "raises"

LEMMA TogetherIs ==
  ASSUME NEW judges, NEW env, NEW insecure, NEW n \in Nat, DOMAIN judges = 1..n,
         NEW ends, ends = [i \in 1..n |-> J!PreflightModel(judges[i], env, insecure).end],
         \A i \in 1..n : ends[i] \in {"proceed", "reject", "raises"}
  PROVE  ProbedTogether(J!PreflightJudges(judges, env, insecure), ends, n)
<1> DEFINE ending(e) == {i \in DOMAIN judges : J!PreflightModel(judges[i], env, insecure).end = e}
           up == ending("raises")
           no == ending("reject")
           x1 == [end |-> "raises", failures |-> {}]
           x2 == [end |-> "reject", failures |-> no]
           x3 == [end |-> "proceed", failures |-> {}]
           p == J!PreflightJudges(judges, env, insecure)
<1>1. p = CASE up # {} -> x1 [] up = {} /\ no # {} -> x2 [] OTHER -> x3
  BY DEF J!PreflightJudges
<1>2. up = {i \in 1..n : ends[i] = "raises"} /\ no = {i \in 1..n : ends[i] = "reject"}
  OBVIOUS
<1> HIDE DEF up, no, p
<1>3. x1.end = "raises" /\ x1.failures = {} /\ x2.end = "reject" /\ x2.failures = no /\ x3.end = "proceed" /\ x3.failures = {}
  OBVIOUS
<1> HIDE DEF x1, x2, x3
<1>4. (up # {} => p = x1) /\ (up = {} /\ no # {} => p = x2) /\ (up = {} /\ no = {} => p = x3)
  BY <1>1
<1>5. CASE up # {}
  <2>1. \E i \in 1..n : ends[i] = "raises"
    BY <1>2, <1>5
  <2> QED BY <1>3, <1>4, <1>5, <2>1 DEF ProbedTogether, p
<1>6. CASE up = {} /\ no # {}
  <2>1. (\E i \in 1..n : ends[i] = "reject") /\ \A i \in 1..n : ends[i] # "raises"
    BY <1>2, <1>6
  <2> QED BY <1>2, <1>3, <1>4, <1>6, <2>1 DEF ProbedTogether, p
<1>7. CASE up = {} /\ no = {}
  <2>1. \A i \in 1..n : ends[i] = "proceed"
    BY <1>2, <1>7
  <2> QED BY <1>2, <1>3, <1>4, <1>7, <2>1 DEF ProbedTogether, p
<1> QED BY <1>5, <1>6, <1>7

(* The answer to a question about judges, as AskJudges gives it.           *)
JudgesAnswered(q, r) ==
  LET list == J!CollectLLMScorers(<<[judges |-> <<>>], [judges |-> q.judges]>>)
      call == [i \in DOMAIN list |-> J!CallApi(list[i], q.env, q.insecure, FALSE)]
  IN  r = [probe |-> J!PreflightJudges(list, q.env, q.insecure),
           alone |-> [i \in DOMAIN list |-> J!PreflightJudges(<<list[i]>>, q.env, q.insecure)],
           call |-> call,
           next |-> [i \in DOMAIN list |-> J!CallApi(list[i], q.env, q.insecure, call[i].learned)]]

(* What the answer says, judge by judge.                                   *)
LEMMA JudgesOneByOne ==
  ASSUME None \notin J!Providers, None \notin {"key", "bearer", "none"},
         NEW S, NEW judges \in Seq(S), NEW q, q.judges = judges, NEW r, JudgesAnswered(q, r),
         NEW ends, ends = [i \in 1..Len(judges) |-> J!PreflightModel(judges[i], q.env, q.insecure).end]
  PROVE  /\ ProbedTogether(r.probe, ends, Len(judges))
         /\ \A i \in 1..Len(judges) :
              LET provider == J!ResolveBackend(judges[i].prefix, judges[i].option, q.env)
                  m == J!PreflightModel(judges[i], q.env, q.insecure)
              IN  /\ ends[i] = m.end /\ r.alone[i].end = ends[i]
                  /\ ProbeFits(m, r.call[i], judges[i], provider)
                  /\ r.call[i].end = "answered" => r.next[i].end = "answered" /\ r.next[i].posts = 1
                  /\ r.next[i].end = "answered" => r.call[i].end = "answered"
<1> DEFINE n == Len(judges)
           call == [i \in 1..n |-> J!CallApi(judges[i], q.env, q.insecure, FALSE)]
           next == [i \in 1..n |-> J!CallApi(judges[i], q.env, q.insecure, call[i].learned)]
           alone == [i \in 1..n |-> J!PreflightJudges(<<judges[i]>>, q.env, q.insecure)]
           probe == J!PreflightJudges(judges, q.env, q.insecure)
<1>1. n \in Nat /\ DOMAIN judges = 1..n
  OBVIOUS
<1>2. J!CollectLLMScorers(<<[judges |-> <<>>], [judges |-> q.judges]>>) = judges
  BY JudgesOf
<1>3. r = [probe |-> probe, alone |-> alone, call |-> call, next |-> next]
  BY <1>1, <1>2 DEF JudgesAnswered
<1> HIDE DEF n, call, next, alone, probe
<1>4. r.probe = probe /\ r.alone = alone /\ r.call = call /\ r.next = next
  BY <1>3
<1>5. ASSUME NEW i \in 1..n
      PROVE  ProbeFits(J!PreflightModel(judges[i], q.env, q.insecure), r.call[i], judges[i],
                       J!ResolveBackend(judges[i].prefix, judges[i].option, q.env))
  <2>1. r.call[i] = J!CallApi(judges[i], q.env, q.insecure, FALSE)
    BY <1>4 DEF call
  <2> QED BY <2>1, EveryProbeFits
<1>6. ASSUME NEW i \in 1..n
      PROVE  /\ r.call[i].end = "answered" => r.next[i].end = "answered" /\ r.next[i].posts = 1
             /\ r.next[i].end = "answered" => r.call[i].end = "answered"
  <2> DEFINE c == r.call[i]
             d == r.next[i]
  <2>1. c = J!CallApi(judges[i], q.env, q.insecure, FALSE)
    BY <1>4 DEF call
  <2>2. d = J!CallApi(judges[i], q.env, q.insecure, c.learned)
    BY <1>4 DEF next
  <2> HIDE DEF c, d
  <2>3. AsksOnce(c, d)
    BY <2>1, <2>2, NextIs
  <2> QED BY <2>3 DEF AsksOnce, c, d
<1>7. \A i \in 1..n : ends[i] = J!PreflightModel(judges[i], q.env, q.insecure).end /\ ends[i] \in {"proceed", "reject", "raises"}
  BY <1>5 DEF ProbeFits, n
<1>8. ProbedTogether(r.probe, ends, n)
  <2>1. ends = [i \in 1..n |-> J!PreflightModel(judges[i], q.env, q.insecure).end]
    BY DEF n
  <2>2. ProbedTogether(probe, ends, n)
    BY ZenonT(40), <1>1, <1>7, <2>1, TogetherIs DEF probe
  <2> QED BY <1>4, <2>2
<1>9. ASSUME NEW i \in 1..n PROVE r.alone[i].end = ends[i]
  <2> DEFINE e == [j \in 1..1 |-> ends[i]]
             one == <<judges[i]>>
             p == J!PreflightJudges(one, q.env, q.insecure)
  <2>1. DOMAIN one = 1..1 /\ \A j \in 1..1 : one[j] = judges[i] /\ e[j] = ends[i]
    OBVIOUS
  <2>2. e = [j \in 1..1 |-> J!PreflightModel(one[j], q.env, q.insecure).end]
    BY <1>7, <2>1
  <2>3. \A j \in 1..1 : e[j] \in {"proceed", "reject", "raises"}
    BY <1>7, <2>1
  <2> HIDE DEF e, one
  <2>4. ProbedTogether(p, e, 1)
    BY <2>1, <2>2, <2>3, TogetherIs
  <2>5. r.alone[i] = p
    BY <1>4 DEF alone, one
  <2>6. 1 \in 1..1 /\ e[1] = ends[i]
    BY <2>1
  <2> HIDE DEF p
  <2>7. 1..1 = {1}
    OBVIOUS
  <2>8. p.end = "proceed" <=> ends[i] = "proceed"
    BY <2>4, <2>6, <2>7 DEF ProbedTogether
  <2>9. p.end = "raises" <=> ends[i] = "raises"
    BY <2>4, <2>6, <2>7 DEF ProbedTogether
  <2>10. p.end \in {"proceed", "raises", "reject"}
    BY <2>4 DEF ProbedTogether
  <2>11. p.end = ends[i]
    BY <1>7, <2>8, <2>9, <2>10
  <2> QED BY <2>5, <2>11
<1> QED BY <1>5, <1>6, <1>7, <1>8, <1>9 DEF n

(* Whatever judges there are, and whatever their servers answer: the probe *)
(* before a run rejects a judge only if its requests would be refused, its *)
(* server has no endpoint for single models, which it always rejects, or   *)
(* it is OpenAI's and has no key; it rejects every judge whose requests    *)
(* would be refused but these and ollama's that ask for authentication;    *)
(* and a judge that has found a header that works asks once                *)
(* (preflight_judges, _call_api).                                          *)
THEOREM AnyJudgeIsProbed ==
  ASSUME None \notin J!Providers, None \notin {"key", "bearer", "none"}, NEW S,
         asked.family = "judges" => asked.judges \in Seq(S) /\ JudgesAnswered(asked, answer)
  PROVE  JudgesAreProbed
<1> SUFFICES ASSUME asked.family = "judges" PROVE JudgesAreProbed
  BY DEF JudgesAreProbed
<1> DEFINE q == asked
           r == answer
           judges == asked.judges
           n == Len(judges)
           provider(i) == J!ResolveBackend(judges[i].prefix, judges[i].option, q.env)
           m(i) == J!PreflightModel(judges[i], q.env, q.insecure)
           ends == [i \in 1..n |-> m(i).end]
<1>1. judges \in Seq(S) /\ q.judges = judges /\ JudgesAnswered(q, r)
  OBVIOUS
<1>2. DOMAIN judges = 1..n
  BY <1>1
<1>3. /\ ProbedTogether(r.probe, ends, n)
      /\ \A i \in 1..n : /\ ends[i] = m(i).end /\ r.alone[i].end = ends[i]
                         /\ ProbeFits(m(i), r.call[i], judges[i], provider(i))
                         /\ r.call[i].end = "answered" => r.next[i].end = "answered" /\ r.next[i].posts = 1
                         /\ r.next[i].end = "answered" => r.call[i].end = "answered"
  <2> HIDE DEF judges, q, r
  <2> QED BY <1>1, JudgesOneByOne
<1> HIDE DEF ends, m, provider
<1>4. ASSUME NEW i \in r.probe.failures
      PROVE  \/ r.call[i].end \in {"fatal", "auth_failed"}
             \/ Hidden(judges[i], provider(i)) \/ Bare(judges[i], provider(i))
  <2>1. i \in 1..n /\ ends[i] = "reject"
    BY <1>3, <1>4 DEF ProbedTogether
  <2> QED BY <1>3, <1>4, <2>1 DEF ProbeFits
<1>5. ASSUME r.probe.end = "proceed", NEW i \in 1..n, r.call[i].end = "fatal"
      PROVE  Lenient(judges[i], provider(i)) \/ Bare(judges[i], provider(i))
  <2>1. ends[i] = "proceed"
    BY <1>3, <1>5 DEF ProbedTogether
  <2> QED BY <1>3, <1>5, <2>1 DEF ProbeFits
<1>6. r.probe.end = "reject" => r.probe.failures = {i \in 1..n : r.alone[i].end = "reject"}
  BY <1>3 DEF ProbedTogether
<1>7. r.probe.end = "proceed" <=> \A i \in 1..n : r.alone[i].end = "proceed"
  BY <1>3 DEF ProbedTogether
<1>8. /\ \A i \in 1..n : r.call[i].end = "answered" => r.next[i].end = "answered" /\ r.next[i].posts = 1
      /\ \A i \in 1..n : r.next[i].end = "answered" => r.call[i].end = "answered"
  BY <1>3
<1>9. \A i \in 1..n : Hidden(judges[i], provider(i)) => r.alone[i].end # "proceed"
  BY <1>3 DEF ProbeFits
<1> QED BY <1>2, <1>4, <1>5, <1>6, <1>7, <1>8, <1>9 DEF JudgesAreProbed, Lenient, provider, judges, q, r

-----------------------------------------------------------------------------
(* Groups.                                                                 *)

Group(Names) ==
  [name : Names, dir : Names, working : Names, fixture : Names, ref : Names,
   isolation : {"git-worktree", "none"}, clone : {"ok", "fails", "stays"}, setup : {"ok", "raises"}]
Partly(X, Y) == UNION {[D0 -> Y] : D0 \in SUBSET X}
Gates(Names) ==
  [failed : SUBSET Names, cache : Partly(Names, [source : Names, ref : Names \union {None}]), fixtures : Partly(Names, Names)]

Fixed(g) == g.fixture # ""
Working(g) == g.working # ""
Cloning(a, g) == Fixed(g) /\ ~Working(g) /\ g.dir \notin DOMAIN a.cache /\ g.clone = "ok"
Copy(g) == [source |-> g.fixture, ref |-> g.ref]

(* What becomes of the gates with one more group.                          *)
Prepared(a, b, g) ==
  /\ b.failed = IF Fixed(g) /\ ~Cloning(a, g) THEN a.failed \union {g.name} ELSE a.failed
  /\ DOMAIN a.cache \subseteq DOMAIN b.cache
  /\ DOMAIN b.cache \subseteq IF Fixed(g) THEN DOMAIN a.cache \union {g.dir} ELSE DOMAIN a.cache
  /\ \A d \in DOMAIN a.cache : b.cache[d] = a.cache[d]
  /\ Cloning(a, g) => /\ g.dir \in DOMAIN b.cache /\ b.cache[g.dir] = Copy(g)
                      /\ DOMAIN b.fixtures = DOMAIN a.fixtures \union {g.name}
                      /\ b.fixtures[g.name] = g.dir
                      /\ \A x \in DOMAIN a.fixtures : x # g.name => b.fixtures[x] = a.fixtures[x]
  /\ ~Cloning(a, g) => b.fixtures = a.fixtures

(* h is f with v at k.                                                     *)
Has(h, f, k, v) == DOMAIN h = DOMAIN f \union {k} /\ h[k] = v /\ \A x \in DOMAIN f : x # k => h[x] = f[x]

LEMMA WithIs ==
  ASSUME NEW X, NEW Y, NEW f, f \in Partly(X, Y), NEW k, k \in X, NEW v, v \in Y, NEW h, h = R!With(f, k, v)
  PROVE  h \in Partly(X, Y) /\ Has(h, f, k, v)
<1> DEFINE E == DOMAIN f \union {k}
           w == [x \in E |-> IF x = k THEN v ELSE f[x]]
<1>1. PICK E0 \in SUBSET X : f \in [E0 -> Y]
  BY DEF Partly
<1>2. w \in [E -> Y] /\ E \in SUBSET X
  BY <1>1
<1>3. w \in Partly(X, Y)
  BY <1>2 DEF Partly
<1>4. h = w
  BY DEF R!With
<1> QED BY <1>3, <1>4 DEF Has

LEMMA CloneIs ==
  ASSUME NEW Names, NEW cache \in Partly(Names, [source : Names, ref : Names \union {None}]), NEW g \in Group(Names),
         NEW c, c = R!CloneFixtureRepo(cache, g)
  PROVE  /\ c.ok <=> g.dir \notin DOMAIN cache /\ g.clone = "ok"
         /\ c.cache \in Partly(Names, [source : Names, ref : Names \union {None}])
         /\ DOMAIN cache \subseteq DOMAIN c.cache /\ DOMAIN c.cache \subseteq DOMAIN cache \union {g.dir}
         /\ \A d \in DOMAIN cache : c.cache[d] = cache[d]
         /\ c.ok => g.dir \in DOMAIN c.cache /\ c.cache[g.dir] = Copy(g)
<1> DEFINE Y == [source : Names, ref : Names \union {None}]
           ok == g.clone = "ok"
           v == [source |-> g.fixture, ref |-> IF ok THEN g.ref ELSE None]
           w == R!With(cache, g.dir, v)
           fails == g.clone = "fails"
           new == IF fails THEN cache ELSE w
<1>1. v \in Y /\ g.dir \in Names /\ (ok => v = Copy(g)) /\ (ok => ~fails)
  BY DEF Group, Copy
<1>2. /\ w \in Partly(Names, Y)
      /\ DOMAIN w = DOMAIN cache \union {g.dir}
      /\ w[g.dir] = v
      /\ \A x \in DOMAIN cache : x # g.dir => w[x] = cache[x]
  <2>1. w = R!With(cache, g.dir, v)
    OBVIOUS
  <2> HIDE DEF Y, v, w
  <2>2. cache \in Partly(Names, Y)
    BY DEF Y
  <2>3. w \in Partly(Names, Y) /\ Has(w, cache, g.dir, v)
    BY <1>1, <2>1, <2>2, WithIs
  <2> QED BY <2>3 DEF Has
<1>3. c = IF g.dir \in DOMAIN cache THEN [ok |-> FALSE, cache |-> cache] ELSE [ok |-> ok, cache |-> new]
  BY DEF R!CloneFixtureRepo
<1>4. ok \in BOOLEAN
  OBVIOUS
<1> DEFINE no == FALSE
           there == g.dir \in DOMAIN cache
           x1 == [ok |-> no, cache |-> cache]
           x2 == [ok |-> ok, cache |-> new]
<1>5. x1.ok = no /\ x1.cache = cache /\ x2.ok = ok /\ x2.cache = new
  <2> HIDE DEF no, ok, new
  <2> QED OBVIOUS
<1>6. IF there THEN c = x1 ELSE c = x2
  BY <1>3
<1> HIDE DEF x1, x2
<1>7. CASE there
  <2>1. c.ok = FALSE /\ c.cache = cache
    BY <1>5, <1>6, <1>7
  <2> QED BY <1>7, <2>1
<1>8. CASE ~there
  <2>1. c.ok = ok /\ c.cache = new
    BY <1>5, <1>6, <1>8
  <2>2. new \in Partly(Names, Y) /\ DOMAIN cache \subseteq DOMAIN new /\ DOMAIN new \subseteq DOMAIN cache \union {g.dir}
        /\ (\A d \in DOMAIN cache : new[d] = cache[d])
    BY <1>2, <1>8
  <2>3. ok => g.dir \in DOMAIN new /\ new[g.dir] = Copy(g)
    BY <1>1, <1>2
  <2> HIDE DEF new, ok, Y
  <2> QED BY <1>4, <1>8, <2>1, <2>2, <2>3 DEF ok, Y
<1> QED BY <1>7, <1>8

LEMMA PrepareIs ==
  ASSUME NEW Names, NEW a \in Gates(Names), NEW g \in Group(Names), NEW b, b = R!PrepareGroup(a, g)
  PROVE  b \in Gates(Names) /\ Prepared(a, b, g)
<1> DEFINE Y == [source : Names, ref : Names \union {None}]
           c == R!CloneFixtureRepo(a.cache, g)
           failed == a.failed \union {g.name}
           w == R!With(a.fixtures, g.name, g.dir)
           fixed == Fixed(g)
           working == Working(g)
           x1 == [failed |-> failed, cache |-> a.cache, fixtures |-> a.fixtures]
           x2 == [failed |-> a.failed, cache |-> c.cache, fixtures |-> w]
           x3 == [failed |-> failed, cache |-> c.cache, fixtures |-> a.fixtures]
<1>1. /\ a.failed \in SUBSET Names /\ a.cache \in Partly(Names, Y) /\ a.fixtures \in Partly(Names, Names)
      /\ g.name \in Names /\ g.dir \in Names
  BY DEF Gates, Group
<1>2. /\ c.ok <=> g.dir \notin DOMAIN a.cache /\ g.clone = "ok"
      /\ c.cache \in Partly(Names, Y)
      /\ DOMAIN a.cache \subseteq DOMAIN c.cache /\ DOMAIN c.cache \subseteq DOMAIN a.cache \union {g.dir}
      /\ \A d \in DOMAIN a.cache : c.cache[d] = a.cache[d]
      /\ c.ok => g.dir \in DOMAIN c.cache /\ c.cache[g.dir] = Copy(g)
  <2> HIDE DEF c
  <2>1. c = R!CloneFixtureRepo(a.cache, g)
    BY DEF c
  <2> QED BY <1>1, <2>1, CloneIs
<1>3. /\ w \in Partly(Names, Names)
      /\ DOMAIN w = DOMAIN a.fixtures \union {g.name}
      /\ w[g.name] = g.dir
      /\ \A x \in DOMAIN a.fixtures : x # g.name => w[x] = a.fixtures[x]
  <2>1. w = R!With(a.fixtures, g.name, g.dir)
    OBVIOUS
  <2> HIDE DEF w
  <2>2. w \in Partly(Names, Names) /\ Has(w, a.fixtures, g.name, g.dir)
    BY <1>1, <2>1, WithIs
  <2> QED BY <2>2 DEF Has
<1>4. b = IF ~fixed THEN a ELSE IF working THEN x1 ELSE IF c.ok THEN x2 ELSE x3
  BY DEF R!PrepareGroup, Fixed, Working
<1> DEFINE cloning == Cloning(a, g)
           ok == g.dir \notin DOMAIN a.cache /\ g.clone = "ok"
<1>5. (cloning <=> fixed /\ ~working /\ ok) /\ fixed \in BOOLEAN /\ working \in BOOLEAN /\ ok \in BOOLEAN
  BY DEF Cloning, Fixed, Working
<1>6. c.ok <=> ok
  BY <1>2
<1> HIDE DEF c, w, failed, fixed, working, cloning, ok
<1>7. /\ x1.failed = failed /\ x1.cache = a.cache /\ x1.fixtures = a.fixtures
      /\ x2.failed = a.failed /\ x2.cache = c.cache /\ x2.fixtures = w
      /\ x3.failed = failed /\ x3.cache = c.cache /\ x3.fixtures = a.fixtures
  OBVIOUS
<1>8. x1 \in Gates(Names) /\ x2 \in Gates(Names) /\ x3 \in Gates(Names)
  <2>1. failed \in SUBSET Names
    BY <1>1 DEF failed
  <2> QED BY <1>1, <1>2, <1>3, <2>1 DEF Gates
<1> HIDE DEF x1, x2, x3
<1>9. b \in Gates(Names)
  BY <1>4, <1>8
<1>10. CASE ~fixed
  <2>1. b = a /\ ~cloning
    BY <1>4, <1>5, <1>10
  <2> QED BY <1>9, <1>10, <2>1 DEF Prepared, fixed, cloning
<1>11. CASE fixed /\ working
  <2>1. b = x1 /\ ~cloning
    BY <1>4, <1>5, <1>11
  <2>2. b.failed = failed /\ b.cache = a.cache /\ b.fixtures = a.fixtures
    BY <1>7, <2>1
  <2> QED BY <1>9, <1>11, <2>1, <2>2 DEF Prepared, fixed, cloning, failed
<1>12. CASE fixed /\ ~working /\ ok
  <2>1. b = x2 /\ cloning
    BY <1>4, <1>5, <1>6, <1>12
  <2>2. b.failed = a.failed /\ b.cache = c.cache /\ b.fixtures = w
    BY <1>7, <2>1
  <2> QED BY <1>2, <1>3, <1>6, <1>9, <1>12, <2>1, <2>2 DEF Prepared, fixed, cloning
<1>13. CASE fixed /\ ~working /\ ~ok
  <2>1. b = x3 /\ ~cloning
    BY <1>4, <1>5, <1>6, <1>13
  <2>2. b.failed = failed /\ b.cache = c.cache /\ b.fixtures = a.fixtures
    BY <1>7, <2>1
  <2> QED BY <1>2, <1>9, <1>13, <2>1, <2>2 DEF Prepared, fixed, cloning, failed
<1> QED BY <1>5, <1>10, <1>11, <1>12, <1>13

Unprepared(rejected) == [failed |-> rejected, cache |-> R!Nothing, fixtures |-> R!Nothing]

LEMMA UnpreparedIs ==
  ASSUME NEW Names, NEW rejected \in SUBSET Names
  PROVE  /\ Unprepared(rejected) \in Gates(Names) /\ Unprepared(rejected).failed = rejected
         /\ DOMAIN Unprepared(rejected).cache = {} /\ DOMAIN Unprepared(rejected).fixtures = {}
<1>1. \A X, Y : R!Nothing \in Partly(X, Y) /\ DOMAIN R!Nothing = {}
  <2> TAKE X, Y
  <2>1. R!Nothing \in [{} -> Y] /\ {} \in SUBSET X
    BY DEF R!Nothing
  <2> QED BY <2>1 DEF Partly
<1> QED BY <1>1 DEF Unprepared, Gates

LEMMA FixturesUnfold ==
  ASSUME NEW Names, NEW groups, groups \in Seq(Group(Names)), NEW rejected, rejected \in SUBSET Names
  PROVE  \E f : /\ f[0] = Unprepared(rejected)
                /\ \A i \in 1..Len(groups) : f[i] = R!PrepareGroup(f[i - 1], groups[i])
                /\ \A i \in 0..Len(groups) : f[i] \in Gates(Names)
                /\ R!PrepareGroupFixtures(groups, rejected) = f[Len(groups)]
<1> DEFINE n == Len(groups)
           X == Gates(Names)
           first == Unprepared(rejected)
           step == [i \in 1..n |-> [v \in X |-> R!PrepareGroup(v, groups[i])]]
           G(f) == [i \in 0..Len(groups) |-> IF i = 0 THEN first ELSE R!PrepareGroup(f[i - 1], groups[i])]
<1>1. n \in Nat /\ \A i \in 1..n : groups[i] \in Group(Names)
  OBVIOUS
<1>2. first \in X
  BY UnpreparedIs
<1> HIDE DEF first
<1>3. step \in [1..n -> [X -> X]]
  <2>1. \A i \in 1..n : \A v \in X : R!PrepareGroup(v, groups[i]) \in X
    BY <1>1, PrepareIs
  <2> QED BY <2>1
<1>4. PICK f \in [0..n -> X] : Iterate(f, first, n, step)
  <2> HIDE DEF n, step, X
  <2> QED BY <1>1, <1>2, <1>3, Iterates
<1>5. f = G(f)
  <2>1. \A i \in 0..n : f[i] = G(f)[i]
    <3> TAKE i \in 0..n
    <3>1. CASE i = 0
      BY <3>1, <1>4 DEF Iterate
    <3>2. CASE i # 0
      <4>1. i \in 1..n /\ i - 1 \in 0..n
        BY <1>1, <3>2
      <4>2. f[i - 1] \in X
        BY <4>1, <1>4
      <4> HIDE DEF X
      <4> QED BY <4>1, <4>2, <1>4, <3>2 DEF Iterate
    <3> QED BY <3>1, <3>2
  <2> QED BY <2>1
<1>6. \E g : g = G(g)
  BY <1>5
<1> DEFINE K == CHOOSE g : g = G(g)
<1>7. K = G(K)
  <2> HIDE DEF G
  <2> QED BY <1>6
<1>8. R!PrepareGroupFixtures(groups, rejected) = K[Len(groups)]
  BY DEF R!PrepareGroupFixtures, first, Unprepared
<1>9. \A g : \A i \in 0..n : G(g)[i] = IF i = 0 THEN first ELSE R!PrepareGroup(g[i - 1], groups[i])
  OBVIOUS
<1> HIDE DEF K, G
<1>10. \A i \in 0..n : K[i] = IF i = 0 THEN first ELSE R!PrepareGroup(K[i - 1], groups[i])
  BY <1>7, <1>9
<1>11. K[0] = first /\ \A i \in 1..n : K[i] = R!PrepareGroup(K[i - 1], groups[i])
  BY <1>1, <1>10
<1>12. \A i \in 0..n : K[i] \in X
  <2> DEFINE T == {i \in Nat : i <= n => K[i] \in X}
  <2>1. 0 \in T
    BY <1>2, <1>11
  <2>2. ASSUME NEW i \in 1..n, i - 1 \in T PROVE i \in T
    <3>1. K[i - 1] \in X /\ i \in Nat
      BY <1>1, <2>2
    <3>2. K[i] \in X
      BY <1>1, <1>11, <3>1, PrepareIs
    <3> QED BY <3>1, <3>2
  <2> HIDE DEF T, X, n
  <2>3. \A j \in 0..n : j \in T
    <3> TAKE j \in 0..n
    <3>1. j \in Nat /\ \A i \in 1..j : i \in 1..n
      BY <1>1
    <3> QED BY <2>1, <2>2, <3>1, CountUp
  <2> QED BY <1>1, <2>3 DEF T
<1> QED BY <1>8, <1>11, <1>12 DEF first

(* What the loop over the groups keeps, after the first i of them.         *)
TakenBy(groups, i) == \E j \in 1..(i - 1) : groups[j].dir = groups[i].dir /\ Fixed(groups[j])
Refused(groups, i) ==
  Fixed(groups[i]) /\ (Working(groups[i]) \/ groups[i].clone # "ok" \/ TakenBy(groups, i))
Progress(a, groups, rejected, i) ==
  /\ rejected \subseteq a.failed
  /\ \A x \in a.failed : x \in rejected \/ \E j \in 1..i : x = groups[j].name /\ Refused(groups, j)
  /\ \A j \in 1..i : Fixed(groups[j]) /\ Working(groups[j]) => groups[j].name \in a.failed
  /\ \A d \in DOMAIN a.cache : \E j \in 1..i : groups[j].dir = d /\ Fixed(groups[j])
  /\ \A x \in DOMAIN a.fixtures : \E j \in 1..i : x = groups[j].name /\ Fixed(groups[j])
  /\ \A j \in 1..i :
       Fixed(groups[j]) /\ groups[j].name \notin a.failed =>
         /\ groups[j].name \in DOMAIN a.fixtures /\ a.fixtures[groups[j].name] = groups[j].dir
         /\ groups[j].dir \in DOMAIN a.cache /\ a.cache[groups[j].dir] = Copy(groups[j])

LEMMA Progresses ==
  ASSUME NEW groups, NEW n \in Nat, NEW i \in 1..n, \A j, k \in 1..n : groups[j].name = groups[k].name => j = k,
         NEW rejected, NEW a, NEW b, Progress(a, groups, rejected, i - 1), Prepared(a, b, groups[i])
  PROVE  Progress(b, groups, rejected, i)
<1> DEFINE g == groups[i]
<1>1. 1..i = 1..(i - 1) \union {i} /\ i \in Nat /\ i - 1 \in Nat /\ \A j \in 1..i : j \in 1..n
  OBVIOUS
<1>2. /\ rejected \subseteq a.failed
      /\ \A x \in a.failed : x \in rejected \/ \E j \in 1..(i - 1) : x = groups[j].name /\ Refused(groups, j)
      /\ \A j \in 1..(i - 1) : Fixed(groups[j]) /\ Working(groups[j]) => groups[j].name \in a.failed
      /\ \A d \in DOMAIN a.cache : \E j \in 1..(i - 1) : groups[j].dir = d /\ Fixed(groups[j])
      /\ \A x \in DOMAIN a.fixtures : \E j \in 1..(i - 1) : x = groups[j].name /\ Fixed(groups[j])
      /\ \A j \in 1..(i - 1) :
           Fixed(groups[j]) /\ groups[j].name \notin a.failed =>
             /\ groups[j].name \in DOMAIN a.fixtures /\ a.fixtures[groups[j].name] = groups[j].dir
             /\ groups[j].dir \in DOMAIN a.cache /\ a.cache[groups[j].dir] = Copy(groups[j])
  BY DEF Progress
<1>3. /\ b.failed = IF Fixed(g) /\ ~Cloning(a, g) THEN a.failed \union {g.name} ELSE a.failed
      /\ DOMAIN a.cache \subseteq DOMAIN b.cache
      /\ DOMAIN b.cache \subseteq IF Fixed(g) THEN DOMAIN a.cache \union {g.dir} ELSE DOMAIN a.cache
      /\ \A d \in DOMAIN a.cache : b.cache[d] = a.cache[d]
      /\ Cloning(a, g) => /\ g.dir \in DOMAIN b.cache /\ b.cache[g.dir] = Copy(g)
                          /\ DOMAIN b.fixtures = DOMAIN a.fixtures \union {g.name}
                          /\ b.fixtures[g.name] = g.dir
                          /\ \A x \in DOMAIN a.fixtures : x # g.name => b.fixtures[x] = a.fixtures[x]
      /\ ~Cloning(a, g) => b.fixtures = a.fixtures
  BY DEF Prepared
<1>4. Cloning(a, g) => Fixed(g) /\ ~Working(g)
  BY DEF Cloning
<1>5. rejected \subseteq b.failed /\ a.failed \subseteq b.failed
  BY <1>2, <1>3
<1>6. ASSUME NEW x \in b.failed PROVE x \in rejected \/ \E j \in 1..i : x = groups[j].name /\ Refused(groups, j)
  <2>1. CASE x \in a.failed
    BY <1>1, <1>2, <2>1
  <2>2. CASE x \notin a.failed
    <3>1. x = g.name /\ Fixed(g) /\ ~Cloning(a, g)
      BY <1>3, <1>6, <2>2
    <3>2. Working(g) \/ g.clone # "ok" \/ g.dir \in DOMAIN a.cache
      BY <3>1 DEF Cloning
    <3>3. g.dir \in DOMAIN a.cache => TakenBy(groups, i)
      BY <1>2 DEF TakenBy
    <3>4. Refused(groups, i)
      BY <3>1, <3>2, <3>3 DEF Refused
    <3> QED BY <1>1, <3>1, <3>4
  <2> QED BY <2>1, <2>2
<1>7. ASSUME NEW j \in 1..i, Fixed(groups[j]), Working(groups[j]) PROVE groups[j].name \in b.failed
  <2>1. CASE j = i
    BY <1>3, <1>4, <1>7, <2>1
  <2>2. CASE j \in 1..(i - 1)
    BY <1>2, <1>5, <1>7, <2>2
  <2> QED BY <1>1, <2>1, <2>2
<1>8. ASSUME NEW d \in DOMAIN b.cache PROVE \E j \in 1..i : groups[j].dir = d /\ Fixed(groups[j])
  <2>1. CASE d \in DOMAIN a.cache
    BY <1>1, <1>2, <2>1
  <2>2. CASE d \notin DOMAIN a.cache
    <3>1. d = g.dir /\ Fixed(g)
      BY <1>3, <1>8, <2>2
    <3> QED BY <1>1, <3>1
  <2> QED BY <2>1, <2>2
<1>9. ASSUME NEW x \in DOMAIN b.fixtures PROVE \E j \in 1..i : x = groups[j].name /\ Fixed(groups[j])
  <2>1. CASE x \in DOMAIN a.fixtures
    BY <1>1, <1>2, <2>1
  <2>2. CASE x \notin DOMAIN a.fixtures
    <3>1. x = g.name /\ Fixed(g)
      BY <1>3, <1>4, <1>9, <2>2
    <3> QED BY <1>1, <3>1
  <2> QED BY <2>1, <2>2
<1>10. ASSUME NEW j \in 1..i, Fixed(groups[j]), groups[j].name \notin b.failed
       PROVE  /\ groups[j].name \in DOMAIN b.fixtures /\ b.fixtures[groups[j].name] = groups[j].dir
              /\ groups[j].dir \in DOMAIN b.cache /\ b.cache[groups[j].dir] = Copy(groups[j])
  <2>1. CASE j = i
    <3>1. Cloning(a, g)
      BY <1>3, <1>10, <2>1
    <3> QED BY <1>3, <2>1, <3>1
  <2>2. CASE j \in 1..(i - 1)
    <3>1. groups[j].name # g.name
      BY <1>1, <2>2
    <3>2. /\ groups[j].name \in DOMAIN a.fixtures /\ a.fixtures[groups[j].name] = groups[j].dir
          /\ groups[j].dir \in DOMAIN a.cache /\ a.cache[groups[j].dir] = Copy(groups[j])
      BY <1>2, <1>5, <1>10, <2>2
    <3>3. groups[j].name \in DOMAIN b.fixtures /\ b.fixtures[groups[j].name] = groups[j].dir
      BY <1>3, <3>1, <3>2
    <3>4. groups[j].dir \in DOMAIN b.cache /\ b.cache[groups[j].dir] = Copy(groups[j])
      BY <1>3, <3>2
    <3> QED BY <3>3, <3>4
  <2> QED BY <1>1, <2>1, <2>2
<1> QED BY <1>5, <1>6, <1>7, <1>8, <1>9, <1>10 DEF Progress

LEMMA FixturesAre ==
  ASSUME NEW Names, NEW groups, groups \in Seq(Group(Names)), NEW rejected, rejected \in SUBSET Names,
         \A j, k \in 1..Len(groups) : groups[j].name = groups[k].name => j = k,
         NEW a, a = R!PrepareGroupFixtures(groups, rejected)
  PROVE  a \in Gates(Names) /\ Progress(a, groups, rejected, Len(groups))
<1> DEFINE n == Len(groups)
<1>1. n \in Nat /\ \A i \in 1..n : groups[i] \in Group(Names)
  OBVIOUS
<1>2. PICK f : /\ f[0] = Unprepared(rejected)
               /\ \A i \in 1..n : f[i] = R!PrepareGroup(f[i - 1], groups[i])
               /\ \A i \in 0..n : f[i] \in Gates(Names)
               /\ a = f[n]
  BY FixturesUnfold
<1> DEFINE T == {i \in Nat : i <= n => Progress(f[i], groups, rejected, i)}
<1>3. 0 \in T
  <2>1. f[0].failed = rejected /\ DOMAIN f[0].cache = {} /\ DOMAIN f[0].fixtures = {}
    BY <1>2, UnpreparedIs
  <2>2. Progress(f[0], groups, rejected, 0)
    BY <2>1 DEF Progress
  <2> QED BY <2>2
<1>4. ASSUME NEW i \in 1..n, i - 1 \in T PROVE i \in T
  <2>1. Progress(f[i - 1], groups, rejected, i - 1) /\ i \in Nat /\ i - 1 \in 0..n
    BY <1>1, <1>4
  <2>2. f[i - 1] \in Gates(Names) /\ f[i] = R!PrepareGroup(f[i - 1], groups[i])
    BY <1>2, <2>1
  <2>3. Prepared(f[i - 1], f[i], groups[i])
    BY <1>1, <2>2, PrepareIs
  <2>4. Progress(f[i], groups, rejected, i)
    BY <1>1, <2>1, <2>3, Progresses
  <2> QED BY <2>1, <2>4
<1>5. n \in T
  <2> HIDE DEF T, n
  <2> QED BY <1>1, <1>3, <1>4, CountUp
<1> QED BY <1>1, <1>2, <1>5

(* What a gate rejects, and what a run does with the groups that passed.   *)
Barred(g, o) ==
  \/ g.isolation = "none" /\ ~o.inplace
  \/ g.working = "outside" /\ g.fixture = "" /\ g.isolation = "git-worktree" /\ ~o.external
Gated(groups, o) == R!ExternalWorkingDirGate(groups, o.external) \union R!InplaceGate(groups, o.inplace)

LEMMA GatedIs ==
  ASSUME NEW Names, NEW groups, groups \in Seq(Group(Names)), NEW o
  PROVE  /\ Gated(groups, o) \in SUBSET Names
         /\ \A x : x \in Gated(groups, o) <=> \E j \in 1..Len(groups) : x = groups[j].name /\ Barred(groups[j], o)
<1> DEFINE n == Len(groups)
           out == R!ExternalWorkingDirGate(groups, o.external)
           in == R!InplaceGate(groups, o.inplace)
<1>1. /\ R!ToSet(groups) = {groups[j] : j \in 1..n}
      /\ \A j \in 1..n : groups[j].isolation \in {"git-worktree", "none"} /\ groups[j].name \in Names
  <2>1. \A j \in 1..n : groups[j] \in Group(Names)
    OBVIOUS
  <2>2. DOMAIN groups = 1..n
    OBVIOUS
  <2> QED BY <2>1, <2>2 DEF R!ToSet, Group
<1>2. \A x : x \in out <=> \E j \in 1..n : /\ x = groups[j].name /\ groups[j].working = "outside" /\ groups[j].fixture = ""
                                        /\ groups[j].isolation = "git-worktree" /\ ~o.external
  BY <1>1 DEF R!ExternalWorkingDirGate, R!Worktrees
<1>3. \A x : x \in in <=> \E j \in 1..n : x = groups[j].name /\ groups[j].isolation # "git-worktree" /\ ~o.inplace
  BY <1>1 DEF R!InplaceGate, R!Worktrees
<1>4. Gated(groups, o) = out \union in
  BY DEF Gated
<1> DEFINE outside(j) == /\ groups[j].working = "outside" /\ groups[j].fixture = ""
                         /\ groups[j].isolation = "git-worktree" /\ ~o.external
           inplace(j) == groups[j].isolation = "none" /\ ~o.inplace
<1>5. \A j \in 1..n : Barred(groups[j], o) <=> outside(j) \/ inplace(j)
  BY DEF Barred
<1>6. \A x : x \in out <=> \E j \in 1..n : x = groups[j].name /\ outside(j)
  BY <1>2
<1>7. \A x : x \in in <=> \E j \in 1..n : x = groups[j].name /\ inplace(j)
  BY <1>1, <1>3
<1>8. \A j \in 1..n : groups[j].name \in Names
  BY <1>1
<1> HIDE DEF out, in, n, outside, inplace
<1>9. \A x : x \in Gated(groups, o) <=> \E j \in 1..n : x = groups[j].name /\ Barred(groups[j], o)
  BY <1>4, <1>5, <1>6, <1>7
<1> QED BY <1>8, <1>9 DEF n

SetUp(done, a, groups) ==
  /\ done.cache = a.cache /\ done.fixtures = a.fixtures
  /\ \A x : x \in done.tried <=> \E j \in 1..Len(groups) : x = groups[j].name /\ x \notin a.failed
  /\ \A x : x \in done.ready <=> \E j \in 1..Len(groups) : x = groups[j].name /\ x \notin a.failed /\ groups[j].setup = "ok"
  /\ \A x : x \in done.failed <=>
       x \in a.failed \/ \E j \in 1..Len(groups) : x = groups[j].name /\ x \notin a.failed /\ groups[j].setup = "raises"

LEMMA SetUpIs ==
  ASSUME NEW Names, NEW groups, groups \in Seq(Group(Names)), NEW o, NEW done, done = R!SetupGroups(groups, o),
         NEW a, a = R!PrepareGroupFixtures(groups, Gated(groups, o))
  PROVE  SetUp(done, a, groups)
<1> DEFINE n == Len(groups)
           tried == {g \in R!ToSet(groups) : g.name \notin a.failed}
           ready == {g.name : g \in {h \in tried : h.setup = "ok"}}
           failed == a.failed \union {g.name : g \in {h \in tried : h.setup = "raises"}}
           names == {g.name : g \in tried}
           fatal == (o.strict /\ failed # a.failed) \/ ready = {}
<1>1. R!ToSet(groups) = {groups[j] : j \in 1..n}
  BY DEF R!ToSet
<1>2. done = [fatal |-> fatal, ready |-> ready, failed |-> failed, tried |-> names, cache |-> a.cache, fixtures |-> a.fixtures]
  BY DEF R!SetupGroups, Gated
<1>3. \A x : x \in names <=> \E j \in 1..n : x = groups[j].name /\ x \notin a.failed
  BY <1>1
<1>4. \A x : x \in ready <=> \E j \in 1..n : x = groups[j].name /\ x \notin a.failed /\ groups[j].setup = "ok"
  BY <1>1
<1>5. \A x : x \in failed <=> x \in a.failed \/ \E j \in 1..n : x = groups[j].name /\ x \notin a.failed /\ groups[j].setup = "raises"
  BY <1>1
<1> HIDE DEF fatal, ready, failed, names
<1>6. done.cache = a.cache /\ done.fixtures = a.fixtures /\ done.tried = names /\ done.ready = ready /\ done.failed = failed
  BY <1>2
<1> QED BY <1>3, <1>4, <1>5, <1>6 DEF SetUp

(* The answer to a question about groups, as AskGroups gives it.           *)
GroupsAnswered(q, r) ==
  LET done == R!SetupGroups(q.groups, q.options)
  IN  r = [done |-> done,
           base |-> [i \in DOMAIN q.groups |->
                       IF q.groups[i].name \in done.ready THEN R!BaseRepo(q.groups[i], done.fixtures) ELSE None]]

(* Whatever groups there are, of distinct names, and whatever becomes of   *)
(* their clones and setups: no group that the user has not opted in to, or *)
(* whose setup contradicts itself, is set up, none is rejected without a   *)
(* reason, and a worktree is of its own group's fixture (setup_groups,     *)
(* run_scenarios).                                                         *)
THEOREM AnyGroupIsInItsWorld ==
  ASSUME \A at : None # [kind |-> "working_dir", at |-> at, ref |-> "workspace_ref"], NEW Names,
         asked.family = "groups" =>
           /\ asked.groups \in Seq(Group(Names)) /\ GroupsAnswered(asked, answer)
           /\ \A j, k \in 1..Len(asked.groups) : asked.groups[j].name = asked.groups[k].name => j = k
  PROVE  GroupsInTheirWorld
<1> SUFFICES ASSUME asked.family = "groups" PROVE GroupsInTheirWorld
  BY DEF GroupsInTheirWorld
<1> DEFINE groups == asked.groups
           o == asked.options
           n == Len(groups)
           done == answer.done
           rejected == Gated(groups, o)
           a == R!PrepareGroupFixtures(groups, rejected)
           denied(g) == \/ g.isolation = "none" /\ ~o.inplace
                        \/ g.fixture # "" /\ g.working # ""
                        \/ /\ g.working = "outside" /\ g.fixture = "" /\ g.isolation = "git-worktree"
                           /\ ~o.external
           taken(i) == \E j \in 1..(i - 1) : groups[j].dir = groups[i].dir /\ groups[j].fixture # ""
           world(i) == LET g == groups[i]
                           base == answer.base[i]
                       IN  g.name \in done.ready /\ g.isolation = "git-worktree" =>
                             IF g.fixture # ""
                             THEN base.kind = "clone" /\ done.cache[base.at] = [source |-> g.fixture, ref |-> base.ref]
                             ELSE base = None <=> g.working = ""
<1>1. groups \in Seq(Group(Names)) /\ \A j, k \in 1..n : groups[j].name = groups[k].name => j = k
  OBVIOUS
<1>2. /\ DOMAIN groups = 1..n /\ n \in Nat
      /\ \A i \in 1..n : groups[i].setup \in {"ok", "raises"} /\ groups[i] \in Group(Names)
  <2>1. DOMAIN groups = 1..n /\ n \in Nat /\ \A i \in 1..n : groups[i] \in Group(Names)
    BY <1>1
  <2> QED BY <2>1 DEF Group
<1>3. /\ done = R!SetupGroups(groups, o)
      /\ \A i \in 1..n : answer.base[i] = IF groups[i].name \in done.ready THEN R!BaseRepo(groups[i], done.fixtures) ELSE None
  BY <1>2 DEF GroupsAnswered
<1> HIDE DEF groups, n, o, done
<1>4. rejected \in SUBSET Names /\ \A x : x \in rejected <=> \E j \in 1..n : x = groups[j].name /\ Barred(groups[j], o)
  BY <1>1, GatedIs DEF n
<1> HIDE DEF rejected
<1>5. a \in Gates(Names) /\ Progress(a, groups, rejected, n)
  BY <1>1, <1>4, FixturesAre DEF n
<1>6. SetUp(done, a, groups)
  BY <1>1, <1>3, SetUpIs DEF rejected
<1> HIDE DEF a
<1>7. /\ done.cache = a.cache /\ done.fixtures = a.fixtures
      /\ \A x : x \in done.tried <=> \E j \in 1..n : x = groups[j].name /\ x \notin a.failed
      /\ \A x : x \in done.ready <=> \E j \in 1..n : x = groups[j].name /\ x \notin a.failed /\ groups[j].setup = "ok"
      /\ \A x : x \in done.failed <=>
           x \in a.failed \/ \E j \in 1..n : x = groups[j].name /\ x \notin a.failed /\ groups[j].setup = "raises"
  BY <1>6 DEF SetUp, n
<1>8. \A x \in a.failed : x \in rejected \/ \E j \in 1..n : x = groups[j].name /\ Refused(groups, j)
  BY <1>5 DEF Progress
<1>9. done.ready \union done.failed = {g.name : g \in ToSet(groups)}
  <2>1. \A x : x \in {g.name : g \in ToSet(groups)} <=> \E j \in 1..n : x = groups[j].name
    BY <1>2 DEF ToSet
  <2>2. \A x \in a.failed : \E j \in 1..n : x = groups[j].name
    BY <1>4, <1>8
  <2>3. \A x : x \in done.ready \union done.failed => \E j \in 1..n : x = groups[j].name
    BY <1>7, <2>2
  <2>4. \A j \in 1..n : groups[j].name \in done.ready \union done.failed
    BY <1>2, <1>7
  <2> HIDE DEF done
  <2>5. \A x : x \in done.ready \union done.failed <=> x \in {g.name : g \in ToSet(groups)}
    BY <2>1, <2>3, <2>4
  <2> QED BY <2>5
<1>10. done.ready \intersect done.failed = {}
  <2> SUFFICES ASSUME NEW x, x \in done.ready, x \in done.failed PROVE FALSE
    OBVIOUS
  <2>1. PICK j \in 1..n : x = groups[j].name /\ x \notin a.failed /\ groups[j].setup = "ok"
    BY <1>7
  <2>2. PICK k \in 1..n : x = groups[k].name /\ groups[k].setup = "raises"
    BY <1>7, <2>1
  <2>3. j = k
    BY <1>1, <2>1, <2>2
  <2> QED BY <2>1, <2>2, <2>3
<1>11. \A i \in 1..n : denied(groups[i]) <=> Barred(groups[i], o) \/ (Fixed(groups[i]) /\ Working(groups[i]))
  BY DEF Barred, Fixed, Working
<1>12. \A i \in 1..n : taken(i) <=> TakenBy(groups, i)
  BY DEF TakenBy, Fixed
<1>13. ASSUME NEW i \in 1..n, denied(groups[i]) PROVE groups[i].name \notin done.tried
  <2>1. groups[i].name \in a.failed
    <3>1. CASE Barred(groups[i], o)
      BY <1>4, <1>5, <3>1 DEF Progress
    <3>2. CASE Fixed(groups[i]) /\ Working(groups[i])
      BY <1>5, <3>2 DEF Progress
    <3> HIDE DEF denied
    <3> QED BY <1>11, <1>13, <3>1, <3>2
  <2> QED BY <1>7, <2>1
<1>14. ASSUME NEW i \in 1..n, groups[i].name \in done.failed
       PROVE  \/ denied(groups[i]) \/ groups[i].setup = "raises"
              \/ groups[i].fixture # "" /\ (groups[i].clone # "ok" \/ taken(i))
  <2> DEFINE x == groups[i].name
  <2>1. CASE x \in rejected
    <3>1. PICK j \in 1..n : x = groups[j].name /\ Barred(groups[j], o)
      BY <1>4, <2>1
    <3>2. j = i
      BY <1>1, <3>1
    <3> HIDE DEF denied
    <3> QED BY <1>11, <3>1, <3>2
  <2>2. CASE x \in a.failed /\ x \notin rejected
    <3>1. PICK j \in 1..n : x = groups[j].name /\ Refused(groups, j)
      BY <1>8, <2>2
    <3>2. j = i
      BY <1>1, <3>1
    <3>3. Fixed(groups[i]) /\ (Working(groups[i]) \/ groups[i].clone # "ok" \/ taken(i))
      BY <1>12, <3>1, <3>2 DEF Refused
    <3> HIDE DEF denied, taken
    <3> QED BY <1>11, <3>3 DEF Fixed
  <2>3. CASE x \notin a.failed
    <3>1. PICK j \in 1..n : x = groups[j].name /\ groups[j].setup = "raises"
      BY <1>7, <1>14, <2>3
    <3>2. j = i
      BY <1>1, <3>1
    <3> QED BY <3>1, <3>2
  <2> QED BY <2>1, <2>2, <2>3
<1>15. ASSUME NEW i \in 1..n PROVE world(i)
  <2> DEFINE g == groups[i]
             base == answer.base[i]
             x == g.name
  <2> SUFFICES ASSUME x \in done.ready, g.isolation = "git-worktree"
               PROVE  IF g.fixture # ""
                      THEN base.kind = "clone" /\ done.cache[base.at] = [source |-> g.fixture, ref |-> base.ref]
                      ELSE base = None <=> g.working = ""
    OBVIOUS
  <2>1. base = R!BaseRepo(g, a.fixtures) /\ x \notin a.failed
    BY <1>3, <1>7
  <2>2. CASE Fixed(g)
    <3>1. x \in DOMAIN a.fixtures /\ a.fixtures[x] = g.dir /\ a.cache[g.dir] = Copy(g)
      BY <1>2, <1>5, <2>1, <2>2 DEF Progress
    <3>2. base = [kind |-> "clone", at |-> g.dir, ref |-> g.ref]
      BY <2>1, <3>1 DEF R!BaseRepo, R!Worktrees
    <3>3. base.kind = "clone" /\ base.at = g.dir /\ base.ref = g.ref
      BY <3>2
    <3>4. done.cache[base.at] = [source |-> g.fixture, ref |-> base.ref]
      BY <1>7, <3>1, <3>3 DEF Copy
    <3> HIDE DEF base, g
    <3> QED BY <2>2, <3>3, <3>4 DEF Fixed
  <2>3. CASE ~Fixed(g)
    <3>1. x \notin DOMAIN a.fixtures
      <4> SUFFICES ASSUME x \in DOMAIN a.fixtures PROVE FALSE
        OBVIOUS
      <4>1. PICK j \in 1..n : x = groups[j].name /\ Fixed(groups[j])
        BY <1>5 DEF Progress
      <4>2. j = i
        BY <1>1, <4>1
      <4> QED BY <2>3, <4>1, <4>2
    <3>2. base = IF g.working # "" THEN [kind |-> "working_dir", at |-> g.working, ref |-> "workspace_ref"] ELSE None
      BY <2>1, <3>1 DEF R!BaseRepo, R!Worktrees
    <3>3. base = None <=> g.working = ""
      BY <3>2
    <3> HIDE DEF base, g
    <3> QED BY <2>3, <3>3 DEF Fixed
  <2> QED BY <2>2, <2>3
<1> HIDE DEF denied, taken, world
<1> QED BY <1>2, <1>9, <1>10, <1>13, <1>14, <1>15 DEF GroupsInTheirWorld, groups, n, o, done, denied, taken, world

-----------------------------------------------------------------------------
(* All that comes before a turn.                                           *)

(* The answers of AskFlags, AskSpawn, AskCommand, AskBinary, AskToken,     *)
(* AskJudges and AskGroups, to any question of theirs.                     *)
FlagsAnswered(q, r, Names) ==
  q.family = "flags" =>
    /\ q.adapter \in SomeAdapters /\ q.flags \in Seq(Arguments(Names))
    /\ r = [flags |-> FilterFlags(q.adapter, q.flags, q.unsafe)]
ChildAnswered(q, r, there, command) ==
  q.family = "spawn" =>
    LET where == BuildSandbox(q.profile, q.override, there)
        env == BuildSubprocessEnv(q.required, q.parent, q.full)
    IN  r = [where |-> where, env |-> env,
             child |-> IF where = "raises" THEN None ELSE Popen(where, q.profile, q.required, env, command)]
CommandAnswered(q, r, Names) ==
  q.family = "command" =>
    /\ q.adapter \in SomeAdapters /\ q.options \in Options(Names)
    /\ q.flags \in Seq(Arguments(Names)) /\ FlagsNamed(q.flags)
    /\ NoMessage(q.options) /\ Stated(q.options) /\ NoSandbox(q.options)
    /\ r = [command |-> Command(q.adapter, q.options, q.flags)]
TokenAnswered(q, r) ==
  q.family = "token" => q.requests \in Seq(SomeTimes) /\ r = Requested(q.requests)
GroupsAsked(q, Names) ==
  /\ q.groups \in Seq(Group(Names))
  /\ \A j, k \in 1..Len(q.groups) : q.groups[j].name = q.groups[k].name => j = k

(* Whatever is asked about what comes before a turn, of words among any    *)
(* Names: FlagsKept, ChildSeesItsOwn, CommandWhole, BinaryFound,           *)
(* TokenIsFresh, JudgesAreProbed and GroupsInTheirWorld hold of the answer *)
(* (the theorems above say of which code).                                 *)
THEOREM AnyLaunchKeepsTheRules ==
  ASSUME None \notin Nat, None \notin J!Providers, None \notin {"key", "bearer", "none"},
         \A at : None # [kind |-> "working_dir", at |-> at, ref |-> "workspace_ref"],
         NEW Names, Vocabulary \subseteq Names, NEW Judges, NEW there, NEW command,
         NEW envs \in Seq(Names), NEW paths \in Seq(Names), NEW starts, NEW banner, NEW probe,
         NEW o \in Options(Names), NEW flags \in Seq(Arguments(Names)),
         FlagsAnswered(asked, answer, Names), ChildAnswered(asked, answer, there, command),
         CommandAnswered(asked, answer, Names), TokenAnswered(asked, answer),
         asked.family = "binary" => BinaryAnswered(asked, answer, envs, paths, starts, banner, probe, o, flags),
         asked.family = "judges" => asked.judges \in Seq(Judges) /\ JudgesAnswered(asked, answer),
         asked.family = "groups" => GroupsAsked(asked, Names) /\ GroupsAnswered(asked, answer)
  PROVE  LaunchKeepsTheRules
<1>1. FlagsKept
  BY AnyFlagsAreKept DEF FlagsAnswered
<1>2. CommandWhole
  BY AnyCommandIsWhole DEF CommandAnswered
<1>3. ChildSeesItsOwn
  BY AnyChildSeesItsOwn DEF ChildAnswered
<1>4. BinaryFound
  BY AnyBinaryIsFound
<1>5. JudgesAreProbed
  BY AnyJudgeIsProbed
<1>6. TokenIsFresh
  BY AnyTokenIsFresh DEF TokenAnswered
<1>7. GroupsInTheirWorld
  BY AnyGroupIsInItsWorld DEF GroupsAsked
<1> QED BY <1>1, <1>2, <1>3, <1>4, <1>5, <1>6, <1>7 DEF LaunchKeepsTheRules
=============================================================================
