---------------------------- MODULE ChecksProofs ----------------------------
(***************************************************************************)
(* What the parts that only compute do for any input, where the run Checks *)
(* asks listed questions: the selection of scenarios for any suite, command*)
(* line and plugins, the grades of a turn for any expectation and output,  *)
(* and what a reader is shown of any run.                                  *)
(***************************************************************************)
EXTENDS MCChecks, ListLemmas, FiniteSetTheorems

(* A suite as the loader finds it: paths of names, every group among the   *)
(* directories, documents whose keys are paths below the document.         *)
Documents(Names) == SUBSET (Seq(Names) \ {<<>>})
Suite(suite, Names) ==
  /\ suite.groups \subseteq suite.dirs /\ suite.dirs \subseteq Seq(Names)
  /\ \A g \in suite.groups :
       /\ suite.config[g].keys \in Documents(Names)
       /\ \A s \in suite.files[g] : s.name \in Names /\ s.keys \in Documents(Names)

-----------------------------------------------------------------------------
(* Part 1: selection.  Paths.                                              *)

LEMMA PathParts ==
  ASSUME NEW Names, NEW p \in Seq(Names), p # <<>>
  PROVE  /\ Front(p) \in Seq(Names) /\ Last(p) \in Names /\ p = Append(Front(p), Last(p))
         /\ Len(Front(p)) = Len(p) - 1
<1>1. Len(p) \in Nat /\ Len(p) > 0 /\ \A i \in 1..Len(p) : p[i] \in Names
  BY EmptySeq, LenProperties, ElementOfSeq
<1>2. Front(p) = [i \in 1..(Len(p) - 1) |-> p[i]]
  BY DEF Front
<1> QED BY <1>1, <1>2 DEF Last

LEMMA PathAppend ==
  ASSUME NEW Names, NEW g \in Seq(Names), NEW n \in Names
  PROVE  /\ Append(g, n) \in Seq(Names) /\ Append(g, n) # <<>> /\ Len(Append(g, n)) = Len(g) + 1
         /\ Front(Append(g, n)) = g /\ Last(Append(g, n)) = n
<1> DEFINE p == Append(g, n)
<1>1. p \in Seq(Names) /\ Len(p) = Len(g) + 1 /\ Len(g) \in Nat
  BY AppendProperties, LenProperties
<1>2. p # <<>>
  BY <1>1, EmptySeq
<1>3. \A i \in 1..Len(g) : p[i] = g[i]
  BY AppendProperties
<1>4. p[Len(p)] = n
  BY <1>1, AppendProperties
<1>5. Front(p) = [i \in 1..Len(g) |-> p[i]]
  BY <1>1 DEF Front
<1> QED BY <1>1, <1>2, <1>3, <1>4, <1>5 DEF Last

LEMMA PrefixOf ==
  ASSUME NEW Names, NEW p \in Seq(Names)
  PROVE  IsPrefix(p, p) /\ IsPrefix(<<>>, p) /\ (IsPrefix(p, <<>>) => p = <<>>)
BY DEF IsPrefix

-----------------------------------------------------------------------------
(* The models.                                                             *)

Models == DOMAIN ModelFields

LEMMA ModelsAre ==
  Models = {"TurnExpectation", "StateExpectation", "TurnJudgeOverride", "Turn", "Scenario", "SandboxProfile",
            "Resource", "GroupConfig"}
BY DEF Models, ModelFields

LEMMA Resolves ==
  ASSUME NEW m, NEW key
  PROVE  /\ ResolveSubmodel(m, key) \in Models \union {None}
         /\ ResolveSubmodel(m, key) \in {"Turn", "TurnExpectation", "StateExpectation"} =>
              m \in {"Scenario", "Turn"} \/ ResolveSubmodel(m, key) = None
         /\ ResolveSubmodel(m, key) # None => ResolveSubmodel(m, key) \notin {"Scenario", "GroupConfig"}
<1>1. CASE \E n \in Nested : n[1] = m /\ n[2] = key
  <2> DEFINE n == CHOOSE n \in Nested : n[1] = m /\ n[2] = key
  <2>1. n \in Nested /\ n[1] = m /\ ResolveSubmodel(m, key) = n[3]
    BY <1>1 DEF ResolveSubmodel
  <2> HIDE DEF n
  <2> QED BY <2>1, ModelsAre DEF Nested
<1>2. CASE ~\E n \in Nested : n[1] = m /\ n[2] = key
  BY <1>2 DEF ResolveSubmodel
<1> QED BY <1>1, <1>2

(* Pydantic goes down key by key.                                          *)
LEMMA SchemaUnfolds ==
  ASSUME NEW Names, NEW path \in Seq(Names), NEW root \in Models
  PROVE  \E f : /\ f[0] = root
                /\ \A i \in 1..Len(path) : f[i] = Below(f[i - 1], path[i])
                /\ SchemaAt(root, path) = f[Len(path)]
<1> DEFINE n == Len(path)
           X == Models \union {None, "judges"}
           step == [i \in 1..n |-> [v \in X |-> Below(v, path[i])]]
           G(f) == [i \in 0..Len(path) |-> IF i = 0 THEN root ELSE Below(f[i - 1], path[i])]
<1>1. n \in Nat
  OBVIOUS
<1>2. root \in X /\ step \in [1..n -> [X -> X]]
  <2>1. \A v, key : Below(v, key) \in X
    <3> TAKE v, key
    <3>1. ResolveSubmodel(v, key) \in X
      BY Resolves
    <3>2. "TurnJudgeOverride" \in X
      BY ModelsAre
    <3> QED BY <3>1, <3>2 DEF Below
  <2>2. root \in X
    OBVIOUS
  <2> HIDE DEF X
  <2> QED BY <2>1, <2>2
<1>3. PICK f \in [0..n -> X] : Iterate(f, root, n, step)
  <2> HIDE DEF n, step, X
  <2> QED BY <1>1, <1>2, Iterates
<1>4. f = G(f)
  <2>1. \A i \in 0..n : f[i] = G(f)[i]
    <3> TAKE i \in 0..n
    <3>1. CASE i = 0
      BY <3>1, <1>3 DEF Iterate
    <3>2. CASE i # 0
      <4>1. i \in 1..n /\ i - 1 \in 0..n
        BY <3>2
      <4>2. f[i - 1] \in X
        BY <4>1, <1>3
      <4> QED BY <4>1, <4>2, <1>3, <3>2 DEF Iterate
    <3> QED BY <3>1, <3>2
  <2> QED BY <2>1
<1>5. \E g : g = G(g)
  BY <1>4
<1> DEFINE K == CHOOSE g : g = G(g)
<1>6. K = G(K)
  <2> HIDE DEF G
  <2> QED BY <1>5
<1>7. SchemaAt(root, path) = K[Len(path)]
  BY DEF SchemaAt
<1>8. \A g : \A i \in 0..n : G(g)[i] = IF i = 0 THEN root ELSE Below(g[i - 1], path[i])
  OBVIOUS
<1> HIDE DEF K, G
<1>9. \A i \in 0..n : K[i] = IF i = 0 THEN root ELSE Below(K[i - 1], path[i])
  BY <1>6, <1>8
<1>10. K[0] = root /\ \A i \in 1..n : K[i] = Below(K[i - 1], path[i])
  BY <1>1, <1>9
<1> QED BY <1>7, <1>10

(* So does --strict-config.                                                *)
LEMMA SubmodelUnfolds ==
  ASSUME NEW Names, NEW path \in Seq(Names), NEW root \in Models
  PROVE  \E f : /\ f[0] = root
                /\ \A i \in 1..Len(path) : f[i] = ResolveSubmodel(f[i - 1], path[i])
                /\ SubmodelAt(root, path) = f[Len(path)]
<1> DEFINE n == Len(path)
           X == Models \union {None, "judges"}
           step == [i \in 1..n |-> [v \in X |-> ResolveSubmodel(v, path[i])]]
           G(f) == [i \in 0..Len(path) |-> IF i = 0 THEN root ELSE ResolveSubmodel(f[i - 1], path[i])]
<1>1. n \in Nat
  OBVIOUS
<1>2. root \in X /\ step \in [1..n -> [X -> X]]
  BY Resolves DEF Below
<1>3. PICK f \in [0..n -> X] : Iterate(f, root, n, step)
  <2> HIDE DEF n, step, X
  <2> QED BY <1>1, <1>2, Iterates
<1>4. f = G(f)
  <2>1. \A i \in 0..n : f[i] = G(f)[i]
    <3> TAKE i \in 0..n
    <3>1. CASE i = 0
      BY <3>1, <1>3 DEF Iterate
    <3>2. CASE i # 0
      <4>1. i \in 1..n /\ i - 1 \in 0..n
        BY <3>2
      <4>2. f[i - 1] \in X
        BY <4>1, <1>3
      <4> QED BY <4>1, <4>2, <1>3, <3>2 DEF Iterate
    <3> QED BY <3>1, <3>2
  <2> QED BY <2>1
<1>5. \E g : g = G(g)
  BY <1>4
<1> DEFINE K == CHOOSE g : g = G(g)
<1>6. K = G(K)
  <2> HIDE DEF G
  <2> QED BY <1>5
<1>7. SubmodelAt(root, path) = K[Len(path)]
  BY DEF SubmodelAt
<1>8. \A g : \A i \in 0..n : G(g)[i] = IF i = 0 THEN root ELSE ResolveSubmodel(g[i - 1], path[i])
  OBVIOUS
<1> HIDE DEF K, G
<1>9. \A i \in 0..n : K[i] = IF i = 0 THEN root ELSE ResolveSubmodel(K[i - 1], path[i])
  BY <1>6, <1>8
<1>10. K[0] = root /\ \A i \in 1..n : K[i] = ResolveSubmodel(K[i - 1], path[i])
  BY <1>1, <1>9
<1> QED BY <1>7, <1>10

(* Pydantic and --strict-config look for a key in the same model, but for  *)
(* keys within a judge's override.                                         *)
Shared == {"Scenario", "GroupConfig", "Turn", "TurnExpectation", "StateExpectation"}

LEMMA SameModel ==
  ASSUME NEW Names, NEW path \in Seq(Names), NEW root \in {"Scenario", "GroupConfig"}, None \notin Models
  PROVE  /\ SchemaAt(root, path) \in Models \union {None, "judges"}
         /\ SchemaAt(root, path) \in Shared => SubmodelAt(root, path) = SchemaAt(root, path)
<1>1. root \in Models
  BY ModelsAre
<1>2. PICK f : /\ f[0] = root /\ SchemaAt(root, path) = f[Len(path)]
               /\ \A i \in 1..Len(path) : f[i] = Below(f[i - 1], path[i])
  BY <1>1, SchemaUnfolds
<1>3. PICK g : /\ g[0] = root /\ SubmodelAt(root, path) = g[Len(path)]
               /\ \A i \in 1..Len(path) : g[i] = ResolveSubmodel(g[i - 1], path[i])
  BY <1>1, SubmodelUnfolds
<1> DEFINE T == {i \in 0..Len(path) : /\ f[i] \in Models \union {None, "judges"}
                                      /\ f[i] \in Shared => g[i] = f[i]}
<1>4. Len(path) \in Nat /\ 0 \in T
  BY <1>1, <1>2, <1>3
<1>5. ASSUME NEW i \in 1..Len(path), i - 1 \in T PROVE i \in T
  <2> DEFINE at == f[i - 1]
             key == path[i]
  <2>1. /\ f[i] = Below(at, key) /\ g[i] = ResolveSubmodel(g[i - 1], key)
        /\ at \in Models \union {None, "judges"} /\ (at \in Shared => g[i - 1] = at)
    BY <1>2, <1>3, <1>5
  <2>2. i \in 0..Len(path)
    BY <1>5
  <2> HIDE DEF at, key
  <2>3. CASE at = "judges" \/ (at = "Turn" /\ key = "llm_judges")
    <3>1. f[i] \in {"TurnJudgeOverride", "judges"}
      BY <2>1, <2>3 DEF Below
    <3> QED BY <2>2, <3>1, ModelsAre DEF Shared
  <2>4. CASE ~(at = "judges" \/ (at = "Turn" /\ key = "llm_judges"))
    <3>1. f[i] = ResolveSubmodel(at, key)
      BY <2>1, <2>4 DEF Below
    <3>2. f[i] \in Models \union {None}
      BY <3>1, Resolves
    <3>3. ASSUME f[i] \in Shared PROVE g[i] = f[i]
      <4>1. f[i] # None
        BY <3>3, ModelsAre DEF Shared
      <4>2. at \in {"Scenario", "Turn"}
        BY <3>1, <3>3, <4>1, Resolves DEF Shared
      <4> QED BY <2>1, <3>1, <4>2 DEF Shared
    <3> QED BY <2>2, <3>2, <3>3
  <2> QED BY <2>3, <2>4
<1> HIDE DEF T
<1>6. Len(path) \in T
  BY <1>4, <1>5, CountUp
<1> QED BY <1>2, <1>3, <1>6 DEF T

(* Under --strict-config a document that loads has no typo at any depth:   *)
(* where a plugin may add keys validate_strict looks, elsewhere Pydantic.  *)
LEMMA LoadsWithoutTypo ==
  ASSUME NEW Names, NEW root \in {"Scenario", "GroupConfig"}, NEW doc, doc.keys \in Documents(Names),
         NEW plugins, \A r \in plugins : r = <<r[1], r[2]>>, None \notin Models,
         Loads(root, doc, TRUE, plugins)
  PROVE  ~Typo(root, doc, plugins)
<1> SUFFICES ASSUME NEW k \in doc.keys,
                    SchemaAt(root, Front(k)) \notin {None, "judges"},
                    Last(k) \notin ModelFields[SchemaAt(root, Front(k))],
                    <<SchemaAt(root, Front(k)), Last(k)>> \notin plugins
             PROVE  FALSE
  BY DEF Typo
<1> DEFINE m == SchemaAt(root, Front(k))
<1>1. Front(k) \in Seq(Names)
  BY PathParts DEF Documents
<1>2. m \in Models /\ (m \in Shared => SubmodelAt(root, Front(k)) = m)
  BY <1>1, SameModel
<1>3. ValidateStrict(root, doc, plugins) = {} /\ ModelValidates(root, doc)
  BY DEF Loads
<1>4. m \notin ExtraForbidden
  <2>1. \A j \in doc.keys : SchemaAt(root, Front(j)) \in ExtraForbidden => Last(j) \in ModelFields[SchemaAt(root, Front(j))]
    BY <1>3 DEF ModelValidates
  <2> QED BY <2>1
<1>5. m \in {"TurnExpectation", "GroupConfig"}
  BY <1>2, <1>4 DEF ExtraForbidden, Models
<1>6. SubmodelAt(root, Front(k)) = m /\ m # None
  BY <1>2, <1>5 DEF Shared
<1>7. Last(k) \in AllowedKeys(m, plugins)
  BY <1>3, <1>6 DEF ValidateStrict
<1>8. PICK r \in plugins : r[1] = m /\ r[2] = Last(k)
  BY <1>7 DEF AllowedKeys, RegisteredKeys
<1> QED BY <1>8

-----------------------------------------------------------------------------
(* Filters.                                                                *)

InRoot(f, suite) == RootIsGroup(suite) /\ Len(StripRootBasename(f, suite)) = 1

LEMMA Entries ==
  ASSUME NEW suite, NEW f, ParseEntry(f, suite) # None
  PROVE  \/ /\ InRoot(f, suite)
            /\ ParseEntry(f, suite) = [path |-> <<>>, name |-> StripRootBasename(f, suite)[1]]
         \/ /\ ~InRoot(f, suite) /\ f \in suite.dirs
            /\ ParseEntry(f, suite) = [path |-> f, name |-> None]
         \/ /\ ~InRoot(f, suite) /\ f \notin suite.dirs /\ Len(f) > 1 /\ Front(f) \in suite.dirs
            /\ ParseEntry(f, suite) = [path |-> Front(f), name |-> Last(f)]
BY DEF ParseEntry, InRoot

LEMMA Short ==
  ASSUME NEW a, NEW b
  PROVE  Len(<<a>>) = 1 /\ <<a>>[1] = a /\ Len(<<a, b>>) = 2 /\ <<a, b>>[2] = b
OBVIOUS

LEMMA ShortEnds ==
  ASSUME NEW a, NEW b, NEW f, f = <<b>> \/ f = <<a, b>>
  PROVE  Len(f) \in {1, 2} /\ f[Len(f)] = b
<1>1. CASE f = <<b>>
  <2>1. Len(f) = 1 /\ f[1] = b
    BY <1>1, Short
  <2> QED BY <2>1
<1>2. CASE f = <<a, b>>
  <2>1. Len(f) = 2 /\ f[2] = b
    BY <1>2, Short
  <2> QED BY <2>1
<1> QED BY <1>1, <1>2

LEMMA Strips ==
  ASSUME NEW suite, NEW n
  PROVE  /\ Len(StripRootBasename(<<n>>, suite)) = 1
         /\ Len(StripRootBasename(<<suite.name, n>>, suite)) = 1
<1>1. Len(<<n>>) = 1
  OBVIOUS
<1>2. StripRootBasename(<<n>>, suite) = <<n>>
  BY <1>1 DEF StripRootBasename
<1>3. /\ Len(<<suite.name, n>>) = 2 /\ Head(<<suite.name, n>>) = suite.name
      /\ Tail(<<suite.name, n>>) = <<n>>
  OBVIOUS
<1>4. StripRootBasename(<<suite.name, n>>, suite) = <<n>>
  BY <1>3 DEF StripRootBasename
<1> QED BY <1>1, <1>2, <1>4

(* What is left of a filter below a root that is a group, and what it was. *)
LEMMA Stripped ==
  ASSUME NEW Names, NEW suite, NEW f \in Seq(Names), Len(StripRootBasename(f, suite)) = 1
  PROVE  \E n \in Names : /\ StripRootBasename(f, suite)[1] = n
                          /\ f = <<n>> \/ f = <<suite.name, n>>
<1>1. Len(f) \in Nat /\ \A i \in 1..Len(f) : f[i] \in Names
  BY LenProperties, ElementOfSeq
<1>2. CASE Len(f) = 1
  <2>1. StripRootBasename(f, suite) = f
    BY <1>2 DEF StripRootBasename
  <2>2. f = <<f[1]>> /\ f[1] \in Names
    BY <1>1, <1>2
  <2> QED BY <2>1, <2>2
<1>3. CASE Len(f) > 1 /\ Head(f) = suite.name
  <2>1. StripRootBasename(f, suite) = Tail(f)
    BY <1>3 DEF StripRootBasename
  <2>2. Len(f) = 2 /\ Tail(f)[1] = f[2] /\ f[2] \in Names /\ f[1] = suite.name
    BY <1>1, <1>3, <2>1
  <2>3. f = <<suite.name, f[2]>>
    BY <1>1, <2>2
  <2> QED BY <2>1, <2>2, <2>3
<1>4. CASE Len(f) # 1 /\ ~(Len(f) > 1 /\ Head(f) = suite.name)
  BY <1>4 DEF StripRootBasename
<1> QED BY <1>2, <1>3, <1>4

Filter(opts, suite) == {ParseEntry(f, suite) : f \in opts.scenarios}

(* Scenario s of group g passes the filter.                                *)
Passes(s, g, paths) ==
  /\ MatchesGroup(g, paths).matched
  /\ MatchesGroup(g, paths).allowed # {} => s.name \in MatchesGroup(g, paths).allowed

Related(e, g) == IsPrefix(e.path, g) \/ IsPrefix(g, e.path)
Whole(paths, g) == \E e \in paths : Related(e, g) /\ (e.name = None \/ e.path # g)

LEMMA Matches ==
  ASSUME NEW g, NEW paths
  PROVE  MatchesGroup(g, paths) =
           IF paths = {} \/ Whole(paths, g) THEN [matched |-> TRUE, allowed |-> {}]
           ELSE [matched |-> {e.name : e \in {x \in paths : x.path = g}} # {},
                 allowed |-> {e.name : e \in {x \in paths : x.path = g}}]
<1> DEFINE whole == \E e \in paths : (IsDescendant(g, e.path) \/ IsDescendant(e.path, g)) /\ (e.name = None \/ e.path # g)
<1>1. whole = Whole(paths, g)
  BY DEF Whole, Related, IsDescendant
<1>2. CASE paths = {}
  BY <1>2 DEF MatchesGroup
<1>3. CASE paths # {} /\ whole
  BY <1>1, <1>3 DEF MatchesGroup
<1>4. CASE paths # {} /\ ~whole
  BY <1>1, <1>4 DEF MatchesGroup
<1> QED BY <1>2, <1>3, <1>4

(* A scenario that is meant by a filter passes.                            *)
LEMMA MeantPasses ==
  ASSUME NEW Names, NEW suite, Suite(suite, Names), None \notin Names, NEW opts, opts.scenarios \subseteq Seq(Names),
         None \notin Filter(opts, suite), NEW g \in suite.groups, NEW s \in suite.files[g],
         NEW f \in opts.scenarios, Means(f, g, s, suite)
  PROVE  Passes(s, g, Filter(opts, suite))
<1> DEFINE paths == Filter(opts, suite)
           e == ParseEntry(f, suite)
           named == {x.name : x \in {y \in paths : y.path = g}}
<1>1. e \in paths /\ e # None /\ paths # {}
  BY DEF Filter
<1>2. /\ f \in Seq(Names) /\ g \in Seq(Names) /\ s.name \in Names /\ Len(g) \in Nat /\ Len(f) \in Nat
      /\ IsPrefix(g, g) /\ IsPrefix(<<>>, g)
  BY PrefixOf, LenProperties DEF Suite
<1> HIDE DEF e, paths
<1>3. CASE Whole(paths, g)
  BY <1>3, Matches DEF Passes, paths
<1>4. CASE ~Whole(paths, g)
  <2>1. Related(e, g) => e.name # None /\ e.path = g
    BY <1>1, <1>4 DEF Whole
  <2>2. e.path = g /\ e.name = s.name
    <3>1. CASE InRoot(f, suite)
      <4>1. e = [path |-> <<>>, name |-> StripRootBasename(f, suite)[1]]
        BY <1>1, <3>1, Entries DEF e
      <4>2. g = <<>>
        BY <1>2, <2>1, <4>1 DEF Related
      <4>3. PICK n \in Names : e.name = n /\ (f = <<n>> \/ f = <<suite.name, n>>)
        BY <1>2, <3>1, <4>1, Stripped DEF InRoot
      <4>4. Len(f) \in {1, 2} /\ f[Len(f)] = n
        BY <4>3, ShortEnds
      <4>5. ~IsPrefix(f, g)
        <5>1. f # <<>>
          <6> SUFFICES ASSUME f = <<>> PROVE FALSE
            OBVIOUS
          <6>1. Len(f) = 0
            OBVIOUS
          <6> QED BY <4>4, <6>1
        <5> QED BY <1>2, <4>2, <5>1, PrefixOf
      <4>6. f = <<s.name>> \/ f = <<suite.name, s.name>>
        BY <4>2, <4>5 DEF Means
      <4>7. f[Len(f)] = s.name
        <5> DEFINE m == s.name
                   r == suite.name
        <5>1. f = <<m>> \/ f = <<r, m>>
          BY <4>6
        <5> HIDE DEF m, r
        <5>2. f[Len(f)] = m
          BY SMTT(30), <5>1, ShortEnds
        <5> QED BY <5>2 DEF m
      <4> QED BY <4>1, <4>2, <4>3, <4>4, <4>7
    <3>2. CASE ~InRoot(f, suite) /\ f \in suite.dirs
      <4>1. e = [path |-> f, name |-> None]
        BY <1>1, <3>2, Entries DEF e
      <4>2. ~IsPrefix(f, g) /\ ~IsPrefix(g, f)
        BY <2>1, <4>1 DEF Related
      <4>3. f = Append(g, s.name) => IsPrefix(g, f)
        BY <1>2, PathAppend DEF IsPrefix
      <4>4. g = <<>> => IsPrefix(g, f)
        BY <1>2, PrefixOf
      <4> QED BY <4>2, <4>3, <4>4 DEF Means
    <3>3. CASE ~InRoot(f, suite) /\ f \notin suite.dirs
      <4>1. e = [path |-> Front(f), name |-> Last(f)]
        BY <1>1, <3>3, Entries DEF e
      <4>2. g # <<>>
        <5> SUFFICES ASSUME g = <<>> PROVE FALSE
          OBVIOUS
        <5>1. RootIsGroup(suite)
          BY DEF RootIsGroup
        <5>2. f = <<s.name>> \/ f = <<suite.name, s.name>>
          BY <3>3 DEF Means
        <5>3. Len(StripRootBasename(f, suite)) = 1
          BY <5>2, Strips
        <5> QED BY <3>3, <5>1, <5>3 DEF InRoot
      <4>3. f = Append(g, s.name)
        BY <3>3, <4>2 DEF Means
      <4> QED BY <1>2, <4>1, <4>3, PathAppend
    <3> QED BY <3>1, <3>2, <3>3
  <2>3. s.name \in named
    BY <1>1, <2>2
  <2>4. MatchesGroup(g, paths) = [matched |-> named # {}, allowed |-> named]
    BY <1>1, <1>4, Matches
  <2> HIDE DEF named
  <2>5. named # {}
    BY <2>3
  <2>6. MatchesGroup(g, paths).matched = (named # {}) /\ MatchesGroup(g, paths).allowed = named
    BY <2>4
  <2> QED BY <2>3, <2>5, <2>6 DEF Passes, paths
<1> QED BY <1>3, <1>4

(* And in a plain suite no other does.                                     *)
LEMMA PassesIsMeant ==
  ASSUME NEW Names, NEW suite, Suite(suite, Names), None \notin Names, NEW opts, opts.scenarios \subseteq Seq(Names),
         None \notin Filter(opts, suite), NEW g \in suite.groups, NEW s \in suite.files[g],
         Plain(suite, opts), opts.scenarios # {}, Passes(s, g, Filter(opts, suite))
  PROVE  \E f \in opts.scenarios : Means(f, g, s, suite)
<1> DEFINE paths == Filter(opts, suite)
           named == {x.name : x \in {y \in paths : y.path = g}}
<1>1. paths # {}
  BY DEF Filter
<1>2. /\ g \in Seq(Names) /\ s.name \in Names /\ Len(g) \in Nat /\ IsPrefix(g, g) /\ IsPrefix(<<>>, g)
      /\ \A f \in opts.scenarios : f \in Seq(Names) /\ Len(f) \in Nat
  BY PrefixOf, LenProperties DEF Suite
<1>3. ASSUME NEW f \in opts.scenarios, NEW e, e = ParseEntry(f, suite),
             Related(e, g) /\ (e.name = None \/ e.path # g)
      PROVE  Means(f, g, s, suite)
  <2>1. e # None
    BY <1>3 DEF Filter
  <2>2. CASE InRoot(f, suite)
    <3>1. e = [path |-> <<>>, name |-> StripRootBasename(f, suite)[1]]
      BY <1>3, <2>1, <2>2, Entries
    <3>2. e.name \in Names
      BY <1>2, <2>2, <3>1, Stripped DEF InRoot
    <3>3. g = <<>>
      BY <1>2, <2>2 DEF InRoot, RootIsGroup, Plain
    <3> QED BY <1>3, <3>1, <3>2, <3>3
  <2>3. CASE ~InRoot(f, suite) /\ f \in suite.dirs
    <3>1. e = [path |-> f, name |-> None]
      BY <1>3, <2>1, <2>3, Entries
    <3>2. IsPrefix(f, g) \/ IsPrefix(g, f)
      BY <1>3, <3>1 DEF Related
    <3>3. IsPrefix(g, f) => g = f
      BY <2>3 DEF Plain
    <3> QED BY <1>2, <2>3, <3>2, <3>3 DEF Means
  <2>4. CASE ~InRoot(f, suite) /\ f \notin suite.dirs
    <3>1. e = [path |-> Front(f), name |-> Last(f)] /\ Len(f) > 1
      BY <1>3, <2>1, <2>4, Entries
    <3>2. f # <<>> /\ f \in Seq(Names)
      BY <1>2, <3>1, EmptySeq
    <3>3. f = Append(Front(f), Last(f)) /\ Last(f) \in Names
      BY <3>2, PathParts
    <3>4. e.path # g /\ (IsPrefix(Front(f), g) \/ IsPrefix(g, Front(f)))
      BY <1>3, <3>1, <3>3 DEF Related
    <3>5. Front(f) \notin suite.groups
      BY <3>1, <3>4 DEF Plain
    <3>6. RootIsGroup(suite) /\ Front(f) = <<suite.name>>
      BY <2>4, <3>5 DEF Plain, RootIsGroup
    <3>7. f = <<suite.name, Last(f)>>
      BY <3>3, <3>6
    <3>8. Len(StripRootBasename(f, suite)) = 1
      BY <3>7, Strips
    <3> QED BY <2>4, <3>6, <3>8 DEF InRoot
  <2> QED BY <2>2, <2>3, <2>4
<1>4. CASE Whole(paths, g)
  BY <1>3, <1>4 DEF Whole, Filter
<1>5. CASE ~Whole(paths, g)
  <2>1. MatchesGroup(g, paths) = [matched |-> named # {}, allowed |-> named]
    BY <1>1, <1>5, Matches
  <2>2. s.name \in named
    <3> HIDE DEF named
    <3>1. MatchesGroup(g, paths).matched /\ (MatchesGroup(g, paths).allowed # {} => s.name \in MatchesGroup(g, paths).allowed)
      BY DEF Passes
    <3>2. MatchesGroup(g, paths).matched = (named # {}) /\ MatchesGroup(g, paths).allowed = named
      BY <2>1
    <3> HIDE DEF paths
    <3> QED BY <3>1, <3>2
  <2>3. PICK f \in opts.scenarios : ParseEntry(f, suite).path = g /\ ParseEntry(f, suite).name = s.name
    BY <2>2 DEF Filter
  <2> DEFINE e == ParseEntry(f, suite)
  <2>4. e # None /\ e.path = g /\ e.name = s.name
    BY <2>3 DEF Filter
  <2> HIDE DEF e
  <2>5. CASE InRoot(f, suite)
    <3>1. e = [path |-> <<>>, name |-> StripRootBasename(f, suite)[1]]
      BY <2>4, <2>5, Entries DEF e
    <3>2. PICK n \in Names : e.name = n /\ (f = <<n>> \/ f = <<suite.name, n>>)
      BY <1>2, <2>5, <3>1, Stripped DEF InRoot
    <3>3. g = <<>> /\ n = s.name
      BY <2>4, <3>1, <3>2
    <3> QED BY <3>2, <3>3 DEF Means
  <2>6. CASE ~InRoot(f, suite) /\ f \in suite.dirs
    <3>1. e = [path |-> f, name |-> None]
      BY <2>4, <2>6, Entries DEF e
    <3> QED BY <1>2, <2>4, <3>1
  <2>7. CASE ~InRoot(f, suite) /\ f \notin suite.dirs
    <3>1. e = [path |-> Front(f), name |-> Last(f)] /\ Len(f) > 1
      BY <2>4, <2>7, Entries DEF e
    <3>2. f # <<>> /\ f \in Seq(Names)
      BY <1>2, <3>1, EmptySeq
    <3>3. f = Append(Front(f), Last(f))
      BY <3>2, PathParts
    <3> QED BY <2>4, <3>1, <3>3 DEF Means
  <2> QED BY <2>5, <2>6, <2>7
<1> QED BY <1>4, <1>5

-----------------------------------------------------------------------------
(* A run that is not refused consists of what was asked for, whatever the  *)
(* suite, its documents, the filters, tags and options, and the plugins:   *)
(* no scenario is lost that was meant and loads, in a plainly laid out     *)
(* suite none is there that was not meant, and the strict modes let no     *)
(* file be left out and no typo through.                                   *)
THEOREM SelectedIsAsked ==
  ASSUME NEW Names, None \notin Names, None \notin Models,
         NEW suite, Suite(suite, Names),
         NEW opts, opts.scenarios \subseteq Seq(Names), opts.strict \in BOOLEAN, opts.strictConfig \in BOOLEAN,
         NEW plugins, \A r \in plugins : r = <<r[1], r[2]>>
  PROVE  SelectedAsAsked(suite, opts, plugins, ParseAndFilter(suite, opts, plugins))
<1> DEFINE run == ParseAndFilter(suite, opts, plugins)
           paths == Filter(opts, suite)
           filter == [tags |-> opts.tags, paths |-> paths]
           matched == {g \in suite.groups : MatchesGroup(g, paths).matched}
           load == [g \in matched |-> LoadGroup(g, filter, suite, opts, plugins)]
           skipped == UNION {{g} \X load[g].skipped : g \in matched}
           refused == \/ \E g \in matched : load[g].unknown # {}
                      \/ opts.strictConfig /\ \E g \in matched : ~load[g].loads
                      \/ (opts.strict \/ opts.strictConfig) /\ skipped # {}
           full == {h \in matched : load[h].scenarios # {}}
<1> SUFFICES ASSUME run # None PROVE SelectedAsAsked(suite, opts, plugins, run)
  BY DEF SelectedAsAsked
<1>1. None \notin paths /\ FromCliArgs(opts, suite) = filter
  <2>1. FromCliArgs(opts, suite) # None
    BY DEF ParseAndFilter
  <2> QED BY <2>1 DEF FromCliArgs, Filter
<1>2. ~refused /\ run = [groups |-> [g \in full |-> load[g]], skipped |-> Cardinality(skipped)]
  <2> DEFINE body(fl) ==
        LET mt == {g \in suite.groups : MatchesGroup(g, fl.paths).matched}
            ld == [g \in mt |-> LoadGroup(g, fl, suite, opts, plugins)]
            sk == UNION {{g} \X ld[g].skipped : g \in mt}
            rf == \/ \E g \in mt : ld[g].unknown # {}
                  \/ opts.strictConfig /\ \E g \in mt : ~ld[g].loads
                  \/ (opts.strict \/ opts.strictConfig) /\ sk # {}
        IN  IF suite.groups = {} \/ fl = None THEN None
            ELSE IF rf THEN None
            ELSE [groups |-> [g \in {h \in mt : ld[h].scenarios # {}} |-> ld[g]], skipped |-> Cardinality(sk)]
  <2>1. run = body(filter)
    <3>1. run = body(FromCliArgs(opts, suite))
      BY DEF ParseAndFilter
    <3>2. FromCliArgs(opts, suite) = filter
      BY <1>1
    <3> HIDE DEF body, run, filter
    <3> QED BY <3>1, <3>2
  <2>2. filter.paths = paths
    OBVIOUS
  <2>3. body(filter) = IF suite.groups = {} \/ filter = None THEN None ELSE IF refused THEN None
                       ELSE [groups |-> [g \in full |-> load[g]], skipped |-> Cardinality(skipped)]
    BY <2>2
  <2> HIDE DEF body, refused, run, full, load, skipped, filter
  <2> QED BY <2>1, <2>3
<1> HIDE DEF run
<1>3. DOMAIN run.groups = full /\ (\A g \in full : run.groups[g] = load[g]) /\ run.skipped = Cardinality(skipped)
  BY <1>2
<1> DEFINE chosen(g) == IF g \in DOMAIN run.groups THEN run.groups[g].scenarios ELSE {}
           valid(g) == {f \in suite.files[g] : ~f.asset /\ Loads("Scenario", f, opts.strictConfig, plugins)}
           invalid(g) == {f \in suite.files[g] : ~f.asset /\ ~Loads("Scenario", f, opts.strictConfig, plugins)}
           loads(g) == Loads("GroupConfig", suite.config[g], opts.strictConfig, plugins)
           passing(g) == {s \in valid(g) : Passes(s, g, paths) /\ opts.tags \subseteq s.tags \union suite.config[g].tags}
<1>4. ASSUME NEW g \in matched
      PROVE  /\ load[g].loads = loads(g)
             /\ load[g].skipped = IF loads(g) THEN invalid(g) ELSE {}
             /\ load[g].scenarios = IF loads(g) THEN passing(g) ELSE {}
  <2> DEFINE config == suite.config[g]
             ok == Loads("GroupConfig", config, opts.strictConfig, plugins)
             ls == LoadGroupScenarios(suite.files[g], opts.strictConfig, plugins)
             allowed == MatchesGroup(g, filter.paths).allowed
             picked == {s \in ls.scenarios : /\ allowed # {} => s.name \in allowed
                                             /\ MatchesScenario(s, config, filter.tags)}
  <2>1. load[g] = LoadGroup(g, filter, suite, opts, plugins)
    OBVIOUS
  <2>2. /\ LoadGroup(g, filter, suite, opts, plugins).loads = ok
        /\ LoadGroup(g, filter, suite, opts, plugins).skipped = IF ok THEN ls.errors ELSE {}
        /\ LoadGroup(g, filter, suite, opts, plugins).scenarios = IF ok THEN picked ELSE {}
    BY DEF LoadGroup
  <2>3. ls.scenarios = valid(g) /\ ls.errors = invalid(g)
    BY DEF LoadGroupScenarios, IsScenarioFile
  <2>4. picked = passing(g)
    BY <2>3 DEF MatchesScenario, Passes
  <2> HIDE DEF picked, ls, load
  <2> QED BY <2>1, <2>2, <2>3, <2>4
<1>5. \A g \in suite.groups : chosen(g) = IF g \in matched /\ loads(g) THEN passing(g) ELSE {}
  <2> TAKE g \in suite.groups
  <2> HIDE DEF load, matched
  <2>1. CASE g \in full
    BY <1>3, <1>4, <2>1
  <2>2. CASE g \in matched /\ g \notin full
    BY <1>3, <1>4, <2>2
  <2>3. CASE g \notin matched
    BY <1>3, <2>3
  <2> QED BY <2>1, <2>2, <2>3
<1>6. opts.strict \/ opts.strictConfig => \A g \in matched : load[g].skipped = {}
  <2> SUFFICES ASSUME opts.strict \/ opts.strictConfig, NEW g \in matched, NEW x \in load[g].skipped PROVE FALSE
    OBVIOUS
  <2>1. skipped = {}
    BY <1>2
  <2>2. <<g, x>> \in {g} \X load[g].skipped
    OBVIOUS
  <2>3. <<g, x>> \in skipped
    BY <2>2
  <2> QED BY <2>1, <2>3
<1>7. opts.strictConfig => \A g \in matched : loads(g) /\ invalid(g) = {}
  <2> HIDE DEF load, matched, loads, invalid, skipped
  <2> QED BY <1>2, <1>4, <1>6
<1>8. \A root, doc : /\ ~opts.strictConfig => (Loads(root, doc, opts.strictConfig, plugins) <=> ModelValidates(root, doc))
                     /\ opts.strictConfig => Loads(root, doc, opts.strictConfig, plugins) = Loads(root, doc, TRUE, plugins)
                     /\ Loads(root, doc, opts.strictConfig, plugins) => ModelValidates(root, doc)
  BY DEF Loads
<1>9. ASSUME NEW g \in suite.groups, NEW s \in Loadable(g, suite), Wanted(g, s, suite, opts)
      PROVE  s \in chosen(g)
  <2>1. /\ s \in suite.files[g] /\ ~s.asset /\ ModelValidates("Scenario", s)
        /\ ModelValidates("GroupConfig", suite.config[g])
    BY <1>9 DEF Loadable
  <2>2. Passes(s, g, paths) /\ opts.tags \subseteq s.tags \union suite.config[g].tags
    <3>1. CASE opts.scenarios = {}
      <4>1. paths = {}
        BY <3>1 DEF Filter
      <4> QED BY <1>9, <4>1, Matches DEF Passes, Wanted
    <3>2. CASE opts.scenarios # {}
      <4>1. PICK f \in opts.scenarios : Means(f, g, s, suite)
        BY <1>9, <3>2 DEF Wanted
      <4> QED BY <1>1, <1>9, <2>1, <4>1, MeantPasses DEF Wanted
    <3> QED BY <3>1, <3>2
  <2>3. g \in matched
    BY <2>2 DEF Passes
  <2>4. loads(g) /\ s \in valid(g)
    <3>1. CASE opts.strictConfig
      BY <1>7, <2>1, <2>3, <3>1
    <3>2. CASE ~opts.strictConfig
      BY <1>8, <2>1, <3>2
    <3> QED BY <3>1, <3>2
  <2> HIDE DEF chosen, matched, loads, valid
  <2> QED BY <1>5, <2>2, <2>3, <2>4
<1>10. ASSUME NEW g \in suite.groups, NEW s \in chosen(g)
       PROVE  g \in matched /\ loads(g) /\ s \in passing(g)
  <2> HIDE DEF chosen, matched, loads, passing
  <2> QED BY <1>5, <1>10
<1>11. ASSUME Plain(suite, opts), NEW g \in suite.groups, NEW s \in chosen(g)
       PROVE  Wanted(g, s, suite, opts)
  <2>1. /\ s \in suite.files[g] /\ Passes(s, g, paths)
        /\ opts.tags \subseteq s.tags \union suite.config[g].tags
    BY <1>10, <1>11
  <2>2. opts.scenarios # {} => \E f \in opts.scenarios : Means(f, g, s, suite)
    BY <1>1, <1>11, <2>1, PassesIsMeant
  <2> QED BY <2>1, <2>2 DEF Wanted
<1>12. opts.strict \/ opts.strictConfig => run.skipped = 0
  <2> SUFFICES ASSUME opts.strict \/ opts.strictConfig PROVE run.skipped = 0
    OBVIOUS
  <2>1. skipped = {}
    BY <1>2
  <2> HIDE DEF skipped
  <2> QED BY <1>3, <2>1, FS_EmptySet
<1>13. ASSUME opts.strictConfig, NEW g \in DOMAIN run.groups
       PROVE  /\ ~Typo("GroupConfig", suite.config[g], plugins)
              /\ \A s \in chosen(g) : ~Typo("Scenario", s, plugins)
  <2>1. g \in matched /\ g \in suite.groups
    BY <1>3, <1>13
  <2>2. loads(g) /\ suite.config[g].keys \in Documents(Names)
    BY <1>7, <1>13, <2>1 DEF Suite
  <2>3. ~Typo("GroupConfig", suite.config[g], plugins)
    BY <1>8, <1>13, <2>2, LoadsWithoutTypo
  <2>4. ASSUME NEW s \in chosen(g) PROVE ~Typo("Scenario", s, plugins)
    <3>1. s \in valid(g)
      BY <1>10, <2>1, <2>4
    <3>2. s.keys \in Documents(Names)
      BY <2>1, <3>1 DEF Suite
    <3> QED BY <1>8, <1>13, <3>1, <3>2, LoadsWithoutTypo
  <2> QED BY <2>3, <2>4
<1> QED BY <1>9, <1>11, <1>12, <1>13 DEF SelectedAsAsked

(* So the answers that the run checks are right for any question.          *)
THEOREM AnySelectionIsWhatWasAsked ==
  ASSUME NEW Names, None \notin Names, None \notin Models,
         asked.family = "select" =>
           /\ Suite(asked.suite, Names) /\ asked.opts.scenarios \subseteq Seq(Names)
           /\ asked.opts.strict \in BOOLEAN /\ asked.opts.strictConfig \in BOOLEAN
           /\ answer = ParseAndFilter(asked.suite, asked.opts, SomePlugins)
  PROVE  SelectionIsWhatWasAsked
<1>1. \A r \in SomePlugins : r = <<r[1], r[2]>>
  BY DEF SomePlugins
<1>2. asked.family = "select" => SelectedAsAsked(asked.suite, asked.opts, SomePlugins, answer)
  BY <1>1, SelectedIsAsked
<1> QED BY <1>2 DEF SelectionIsWhatWasAsked

-----------------------------------------------------------------------------
(* Part 2: grading.                                                        *)

(* The place found is behind the last one, or behind the whole list.       *)
LEMMA AfterIs ==
  ASSUME NEW S, NEW h \in Seq(S), NEW at \in Nat, NEW x
  PROVE  /\ After(h, at, x) \in 1..(Len(h) + 1)
         /\ After(h, at, x) <= Len(h) => After(h, at, x) > at /\ h[After(h, at, x)] = x
         /\ \A j \in 1..Len(h) : j > at /\ h[j] = x => After(h, at, x) <= j
<1> DEFINE n == Len(h)
           found == {i \in 1..n : i > at /\ h[i] = x}
<1>1. n \in Nat
  OBVIOUS
<1>2. CASE found = {}
  <2>1. After(h, at, x) = n + 1
    BY <1>2 DEF After
  <2> QED BY <1>1, <1>2, <2>1
<1>3. CASE found # {}
  <2>1. \E i \in found : \A j \in found : i <= j
    <3>1. found \subseteq Nat
      BY <1>1
    <3> HIDE DEF found
    <3> QED BY <1>3, <3>1, LeastElement
  <2>2. After(h, at, x) = CHOOSE i \in found : \A j \in found : i <= j
    BY <1>3 DEF After
  <2>3. After(h, at, x) \in found /\ \A j \in found : After(h, at, x) <= j
    <3> HIDE DEF found
    <3> QED BY <2>1, <2>2
  <2> QED BY <1>1, <2>3
<1> QED BY <1>2, <1>3

(* The recursion of is_subsequence, laid open.                             *)
LEMMA SubsequenceUnfolds ==
  ASSUME NEW S, NEW needle \in Seq(S), NEW h \in Seq(S)
  PROVE  \E f : /\ f[0] = 0
                /\ \A k \in 1..Len(needle) : f[k] = After(h, f[k - 1], needle[k])
                /\ IsSubsequence(needle, h) <=> f[Len(needle)] <= Len(h)
<1> DEFINE n == Len(needle)
           X == 0..(Len(h) + 1)
           step == [k \in 1..n |-> [v \in X |-> After(h, v, needle[k])]]
           G(f) == [k \in 0..Len(needle) |-> IF k = 0 THEN 0 ELSE After(h, f[k - 1], needle[k])]
<1>1. n \in Nat /\ Len(h) \in Nat
  OBVIOUS
<1>2. 0 \in X /\ step \in [1..n -> [X -> X]]
  <2>1. \A v \in X : \A x : After(h, v, x) \in X
    <3> TAKE v \in X
    <3> TAKE x
    <3>1. v \in Nat
      BY <1>1
    <3>2. After(h, v, x) \in 1..(Len(h) + 1)
      BY <3>1, AfterIs
    <3> QED BY <1>1, <3>2
  <2>2. 0 \in X
    BY <1>1
  <2> HIDE DEF X
  <2> QED BY <2>1, <2>2
<1>3. PICK f \in [0..n -> X] : Iterate(f, 0, n, step)
  <2> HIDE DEF n, step, X
  <2> QED BY <1>1, <1>2, Iterates
<1>4. f = G(f)
  <2>1. \A k \in 0..n : f[k] = G(f)[k]
    <3> TAKE k \in 0..n
    <3>1. CASE k = 0
      BY <3>1, <1>3 DEF Iterate
    <3>2. CASE k # 0
      <4>1. k \in 1..n /\ k - 1 \in 0..n
        BY <3>2
      <4>2. f[k - 1] \in X
        BY <4>1, <1>3
      <4> QED BY <4>1, <4>2, <1>3, <3>2 DEF Iterate
    <3> QED BY <3>1, <3>2
  <2> QED BY <2>1
<1>5. \E g : g = G(g)
  BY <1>4
<1> DEFINE K == CHOOSE g : g = G(g)
<1>6. K = G(K)
  <2> HIDE DEF G
  <2> QED BY <1>5
<1>7. IsSubsequence(needle, h) <=> K[n] <= Len(h)
  BY DEF IsSubsequence
<1>8. \A g : \A k \in 0..n : G(g)[k] = IF k = 0 THEN 0 ELSE After(h, g[k - 1], needle[k])
  OBVIOUS
<1> HIDE DEF K, G
<1>9. \A k \in 0..n : K[k] = IF k = 0 THEN 0 ELSE After(h, K[k - 1], needle[k])
  BY <1>6, <1>8
<1>10. K[0] = 0 /\ \A k \in 1..n : K[k] = After(h, K[k - 1], needle[k])
  BY <1>1, <1>9
<1> QED BY <1>7, <1>10

(* Looking for each item at the first place where it can be is enough.     *)
LEMMA GreedyIsEnough ==
  ASSUME NEW S, NEW needle \in Seq(S), NEW h \in Seq(S)
  PROVE  IsSubsequence(needle, h) <=> Embeds(needle, h)
<1> DEFINE n == Len(needle)
           m == Len(h)
<1>1. n \in Nat /\ m \in Nat /\ DOMAIN needle = 1..n /\ DOMAIN h = 1..m
  OBVIOUS
<1>2. PICK f : /\ f[0] = 0
               /\ \A k \in 1..n : f[k] = After(h, f[k - 1], needle[k])
               /\ IsSubsequence(needle, h) <=> f[n] <= m
  BY SubsequenceUnfolds
<1> HIDE DEF n, m
<1>3. \A k \in 0..n : f[k] \in 0..(m + 1)
  <2> DEFINE T == {k \in Nat : k <= n => f[k] \in 0..(m + 1)}
  <2>1. 0 \in T
    BY <1>1, <1>2
  <2>2. ASSUME NEW k \in Nat, k \in T PROVE k + 1 \in T
    <3> SUFFICES ASSUME k + 1 <= n PROVE f[k + 1] \in 0..(m + 1)
      OBVIOUS
    <3>1. f[k] \in Nat /\ k + 1 \in 1..n
      BY <1>1, <2>2
    <3>2. f[k + 1] = After(h, f[k], needle[k + 1])
      BY <1>2, <3>1
    <3>3. After(h, f[k], needle[k + 1]) \in 1..(m + 1)
      BY <3>1, AfterIs DEF m
    <3> QED BY <1>1, <3>2, <3>3
  <2> HIDE DEF T
  <2>3. Nat \subseteq T
    BY <2>1, <2>2, SetInduction
  <2> QED BY <2>3, <1>1 DEF T
<1>4. ASSUME NEW k \in 1..n
      PROVE  /\ f[k - 1] \in Nat /\ f[k] \in 1..(m + 1)
             /\ f[k] <= m => f[k] > f[k - 1] /\ h[f[k]] = needle[k]
             /\ \A j \in 1..m : j > f[k - 1] /\ h[j] = needle[k] => f[k] <= j
  <2>1. f[k - 1] \in Nat
    BY <1>1, <1>3
  <2>2. f[k] = After(h, f[k - 1], needle[k])
    BY <1>2
  <2> QED BY <2>1, <2>2, AfterIs DEF m
<1>5. ASSUME Embeds(needle, h) PROVE IsSubsequence(needle, h)
  <2>1. PICK at \in [1..n -> 1..m] :
          /\ \A i \in 1..n : h[at[i]] = needle[i]
          /\ \A i, j \in 1..n : i < j => at[i] < at[j]
    BY <1>5, <1>1 DEF Embeds
  <2> DEFINE T == {k \in Nat : k <= n => f[k] <= IF k = 0 THEN 0 ELSE at[k]}
  <2>2. 0 \in T
    BY <1>2
  <2>3. ASSUME NEW k \in Nat, k \in T PROVE k + 1 \in T
    <3> SUFFICES ASSUME k + 1 <= n PROVE f[k + 1] <= at[k + 1]
      OBVIOUS
    <3>1. k + 1 \in 1..n /\ k <= n /\ k + 1 - 1 = k
      BY <1>1
    <3>2. at[k + 1] \in 1..m /\ h[at[k + 1]] = needle[k + 1]
      BY <2>1, <3>1
    <3>3. f[k] \in Nat
      BY <1>4, <3>1
    <3>4. at[k + 1] > f[k]
      <4>1. CASE k = 0
        BY <1>1, <1>2, <3>2, <4>1
      <4>2. CASE k # 0
        <5>1. k \in 1..n /\ f[k] <= at[k]
          BY <2>3, <3>1, <4>2
        <5>2. at[k] \in 1..m /\ at[k] < at[k + 1]
          BY <2>1, <3>1, <5>1
        <5> QED BY <1>1, <3>2, <3>3, <5>1, <5>2
      <4> QED BY <4>1, <4>2
    <3> QED BY <1>4, <3>1, <3>2, <3>4
  <2> HIDE DEF T
  <2>4. n \in T
    <3>1. Nat \subseteq T
      BY <2>2, <2>3, SetInduction
    <3> QED BY <1>1, <3>1
  <2>5. f[n] <= m
    <3>1. CASE n = 0
      BY <1>1, <1>2, <3>1
    <3>2. CASE n # 0
      <4>1. n \in 1..n /\ f[n] <= at[n]
        BY <1>1, <2>4, <3>2 DEF T
      <4>2. at[n] \in 1..m /\ f[n] \in Nat
        BY <1>3, <1>1, <2>1, <4>1
      <4> QED BY <1>1, <4>1, <4>2
    <3> QED BY <3>1, <3>2
  <2> QED BY <1>2, <2>5
<1>6. ASSUME IsSubsequence(needle, h) PROVE Embeds(needle, h)
  <2> DEFINE U == {d \in Nat : \A k \in 0..n : k + d <= n /\ f[k + d] <= m =>
                               f[k] <= f[k + d] /\ (d > 0 => f[k] < f[k + d])}
  <2>1. 0 \in U
    BY <1>1, <1>3
  <2>2. ASSUME NEW d \in Nat, d \in U PROVE d + 1 \in U
    <3> SUFFICES ASSUME NEW k \in 0..n, k + (d + 1) <= n, f[k + (d + 1)] <= m PROVE f[k] < f[k + (d + 1)]
      BY <1>1, <1>3
    <3>1. k + (d + 1) \in 1..n /\ (k + (d + 1)) - 1 = k + d /\ k + d \in 0..n
      BY <1>1
    <3>2. f[k + d] \in Nat /\ f[k + (d + 1)] \in Nat /\ f[k + d] < f[k + (d + 1)] /\ f[k] \in Nat
      <4>1. f[k + d] \in Nat /\ f[k + (d + 1)] \in Nat /\ f[k] \in Nat
        BY <1>1, <1>3, <3>1
      <4> QED BY <1>4, <3>1, <4>1
    <3>3. f[k + d] <= m
      BY <1>1, <3>2
    <3>4. f[k] <= f[k + d]
      BY <2>2, <3>1, <3>3
    <3> QED BY <3>2, <3>4
  <2> HIDE DEF U
  <2>3. Nat \subseteq U
    BY <2>1, <2>2, SetInduction
  <2>4. ASSUME NEW k \in 0..n, NEW j \in 0..n, f[j] <= m, k <= j
        PROVE  f[k] <= f[j] /\ (k < j => f[k] < f[j])
    <3> DEFINE d == j - k
    <3>1. d \in Nat /\ k + d = j /\ (k < j => d > 0)
      BY <1>1, <2>4
    <3> HIDE DEF d
    <3>2. k + d <= n /\ f[k + d] <= m => f[k] <= f[k + d] /\ (d > 0 => f[k] < f[k + d])
      BY <2>3, <3>1 DEF U
    <3> QED BY <1>1, <2>4, <3>1, <3>2
  <2> DEFINE at == [k \in 1..n |-> f[k]]
  <2>5. \A k \in 1..n : f[k] \in 1..m
    <3> TAKE k \in 1..n
    <3>1. k \in 0..n /\ n \in 0..n /\ k <= n /\ f[n] <= m
      BY <1>1, <1>2, <1>6
    <3>2. f[k] <= f[n]
      BY <2>4, <3>1
    <3>3. f[n] \in Nat /\ f[k] \in 1..(m + 1)
      BY <1>1, <1>3, <1>4, <3>1
    <3> QED BY <1>1, <3>1, <3>2, <3>3
  <2>6. at \in [DOMAIN needle -> DOMAIN h]
    BY <1>1, <2>5
  <2>7. \A k \in DOMAIN needle : h[at[k]] = needle[k]
    BY <1>1, <1>4, <2>5
  <2>8. \A i, j \in DOMAIN needle : i < j => at[i] < at[j]
    <3> TAKE i \in DOMAIN needle, j \in DOMAIN needle
    <3>1. i \in 0..n /\ j \in 0..n /\ i \in 1..n /\ j \in 1..n /\ (i < j => i <= j)
      BY <1>1
    <3> QED BY <1>1, <2>4, <2>5, <3>1
  <2> HIDE DEF at
  <2> QED BY <2>6, <2>7, <2>8 DEF Embeds
<1> QED BY <1>5, <1>6

(* What is embedded in a list is embedded in a longer one.                 *)
LEMMA EmbedsInMore ==
  ASSUME NEW S, NEW needle \in Seq(S), NEW h \in Seq(S), NEW x \in S, Embeds(needle, h)
  PROVE  Embeds(needle, Append(h, x))
<1>1. PICK at \in [DOMAIN needle -> DOMAIN h] :
        /\ \A i \in DOMAIN needle : h[at[i]] = needle[i]
        /\ \A i, j \in DOMAIN needle : i < j => at[i] < at[j]
  BY DEF Embeds
<1> DEFINE t == Append(h, x)
<1>2. DOMAIN h \subseteq DOMAIN t /\ \A i \in DOMAIN h : t[i] = h[i]
  OBVIOUS
<1> HIDE DEF t
<1>3. at \in [DOMAIN needle -> DOMAIN t] /\ \A i \in DOMAIN needle : t[at[i]] = needle[i]
  BY <1>1, <1>2
<1>4. Embeds(needle, t)
  BY <1>1, <1>3 DEF Embeds
<1> QED BY <1>4 DEF t

-----------------------------------------------------------------------------
(* A turn's output, and one with another call.                             *)
Output(o) ==
  /\ o = [f \in DOMAIN NoOutput |-> o[f]]
  /\ \E Calls : o.calls \in Seq(Calls)

Named(calls) == [i \in DOMAIN calls |-> calls[i].name]

LEMMA OneMore ==
  ASSUME NEW o, Output(o), NEW call, NEW p, p = [o EXCEPT !.calls = Append(@, call)]
  PROVE  /\ Output(p) /\ Len(p.calls) = Len(o.calls) + 1 /\ Len(o.calls) \in Nat
         /\ ToSet(p.calls) = ToSet(o.calls) \union {call}
         /\ \A f \in DOMAIN NoOutput \ {"calls"} : p[f] = o[f]
         /\ Named(p.calls) = Append(Named(o.calls), call.name)
         /\ \E S : Named(o.calls) \in Seq(S) /\ call.name \in S
<1>1. PICK Calls : o.calls \in Seq(Calls)
  BY DEF Output
<1> DEFINE All == Calls \union {call}
           s == o.calls
           t == Append(s, call)
           S == {c.name : c \in All}
<1>2. "calls" \in DOMAIN NoOutput /\ DOMAIN o = DOMAIN NoOutput
  BY DEF Output, NoOutput
<1>3. p.calls = t /\ (\A f \in DOMAIN NoOutput \ {"calls"} : p[f] = o[f]) /\ p = [f \in DOMAIN NoOutput |-> p[f]]
  BY <1>2 DEF Output
<1>4. s \in Seq(All) /\ t \in Seq(All) /\ Len(t) = Len(s) + 1 /\ Len(s) \in Nat
      /\ DOMAIN s = 1..Len(s) /\ DOMAIN t = 1..(Len(s) + 1)
      /\ t[Len(s) + 1] = call /\ \A i \in 1..Len(s) : t[i] = s[i]
  BY <1>1
<1> HIDE DEF s, t, All
<1>5. ToSet(t) = ToSet(s) \union {call}
  <2>1. \A i \in 1..(Len(s) + 1) : i = Len(s) + 1 \/ i \in 1..Len(s)
    BY <1>4
  <2>2. Len(s) + 1 \in 1..(Len(s) + 1) /\ \A i \in 1..Len(s) : i \in 1..(Len(s) + 1)
    BY <1>4
  <2> QED BY <1>4, <2>1, <2>2 DEF ToSet
<1>6. Named(s) \in Seq(S) /\ call.name \in S /\ DOMAIN Named(s) = 1..Len(s) /\ Len(Named(s)) = Len(s)
  <2>1. \A i \in 1..Len(s) : s[i] \in All
    BY <1>4
  <2>2. Named(s) = [i \in 1..Len(s) |-> s[i].name]
    BY <1>4 DEF Named
  <2>3. call \in All
    BY DEF All
  <2>4. Named(s) \in [1..Len(s) -> S]
    BY <2>1, <2>2
  <2> HIDE DEF S
  <2>5. Named(s) \in Seq(S) /\ DOMAIN Named(s) = 1..Len(s) /\ Len(Named(s)) = Len(s)
    BY <1>4, <2>4
  <2> QED BY <2>3, <2>5 DEF S
<1>7. Named(t) = Append(Named(s), call.name)
  <2>1. Named(t) = [i \in 1..(Len(s) + 1) |-> t[i].name]
    BY <1>4 DEF Named
  <2>2. Append(Named(s), call.name) = [i \in 1..(Len(s) + 1) |-> IF i <= Len(s) THEN Named(s)[i] ELSE call.name]
    <3> HIDE DEF S
    <3> QED BY <1>4, <1>6
  <2>3. \A i \in 1..(Len(s) + 1) : t[i].name = IF i <= Len(s) THEN Named(s)[i] ELSE call.name
    <3> TAKE i \in 1..(Len(s) + 1)
    <3>1. CASE i = Len(s) + 1
      BY <1>4, <3>1
    <3>2. CASE i \in 1..Len(s)
      <4>1. t[i] = s[i] /\ i <= Len(s) /\ Named(s)[i] = s[i].name
        BY <1>4, <3>2 DEF Named
      <4> QED BY <4>1
    <3> QED BY <1>4, <3>1, <3>2
  <2> QED BY <2>1, <2>2, <2>3
<1> QED BY <1>1, <1>3, <1>4, <1>5, <1>6, <1>7 DEF Output, s

(* What is to become of a check if there is one more call.                 *)
Follows(c, d) ==
  d.check = c.check /\ IF Forbids(c) THEN d.passed => c.passed ELSE c.passed => d.passed

LEMMA FollowsItself == \A c : Follows(c, c)
BY DEF Follows

(* A check that does not forbid follows if it passes on.                   *)
LEMMA FollowsSaid ==
  ASSUME NEW dim, NEW name, NEW p \in BOOLEAN, NEW q \in BOOLEAN, p => q,
         ~Forbids(Check(dim, name, p))
  PROVE  Follows(Check(dim, name, p), Check(dim, name, q))
<1>1. Check(dim, name, p).passed = p /\ Check(dim, name, q).passed = q
      /\ Check(dim, name, q).check = Check(dim, name, p).check
  BY DEF Check
<1> QED BY <1>1 DEF Follows

LEMMA FollowsForbidden ==
  ASSUME NEW dim, NEW name, NEW p \in BOOLEAN, NEW q \in BOOLEAN, q => p,
         Forbids(Check(dim, name, p))
  PROVE  Follows(Check(dim, name, p), Check(dim, name, q))
<1>1. Check(dim, name, p).passed = p /\ Check(dim, name, q).passed = q
      /\ Check(dim, name, q).check = Check(dim, name, p).check
  BY DEF Check
<1> QED BY <1>1 DEF Follows

LEMMA CallsFollow ==
  ASSUME NEW o, Output(o), NEW call, NEW p, p = [o EXCEPT !.calls = Append(@, call)],
         NEW e, NEW c \in CheckCalls(o, e)
  PROVE  \E d \in CheckCalls(p, e) : Follows(c, d)
<1>1. ToSet(p.calls) = ToSet(o.calls) \union {call}
  BY OneMore
<1>2. \A t : CallsOf(o, t) \subseteq CallsOf(p, t)
  BY <1>1 DEF CallsOf
<1> DEFINE args(u, x) == \E a \in CallsOf(u, x.tool) : ArgsMatch(a.args, x.args)
           result(u, x) == \E a \in CallsOf(u, x.tool) : ResultContains(a, x.word)
           A(u, x) == Check("trajectory", <<"tool_args_contain", x.tool>>, args(u, x))
           Res(u, x) == Check("trajectory", <<"tool_result_contains", x.tool>>, result(u, x))
<1>3. \A x : (args(o, x) => args(p, x)) /\ (result(o, x) => result(p, x))
  BY <1>2
<1>4. \A x, u : args(u, x) \in BOOLEAN /\ result(u, x) \in BOOLEAN
  OBVIOUS
<1>5. \A x, u : ~Forbids(A(u, x)) /\ ~Forbids(Res(u, x))
  BY DEF Forbids, Check
<1>6. \A u : CheckCalls(u, e) = {A(u, x) : x \in e.tool_args_contain} \union {Res(u, x) : x \in e.tool_result_contains}
  BY DEF CheckCalls
<1> HIDE DEF args, result
<1>7. \A x : Follows(A(o, x), A(p, x)) /\ Follows(Res(o, x), Res(p, x))
  BY <1>3, <1>4, <1>5, FollowsSaid
<1> HIDE DEF A, Res
<1>8. CASE c \in {A(o, x) : x \in e.tool_args_contain}
  <2>1. PICK x \in e.tool_args_contain : c = A(o, x)
    BY <1>8
  <2>2. A(p, x) \in CheckCalls(p, e)
    BY <1>6
  <2> QED BY <1>7, <2>1, <2>2
<1>9. CASE c \in {Res(o, x) : x \in e.tool_result_contains}
  <2>1. PICK x \in e.tool_result_contains : c = Res(o, x)
    BY <1>9
  <2>2. Res(p, x) \in CheckCalls(p, e)
    BY <1>6
  <2> QED BY <1>7, <2>1, <2>2
<1> QED BY <1>6, <1>8, <1>9

(* An expectation as the loader lets it through.                           *)
Expectation(e) ==
  /\ e.max_tool_calls \in Nat \union {None}
  /\ e.has_thinking \in {"yes", "no", None}
  /\ \E Names : e.tools_invoked_in_order \in Seq(Names)

(* The order in which the tools of an output count as used.                *)
InOrder(o) == IF o.sequence # <<>> THEN o.sequence ELSE Named(o.calls)

LEMMA OrderFollows ==
  ASSUME NEW o, Output(o), NEW call, NEW p, p = [o EXCEPT !.calls = Append(@, call)],
         NEW e, Expectation(e),
         IsSubsequence(e.tools_invoked_in_order, InOrder(o))
  PROVE  IsSubsequence(e.tools_invoked_in_order, InOrder(p))
<1> DEFINE s == e.tools_invoked_in_order
<1>1. p.sequence = o.sequence
  <2>1. "sequence" \in DOMAIN NoOutput \ {"calls"}
    BY DEF NoOutput
  <2>2. p["sequence"] = o["sequence"]
    BY <2>1, OneMore
  <2> QED BY <2>2
<1>2. CASE o.sequence # <<>>
  BY <1>1, <1>2 DEF InOrder
<1>3. CASE o.sequence = <<>>
  <2> DEFINE h == Named(o.calls)
             x == call.name
  <2>1. PICK Names : s \in Seq(Names)
    BY DEF Expectation
  <2>2. PICK Tools : h \in Seq(Tools) /\ x \in Tools
    BY OneMore
  <2>3. Named(p.calls) = Append(h, x)
    BY OneMore
  <2> DEFINE S == Names \union Tools
  <2>4. IsSubsequence(s, h)
    BY <1>3 DEF InOrder
  <2> HIDE DEF h, x, s
  <2>5. s \in Seq(S) /\ h \in Seq(S) /\ x \in S /\ Append(h, x) \in Seq(S)
    BY <2>1, <2>2
  <2> HIDE DEF S
  <2>6. Embeds(s, Append(h, x))
    BY <2>4, <2>5, GreedyIsEnough, EmbedsInMore
  <2>7. IsSubsequence(s, Append(h, x))
    BY <2>5, <2>6, GreedyIsEnough
  <2> QED BY <1>1, <1>3, <2>3, <2>7 DEF InOrder, s, h, x
<1> QED BY <1>2, <1>3

LEMMA TrajectoryFollows ==
  ASSUME NEW o, Output(o), NEW call, NEW p, p = [o EXCEPT !.calls = Append(@, call)],
         NEW e, Expectation(e), NEW c \in CheckTrajectory(o, e)
  PROVE  \E d \in CheckTrajectory(p, e) : Follows(c, d)
<1>1. ToSet(p.calls) = ToSet(o.calls) \union {call}
  BY OneMore
<1>2. p.raw = o.raw /\ p.thinking = o.thinking
  <2>1. "raw" \in DOMAIN NoOutput \ {"calls"} /\ "thinking" \in DOMAIN NoOutput \ {"calls"}
    BY DEF NoOutput
  <2>2. p["raw"] = o["raw"] /\ p["thinking"] = o["thinking"]
    BY <2>1, OneMore
  <2> QED BY <2>2
<1> DEFINE used(u, t) == t \in ToolNames(u) \/ ToolNameInCli(t, u)
           any(u, a) == \E t \in a : used(u, t)
           order(u, s) == IsSubsequence(s, InOrder(u))
           only(u, s) == ToolNames(u) \subseteq s
           none(u, s) == ToolNames(u) \intersect s = {}
           skill(u, s) == SkillInvoked(s, u)
           A(u, t) == Check("trajectory", <<"tool_invoked", t>>, used(u, t))
           B(u, a) == Check("trajectory", <<"tool_invoked_any", a>>, any(u, a))
           C2(u, s) == Check("trajectory", <<"tools_invoked_in_order">>, order(u, s))
           D2(u, s) == Check("trajectory", <<"only_used_tools">>, only(u, s))
           F(u, s) == Check("trajectory", <<"forbidden_tools">>, none(u, s))
           H(u, s) == Check("trajectory", <<"skill_invoked", s>>, skill(u, s))
           T(u, w) == Check("trajectory", <<"has_thinking", w>>, (w = "yes") = u.thinking)
           ordered == {e.tools_invoked_in_order} \ {<<>>}
           onlies == {e.only_used_tools} \ {{}}
           forbidden == {e.forbidden_tools} \ {{}}
           thinks == {e.has_thinking} \ {None}
<1>3. \A u : CheckTrajectory(u, e) =
        {A(u, t) : t \in e.tools_invoked} \union {B(u, a) : a \in e.tools_invoked_any}
        \union {C2(u, s) : s \in ordered} \union {D2(u, s) : s \in onlies} \union {F(u, s) : s \in forbidden}
        \union CheckCalls(u, e) \union {H(u, s) : s \in e.skills_invoked} \union {T(u, w) : w \in thinks}
  BY DEF CheckTrajectory, InOrder, Named
<1>4. ToolNames(o) \subseteq ToolNames(p) /\ \A t : CallsOf(o, t) \subseteq CallsOf(p, t)
  BY <1>1 DEF ToolNames, CallsOf
<1>5. \A t : used(o, t) => used(p, t)
  BY <1>2, <1>4 DEF ToolNameInCli
<1>6. \A s : skill(o, s) => skill(p, s)
  BY <1>1, <1>2, <1>4 DEF SkillInvoked
<1>7. \A a : any(o, a) => any(p, a)
  <2> HIDE DEF used
  <2> QED BY <1>5
<1>8. \A s \in ordered : order(o, s) => order(p, s)
  <2>1. ASSUME order(o, e.tools_invoked_in_order) PROVE order(p, e.tools_invoked_in_order)
    BY SMTT(30), <2>1, OrderFollows
  <2> HIDE DEF order
  <2> QED BY <2>1
<1>9. \A s : (only(p, s) => only(o, s)) /\ (none(p, s) => none(o, s))
  BY <1>4
<1>10. \A u, x : /\ used(u, x) \in BOOLEAN /\ any(u, x) \in BOOLEAN /\ order(u, x) \in BOOLEAN
                 /\ only(u, x) \in BOOLEAN /\ none(u, x) \in BOOLEAN /\ skill(u, x) \in BOOLEAN
  BY DEF IsSubsequence, SkillInvoked
<1> HIDE DEF used, any, order, only, none, skill
<1>11. \A x : /\ ~Forbids(A(o, x)) /\ ~Forbids(B(o, x)) /\ ~Forbids(C2(o, x)) /\ ~Forbids(H(o, x))
              /\ Forbids(D2(o, x)) /\ Forbids(F(o, x))
  BY DEF Forbids, Check
<1>12. \A t \in e.tools_invoked : Follows(A(o, t), A(p, t))
  BY <1>5, <1>10, <1>11, FollowsSaid
<1>13. \A a \in e.tools_invoked_any : Follows(B(o, a), B(p, a))
  BY <1>7, <1>10, <1>11, FollowsSaid
<1>14. \A s \in ordered : Follows(C2(o, s), C2(p, s))
  BY <1>8, <1>10, <1>11, FollowsSaid
<1>15. \A s : Follows(D2(o, s), D2(p, s)) /\ Follows(F(o, s), F(p, s))
  BY <1>9, <1>10, <1>11, FollowsForbidden
<1>16. \A s \in e.skills_invoked : Follows(H(o, s), H(p, s))
  BY <1>6, <1>10, <1>11, FollowsSaid
<1>17. \A w : Follows(T(o, w), T(p, w))
  BY <1>2, FollowsItself
<1>18. \A d \in CheckCalls(o, e) : \E f \in CheckCalls(p, e) : Follows(d, f)
  BY CallsFollow
<1> HIDE DEF A, B, C2, D2, F, H, T, ordered, onlies, forbidden, thinks
<1>19. CASE c \in {A(o, t) : t \in e.tools_invoked}
  <2>1. PICK t \in e.tools_invoked : c = A(o, t)
    BY <1>19
  <2>2. A(p, t) \in CheckTrajectory(p, e)
    BY <1>3
  <2> QED BY <1>12, <2>1, <2>2
<1>20. CASE c \in {B(o, a) : a \in e.tools_invoked_any}
  <2>1. PICK a \in e.tools_invoked_any : c = B(o, a)
    BY <1>20
  <2>2. B(p, a) \in CheckTrajectory(p, e)
    BY <1>3
  <2> QED BY <1>13, <2>1, <2>2
<1>21. CASE c \in {C2(o, s) : s \in ordered}
  <2>1. PICK s \in ordered : c = C2(o, s)
    BY <1>21
  <2>2. C2(p, s) \in CheckTrajectory(p, e)
    BY <1>3
  <2> QED BY <1>14, <2>1, <2>2
<1>22. CASE c \in {D2(o, s) : s \in onlies}
  <2>1. PICK s \in onlies : c = D2(o, s)
    BY <1>22
  <2>2. D2(p, s) \in CheckTrajectory(p, e)
    BY <1>3
  <2> QED BY <1>15, <2>1, <2>2
<1>23. CASE c \in {F(o, s) : s \in forbidden}
  <2>1. PICK s \in forbidden : c = F(o, s)
    BY <1>23
  <2>2. F(p, s) \in CheckTrajectory(p, e)
    BY <1>3
  <2> QED BY <1>15, <2>1, <2>2
<1>24. CASE c \in CheckCalls(o, e)
  BY <1>3, <1>18, <1>24
<1>25. CASE c \in {H(o, s) : s \in e.skills_invoked}
  <2>1. PICK s \in e.skills_invoked : c = H(o, s)
    BY <1>25
  <2>2. H(p, s) \in CheckTrajectory(p, e)
    BY <1>3
  <2> QED BY <1>16, <2>1, <2>2
<1>26. CASE c \in {T(o, w) : w \in thinks}
  <2>1. PICK w \in thinks : c = T(o, w)
    BY <1>26
  <2>2. T(p, w) \in CheckTrajectory(p, e)
    BY <1>3
  <2> QED BY <1>17, <2>1, <2>2
<1> QED BY <1>3, <1>19, <1>20, <1>21, <1>22, <1>23, <1>24, <1>25, <1>26

LEMMA TurnFollows ==
  ASSUME NEW o, Output(o), NEW call, NEW p, p = [o EXCEPT !.calls = Append(@, call)],
         NEW e, Expectation(e), NEW c \in CheckTurn(o, e)
  PROVE  \E d \in CheckTurn(p, e) : Follows(c, d)
<1>1. /\ p.raw = o.raw /\ p.error = o.error /\ p.errorType = o.errorType /\ p.hasReply = o.hasReply
      /\ p.reply = o.reply /\ p.llmTurns = o.llmTurns /\ p.cost = o.cost /\ p.timing = o.timing
      /\ p.files = o.files /\ p.modified = o.modified /\ p.diff = o.diff
  <2>1. {"raw", "error", "errorType", "hasReply", "reply", "llmTurns", "cost", "timing", "files", "modified", "diff"}
          \subseteq DOMAIN NoOutput \ {"calls"}
    BY DEF NoOutput
  <2>2. DOMAIN o = DOMAIN NoOutput
    BY DEF Output
  <2> HIDE DEF NoOutput
  <2> QED BY <2>1, <2>2
<1>2. Len(p.calls) = Len(o.calls) + 1 /\ Len(o.calls) \in Nat
  BY OneMore
<1>3. CheckExecution(p, e) = CheckExecution(o, e)
  BY <1>1 DEF CheckExecution
<1>4. CheckResponse(p, e) = CheckResponse(o, e)
  BY <1>1 DEF CheckResponse
<1>5. CheckCost(p, e) = CheckCost(o, e) /\ CheckPerformance(p, e) = CheckPerformance(o, e)
  BY <1>1 DEF CheckCost, CheckPerformance
<1>6. CheckFileDiff(p, e) = CheckFileDiff(o, e) /\ CheckState(p, e) = CheckState(o, e)
  BY <1>1 DEF CheckFileDiff, CheckState
<1>7. \A d \in CheckEfficiency(o, e) : \E f \in CheckEfficiency(p, e) : Follows(d, f)
  <2> DEFINE A(u, n) == Check("efficiency", <<"max_llm_turns">>, (IF u.llmTurns = None THEN 0 ELSE u.llmTurns) <= n)
             few(u, n) == Len(u.calls) <= n
             B(u, n) == Check("efficiency", <<"max_tool_calls">>, few(u, n))
             asked1 == {e.max_llm_turns} \ {None}
             asked2 == {e.max_tool_calls} \ {None}
  <2>1. \A u : CheckEfficiency(u, e) = {A(u, n) : n \in asked1} \union {B(u, n) : n \in asked2}
    BY DEF CheckEfficiency
  <2>2. \A n : Follows(A(o, n), A(p, n))
    BY <1>1, FollowsItself
  <2>3. asked2 \subseteq Nat
    BY DEF Expectation
  <2>4. \A n \in asked2 : few(p, n) => few(o, n)
    BY <1>2, <2>3
  <2>5. \A u, n : few(u, n) \in BOOLEAN
    OBVIOUS
  <2> HIDE DEF few
  <2>6. \A n : Forbids(B(o, n))
    BY DEF Forbids, Check
  <2>7. \A n \in asked2 : Follows(B(o, n), B(p, n))
    BY <2>4, <2>5, <2>6, FollowsForbidden
  <2> HIDE DEF A, B, asked1, asked2
  <2>8. ASSUME NEW d \in CheckEfficiency(o, e) PROVE \E f \in CheckEfficiency(p, e) : Follows(d, f)
    <3>1. CASE d \in {A(o, n) : n \in asked1}
      <4>1. PICK n \in asked1 : d = A(o, n)
        BY <3>1
      <4> QED BY <2>1, <2>2, <4>1
    <3>2. CASE d \in {B(o, n) : n \in asked2}
      <4>1. PICK n \in asked2 : d = B(o, n)
        BY <3>2
      <4> QED BY <2>1, <2>7, <4>1
    <3> QED BY <2>1, <2>8, <3>1, <3>2
  <2> QED BY <2>8
<1>8. \A d \in CheckTrajectory(o, e) : \E f \in CheckTrajectory(p, e) : Follows(d, f)
  BY TrajectoryFollows
<1> QED BY <1>3, <1>4, <1>5, <1>6, <1>7, <1>8, FollowsItself DEF CheckTurn

-----------------------------------------------------------------------------
(* What a turn without an output is given, and what a cost check says.     *)

LEMMA LostExecution ==
  ASSUME NEW e, NEW c \in CheckExecution(NoOutput, e), c.passed
  PROVE  Forbids(c)
<1> DEFINE A(x) == Check("execution", <<"error_type_is">>, NoOutput.errorType = x)
           error == IF NoOutput.error # None THEN NoOutput.error = "yes" ELSE ErrorPatterns \intersect NoOutput.raw # {}
           B(x) == Check("execution", <<"no_errors">>, ~error)
           F(w) == Check("execution", <<"not_contains", w>>, w \notin NoOutput.raw)
<1>1. CheckExecution(NoOutput, e) = {B(x) : x \in {y \in {e.no_errors} : y}} \union {F(w) : w \in e.not_contains}
                                    \union {A(t) : t \in {e.error_type_is} \ {None}}
  BY DEF CheckExecution
<1>2. \A x : Forbids(B(x)) /\ Forbids(F(x))
  BY DEF Forbids, Check
<1>3. NoOutput.errorType = None
  BY DEF NoOutput
<1>4. \A x : x # None => ~A(x).passed
  BY <1>3 DEF Check
<1> HIDE DEF A, B, F
<1> QED BY <1>1, <1>2, <1>4

LEMMA LostTrajectory ==
  ASSUME NEW e, Expectation(e), NEW c \in CheckTrajectory(NoOutput, e), c.passed
  PROVE  Forbids(c)
<1> DEFINE u == NoOutput
           used(t) == t \in ToolNames(u) \/ ToolNameInCli(t, u)
           A(t) == Check("trajectory", <<"tool_invoked", t>>, used(t))
           B(a) == Check("trajectory", <<"tool_invoked_any", a>>, \E t \in a : used(t))
           C2(s) == Check("trajectory", <<"tools_invoked_in_order">>, IsSubsequence(s, InOrder(u)))
           D2(s) == Check("trajectory", <<"only_used_tools">>, ToolNames(u) \subseteq s)
           F(s) == Check("trajectory", <<"forbidden_tools">>, ToolNames(u) \intersect s = {})
           H(s) == Check("trajectory", <<"skill_invoked", s>>, SkillInvoked(s, u))
           T(w) == Check("trajectory", <<"has_thinking", w>>, (w = "yes") = u.thinking)
           K(x) == Check("trajectory", <<"tool_args_contain", x.tool>>,
                         \E a \in CallsOf(u, x.tool) : ArgsMatch(a.args, x.args))
           Res(x) == Check("trajectory", <<"tool_result_contains", x.tool>>,
                         \E a \in CallsOf(u, x.tool) : ResultContains(a, x.word))
           ordered == {e.tools_invoked_in_order} \ {<<>>}
           onlies == {e.only_used_tools} \ {{}}
           forbidden == {e.forbidden_tools} \ {{}}
           thinks == {e.has_thinking} \ {None}
<1>1. CheckTrajectory(u, e) =
        {A(t) : t \in e.tools_invoked} \union {B(a) : a \in e.tools_invoked_any}
        \union {C2(s) : s \in ordered} \union {D2(s) : s \in onlies} \union {F(s) : s \in forbidden}
        \union CheckCalls(u, e) \union {H(s) : s \in e.skills_invoked} \union {T(w) : w \in thinks}
  BY DEF CheckTrajectory, InOrder, Named
<1>2. CheckCalls(u, e) = {K(x) : x \in e.tool_args_contain} \union {Res(x) : x \in e.tool_result_contains}
  BY DEF CheckCalls
<1>3. u.calls = <<>> /\ u.sequence = <<>> /\ u.raw = {} /\ u.thinking = FALSE
  BY DEF NoOutput
<1> HIDE DEF u
<1>4. ToSet(u.calls) = {}
  BY <1>3 DEF ToSet
<1>5. ToolNames(u) = {} /\ \A t : CallsOf(u, t) = {} /\ ~ToolNameInCli(t, u)
  BY <1>3, <1>4 DEF ToolNames, CallsOf, ToolNameInCli
<1>6. \A s : ~SkillInvoked(s, u)
  BY <1>3, <1>4, <1>5 DEF SkillInvoked
<1>7. \A s \in ordered : ~IsSubsequence(s, InOrder(u))
  <2>1. InOrder(u) = <<>>
    BY <1>3 DEF InOrder, Named
  <2>2. PICK Names : e.tools_invoked_in_order \in Seq(Names)
    BY DEF Expectation
  <2>3. ASSUME NEW s \in Seq(Names), s # <<>> PROVE ~Embeds(s, <<>>)
    <3>1. 1 \in DOMAIN s /\ DOMAIN <<>> = {}
      BY <2>3
    <3> QED BY <3>1 DEF Embeds
  <2>4. ASSUME NEW s \in Seq(Names), s # <<>> PROVE ~IsSubsequence(s, <<>>)
    <3>1. <<>> \in Seq(Names)
      OBVIOUS
    <3> QED BY <2>3, <2>4, <3>1, GreedyIsEnough
  <2> QED BY <2>1, <2>2, <2>4
<1>8. \A x : ~used(x) /\ ~(\E a \in CallsOf(u, x.tool) : ArgsMatch(a.args, x.args))
             /\ ~(\E a \in CallsOf(u, x.tool) : ResultContains(a, x.word))
  BY <1>5
<1>9. \A x : ~A(x).passed /\ ~B(x).passed /\ ~K(x).passed /\ ~Res(x).passed
  BY <1>8 DEF Check
<1>10. \A x : ~H(x).passed
  BY <1>6 DEF Check
<1>11. \A s \in ordered : ~C2(s).passed
  BY <1>7 DEF Check
<1>12. \A s : Forbids(D2(s)) /\ Forbids(F(s))
  BY DEF Forbids, Check
<1>13. \A w \in thinks : T(w).passed => Forbids(T(w))
  <2>1. \A w \in thinks : w = "yes" \/ w = "no"
    BY DEF Expectation
  <2>2. T("yes").passed = (TRUE = FALSE)
    BY <1>3 DEF Check
  <2>3. Forbids(T("no"))
    BY DEF Forbids, Check
  <2> HIDE DEF T, thinks
  <2> QED BY <2>1, <2>2, <2>3
<1> HIDE DEF A, B, C2, D2, F, H, T, K, Res, ordered, onlies, forbidden, thinks
<1>14. CASE c \in CheckCalls(u, e)
  BY <1>2, <1>9, <1>14
<1>15. CASE c \in {A(t) : t \in e.tools_invoked} \union {B(a) : a \in e.tools_invoked_any} \union {H(s) : s \in e.skills_invoked}
  BY <1>9, <1>10, <1>15
<1>16. CASE c \in {C2(s) : s \in ordered} \union {D2(s) : s \in onlies} \union {F(s) : s \in forbidden}
  BY <1>11, <1>12, <1>16
<1>17. CASE c \in {T(w) : w \in thinks}
  BY <1>13, <1>17
<1>18. c \in CheckTrajectory(u, e)
  BY DEF u
<1> QED BY <1>1, <1>14, <1>15, <1>16, <1>17, <1>18

LEMMA LostRest ==
  ASSUME NEW e, NEW c, c.passed,
         c \in CheckResponse(NoOutput, e) \union CheckEfficiency(NoOutput, e) \union CheckCost(NoOutput, e)
              \union CheckPerformance(NoOutput, e) \union CheckFileDiff(NoOutput, e) \union CheckState(NoOutput, e)
  PROVE  Forbids(c)
<1> DEFINE u == NoOutput
<1>1. /\ u.hasReply = FALSE /\ u.reply = {} /\ u.raw = {} /\ u.cost = None /\ u.timing = None
      /\ u.modified = {} /\ u.diff = {} /\ DOMAIN u.files = {}
  BY DEF NoOutput
<1>2. c \in CheckResponse(u, e) \union CheckEfficiency(u, e) \union CheckCost(u, e)
           \union CheckPerformance(u, e) \union CheckFileDiff(u, e) \union CheckState(u, e)
  OBVIOUS
<1> HIDE DEF u
<1>3. ASSUME c \in CheckResponse(u, e) PROVE FALSE
  <2> DEFINE A(x) == Check("response", <<"has_reply">>, u.hasReply)
             B(w) == Check("response", <<"contains", w>>, w \in u.reply \union u.raw)
             F(p) == Check("response", <<"reply_pattern", p>>, p \in u.reply)
  <2>1. CheckResponse(u, e) = {A(x) : x \in {y \in {e.has_reply} : y}} \union {B(w) : w \in e.contains}
                              \union {F(p) : p \in e.reply_pattern}
    BY DEF CheckResponse
  <2>2. \A x : ~A(x).passed /\ ~B(x).passed /\ ~F(x).passed
    BY <1>1 DEF Check
  <2> HIDE DEF A, B, F
  <2> QED BY <1>3, <2>1, <2>2
<1>4. ASSUME c \in CheckEfficiency(u, e) PROVE Forbids(c)
  BY <1>4 DEF CheckEfficiency, Forbids, Check
<1>5. ASSUME c \in CheckCost(u, e) PROVE FALSE
  <2> DEFINE in(n) == u.cost # None /\ u.cost <= n
             A(n) == Check("cost", <<"max_cost_usd">>, in(n))
  <2>1. CheckCost(u, e) = {A(n) : n \in {e.max_cost_usd} \ {None}}
    BY DEF CheckCost
  <2>2. \A n : ~in(n)
    BY <1>1
  <2> HIDE DEF in
  <2>3. \A n : ~A(n).passed
    BY <2>2 DEF Check
  <2> HIDE DEF A
  <2> QED BY <1>5, <2>1, <2>3
<1>6. ASSUME c \in CheckPerformance(u, e) PROVE FALSE
  <2> DEFINE in(x) == u.timing # None /\ u.timing[x.field] # None /\ u.timing[x.field] <= x.most
             A(x) == Check(<<"performance", x.field>>, <<"max_seconds", x.field>>, in(x))
  <2>1. CheckPerformance(u, e) = {A(x) : x \in e.max_seconds}
    BY DEF CheckPerformance
  <2>2. \A x : ~in(x)
    BY <1>1
  <2> HIDE DEF in
  <2>3. \A x : ~A(x).passed
    BY <2>2 DEF Check
  <2> HIDE DEF A
  <2> QED BY <1>6, <2>1, <2>3
<1>7. ASSUME c \in CheckFileDiff(u, e) PROVE Forbids(c)
  <2> DEFINE any == {e.files_modified_any} \ {{}}
             exact == {e.files_modified_exact} \ {{}}
             A(s) == Check("file_diff", <<"files_modified_any">>, s \intersect u.modified # {})
             B(s) == Check("file_diff", <<"files_modified_exact">>, s = u.modified)
             F(p) == Check("file_diff", <<"file_not_modified", p>>, p \notin u.modified)
             H(w) == Check("file_diff", <<"git_diff_contains", w>>, w \in u.diff)
  <2>1. CheckFileDiff(u, e) = {A(s) : s \in any} \union {B(s) : s \in exact}
                              \union {F(p) : p \in e.files_not_modified} \union {H(w) : w \in e.git_diff_contains}
    BY DEF CheckFileDiff
  <2>2. \A x : ~A(x).passed /\ ~H(x).passed
    BY <1>1 DEF Check
  <2>3. \A s \in exact : ~B(s).passed
    BY <1>1 DEF Check
  <2>4. \A x : Forbids(F(x))
    BY DEF Forbids, Check
  <2> HIDE DEF A, B, F, H, any, exact
  <2> QED BY <1>7, <2>1, <2>2, <2>3, <2>4
<1>8. ASSUME c \in CheckState(u, e) PROVE Forbids(c)
  <2> DEFINE there(p) == p \in DOMAIN u.files /\ u.files[p] # None
             A(p) == Check("state", <<"file_exists", p>>, there(p))
             B(x) == Check("state", <<"file_contains", x.path>>, there(x.path) /\ x.word \in u.files[x.path])
             F(p) == Check("state", <<"file_not_exists", p>>, ~there(p))
  <2>1. CheckState(u, e) = {A(p) : p \in e.files_exist} \union {B(x) : x \in e.files_contain}
                           \union {F(p) : p \in e.files_not_exist}
    BY DEF CheckState
  <2>2. \A p : ~there(p)
    BY <1>1
  <2> HIDE DEF there
  <2>3. \A x : ~A(x).passed /\ ~B(x).passed
    BY <2>2 DEF Check
  <2>4. \A x : Forbids(F(x))
    BY DEF Forbids, Check
  <2> HIDE DEF A, B, F
  <2> QED BY <1>8, <2>1, <2>3, <2>4
<1> QED BY <1>2, <1>3, <1>4, <1>5, <1>6, <1>7, <1>8

LEMMA CheckNames ==
  ASSUME NEW o, NEW e
  PROVE  /\ \A c \in CheckExecution(o, e) \union CheckResponse(o, e) \union CheckEfficiency(o, e)
                    \union CheckPerformance(o, e) \union CheckFileDiff(o, e) \union CheckState(o, e) :
              c.check \notin {<<"max_cost_usd">>, <<"tools_invoked_in_order">>}
         /\ \A c \in CheckTrajectory(o, e) :
              /\ c.check # <<"max_cost_usd">>
              /\ c.check = <<"tools_invoked_in_order">> =>
                   c = Check("trajectory", <<"tools_invoked_in_order">>,
                             IsSubsequence(e.tools_invoked_in_order, InOrder(o)))
         /\ \A c \in CheckCost(o, e) :
              c.check = <<"max_cost_usd">> /\ (c.passed => o.cost # None)
<1>1. \A a, b, p : Check(a, b, p).check = b
  BY DEF Check
<1>2. \A c \in CheckExecution(o, e) : c.check[1] \in {"no_errors", "not_contains", "error_type_is"}
  BY DEF CheckExecution, Check
<1>3. \A c \in CheckResponse(o, e) : c.check[1] \in {"has_reply", "contains", "reply_pattern"}
  BY DEF CheckResponse, Check
<1>4. \A c \in CheckEfficiency(o, e) : c.check[1] \in {"max_llm_turns", "max_tool_calls"}
  BY DEF CheckEfficiency, Check
<1>5. \A c \in CheckPerformance(o, e) : c.check[1] = "max_seconds"
  BY DEF CheckPerformance, Check
<1>6. \A c \in CheckFileDiff(o, e) :
        c.check[1] \in {"files_modified_any", "files_modified_exact", "file_not_modified", "git_diff_contains"}
  BY DEF CheckFileDiff, Check
<1>7. \A c \in CheckState(o, e) : c.check[1] \in {"file_exists", "file_contains", "file_not_exists"}
  BY DEF CheckState, Check
<1>8. \A c \in CheckCost(o, e) : c.check = <<"max_cost_usd">> /\ (c.passed => o.cost # None)
  <2> DEFINE in(n) == o.cost # None /\ o.cost <= n
             A(n) == Check("cost", <<"max_cost_usd">>, in(n))
  <2>1. CheckCost(o, e) = {A(n) : n \in {e.max_cost_usd} \ {None}}
    BY DEF CheckCost
  <2>2. \A n : in(n) => o.cost # None
    OBVIOUS
  <2> HIDE DEF in
  <2>3. \A n : A(n).check = <<"max_cost_usd">> /\ (A(n).passed => o.cost # None)
    BY <2>2 DEF Check
  <2> HIDE DEF A
  <2> QED BY <2>1, <2>3
<1>9. ASSUME NEW c \in CheckTrajectory(o, e)
      PROVE  \/ c.check[1] \in {"tool_invoked", "tool_invoked_any", "only_used_tools", "forbidden_tools",
                                "skill_invoked", "has_thinking", "tool_args_contain", "tool_result_contains"}
             \/ c = Check("trajectory", <<"tools_invoked_in_order">>,
                          IsSubsequence(e.tools_invoked_in_order, InOrder(o)))
  <2>1. CASE c \in CheckCalls(o, e)
    BY <2>1 DEF CheckCalls, Check
  <2>2. CASE c \notin CheckCalls(o, e)
    BY <2>2 DEF CheckTrajectory, Check, InOrder, Named
  <2> QED BY <2>1, <2>2
<1>10. <<"max_cost_usd">>[1] = "max_cost_usd" /\ <<"tools_invoked_in_order">>[1] = "tools_invoked_in_order"
  OBVIOUS
<1>11. ASSUME NEW c \in CheckTrajectory(o, e)
       PROVE  /\ c.check # <<"max_cost_usd">>
              /\ c.check = <<"tools_invoked_in_order">> =>
                   c = Check("trajectory", <<"tools_invoked_in_order">>,
                             IsSubsequence(e.tools_invoked_in_order, InOrder(o)))
  BY <1>1, <1>9, <1>10
<1> QED BY <1>2, <1>3, <1>4, <1>5, <1>6, <1>7, <1>8, <1>10, <1>11

-----------------------------------------------------------------------------
(* Whatever the expectation and the output of a turn, the checks mean what *)
(* they say: an ordered expectation passes iff its tools are found in this *)
(* order; without an output nothing passes that does not forbid; one more  *)
(* call spoils no check but those that forbid and mends none of these; a   *)
(* budget is not kept without a cost; the scenario passes iff every check  *)
(* does.  So the answers that the run checks are right for any question.   *)
THEOREM AnyGradeMeansWhatItSays ==
  ASSUME NEW call,
         asked.family = "grade" =>
           /\ Expectation(asked.expect) /\ Output(asked.output) /\ asked.lost \in BOOLEAN
           /\ LET more == [asked.output EXCEPT !.calls = Append(@, call)]
                  outputs(o) == IF asked.lost THEN <<>> ELSE <<o>>
              IN  answer = [now |-> ScoreRules(<<asked.expect>>, outputs(asked.output)),
                            more |-> ScoreRules(<<asked.expect>>, outputs(more))]
  PROVE  GradesMeanWhatTheySay
<1> SUFFICES ASSUME asked.family = "grade" PROVE GradesMeanWhatTheySay
  BY DEF GradesMeanWhatTheySay
<1> DEFINE e == asked.expect
           o == asked.output
           p == [o EXCEPT !.calls = Append(@, call)]
           outputs(x) == IF asked.lost THEN <<>> ELSE <<x>>
           a == IF asked.lost THEN NoOutput ELSE o
           b == IF asked.lost THEN NoOutput ELSE p
<1>1. Expectation(e) /\ Output(o) /\ asked.lost \in BOOLEAN
      /\ answer.now = ScoreRules(<<e>>, outputs(o)) /\ answer.more = ScoreRules(<<e>>, outputs(p))
  OBVIOUS
<1>2. ASSUME NEW x
      PROVE  LET u == IF asked.lost THEN NoOutput ELSE x
                 g == ScoreRules(<<e>>, outputs(x))
             IN  g.checks[1] = CheckTurn(u, e) /\ (g.passed <=> \A c \in CheckTurn(u, e) : c.passed)
  <2> DEFINE u == IF asked.lost THEN NoOutput ELSE x
             s == outputs(x)
             es == <<e>>
             checks == [i \in DOMAIN es |-> CheckTurn(IF i \in DOMAIN s THEN s[i] ELSE NoOutput, es[i])]
             all == \A i \in DOMAIN checks : \A c \in checks[i] : c.passed
  <2>1. ScoreRules(es, s) = [checks |-> checks, passed |-> all]
    BY DEF ScoreRules
  <2>2. DOMAIN es = {1} /\ es[1] = e
    OBVIOUS
  <2>3. (IF 1 \in DOMAIN s THEN s[1] ELSE NoOutput) = u
    <3>1. CASE asked.lost
      <4>1. s = <<>> /\ 1 \notin DOMAIN s
        BY <3>1
      <4> QED BY <3>1, <4>1
    <3>2. CASE ~asked.lost
      <4>1. s = <<x>> /\ 1 \in DOMAIN s /\ s[1] = x
        BY <3>2
      <4> QED BY <3>2, <4>1
    <3> QED BY <3>1, <3>2
  <2> HIDE DEF s, u, es
  <2>4. DOMAIN checks = {1} /\ checks[1] = CheckTurn(u, e)
    BY <2>2, <2>3
  <2> HIDE DEF checks
  <2>5. all <=> \A c \in CheckTurn(u, e) : c.passed
    BY <2>4
  <2> HIDE DEF all
  <2>6. ScoreRules(es, s).checks[1] = CheckTurn(u, e) /\ ScoreRules(es, s).passed = all
    BY <2>1, <2>4
  <2> QED BY <2>5, <2>6 DEF es, s, u
<1>3. /\ answer.now.checks[1] = CheckTurn(a, e) /\ (answer.now.passed <=> \A c \in CheckTurn(a, e) : c.passed)
      /\ answer.more.checks[1] = CheckTurn(b, e)
  <2> HIDE DEF p, outputs
  <2> QED BY <1>1, <1>2
<1>4. ASSUME ~asked.lost, o.sequence = <<>>, NEW c \in CheckTurn(a, e), c.check = <<"tools_invoked_in_order">>
      PROVE  c.passed <=> Embeds(e.tools_invoked_in_order, [i \in DOMAIN o.calls |-> o.calls[i].name])
  <2> DEFINE s == e.tools_invoked_in_order
             h == Named(o.calls)
  <2>1. a = o /\ InOrder(o) = h
    BY <1>4 DEF InOrder
  <2>2. c \in CheckTrajectory(o, e)
    BY <1>4, <2>1, CheckNames DEF CheckTurn
  <2>3. c = Check("trajectory", <<"tools_invoked_in_order">>, IsSubsequence(s, h))
    BY <1>4, <2>1, <2>2, CheckNames
  <2>4. c.passed <=> IsSubsequence(s, h)
    BY <2>3 DEF Check
  <2>5. PICK S1 : s \in Seq(S1)
    BY <1>1 DEF Expectation
  <2>6. PICK S2 : h \in Seq(S2)
    BY <1>1, OneMore
  <2> HIDE DEF s, h
  <2>7. s \in Seq(S1 \union S2) /\ h \in Seq(S1 \union S2)
    BY <2>5, <2>6
  <2>8. IsSubsequence(s, h) <=> Embeds(s, h)
    BY <2>7, GreedyIsEnough
  <2> QED BY <2>4, <2>8 DEF s, h, Named
<1>5. ASSUME asked.lost, NEW c \in CheckTurn(a, e), c.passed PROVE Forbids(c)
  <2>1. c \in CheckTurn(NoOutput, e)
    BY <1>5
  <2> QED BY <1>1, <1>5, <2>1, LostExecution, LostTrajectory, LostRest DEF CheckTurn
<1>6. ASSUME NEW c \in CheckTurn(a, e)
      PROVE  \E d \in CheckTurn(b, e) :
               d.check = c.check /\ IF Forbids(c) THEN d.passed => c.passed ELSE c.passed => d.passed
  <2>1. CASE asked.lost
    BY <1>6, <2>1
  <2>2. CASE ~asked.lost
    <3>1. c \in CheckTurn(o, e) /\ CheckTurn(b, e) = CheckTurn(p, e)
      BY <1>6, <2>2
    <3>2. p = [o EXCEPT !.calls = Append(@, call)]
      OBVIOUS
    <3> HIDE DEF a, b, o, p, e
    <3>3. \E d \in CheckTurn(p, e) : Follows(c, d)
      BY <1>1, <3>1, <3>2, TurnFollows
    <3> QED BY <3>1, <3>3 DEF Follows
  <2> QED BY <2>1, <2>2
<1>7. ASSUME NEW c \in CheckTurn(a, e), c.check = <<"max_cost_usd">>, c.passed
      PROVE  ~asked.lost /\ o.cost # None
  <2>1. c \in CheckCost(a, e)
    BY <1>7, CheckNames DEF CheckTurn
  <2>2. a.cost # None
    BY <1>7, <2>1, CheckNames
  <2>3. NoOutput.cost = None
    BY DEF NoOutput
  <2> QED BY <2>2, <2>3
<1> HIDE DEF a, b, p
<1> QED BY ZenonT(40), <1>3, <1>4, <1>5, <1>6, <1>7 DEF GradesMeanWhatTheySay, e, o

-----------------------------------------------------------------------------
(* Part 3: what is shown.  An event and its row.                           *)

LEMMA AnswersNothing ==
  ASSUME NEW i, NEW id
  PROVE  D!Answer(<<>>, i, id) = <<>>
<1> DEFINE c == [<<>> EXCEPT ![i].result = id]
<1>1. c = <<>>
  OBVIOUS
<1> QED BY <1>1 DEF D!Answer

(* What a turn of one event tells at most.                                 *)
Tells(t, calls, speaks, fails) ==
  /\ t.calls = <<>> \/ calls
  /\ t.spoke = FALSE \/ speaks
  /\ t.bad # "true" \/ fails

LEMMA ClaudeTells ==
  ASSUME NEW e
  PROVE  Tells(D!ClaudeEvent(D!Fresh, e),
               e.type = "tool_use" \/ (e.type = "assistant" /\ e.part = "tool_use"),
               e.type = "assistant" /\ e.part = "text", e.type = "result" /\ e.bad = "true")
BY AnswersNothing DEF Tells, D!ClaudeEvent, D!Fresh, D!Counted, D!Speak, D!Called

LEMMA CopilotTells ==
  ASSUME NEW e
  PROVE  Tells(D!CopilotEvent(D!Fresh, e),
               \/ e.type \in {"tool.execution_start", "tool_use", "function_call"}
               \/ e.type = "assistant" /\ e.part = "tool_use"
               \/ e.type = "assistant.message" /\ e.part = "toolRequests",
               e.type \in {"assistant", "assistant.message"} /\ e.part = "text",
               e.type = "result")
BY DEF Tells, D!CopilotEvent, D!Fresh, D!Counted, D!Speak, D!CopilotCall

LEMMA CursorTells ==
  ASSUME NEW e
  PROVE  Tells(D!CursorEvent(D!Fresh, e),
               \/ e.type = "tool_use"
               \/ e.type = "assistant" /\ e.part = "tool_use"
               \/ e.type = "tool_call" /\ e.part # "completed",
               e.type \in {"assistant", "result"} /\ e.part = "text",
               e.type = "result" /\ e.bad = "true")
BY AnswersNothing DEF Tells, D!CursorEvent, D!Fresh, D!Speak, D!Called, D!CursorToolCall

LEMMA GooseTells ==
  ASSUME NEW e
  PROVE  Tells(D!GooseEvent(D!Fresh, e), e.type = "message" /\ e.part = "toolRequest",
               e.type = "message" /\ e.part = "text", e.type = "error")
BY AnswersNothing DEF Tells, D!GooseEvent, D!Fresh, D!Counted, D!Speak, D!Called

LEMMA OpenCodeTells ==
  ASSUME NEW e
  PROVE  Tells(D!OpenCodeEvent(D!Fresh, e), e.type = "tool_use", e.type = "text", e.type = "error")
BY DEF Tells, D!OpenCodeEvent, D!Fresh, D!Counted, D!Speak, D!Called

LEMMA GeminiTells ==
  ASSUME NEW e
  PROVE  Tells(D!GeminiEvent(D!Fresh, e),
               e.type = "tool_call" \/ (e.type = "message" /\ e.part = "functionCall"),
               e.type = "message" /\ e.part = "text", e.type = "result" /\ e.bad = "true")
BY DEF Tells, D!GeminiEvent, D!Fresh, D!Speak, D!Called

(* And how a reader sees an event that a turn counts, if it is of these    *)
(* types and shapes: as a call, as text, as a failure.                     *)
Sees(row, calls, speaks, fails) ==
  /\ calls => row = "tool"
  /\ speaks => row = "text"
  /\ fails => row = "fail"

LEMMA ClaudeSees ==
  ASSUME NEW e, NEW shape \in {"none", "assistant"}
  PROVE  Sees(D!Shown("claude", e, shape, FALSE),
               e.type = "tool_use" \/ (e.type = "assistant" /\ e.part = "tool_use"),
               e.type = "assistant" /\ e.part = "text", e.type = "result" /\ e.bad = "true")
BY DEF Sees, D!Shown, D!AdapterShown, D!GenericShown, D!ContentBlock, D!ResultRow

LEMMA CopilotSees ==
  ASSUME NEW e, NEW shape \in {"none", "assistant"}
  PROVE  Sees(D!Shown("copilot", e, shape, FALSE),
               \/ e.type \in {"tool.execution_start", "tool_use", "function_call"}
               \/ e.type = "assistant" /\ e.part = "tool_use",
               e.type \in {"assistant", "assistant.message"} /\ e.part = "text",
               FALSE)
BY DEF Sees, D!Shown, D!AdapterShown, D!CopilotShown, D!GenericShown, D!ContentBlock

LEMMA CursorSees ==
  ASSUME NEW e, NEW shape \in {"none", "assistant", "named", "error", "ok"}
  PROVE  Sees(D!Shown("cursor", e, shape, FALSE),
               \/ e.type = "tool_use"
               \/ e.type = "assistant" /\ e.part = "tool_use"
               \/ e.type = "tool_call" /\ e.part # "completed",
               e.type = "assistant" /\ e.part = "text",
               e.type = "result" /\ e.bad = "true")
BY DEF Sees, D!Shown, D!AdapterShown, D!CursorShown, D!GenericShown, D!ContentBlock, D!ResultRow

LEMMA GooseSees ==
  ASSUME NEW e
  PROVE  Sees(D!Shown("goose", e, "assistant", FALSE), e.type = "message" /\ e.part = "toolRequest",
               e.type = "message" /\ e.part = "text", FALSE)
BY DEF Sees, D!Shown, D!AdapterShown, D!GooseShown

LEMMA GooseFails ==
  ASSUME NEW e, NEW shape
  PROVE  Sees(D!Shown("goose", e, shape, FALSE), FALSE, FALSE, e.type = "error")
BY DEF Sees, D!Shown, D!AdapterShown, D!GooseShown

LEMMA OpenCodeSees ==
  ASSUME NEW e, NEW shape
  PROVE  Sees(D!Shown("opencode", e, shape, FALSE), e.type = "tool_use", e.type = "text", e.type = "error")
BY DEF Sees, D!Shown, D!AdapterShown, D!OpenCodeShown

LEMMA GeminiSees ==
  ASSUME NEW e, NEW shape \in {"none", "assistant", "model"}
  PROVE  Sees(D!Shown("gemini", e, shape, FALSE),
               e.type = "tool_call" \/ (e.type = "message" /\ e.part = "functionCall"),
               e.type = "message" /\ e.part = "text", e.type = "result" /\ e.bad = "true")
BY DEF Sees, D!Shown, D!AdapterShown, D!GenericShown, D!ContentBlock, D!GeminiMessage, D!ResultRow

LEMMA CodexTells ==
  ASSUME NEW e
  PROVE  Tells(D!CodexEvent(D!Fresh, e), e.type = "item.completed", e.type = "item.completed", e.type = "turn.failed")
BY DEF Tells, D!CodexEvent, D!Fresh, D!Counted, D!Speak, D!Called

LEMMA CodexSees ==
  ASSUME NEW e, NEW shape
  PROVE  e.type = "item.completed" \/ e.type = "turn.failed" => D!Shown("codex", e, shape, FALSE) = "none"
BY DEF D!Shown, D!AdapterShown, D!GenericShown

(* What copilot's readers see of an announced call and of a failure.       *)
LEMMA CopilotUnseen ==
  ASSUME NEW e, NEW shape \in {"none", "assistant"}
  PROVE  /\ e.type = "assistant.message" /\ e.part = "toolRequests" => D!Shown("copilot", e, shape, FALSE) = "none"
         /\ e.type = "result" => D!Shown("copilot", e, shape, FALSE) = D!ResultRow(e)
BY DEF D!Shown, D!AdapterShown, D!CopilotShown, D!GenericShown

LEMMA CursorResult ==
  ASSUME NEW e, NEW shape
  PROVE  e.type = "result" => D!Shown("cursor", e, shape, FALSE) = D!ResultRow(e)
BY DEF D!Shown, D!AdapterShown, D!CursorShown, D!GenericShown

LEMMA EventIs ==
  ASSUME NEW t, NEW e
  PROVE  /\ D!Event("codex", t, e) = D!CodexEvent(t, e)
         /\ D!Event("claude", t, e) = D!ClaudeEvent(t, e) /\ D!Event("copilot", t, e) = D!CopilotEvent(t, e)
         /\ D!Event("cursor", t, e) = D!CursorEvent(t, e) /\ D!Event("gemini", t, e) = D!GeminiEvent(t, e)
         /\ D!Event("goose", t, e) = D!GooseEvent(t, e) /\ D!Event("opencode", t, e) = D!OpenCodeEvent(t, e)
BY DEF D!Event

LEMMA ShapesAre ==
  ASSUME NEW type
  PROVE  /\ SomeShapes("claude", type) \subseteq {"none", "assistant"} /\ SomeShapes("copilot", type) \subseteq {"none", "assistant"}
         /\ SomeShapes("cursor", type) \subseteq {"none", "assistant", "named", "error", "ok"}
         /\ SomeShapes("gemini", type) \subseteq {"none", "assistant", "model"}
         /\ type = "message" => SomeShapes("goose", type) = {"assistant"}
BY DEF SomeShapes

(* The answer of AskShown to any question about the adapters' events.      *)
ShownAnswered(q, r) ==
  /\ q.adapter \in DOMAIN SomeTypes
  /\ q.shape \in SomeShapes(q.adapter, q.event.type)
  /\ r = [row |-> D!Shown(q.adapter, q.event, q.shape, FALSE), turn |-> D!Event(q.adapter, D!Fresh, q.event)]

(* What EventShown says of one event, if it is not Unseen.                 *)
SeenAs(a, e, turn, row) ==
  /\ turn.calls # <<>> => row = "tool"
  /\ turn.spoke => row = IF a = "cursor" /\ e.type = "result" THEN D!ResultRow(e) ELSE "text"
  /\ turn.bad = "true" => row = IF e.bad = "true" \/ e.type = "error" THEN "fail" ELSE "done"

(* Whatever an event of any of the seven adapters holds: a call, a reply   *)
(* and a failure that the turn counts are shown to who watches, of codex   *)
(* never, and of copilot neither a call before it starts nor, as one, a    *)
(* failure that only a label tells (parse_line, fetch_results).            *)
THEOREM AnyEventIsShown ==
  ASSUME asked.family = "shown" => ShownAnswered(asked, answer)
  PROVE  EventShown
<1> SUFFICES ASSUME asked.family = "shown" PROVE EventShown
  BY DEF EventShown
<1> DEFINE a == asked.adapter
           e == asked.event
           shape == asked.shape
           row == answer.row
           turn == answer.turn
<1>1. row = D!Shown(a, e, shape, FALSE) /\ turn = D!Event(a, D!Fresh, e)
  <2>1. answer = [row |-> D!Shown(a, e, shape, FALSE), turn |-> D!Event(a, D!Fresh, e)]
    BY DEF ShownAnswered
  <2> HIDE DEF a, e, shape
  <2> QED BY <2>1
<1>2. a \in {"claude", "codex", "copilot", "cursor", "gemini", "goose", "opencode"}
  BY DEF ShownAnswered, SomeTypes
<1>3. shape \in SomeShapes(a, e.type)
  BY DEF ShownAnswered
<1>4. /\ ~Unseen(a, e) /\ SeenAs(a, e, turn, row) => EventShown
      /\ Unseen(a, e) /\ row = "none" => EventShown
      /\ turn.calls = <<>> /\ turn.spoke = FALSE /\ turn.bad # "true" => EventShown
  BY DEF EventShown, SeenAs
<1> HIDE DEF a, e, shape, row, turn
<1>5. \A x : a = x => turn = D!Event(x, D!Fresh, e) /\ row = D!Shown(x, e, shape, FALSE) /\ shape \in SomeShapes(x, e.type)
  BY <1>1, <1>3
<1>6. CASE a = "claude"
  <2>1. turn = D!ClaudeEvent(D!Fresh, e) /\ row = D!Shown("claude", e, shape, FALSE) /\ (shape \in {"none", "assistant"})
    BY <1>5, <1>6, EventIs, ShapesAre
  <2>2. SeenAs(a, e, turn, row)
    BY <1>6, <2>1, ClaudeTells, ClaudeSees DEF Tells, Sees, SeenAs
  <2> QED BY <1>4, <1>6, <2>2 DEF Unseen
<1>7. CASE a = "cursor"
  <2>1. turn = D!CursorEvent(D!Fresh, e) /\ row = D!Shown("cursor", e, shape, FALSE) /\ (shape \in {"none", "assistant", "named", "error", "ok"})
    BY <1>5, <1>7, EventIs, ShapesAre
  <2>2. SeenAs(a, e, turn, row)
    BY <1>7, <2>1, CursorTells, CursorSees, CursorResult DEF Tells, Sees, SeenAs
  <2> QED BY <1>4, <1>7, <2>2 DEF Unseen
<1>8. CASE a = "gemini"
  <2>1. turn = D!GeminiEvent(D!Fresh, e) /\ row = D!Shown("gemini", e, shape, FALSE) /\ (shape \in {"none", "assistant", "model"})
    BY <1>5, <1>8, EventIs, ShapesAre
  <2>2. SeenAs(a, e, turn, row)
    BY <1>8, <2>1, GeminiTells, GeminiSees DEF Tells, Sees, SeenAs
  <2> QED BY <1>4, <1>8, <2>2 DEF Unseen
<1>9. CASE a = "goose"
  <2>1. turn = D!GooseEvent(D!Fresh, e) /\ row = D!Shown("goose", e, shape, FALSE) /\ (e.type = "message" => shape = "assistant")
    BY <1>5, <1>9, EventIs, ShapesAre
  <2>2. SeenAs(a, e, turn, row)
    BY <1>9, <2>1, GooseTells, GooseSees, GooseFails DEF Tells, Sees, SeenAs
  <2> QED BY <1>4, <1>9, <2>2 DEF Unseen
<1>10. CASE a = "opencode"
  <2>1. turn = D!OpenCodeEvent(D!Fresh, e) /\ row = D!Shown("opencode", e, shape, FALSE)
    BY <1>5, <1>10, EventIs
  <2>2. SeenAs(a, e, turn, row)
    BY <1>10, <2>1, OpenCodeTells, OpenCodeSees DEF Tells, Sees, SeenAs
  <2> QED BY <1>4, <1>10, <2>2 DEF Unseen
<1>11. CASE a = "codex"
  <2>1. turn = D!CodexEvent(D!Fresh, e) /\ row = D!Shown("codex", e, shape, FALSE)
    BY <1>5, <1>11, EventIs
  <2>2. CASE e.type \in {"item.completed", "turn.failed"}
    <3>1. row = "none"
      BY <2>1, <2>2, CodexSees
    <3>2. Unseen(a, e)
      BY <1>11 DEF Unseen
    <3> QED BY <1>4, <3>1, <3>2
  <2>3. CASE e.type \notin {"item.completed", "turn.failed"}
    <3>1. Tells(turn, e.type = "item.completed", e.type = "item.completed", e.type = "turn.failed")
      BY <2>1, CodexTells
    <3>2. turn.calls = <<>> /\ turn.spoke = FALSE /\ turn.bad # "true"
      BY <2>3, <3>1 DEF Tells
    <3> QED BY <1>4, <3>2
  <2> QED BY <2>2, <2>3
<1>12. CASE a = "copilot"
  <2>1. turn = D!CopilotEvent(D!Fresh, e) /\ row = D!Shown("copilot", e, shape, FALSE) /\ shape \in {"none", "assistant"}
    BY <1>5, <1>12, EventIs, ShapesAre
  <2>2. CASE Unseen(a, e)
    <3>1. e.type = "assistant.message" /\ e.part = "toolRequests"
      BY <1>12, <2>2 DEF Unseen
    <3> QED BY <1>4, <2>1, <2>2, <3>1, CopilotUnseen
  <2>3. CASE ~Unseen(a, e)
    <3>1. ~(e.type = "assistant.message" /\ e.part = "toolRequests")
      BY <1>12, <2>3 DEF Unseen
    <3>2. turn.calls # <<>> => row = "tool"
      BY <2>1, <3>1, CopilotTells, CopilotSees DEF Tells, Sees
    <3>3. turn.spoke => row = "text"
      BY <2>1, CopilotTells, CopilotSees DEF Tells, Sees
    <3>4. turn.bad = "true" => e.type = "result" /\ row = IF e.bad = "true" THEN "fail" ELSE "done"
      BY <2>1, CopilotTells, CopilotUnseen DEF Tells, D!ResultRow
    <3>5. SeenAs(a, e, turn, row)
      BY <1>12, <3>2, <3>3, <3>4 DEF SeenAs
    <3> QED BY <1>4, <2>3, <3>5
  <2> QED BY <2>2, <2>3
<1> QED BY <1>2, <1>6, <1>7, <1>8, <1>9, <1>10, <1>11, <1>12

-----------------------------------------------------------------------------
(* The panels.                                                             *)

LEMMA PickedIs ==
  ASSUME NEW S, NEW s \in Seq(S), NEW A, NEW W, \A i \in 1..Len(s) : i \in W <=> s[i] \in A
  PROVE  D!Picked(s, W) = Kept(s, A)
<1>1. \A t, X : D!Kept(t, X) = Kept(t, X)
  BY DEF D!Kept, Kept
<1> HIDE DEF Kept
<1>2. LET at == Kept([i \in DOMAIN s |-> i], W) IN [k \in DOMAIN at |-> s[at[k]]] = Kept(s, A)
  BY KeptPlaces
<1>3. D!Picked(s, W) = [k \in DOMAIN Kept([i \in DOMAIN s |-> i], W) |-> s[Kept([i \in DOMAIN s |-> i], W)[k]]]
  BY <1>1 DEF D!Picked
<1> QED BY <1>2, <1>3

LEMMA TailIs ==
  ASSUME NEW S, NEW s \in Seq(S), NEW most \in Nat, NEW t, t = D!LastOf(s, most)
  PROVE  IsSuffix(t, s) /\ Len(t) = (IF Len(s) > most THEN most ELSE Len(s))
<1> DEFINE n == Len(s)
<1>1. n \in Nat /\ s \in [1..n -> S]
  OBVIOUS
<1>2. CASE n > most
  <2>1. t = SubSeq(s, n - most + 1, n)
    BY <1>2 DEF D!LastOf
  <2> DEFINE m == n - most
  <2>2. m \in Nat /\ m + 1 \in 1..(n + 1)
    BY <1>1, <1>2
  <2>3. t \in Seq(S) /\ Len(t) = most /\ \A i \in 1..most : t[i] = s[m + i]
    BY <1>1, <1>2, <2>1, <2>2
  <2>4. Reverse(t) = [i \in 1..most |-> s[m + (most - i) + 1]]
    BY <2>2, <2>3 DEF Reverse
  <2> HIDE DEF m
  <2>5. m + most = n
    BY <1>1 DEF m
  <2>6. Reverse(s) \in Seq(S) /\ Len(Reverse(s)) = n /\ \A i \in 1..n : Reverse(s)[i] = s[(n - i) + 1]
    BY <1>1 DEF Reverse
  <2>7. Reverse(t) \in Seq(S) /\ Len(Reverse(t)) = most /\ \A i \in 1..most : Reverse(t)[i] = s[(n - i) + 1]
    <3>1. \A i \in 1..most : m + (most - i) + 1 = (n - i) + 1 /\ (n - i) + 1 \in 1..n
      BY <1>1, <1>2, <2>2, <2>5
    <3>2. Reverse(t) = [i \in 1..most |-> s[(n - i) + 1]] /\ \A i \in 1..most : s[(n - i) + 1] \in S
      BY <1>1, <2>4, <3>1
    <3> QED BY <3>2
  <2>8. SubSeq(Reverse(t), 1, most) = SubSeq(Reverse(s), 1, most)
    BY <1>1, <1>2, <2>6, <2>7
  <2> QED BY <1>2, <2>3, <2>6, <2>7, <2>8 DEF IsSuffix, IsPrefix
<1>3. CASE ~(n > most)
  <2>1. t = s
    BY <1>3 DEF D!LastOf
  <2> QED BY <1>3, <2>1 DEF IsSuffix, IsPrefix
<1> QED BY <1>2, <1>3

LEMMA MostIs ==
  ASSUME NEW lines \in Nat, NEW scenarios \in Nat \ {0}
  PROVE  D!MaxPer(lines, scenarios) \in Nat /\ D!MaxPer(lines, scenarios) >= 3
BY DEF D!MaxPer

LEMMA LeastOfTwo ==
  ASSUME NEW a \in Nat, NEW b \in Nat
  PROVE  Min({a, b}) = IF b > a THEN a ELSE b
<1> DEFINE m == IF b > a THEN a ELSE b
<1>1. m \in {a, b} /\ \A y \in {a, b} : m <= y
  OBVIOUS
<1>2. \A x \in {a, b} : (\A y \in {a, b} : x <= y) => x = m
  OBVIOUS
<1> QED BY <1>1, <1>2 DEF Min
(* The answer of AskPanel to any question.                                 *)
PanelAnswered(q, r, kinds, lines, scenarios) ==
  LET events == [i \in DOMAIN kinds |-> <<i, kinds[i]>>]
      most == D!MaxPer(lines, scenarios)
  IN  /\ kinds \in Seq({"user", "other"}) /\ lines \in Nat /\ scenarios \in Nat \ {0}
      /\ q.events = events /\ q.most = most
      /\ r = [run |-> D!StreamPanel(events, {i \in DOMAIN kinds : kinds[i] = "user"}, most),
              score |-> D!ScorerPanel(events, most)]

(* Whatever happens in the scenarios of a run, whatever the size of the    *)
(* console: every message of the user is on the panel, of the other events *)
(* the last ones, and the rest is counted (_build_stream_panel).           *)
THEOREM AnyPanelIsComplete ==
  ASSUME NEW kinds, NEW lines, NEW scenarios,
         asked.family = "panel" => PanelAnswered(asked, answer, kinds, lines, scenarios)
  PROVE  PanelComplete
<1> SUFFICES ASSUME asked.family = "panel" PROVE PanelComplete
  BY DEF PanelComplete
<1> DEFINE events == [i \in DOMAIN kinds |-> <<i, kinds[i]>>]
           most == D!MaxPer(lines, scenarios)
           n == Len(kinds)
           S == Nat \X {"user", "other"}
           A(k) == {e \in ToSet(asked.events) : e[2] = k}
           pins == {i \in DOMAIN kinds : kinds[i] = "user"}
           U == Kept(events, A("user"))
           O == Kept(events, A("other"))
           run == answer.run
           score == answer.score
<1>1. /\ kinds \in Seq({"user", "other"}) /\ lines \in Nat /\ scenarios \in Nat \ {0}
      /\ asked.events = events /\ asked.most = most
      /\ run = D!StreamPanel(events, pins, most) /\ score = D!StreamPanel(events, {}, most)
  BY DEF PanelAnswered, D!ScorerPanel
<1>2. most \in Nat /\ most >= 3
  BY <1>1, MostIs
<1>3. n \in Nat /\ DOMAIN kinds = 1..n /\ \A i \in 1..n : kinds[i] \in {"user", "other"}
  BY <1>1
<1>4. events \in Seq(S) /\ Len(events) = n /\ DOMAIN events = 1..n /\ \A i \in 1..n : events[i] = <<i, kinds[i]>>
  BY <1>3
<1>5. \A k : \A i \in 1..n : events[i] \in A(k) <=> kinds[i] = k
  <2> TAKE k
  <2> TAKE i \in 1..n
  <2>1. events[i][2] = kinds[i] /\ events[i] \in ToSet(events)
    BY <1>4 DEF ToSet
  <2> HIDE DEF events
  <2> QED BY <1>1, <2>1
<1> HIDE DEF events, most, n, S
<1>6. \A i \in 1..n : (i \in pins <=> events[i] \in A("user")) /\ (i \in DOMAIN events \ pins <=> events[i] \in A("other"))
  BY <1>3, <1>4, <1>5
<1>7. \A i \in 1..n : (events[i] \in A("user") <=> events[i] \notin A("other")) /\ (i \in {} <=> events[i] \in {})
                       /\ (i \in DOMAIN events \ {} <=> events[i] \in S) /\ events[i] \in S
  <2> TAKE i \in 1..n
  <2>1. kinds[i] = "user" <=> kinds[i] # "other"
    BY <1>3
  <2>2. events[i] \in A("user") <=> events[i] \notin A("other")
    BY <1>5, <2>1
  <2>3. events[i] \in S /\ i \in DOMAIN events
    BY <1>4
  <2> QED BY <2>2, <2>3
<1> HIDE DEF A, pins
<1>8. D!Picked(events, pins) = U /\ D!Picked(events, DOMAIN events \ pins) = O /\ Len(U) + Len(O) = n
  BY <1>4, <1>6, <1>7, PickedIs, KeptSplits
<1>9. D!Picked(events, {}) = <<>> /\ D!Picked(events, DOMAIN events \ {}) = events
  <2>1. D!Picked(events, {}) = Kept(events, {})
    BY <1>4, <1>7, PickedIs
  <2>2. D!Picked(events, DOMAIN events \ {}) = Kept(events, S)
    BY <1>4, <1>7, PickedIs
  <2>3. Kept(events, {}) = <<>> /\ Kept(events, S) = events
    BY <1>4, <1>7, KeptWhole
  <2> QED BY <2>1, <2>2, <2>3
<1>10. U \in Seq(S) /\ O \in Seq(S) /\ Len(U) \in Nat /\ Len(O) \in Nat
  BY <1>4, KeptElements
<1>11. run = [pinned |-> U, tail |-> D!LastOf(O, most), earlier |-> Len(O) - Len(D!LastOf(O, most))]
  BY <1>1, <1>8 DEF D!StreamPanel
<1>12. score = [pinned |-> <<>>, tail |-> D!LastOf(events, most), earlier |-> Len(events) - Len(D!LastOf(events, most))]
  BY <1>1, <1>9 DEF D!StreamPanel
<1>13. /\ IsSuffix(D!LastOf(O, most), O) /\ IsSuffix(D!LastOf(events, most), events)
       /\ Len(D!LastOf(O, most)) = (IF Len(O) > most THEN most ELSE Len(O))
       /\ Len(D!LastOf(events, most)) = (IF n > most THEN most ELSE n)
  BY <1>2, <1>4, <1>10, TailIs
<1>14. Min({Len(O), most}) = Len(D!LastOf(O, most))
  <2>1. Min({Len(O), most}) = IF most > Len(O) THEN Len(O) ELSE most
    BY <1>2, <1>10, LeastOfTwo
  <2> DEFINE k == Len(O)
             j == Len(D!LastOf(O, most))
             l == Min({Len(O), most})
  <2>2. j = (IF k > most THEN most ELSE k) /\ l = (IF most > k THEN k ELSE most) /\ k \in Nat /\ most \in Nat
    BY <1>2, <1>10, <1>13, <2>1
  <2> HIDE DEF j, k, l
  <2>3. l = j
    BY <2>2
  <2> QED BY <2>3 DEF j, l
<1> DEFINE x == D!LastOf(O, most)
           y == D!LastOf(events, most)
<1> HIDE DEF U, O, run, score, x, y
<1>15. /\ run.pinned = U /\ run.tail = x /\ run.earlier = Len(O) - Len(x)
       /\ score.pinned = <<>> /\ score.tail = y /\ score.earlier = n - Len(y)
  BY <1>4, <1>11, <1>12 DEF x, y
<1>16. /\ IsSuffix(x, O) /\ IsSuffix(y, events) /\ Len(x) = Min({Len(O), most})
       /\ Len(x) \in Nat /\ Len(y) \in Nat /\ (Len(x) < 3 => Len(x) = Len(O))
  BY <1>2, <1>3, <1>10, <1>13, <1>14 DEF x, y
<1>17. /\ run.pinned = U /\ score.pinned = <<>>
       /\ IsSuffix(run.tail, O) /\ IsSuffix(score.tail, events)
       /\ Len(run.tail) = Min({Len(O), most})
       /\ Len(run.pinned) + Len(run.tail) + run.earlier = n
       /\ Len(score.tail) + score.earlier = n
       /\ Len(run.tail) < 3 => run.earlier = 0
  BY <1>3, <1>8, <1>10, <1>15, <1>16
<1>18. U = Kept(asked.events, A("user")) /\ O = Kept(asked.events, A("other")) /\ Len(asked.events) = n
  BY <1>1, <1>4 DEF U, O
<1> QED BY <1>1, <1>17, <1>18 DEF PanelComplete, A, run, score

-----------------------------------------------------------------------------
(* The counters and the headline.                                          *)

LEMMA SameCount == \A S : D!Cardinality(S) = Cardinality(S)
BY DEF D!Cardinality, Cardinality

(* What the counters show after i of these scenarios.                      *)
Shows(groups, done, i) ==
  [completed |-> i, groupCompleted |-> [g \in groups |-> Cardinality({j \in 1..i : done[j] = g})]]

LEMMA ShowsOneMore ==
  ASSUME NEW groups, NEW done, NEW i \in Nat
  PROVE  /\ Shows(groups, done, 0) = D!Announced(groups)
         /\ Shows(groups, done, i + 1) = D!ScenarioDone(Shows(groups, done, i), done[i + 1])
<1> DEFINE At(k, g) == {j \in 1..k : done[j] = g}
<1>1. \A g : At(0, g) = {}
  OBVIOUS
<1>2. Shows(groups, done, 0) = D!Announced(groups)
  BY <1>1, FS_EmptySet DEF Shows, D!Announced
<1>3. ASSUME NEW g PROVE Cardinality(At(i + 1, g)) = Cardinality(At(i, g)) + IF g = done[i + 1] THEN 1 ELSE 0
  <2>1. IsFiniteSet(At(i, g)) /\ Cardinality(At(i, g)) \in Nat /\ i + 1 \notin At(i, g)
    <3>1. IsFiniteSet(1..i)
      BY FS_Interval
    <3> QED BY <3>1, FS_Subset, FS_CardinalityType
  <2>2. At(i + 1, g) = IF g = done[i + 1] THEN At(i, g) \union {i + 1} ELSE At(i, g)
    OBVIOUS
  <2> HIDE DEF At
  <2>3. Cardinality(At(i, g) \union {i + 1}) = Cardinality(At(i, g)) + 1
    BY <2>1, FS_AddElement
  <2> QED BY <2>1, <2>2, <2>3
<1>4. Shows(groups, done, i) = [completed |-> i, groupCompleted |-> [g \in groups |-> Cardinality(At(i, g))]]
      /\ Shows(groups, done, i + 1) = [completed |-> i + 1, groupCompleted |-> [g \in groups |-> Cardinality(At(i + 1, g))]]
  BY DEF Shows
<1> HIDE DEF At
<1>5. D!ScenarioDone(Shows(groups, done, i), done[i + 1]) =
        [completed |-> i + 1,
         groupCompleted |-> [g \in groups |-> Cardinality(At(i, g)) + IF g = done[i + 1] THEN 1 ELSE 0]]
  BY <1>4 DEF D!ScenarioDone
<1> QED BY <1>2, <1>3, <1>4, <1>5

LEMMA ProgressIs ==
  ASSUME NEW groups, NEW S, NEW done \in Seq(S)
  PROVE  D!Progress(groups, done) = Shows(groups, done, Len(done))
<1> DEFINE n == Len(done)
           G(c) == [i \in 0..Len(done) |->
                      IF i = 0 THEN D!Announced(groups) ELSE D!ScenarioDone(c[i - 1], done[i])]
           f == [i \in 0..n |-> Shows(groups, done, i)]
           K == CHOOSE c : c = G(c)
<1>1. n \in Nat
  OBVIOUS
<1>2. \A i \in 0..n : i # 0 => i - 1 \in 0..n /\ i - 1 \in Nat /\ (i - 1) + 1 = i
  BY <1>1
<1>3. \A i \in 0..n : f[i] = IF i = 0 THEN D!Announced(groups) ELSE D!ScenarioDone(f[i - 1], done[i])
  <2> TAKE i \in 0..n
  <2>1. CASE i = 0
    BY <2>1, ShowsOneMore, <1>1
  <2>2. CASE i # 0
    <3>1. i - 1 \in 0..n /\ i - 1 \in Nat /\ (i - 1) + 1 = i
      BY <1>2, <2>2
    <3>2. Shows(groups, done, (i - 1) + 1) = D!ScenarioDone(Shows(groups, done, i - 1), done[(i - 1) + 1])
      BY <3>1, ShowsOneMore
    <3>3. f[i] = Shows(groups, done, i) /\ f[i - 1] = Shows(groups, done, i - 1)
      BY <3>1
    <3> QED BY <2>2, <3>1, <3>2, <3>3
  <2> QED BY <2>1, <2>2
<1>4. f = G(f)
  <2> HIDE DEF f
  <2>1. \A i \in 0..n : f[i] = G(f)[i]
    BY <1>3
  <2>2. f = [i \in 0..n |-> f[i]]
    BY DEF f
  <2> QED BY <2>1, <2>2
<1>5. D!Progress(groups, done) = K[n]
  BY DEF D!Progress
<1> HIDE DEF G
<1>6. K = G(K)
  BY <1>4
<1> HIDE DEF K
<1>7. \A i \in 0..n : K[i] = IF i = 0 THEN D!Announced(groups) ELSE D!ScenarioDone(K[i - 1], done[i])
  <2>1. \A c : \A i \in 0..n : G(c)[i] = IF i = 0 THEN D!Announced(groups) ELSE D!ScenarioDone(c[i - 1], done[i])
    BY DEF G
  <2> QED BY <1>6, <2>1
<1> DEFINE T == {i \in 0..n : K[i] = Shows(groups, done, i)}
<1> HIDE DEF n, f
<1>8. 0 \in T
  BY <1>1, <1>7, ShowsOneMore
<1>9. ASSUME NEW i \in 1..n, i - 1 \in T PROVE i \in T
  <2>1. i \in 0..n /\ i # 0 /\ i - 1 \in Nat /\ (i - 1) + 1 = i
    BY <1>1
  <2>2. K[i] = D!ScenarioDone(Shows(groups, done, i - 1), done[i])
    BY <1>7, <1>9, <2>1
  <2>3. Shows(groups, done, (i - 1) + 1) = D!ScenarioDone(Shows(groups, done, i - 1), done[(i - 1) + 1])
    BY <2>1, ShowsOneMore
  <2> QED BY <2>1, <2>2, <2>3
<1>10. n \in T
  <2> HIDE DEF T
  <2> QED BY <1>1, <1>8, <1>9, CountUp
<1> QED BY <1>5, <1>10 DEF n

(* The group that a path is looked up in: the nearest above.               *)
Nearest(agent, path, groups, single, agents) ==
  LET above == {g \in groups : IsPrefix(g, path)}
  IN  \/ above = {} /\ agent = single
      \/ \E h \in above : agent = agents[h] /\ \A g \in above : IsPrefix(g, h)

LEMMA NearestIs ==
  ASSUME NEW Names, NEW path \in Seq(Names), NEW groups \in SUBSET Seq(Names), NEW single,
         NEW agents, DOMAIN agents = groups
  PROVE  Nearest(D!AgentForPath(path, agents, single), path, groups, single, agents)
<1> DEFINE above == {g \in groups : IsPrefix(g, path)}
           len == Len(path)
           N == {m \in 0..len : SubSeq(path, 1, m) \in DOMAIN agents}
           k == CHOOSE i \in N : \A j \in N : j <= i
           agent == D!AgentForPath(path, agents, single)
<1>1. len \in Nat /\ path \in [1..len -> Names]
  OBVIOUS
<1>2. agent = IF N = {} THEN single ELSE agents[SubSeq(path, 1, k)]
  BY DEF D!AgentForPath
<1>3. ASSUME NEW m \in 0..len
      PROVE  SubSeq(path, 1, m) \in Seq(Names) /\ Len(SubSeq(path, 1, m)) = m /\ IsPrefix(SubSeq(path, 1, m), path)
  <2>1. SubSeq(path, 1, m) \in Seq(Names) /\ Len(SubSeq(path, 1, m)) = m
        /\ \A i \in 1..m : SubSeq(path, 1, m)[i] = path[i]
    BY <1>1
  <2>2. SubSeq(SubSeq(path, 1, m), 1, m) = SubSeq(path, 1, m)
    BY <2>1
  <2> QED BY <1>1, <2>1, <2>2 DEF IsPrefix
<1>4. ASSUME NEW g \in above PROVE Len(g) \in N /\ g = SubSeq(path, 1, Len(g)) /\ g \in Seq(Names)
  <2>1. g \in Seq(Names) /\ Len(g) \in Nat /\ Len(g) <= len /\ SubSeq(g, 1, Len(g)) = SubSeq(path, 1, Len(g))
    BY DEF IsPrefix
  <2>2. SubSeq(g, 1, Len(g)) = g
    BY <2>1
  <2>3. Len(g) \in 0..len /\ g = SubSeq(path, 1, Len(g)) /\ g \in groups
    BY <1>1, <2>1, <2>2
  <2> QED BY <2>1, <2>3
<1>5. ASSUME NEW m \in N PROVE SubSeq(path, 1, m) \in above
  BY <1>3
<1>6. ASSUME N = {} PROVE above = {} /\ agent = single
  <2>1. above = {}
    BY <1>4, <1>6
  <2> QED BY <1>2, <1>6, <2>1
<1>7. ASSUME N # {} PROVE \E h \in above : agent = agents[h] /\ \A g \in above : IsPrefix(g, h)
  <2>1. k \in N /\ \A j \in N : j <= k
    <3> DEFINE T == {len - j : j \in N}
    <3>1. T \subseteq Nat /\ T # {}
      BY <1>1, <1>7
    <3>2. PICK x \in T : \A y \in T : x <= y
      <4> HIDE DEF T
      <4> QED BY <3>1, LeastElement
    <3>3. PICK i \in N : x = len - i
      BY <3>2
    <3>4. \A j \in N : j <= i
      <4> TAKE j \in N
      <4>1. len - i <= len - j /\ i \in Nat /\ j \in Nat
        <5>1. len - j \in T
          OBVIOUS
        <5> HIDE DEF T
        <5>2. x <= len - j
          BY <3>2, <5>1
        <5> QED BY <3>3, <5>2
      <4> QED BY <1>1, <4>1
    <3> HIDE DEF N
    <3> QED BY <3>4
  <2> DEFINE h == SubSeq(path, 1, k)
  <2> HIDE DEF k
  <2>2. k \in 0..len /\ h \in above /\ agent = agents[h] /\ Len(h) = k /\ h \in Seq(Names)
    BY <1>2, <1>3, <1>5, <1>7, <2>1
  <2>3. ASSUME NEW g \in above PROVE IsPrefix(g, h)
    <3>1. Len(g) \in 0..k /\ g = SubSeq(path, 1, Len(g))
      BY <1>4, <2>1
    <3>2. \A i \in 1..k : h[i] = path[i]
      BY <1>1, <2>2
    <3> DEFINE l == Len(g)
    <3> HIDE DEF l, h
    <3>3. SubSeq(h, 1, l) = SubSeq(path, 1, l)
      BY <1>1, <2>2, <3>1, <3>2 DEF l
    <3>4. SubSeq(g, 1, l) = g
      BY <1>4 DEF l
    <3>5. l <= k /\ Len(g) = l /\ g = SubSeq(path, 1, l)
      BY <3>1 DEF l
    <3> QED BY <2>2, <3>3, <3>4, <3>5 DEF IsPrefix
  <2> QED BY <2>2, <2>3
<1> HIDE DEF above, agent, N
<1>8. (above = {} /\ agent = single) \/ \E h \in above : agent = agents[h] /\ \A g \in above : IsPrefix(g, h)
  BY <1>6, <1>7
<1> QED BY <1>8 DEF Nearest, above, agent

LEMMA EndsAs ==
  ASSUME NEW S, NEW s \in Seq(S)
  PROVE  \A x, y : Append(s, x) = <<y>> => x = y
<1> TAKE x, y
<1>0. s \in Seq(S \union {x})
  OBVIOUS
<1>1. Len(Append(s, x)) = Len(s) + 1 /\ Append(s, x)[Len(s) + 1] = x /\ Len(s) \in Nat
  BY <1>0, AppendProperties
<1>2. Len(<<y>>) = 1 /\ <<y>>[1] = y
  OBVIOUS
<1> QED BY <1>1, <1>2

(* The answer of AskProgress to any question.                              *)
ProgressAnswered(q, r, Names) ==
  /\ q.groups \in SUBSET Seq(Names) /\ q.path \in Seq(Names) /\ q.done \in Seq(Seq(Names))
  /\ r = [counters |-> D!Progress(q.groups, q.done),
          agent |-> D!AgentForPath(q.path, [g \in q.groups |-> Append(g, "agent")], <<"single">>)]

(* Whatever groups are announced, whichever scenarios are done and in what *)
(* order: each is counted, in its own group if that was announced; and a   *)
(* stream is read with the agent of the nearest group above it             *)
(* (scenario_done, _poll_streams).                                         *)
THEOREM AnyProgressIsRight ==
  ASSUME NEW Names,
         asked.family = "progress" => ProgressAnswered(asked, answer, Names)
  PROVE  ProgressRight
<1> SUFFICES ASSUME asked.family = "progress" PROVE ProgressRight
  BY DEF ProgressRight
<1> DEFINE groups == asked.groups
           path == asked.path
           done == asked.done
           agents == [g \in groups |-> Append(g, "agent")]
           above == {g \in groups : IsPrefix(g, path)}
           shown == answer.counters
           agent == answer.agent
<1>1. /\ groups \in SUBSET Seq(Names) /\ path \in Seq(Names) /\ done \in Seq(Seq(Names))
      /\ shown = D!Progress(groups, done) /\ agent = D!AgentForPath(path, agents, <<"single">>)
  BY DEF ProgressAnswered
<1> HIDE DEF groups, path, done, shown, agent
<1>2. shown = Shows(groups, done, Len(done)) /\ DOMAIN done = 1..Len(done)
  BY <1>1, ProgressIs
<1>3. /\ shown.completed = Len(done) /\ DOMAIN shown.groupCompleted = groups
      /\ \A g \in groups : shown.groupCompleted[g] = Cardinality({i \in DOMAIN done : done[i] = g})
  BY <1>2 DEF Shows
<1>4. \/ above = {} /\ agent = <<"single">>
      \/ \E h \in above : agent = agents[h] /\ \A g \in above : IsPrefix(g, h)
  <2>1. DOMAIN agents = groups
    OBVIOUS
  <2> HIDE DEF agents
  <2>2. Nearest(agent, path, groups, <<"single">>, agents)
    BY <1>1, <2>1, NearestIs
  <2> QED BY <2>2 DEF Nearest
<1>5. ASSUME NEW h \in above PROVE Front(agents[h]) = h /\ agents[h] # <<"single">>
  <2>1. h \in Seq(Names) /\ agents[h] = Append(h, "agent") /\ Len(h) \in Nat
    BY <1>1
  <2>2. Append(h, "agent")[Len(h) + 1] = "agent" /\ Len(Append(h, "agent")) = Len(h) + 1
    BY <2>1
  <2>3. Append(h, "agent") # <<"single">>
    <3>1. \A x, y : Append(h, x) = <<y>> => x = y
      BY <2>1, EndsAs
    <3>2. "agent" # "single"
      OBVIOUS
    <3> QED BY <3>1, <3>2, Zenon
  <2>4. Front(Append(h, "agent")) = h
    BY <2>1 DEF Front
  <2> QED BY <2>1, <2>3, <2>4
<1>6. (\A g \in above : IsPrefix(g, Front(agent))) /\ (above = {} <=> agent = <<"single">>)
  <2> HIDE DEF agents, above
  <2> QED BY <1>4, <1>5
<1> QED BY <1>3, <1>6 DEF ProgressRight, groups, path, done, shown, agent

(* The answer of AskSummary to any question.                               *)
SummaryAnswered(q, r, Groups) ==
  /\ q.results \in Seq([error : {"none", "raised", "setup"}, agent : BOOLEAN, group : Groups])
  /\ r = D!RunSummary(q.results)

(* Whatever the results: the headline is good only if nothing failed, and  *)
(* a failure of the infrastructure is counted, and named or its group is   *)
(* (RunnerProgress.summary).                                               *)
THEOREM AnySummaryIsHonest ==
  ASSUME NEW Groups,
         asked.family = "summary" => SummaryAnswered(asked, answer, Groups)
  PROVE  SummaryHonest
<1> SUFFICES ASSUME asked.family = "summary" PROVE SummaryHonest
  BY DEF SummaryHonest
<1> DEFINE results == asked.results
           Raised == D!Erred(results, "raised")
           SetUp == D!Erred(results, "setup")
           bad == {i \in DOMAIN results : results[i].error # "none"}
           agent == {i \in DOMAIN results : results[i].agent}
           skipped == {g.group : g \in answer.groups}
           groups == D!SkippedGroups(results)
<1>1. results \in Seq([error : {"none", "raised", "setup"}, agent : BOOLEAN, group : Groups]) /\ answer = D!RunSummary(results)
  BY DEF SummaryAnswered
<1> HIDE DEF results
<1>2. \A i \in DOMAIN results : results[i].error \in {"none", "raised", "setup"}
  <2> TAKE i \in DOMAIN results
  <2>1. results[i] \in [error : {"none", "raised", "setup"}, agent : BOOLEAN, group : Groups]
    BY <1>1, LenProperties, ElementOfSeq
  <2> QED BY <2>1
<1>3. bad = Raised \union SetUp
  BY <1>2 DEF D!Erred
<1>4. \A i \in SetUp : \E g \in groups : g.group = results[i].group
  <2> TAKE i \in SetUp
  <2> DEFINE n == Cardinality({j \in SetUp : results[j].group = results[i].group})
             g == [group |-> results[i].group, skipped |-> n]
  <2>1. g \in groups
    BY SameCount DEF D!SkippedGroups
  <2> HIDE DEF groups, n
  <2> QED BY <2>1
<1> HIDE DEF Raised, SetUp, groups
<1>5. answer = IF Raised \union SetUp # {} THEN [head |-> "errors", count |-> Cardinality(Raised \union SetUp), listed |-> Raised, groups |-> groups]
               ELSE IF agent # {} THEN [head |-> "agent", count |-> Cardinality(agent), listed |-> agent, groups |-> {}]
               ELSE [head |-> "ok", count |-> 0, listed |-> {}, groups |-> {}]
  BY <1>1, SameCount DEF D!RunSummary, Raised, SetUp, groups
<1> HIDE DEF bad, agent
<1>6. answer.head = "ok" <=> bad \union agent = {}
  BY <1>3, <1>5
<1>7. ASSUME bad # {} PROVE answer.count = Cardinality(bad) /\ \A i \in bad : i \in answer.listed \/ results[i].group \in skipped
  <2>1. answer.count = Cardinality(bad) /\ answer.listed = Raised /\ answer.groups = groups
    BY <1>3, <1>5, <1>7
  <2> QED BY <1>3, <1>4, <2>1
<1> QED BY <1>6, <1>7 DEF SummaryHonest, bad, agent, results

(* All that a reader is shown, whatever is asked of it.                    *)
THEOREM AnyDisplayShowsWhatCounts ==
  ASSUME NEW Names, NEW Groups, NEW kinds, NEW lines, NEW scenarios,
         asked.family = "shown" => ShownAnswered(asked, answer),
         asked.family = "panel" => PanelAnswered(asked, answer, kinds, lines, scenarios),
         asked.family = "progress" => ProgressAnswered(asked, answer, Names),
         asked.family = "summary" => SummaryAnswered(asked, answer, Groups)
  PROVE  DisplayShowsWhatCounts
<1>1. EventShown
  BY AnyEventIsShown
<1>2. PanelComplete
  BY AnyPanelIsComplete
<1>3. ProgressRight
  BY AnyProgressIsRight
<1>4. SummaryHonest
  BY AnySummaryIsHonest
<1> QED BY <1>1, <1>2, <1>3, <1>4 DEF DisplayShowsWhatCounts
=============================================================================
