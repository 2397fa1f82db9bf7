----------------------------- MODULE ListLemmas -----------------------------
(***************************************************************************)
(* Lemmas about Lists, and the induction they rest on.  Induction is over  *)
(* a set of numbers, not over a predicate, which the provers could not     *)
(* instantiate; definition by recursion takes its step as a function.      *)
(***************************************************************************)
EXTENDS Lists, Integers, SequenceTheorems, WellFoundedInduction, TLAPS

LEMMA LeastElement ==
  ASSUME NEW T, T \subseteq Nat, T # {}
  PROVE  \E x \in T : \A y \in T : x <= y
<1>1. PICK x \in T : \A y \in T : <<y, x>> \notin OpToRel(<, Nat)
  BY NatLessThanWellFounded, WFMin
<1>2. ASSUME NEW y \in T, y < x PROVE FALSE
  <2>1. <<y, x>> \in OpToRel(<, Nat)
    BY <1>2, Zenon DEF OpToRel
  <2> QED BY <1>1, <2>1
<1> QED BY <1>2

LEMMA SetInduction ==
  ASSUME NEW T, 0 \in T, \A n \in Nat : n \in T => n + 1 \in T
  PROVE  Nat \subseteq T
<1> SUFFICES ASSUME Nat \ T # {} PROVE FALSE
  OBVIOUS
<1>1. PICK x \in Nat \ T : \A y \in Nat \ T : x <= y
  BY LeastElement
<1>2. x # 0 /\ x - 1 \in Nat
  BY <1>1
<1>3. x - 1 \in T
  BY <1>1, <1>2
<1> QED BY <1>1, <1>2, <1>3

(* Counting up to n.                                                       *)
LEMMA CountUp ==
  ASSUME NEW n \in Nat, NEW T, 0 \in T, \A i \in 1..n : i - 1 \in T => i \in T
  PROVE  n \in T
<1> DEFINE U == {m \in Nat : m <= n => m \in T}
<1>1. 0 \in U
  OBVIOUS
<1>2. ASSUME NEW m \in Nat, m \in U PROVE m + 1 \in U
  <2> SUFFICES ASSUME m + 1 <= n PROVE m + 1 \in T
    OBVIOUS
  <2>1. m + 1 \in 1..n /\ m + 1 - 1 = m /\ m \in T
    BY <1>2
  <2> QED BY <2>1
<1> HIDE DEF U
<1>3. Nat \subseteq U
  BY <1>1, <1>2, SetInduction
<1> QED BY <1>3 DEF U

(* f starts with b and goes on by the steps.                               *)
Iterate(f, b, n, step) == \A i \in 0..n : f[i] = IF i = 0 THEN b ELSE step[i][f[i - 1]]

LEMMA Iterates ==
  ASSUME NEW X, NEW b \in X, NEW n \in Nat, NEW step \in [1..n -> [X -> X]]
  PROVE  \E f \in [0..n -> X] : Iterate(f, b, n, step)
<1> USE DEF Iterate
<1> DEFINE Good(m, f) == \A i \in 0..m : f[i] = IF i = 0 THEN b ELSE step[i][f[i - 1]]
           T == {m \in Nat : m <= n => \E f \in [0..m -> X] : Good(m, f)}
<1>1. 0 \in T
  <2> DEFINE f == [i \in 0..0 |-> b]
  <2>1. f \in [0..0 -> X] /\ Good(0, f)
    <3>1. \A i \in 0..0 : i = 0 /\ f[i] = b
      OBVIOUS
    <3> QED BY <3>1
  <2> QED BY <2>1
<1>2. ASSUME NEW m \in Nat, m \in T PROVE m + 1 \in T
  <2> SUFFICES ASSUME m + 1 <= n PROVE \E f \in [0..(m + 1) -> X] : Good(m + 1, f)
    OBVIOUS
  <2>1. PICK f \in [0..m -> X] : Good(m, f)
    <3>1. m <= n
      OBVIOUS
    <3> QED BY <1>2, <3>1
  <2> DEFINE g == [i \in 0..(m + 1) |-> IF i = m + 1 THEN step[m + 1][f[m]] ELSE f[i]]
  <2>2. g \in [0..(m + 1) -> X]
    <3>1. step[m + 1][f[m]] \in X
      OBVIOUS
    <3> QED BY <3>1
  <2>3. Good(m + 1, g)
    <3> SUFFICES ASSUME NEW i \in 0..(m + 1) PROVE g[i] = IF i = 0 THEN b ELSE step[i][g[i - 1]]
      OBVIOUS
    <3>1. CASE i = m + 1
      BY <3>1
    <3>2. CASE i \in 0..m
      <4>1. g[i] = f[i] /\ (i # 0 => i - 1 \in 0..m /\ g[i - 1] = f[i - 1])
        BY <3>2
      <4> QED BY <4>1, <3>2, <2>1
    <3> QED BY <3>1, <3>2
  <2> QED BY <2>2, <2>3
<1> HIDE DEF T
<1>3. n \in T
  BY <1>1, <1>2, SetInduction
<1> QED BY <1>3 DEF T

-----------------------------------------------------------------------------
(* Kept.                                                                   *)

LEMMA KeptUnfolds ==
  ASSUME NEW S, NEW s \in Seq(S), NEW A
  PROVE  \E f : /\ f[0] = <<>>
                /\ \A i \in 0..(Len(s) - 1) :
                     f[i + 1] = IF s[i + 1] \in A THEN Append(f[i], s[i + 1]) ELSE f[i]
                /\ Kept(s, A) = f[Len(s)]
<1> DEFINE n == Len(s)
           X == Seq(S)
           e == <<>>
           step == [i \in 1..n |-> [v \in X |-> IF s[i] \in A THEN Append(v, s[i]) ELSE v]]
           G(f) == [i \in 0..Len(s) |-> IF i = 0 THEN <<>>
                          ELSE IF s[i] \in A THEN Append(f[i - 1], s[i]) ELSE f[i - 1]]
<1>1. n \in Nat
  OBVIOUS
<1>2. e \in X /\ step \in [1..n -> [X -> X]]
  OBVIOUS
<1>3. PICK f \in [0..n -> X] : Iterate(f, e, n, step)
  <2> HIDE DEF n, step, X, e
  <2> QED BY <1>1, <1>2, Iterates
<1>4. f = G(f)
  <2>1. \A i \in 0..n : f[i] = G(f)[i]
    <3> TAKE i \in 0..n
    <3>1. CASE i = 0 BY <3>1, <1>3 DEF Iterate
    <3>2. CASE i # 0
      <4>1. i \in 1..n /\ i - 1 \in 0..n
        BY <3>2
      <4>2. f[i - 1] \in Seq(S)
        BY <4>1, <1>3
      <4> QED BY <4>1, <4>2, <1>3, <3>2 DEF Iterate
    <3> QED BY <3>1, <3>2
  <2> QED BY <2>1
<1>5. \E g : g = G(g)
  BY <1>4
<1> DEFINE K == CHOOSE g : g = G(g)
<1>6. K = G(K)
  <2> HIDE DEF G
  <2> QED BY <1>5
<1>7. Kept(s, A) = K[Len(s)]
  BY DEF Kept
<1>8. \A g : \A i \in 0..n : G(g)[i] = IF i = 0 THEN <<>>
                          ELSE IF s[i] \in A THEN Append(g[i - 1], s[i]) ELSE g[i - 1]
  OBVIOUS
<1> HIDE DEF K, G, n
<1>9. \A i \in 0..n : K[i] = IF i = 0 THEN <<>>
                          ELSE IF s[i] \in A THEN Append(K[i - 1], s[i]) ELSE K[i - 1]
  BY <1>6, <1>8
<1>10. K[0] = <<>>
  BY <1>1, <1>9
<1>11. ASSUME NEW i \in 0..(n - 1)
       PROVE  K[i + 1] = IF s[i + 1] \in A THEN Append(K[i], s[i + 1]) ELSE K[i]
  <2>1. i + 1 \in 0..n /\ i + 1 # 0 /\ i + 1 - 1 = i
    BY <1>1
  <2> QED BY <2>1, <1>9
<1> QED BY <1>7, <1>10, <1>11 DEF n

(* t lists the elements of s up to m that are in A, found at pos.          *)
Selects(t, s, A, m, pos) ==
  /\ pos \in [1..Len(t) -> 1..m]
  /\ \A k \in 1..Len(t) : t[k] = s[pos[k]] /\ s[pos[k]] \in A
  /\ \A j, k \in 1..Len(t) : j < k => pos[j] < pos[k]
  /\ \A i \in 1..m : s[i] \in A => \E k \in 1..Len(t) : pos[k] = i

LEMMA KeptSelects ==
  ASSUME NEW S, NEW s \in Seq(S), NEW A
  PROVE  /\ Kept(s, A) \in Seq(S)
         /\ Len(Kept(s, A)) <= Len(s)
         /\ \E pos : Selects(Kept(s, A), s, A, Len(s), pos)
<1> DEFINE n == Len(s)
           Good(t, m) == t \in Seq(S) /\ Len(t) <= m /\ \E pos : Selects(t, s, A, m, pos)
<1>1. PICK f : /\ f[0] = <<>>
               /\ \A i \in 0..(n - 1) :
                    f[i + 1] = IF s[i + 1] \in A THEN Append(f[i], s[i + 1]) ELSE f[i]
               /\ Kept(s, A) = f[n]
  BY KeptUnfolds
<1> DEFINE T == {m \in Nat : m <= n => Good(f[m], m)}
<1>2. 0 \in T
  <2>1. f[0] = <<>>
    BY <1>1
  <2>2. Selects(<<>>, s, A, 0, [k \in 1..0 |-> k])
    BY DEF Selects
  <2>3. <<>> \in Seq(S) /\ Len(<<>>) <= 0
    OBVIOUS
  <2>4. Good(f[0], 0)
    BY <2>1, <2>2, <2>3
  <2>5. 0 <= n
    OBVIOUS
  <2> HIDE DEF Good, n
  <2> QED BY <2>4
<1>3. ASSUME NEW m \in Nat, m \in T PROVE m + 1 \in T
  <2> SUFFICES ASSUME m + 1 <= n PROVE Good(f[m + 1], m + 1)
    OBVIOUS
  <2>1. m \in 0..n /\ m + 1 \in 1..n
    OBVIOUS
  <2> DEFINE t == f[m]
             x == s[m + 1]
  <2>2. t \in Seq(S) /\ Len(t) \in Nat /\ Len(t) <= m /\ x \in S
    BY <1>3, <2>1
  <2>3. PICK pos : Selects(t, s, A, m, pos)
    BY <1>3, <2>1
  <2>4. f[m + 1] = IF x \in A THEN Append(t, x) ELSE t
    <3>1. m \in 0..(n - 1)
      OBVIOUS
    <3> HIDE DEF n, T, Good
    <3> QED BY <1>1, <3>1
  <2>5. CASE x \notin A
    <3> HIDE DEF n, t, T
    <3>1. Selects(t, s, A, m + 1, pos)
      BY <2>2, <2>3, <2>5 DEF Selects
    <3> QED BY <3>1, <2>2, <2>4, <2>5
  <2>6. CASE x \in A
    <3> DEFINE l == Len(t)
               u == Append(t, x)
               npos == [k \in 1..(l + 1) |-> IF k = l + 1 THEN m + 1 ELSE pos[k]]
    <3>1. /\ u \in Seq(S) /\ Len(u) = l + 1 /\ u[l + 1] = x
          /\ \A k \in 1..l : u[k] = t[k]
      BY <2>2
    <3> HIDE DEF n, t, T, u
    <3>2. l \in Nat /\ pos \in [1..l -> 1..m]
      BY <2>2, <2>3 DEF Selects
    <3>3. npos \in [1..(l + 1) -> 1..(m + 1)]
      BY <3>2
    <3>4. npos[l + 1] = m + 1 /\ \A k \in 1..l : npos[k] = pos[k] /\ pos[k] \in 1..m
      BY <3>2
    <3> HIDE DEF npos, l
    <3>5. 1..(l + 1) = 1..l \cup {l + 1}
      BY <3>2
    <3>6. Selects(u, s, A, m + 1, npos)
      <4>1. \A k \in 1..(l + 1) : u[k] = s[npos[k]] /\ s[npos[k]] \in A
        BY <3>1, <3>4, <3>5, <2>3, <2>6 DEF Selects, l
      <4>2. ASSUME NEW j \in 1..(l + 1), NEW k \in 1..(l + 1), j < k PROVE npos[j] < npos[k]
        <5>1. j \in 1..l
          BY <4>2, <3>2
        <5>2. CASE k = l + 1
          BY <5>1, <5>2, <3>4
        <5>3. CASE k \in 1..l
          BY <5>1, <5>3, <3>4, <4>2, <2>3 DEF Selects, l
        <5> QED BY <5>2, <5>3, <3>5
      <4>3. ASSUME NEW i \in 1..(m + 1), s[i] \in A PROVE \E k \in 1..(l + 1) : npos[k] = i
        <5>1. CASE i = m + 1 BY <5>1, <3>2, <3>4
        <5>2. CASE i \in 1..m
          <6>1. PICK k \in 1..l : pos[k] = i
            BY <5>2, <4>3, <2>3 DEF Selects, l
          <6> QED BY SMTT(30), <6>1, <3>2, <3>4
        <5> QED BY <5>1, <5>2
      <4> QED BY <4>1, <4>2, <4>3, <3>1, <3>3 DEF Selects
    <3>7. Len(u) <= m + 1
      BY <3>1, <2>2 DEF l
    <3> QED BY <3>1, <3>6, <3>7, <2>4, <2>6 DEF u
  <2> QED BY <2>5, <2>6
<1> HIDE DEF T
<1>4. n \in T
  <2>1. n \in Nat
    OBVIOUS
  <2> QED BY <1>2, <1>3, <2>1, SetInduction
<1> QED BY <1>1, <1>4 DEF T

(* What is kept are the elements that are in A.                            *)
LEMMA KeptElements ==
  ASSUME NEW S, NEW s \in Seq(S), NEW A
  PROVE  /\ Kept(s, A) \in Seq(S) /\ Len(Kept(s, A)) <= Len(s)
         /\ \A k \in 1..Len(Kept(s, A)) : Kept(s, A)[k] \in A /\ \E i \in 1..Len(s) : Kept(s, A)[k] = s[i]
         /\ \A i \in 1..Len(s) : s[i] \in A => \E k \in 1..Len(Kept(s, A)) : Kept(s, A)[k] = s[i]
<1>1. PICK pos : Selects(Kept(s, A), s, A, Len(s), pos)
  BY KeptSelects
<1> QED
  BY SMTT(30), <1>1, KeptSelects DEF Selects

(* What is kept of a list and what is left of it are all of it.            *)
LEMMA KeptSplits ==
  ASSUME NEW S, NEW s \in Seq(S), NEW A, NEW B,
         \A i \in 1..Len(s) : s[i] \in A <=> s[i] \notin B
  PROVE  Len(Kept(s, A)) + Len(Kept(s, B)) = Len(s)
<1> DEFINE n == Len(s)
<1>1. PICK f : /\ f[0] = <<>>
               /\ \A i \in 0..(n - 1) : f[i + 1] = IF s[i + 1] \in A THEN Append(f[i], s[i + 1]) ELSE f[i]
               /\ Kept(s, A) = f[n]
  BY KeptUnfolds
<1>2. PICK g : /\ g[0] = <<>>
               /\ \A i \in 0..(n - 1) : g[i + 1] = IF s[i + 1] \in B THEN Append(g[i], s[i + 1]) ELSE g[i]
               /\ Kept(s, B) = g[n]
  BY KeptUnfolds
<1>3. n \in Nat /\ \A i \in 1..n : s[i] \in S
  OBVIOUS
<1> DEFINE T == {m \in 0..n : f[m] \in Seq(S) /\ g[m] \in Seq(S) /\ Len(f[m]) + Len(g[m]) = m}
<1> HIDE DEF n
<1>4. 0 \in T
  <2>1. f[0] = <<>> /\ g[0] = <<>> /\ <<>> \in Seq(S) /\ Len(<<>>) = 0 /\ 0 \in 0..n
    BY <1>1, <1>2, <1>3
  <2>2. f[0] \in Seq(S) /\ g[0] \in Seq(S) /\ Len(f[0]) + Len(g[0]) = 0
    BY <2>1
  <2> QED BY <2>1, <2>2
<1>5. ASSUME NEW i \in 1..n, i - 1 \in T PROVE i \in T
  <2>1. i - 1 \in 0..(n - 1) /\ (i - 1) + 1 = i /\ s[i] \in S /\ (s[i] \in A <=> s[i] \notin B) /\ i \in 0..n
    BY <1>3 DEF n
  <2>2. f[i - 1] \in Seq(S) /\ g[i - 1] \in Seq(S) /\ Len(f[i - 1]) + Len(g[i - 1]) = i - 1
    BY <1>5
  <2>3. f[i] = IF s[i] \in A THEN Append(f[i - 1], s[i]) ELSE f[i - 1]
    BY <1>1, <2>1
  <2>4. g[i] = IF s[i] \in B THEN Append(g[i - 1], s[i]) ELSE g[i - 1]
    BY <1>2, <2>1
  <2> DEFINE u == f[i - 1]
             v == g[i - 1]
             x == s[i]
  <2> HIDE DEF u, v, x
  <2>5. \A w \in Seq(S) : Append(w, x) \in Seq(S) /\ Len(Append(w, x)) = Len(w) + 1 /\ Len(w) \in Nat
    BY <2>1 DEF x
  <2>6. f[i] \in Seq(S) /\ g[i] \in Seq(S) /\ Len(f[i]) + Len(g[i]) = (i - 1) + 1
    <3>1. u \in Seq(S) /\ v \in Seq(S) /\ Len(u) + Len(v) = i - 1
      BY <2>2 DEF u, v
    <3>2. \/ f[i] = Append(u, x) /\ g[i] = v
          \/ f[i] = u /\ g[i] = Append(v, x)
      BY <2>1, <2>3, <2>4 DEF u, v, x
    <3>3. /\ Append(u, x) \in Seq(S) /\ Len(Append(u, x)) = Len(u) + 1 /\ Len(u) \in Nat
          /\ Append(v, x) \in Seq(S) /\ Len(Append(v, x)) = Len(v) + 1 /\ Len(v) \in Nat
      BY <2>5, <3>1
    <3>4. i \in Nat
      BY <1>3
    <3>5. CASE f[i] = Append(u, x) /\ g[i] = v
      BY <3>1, <3>3, <3>4, <3>5
    <3>6. CASE f[i] = u /\ g[i] = Append(v, x)
      BY <3>1, <3>3, <3>4, <3>6
    <3> QED BY <3>2, <3>5, <3>6
  <2> QED BY <2>1, <2>6
<1>6. n \in T
  <2> HIDE DEF T
  <2> QED BY <1>3, <1>4, <1>5, CountUp
<1> QED BY <1>1, <1>2, <1>6 DEF n

(* All of a list is kept, or none of it.                                   *)
LEMMA KeptWhole ==
  ASSUME NEW S, NEW s \in Seq(S), NEW A
  PROVE  /\ (\A i \in 1..Len(s) : s[i] \in A) => Kept(s, A) = s
         /\ (\A i \in 1..Len(s) : s[i] \notin A) => Kept(s, A) = <<>>
<1> DEFINE n == Len(s)
<1>1. PICK f : /\ f[0] = <<>>
               /\ \A i \in 0..(n - 1) : f[i + 1] = IF s[i + 1] \in A THEN Append(f[i], s[i + 1]) ELSE f[i]
               /\ Kept(s, A) = f[n]
  BY KeptUnfolds
<1>2. n \in Nat /\ \A i \in 1..n : s[i] \in S
  OBVIOUS
<1>3. ASSUME \A i \in 1..Len(s) : s[i] \in A PROVE Kept(s, A) = s
  <2> DEFINE T == {m \in 0..n : f[m] = SubSeq(s, 1, m)}
  <2> HIDE DEF n
  <2>1. 0 \in T
    <3>1. f[0] = <<>> /\ SubSeq(s, 1, 0) = <<>> /\ 0 \in 0..n
      BY <1>1, <1>2
    <3> QED BY <3>1
  <2>2. ASSUME NEW i \in 1..n, i - 1 \in T PROVE i \in T
    <3>1. i - 1 \in 0..(n - 1) /\ (i - 1) + 1 = i /\ s[i] \in A /\ i \in 0..n
      BY <1>2, <1>3 DEF n
    <3>2. f[i] = Append(SubSeq(s, 1, i - 1), s[i])
      BY <1>1, <2>2, <3>1
    <3>3. Append(SubSeq(s, 1, i - 1), s[i]) = SubSeq(s, 1, i)
      BY <1>2, <3>1 DEF n
    <3> QED BY <3>1, <3>2, <3>3
  <2>3. n \in T
    <3> HIDE DEF T
    <3> QED BY <1>2, <2>1, <2>2, CountUp
  <2>4. SubSeq(s, 1, n) = s
    BY DEF n
  <2> QED BY <1>1, <2>3, <2>4
<1>4. ASSUME \A i \in 1..Len(s) : s[i] \notin A PROVE Kept(s, A) = <<>>
  <2>1. \A i \in 1..Len(Kept(s, A)) : FALSE
    BY <1>4, KeptElements
  <2>2. Kept(s, A) \in Seq(S)
    BY KeptElements
  <2> QED BY <2>1, <2>2
<1> QED BY <1>3, <1>4

(* What is kept of a list is what is found at the places that are kept of  *)
(* the list of its places.                                                 *)
LEMMA KeptPlaces ==
  ASSUME NEW S, NEW s \in Seq(S), NEW A, NEW W,
         \A i \in 1..Len(s) : i \in W <=> s[i] \in A
  PROVE  LET at == Kept([i \in DOMAIN s |-> i], W)
         IN  [k \in DOMAIN at |-> s[at[k]]] = Kept(s, A)
<1> DEFINE n == Len(s)
           p == [i \in DOMAIN s |-> i]
           F(t) == [k \in DOMAIN t |-> s[t[k]]]
<1>1. n \in Nat /\ DOMAIN s = 1..n /\ \A i \in 1..n : s[i] \in S
  OBVIOUS
<1>2. p \in Seq(1..n) /\ Len(p) = n /\ \A i \in 1..n : p[i] = i
  BY <1>1
<1>3. PICK f : /\ f[0] = <<>>
               /\ \A i \in 0..(Len(p) - 1) : f[i + 1] = IF p[i + 1] \in W THEN Append(f[i], p[i + 1]) ELSE f[i]
               /\ Kept(p, W) = f[Len(p)]
  BY <1>2, KeptUnfolds
<1>4. PICK g : /\ g[0] = <<>>
               /\ \A i \in 0..(n - 1) : g[i + 1] = IF s[i + 1] \in A THEN Append(g[i], s[i + 1]) ELSE g[i]
               /\ Kept(s, A) = g[n]
  BY KeptUnfolds
<1> DEFINE T == {m \in 0..n : f[m] \in Seq(1..n) /\ F(f[m]) = g[m]}
<1> HIDE DEF n, p
<1>5. 0 \in T
  BY <1>1, <1>3, <1>4
<1>6. ASSUME NEW i \in 1..n, i - 1 \in T PROVE i \in T
  <2>1. i - 1 \in 0..(n - 1) /\ (i - 1) + 1 = i /\ s[i] \in S /\ (i \in W <=> s[i] \in A) /\ i \in 0..n /\ p[i] = i
    BY <1>1, <1>2 DEF n
  <2>2. f[i] = IF i \in W THEN Append(f[i - 1], i) ELSE f[i - 1]
    BY <1>2, <1>3, <2>1
  <2>3. g[i] = IF s[i] \in A THEN Append(g[i - 1], s[i]) ELSE g[i - 1]
    BY <1>4, <2>1
  <2>4. ASSUME NEW t \in Seq(1..n) PROVE F(Append(t, i)) = Append(F(t), s[i])
    <3>1. F(t) \in Seq(S) /\ Len(F(t)) = Len(t) /\ \A k \in 1..Len(t) : F(t)[k] = s[t[k]]
      <4>1. DOMAIN t = 1..Len(t) /\ Len(t) \in Nat /\ \A k \in 1..Len(t) : t[k] \in 1..n
        BY LenProperties, ElementOfSeq
      <4>2. F(t) = [k \in 1..Len(t) |-> s[t[k]]] /\ \A k \in 1..Len(t) : s[t[k]] \in S
        BY <1>1, <4>1
      <4> HIDE DEF F
      <4> QED BY <4>1, <4>2
    <3>2. Append(t, i) \in Seq(1..n) /\ Len(Append(t, i)) = Len(t) + 1
      OBVIOUS
    <3>3. F(Append(t, i)) \in Seq(S) /\ Len(F(Append(t, i))) = Len(t) + 1
          /\ \A k \in 1..(Len(t) + 1) : F(Append(t, i))[k] = s[Append(t, i)[k]]
      BY <1>1, <3>2
    <3>4. \A k \in 1..(Len(t) + 1) : F(Append(t, i))[k] = Append(F(t), s[i])[k]
      BY <3>1, <3>2, <3>3
    <3>5. Append(F(t), s[i]) \in Seq(S) /\ Len(Append(F(t), s[i])) = Len(t) + 1
      BY <2>1, <3>1
    <3> HIDE DEF F
    <3> QED BY <3>3, <3>4, <3>5
  <2>5. f[i - 1] \in Seq(1..n) /\ F(f[i - 1]) = g[i - 1]
    BY <1>6
  <2> HIDE DEF F
  <2>6. \A t \in Seq(1..n) : Append(t, i) \in Seq(1..n)
    OBVIOUS
  <2>7. f[i] \in Seq(1..n) /\ F(f[i]) = g[i]
    BY <2>1, <2>2, <2>3, <2>4, <2>5, <2>6
  <2> QED BY <2>1, <2>7
<1>7. n \in T
  <2> HIDE DEF T
  <2> QED BY <1>1, <1>5, <1>6, CountUp
<1> HIDE DEF F
<1>8. F(Kept(p, W)) = Kept(s, A)
  BY <1>2, <1>3, <1>4, <1>7
<1> QED BY <1>8 DEF F, p

-----------------------------------------------------------------------------
(* SumOf.                                                                  *)

LEMMA SumUnfolds ==
  ASSUME NEW s \in Seq(Nat)
  PROVE  \E f : /\ f[0] = 0
                /\ \A i \in 0..(Len(s) - 1) : f[i + 1] = f[i] + s[i + 1]
                /\ SumOf(s) = f[Len(s)]
<1> DEFINE n == Len(s)
           step == [i \in 1..n |-> [v \in Nat |-> v + s[i]]]
           G(f) == [i \in 0..Len(s) |-> IF i = 0 THEN 0 ELSE f[i - 1] + s[i]]
<1>1. n \in Nat /\ \A i \in 1..n : s[i] \in Nat
  OBVIOUS
<1>2. 0 \in Nat /\ step \in [1..n -> [Nat -> Nat]]
  BY <1>1
<1>3. PICK f \in [0..n -> Nat] : Iterate(f, 0, n, step)
  <2> HIDE DEF n, step
  <2> QED BY <1>1, <1>2, Iterates
<1>4. f = G(f)
  <2>1. ASSUME NEW i \in 0..n PROVE f[i] = G(f)[i]
    <3>1. CASE i = 0 BY <3>1, <1>3 DEF Iterate
    <3>2. CASE i # 0
      <4>1. i \in 1..n /\ i - 1 \in 0..n
        <5> HIDE DEF n
        <5> QED BY <3>2, <1>1
      <4>2. f[i - 1] \in Nat
        BY <4>1, <1>3
      <4> QED BY <4>1, <4>2, <1>3, <3>2 DEF Iterate
    <3> QED BY <3>1, <3>2
  <2> QED BY <2>1
<1> DEFINE K == CHOOSE g : g = G(g)
<1>5. K = G(K)
  <2>1. \E g : g = G(g)
    BY <1>4
  <2> HIDE DEF G
  <2> QED BY <2>1
<1>6. SumOf(s) = K[n]
  BY DEF SumOf
<1>7. \A g : \A i \in 0..n : G(g)[i] = IF i = 0 THEN 0 ELSE g[i - 1] + s[i]
  OBVIOUS
<1> HIDE DEF K, G, n
<1>8. \A i \in 0..n : K[i] = IF i = 0 THEN 0 ELSE K[i - 1] + s[i]
  BY <1>5, <1>7
<1>9. K[0] = 0
  BY <1>1, <1>8
<1>10. ASSUME NEW i \in 0..(n - 1) PROVE K[i + 1] = K[i] + s[i + 1]
  <2>1. i + 1 \in 0..n /\ i + 1 # 0 /\ i + 1 - 1 = i
    BY <1>1
  <2> QED BY <2>1, <1>8
<1> QED BY <1>6, <1>9, <1>10 DEF n

(* A sum is a number, and at least each of its parts.                      *)
LEMMA SumIsNat ==
  ASSUME NEW s \in Seq(Nat)
  PROVE  SumOf(s) \in Nat /\ \A k \in 1..Len(s) : s[k] <= SumOf(s)
<1> DEFINE n == Len(s)
<1>1. PICK f : /\ f[0] = 0
               /\ \A i \in 0..(n - 1) : f[i + 1] = f[i] + s[i + 1]
               /\ SumOf(s) = f[n]
  BY SumUnfolds
<1> DEFINE T == {m \in Nat : m <= n => f[m] \in Nat /\ \A k \in 1..m : s[k] <= f[m]}
<1>2. n \in Nat /\ \A i \in 1..n : s[i] \in Nat
  OBVIOUS
<1> HIDE DEF n
<1>3. 0 \in T
  BY <1>1, <1>2
<1>4. ASSUME NEW m \in Nat, m \in T PROVE m + 1 \in T
  <2> SUFFICES ASSUME m + 1 <= n PROVE f[m + 1] \in Nat /\ \A k \in 1..(m + 1) : s[k] <= f[m + 1]
    OBVIOUS
  <2>1. m \in 0..(n - 1) /\ m + 1 \in 1..n /\ m <= n
    BY <1>2
  <2>2. f[m + 1] = f[m] + s[m + 1] /\ s[m + 1] \in Nat
    BY <1>1, <1>2, <2>1
  <2>3. f[m] \in Nat /\ \A k \in 1..m : s[k] <= f[m]
    BY <1>4, <2>1
  <2>4. f[m + 1] \in Nat /\ f[m] <= f[m + 1] /\ s[m + 1] <= f[m + 1]
    BY <2>2, <2>3
  <2>5. ASSUME NEW k \in 1..(m + 1) PROVE s[k] <= f[m + 1]
    <3>1. CASE k = m + 1
      BY <2>4, <3>1
    <3>2. CASE k # m + 1
      <4>1. k \in 1..m /\ s[k] \in Nat
        BY <1>2, <2>1, <3>2
      <4>2. s[k] <= f[m] /\ f[m] \in Nat
        BY <2>3, <4>1
      <4> QED BY <2>4, <4>1, <4>2
    <3> QED BY <3>1, <3>2
  <2> QED BY <2>4, <2>5
<1> HIDE DEF T
<1>5. n \in T
  BY <1>2, <1>3, <1>4, SetInduction
<1> QED BY <1>1, <1>2, <1>5 DEF T, n

(* A sum grows by what one of its parts grows by.                          *)
LEMMA SumGrows ==
  ASSUME NEW s \in Seq(Nat), NEW t \in Seq(Nat), Len(t) = Len(s),
         NEW k \in 1..Len(s), NEW d \in Nat, t[k] = s[k] + d,
         \A i \in 1..Len(s) : i # k => t[i] = s[i]
  PROVE  SumOf(t) = SumOf(s) + d
<1> DEFINE n == Len(s)
<1>1. PICK f : /\ f[0] = 0
               /\ \A i \in 0..(n - 1) : f[i + 1] = f[i] + s[i + 1]
               /\ SumOf(s) = f[n]
  BY SumUnfolds
<1>2. PICK g : /\ g[0] = 0
               /\ \A i \in 0..(n - 1) : g[i + 1] = g[i] + t[i + 1]
               /\ SumOf(t) = g[n]
  BY SumUnfolds
<1> DEFINE Extra(m) == IF m < k THEN 0 ELSE d
           T == {m \in Nat : m <= n => f[m] \in Nat /\ g[m] = f[m] + Extra(m)}
<1>3. n \in Nat /\ k \in 1..n /\ d \in Nat
  OBVIOUS
<1>4. ASSUME NEW i \in 1..n
      PROVE  s[i] \in Nat /\ t[i] = s[i] + (IF i = k THEN d ELSE 0)
  <2>1. s[i] \in Nat
    OBVIOUS
  <2> QED BY <2>1
<1> HIDE DEF n
<1>5. 0 \in T
  <2>1. Extra(0) = 0
    BY <1>3
  <2> HIDE DEF Extra
  <2> QED BY <2>1, <1>1, <1>2
<1>6. ASSUME NEW m \in Nat, m \in T PROVE m + 1 \in T
  <2> SUFFICES ASSUME m + 1 <= n PROVE f[m + 1] \in Nat /\ g[m + 1] = f[m + 1] + Extra(m + 1)
    OBVIOUS
  <2>1. m \in 0..(n - 1) /\ m + 1 \in 1..n /\ m <= n
    BY <1>3
  <2> DEFINE x == s[m + 1]
             y == t[m + 1]
  <2>2. f[m + 1] = f[m] + x /\ g[m + 1] = g[m] + y
    BY <1>1, <1>2, <2>1
  <2>3. x \in Nat /\ y = x + (IF m + 1 = k THEN d ELSE 0)
    BY <1>4, <2>1
  <2>4. f[m] \in Nat /\ g[m] = f[m] + Extra(m)
    BY <1>6, <2>1
  <2>5. PICK z \in Nat : z = IF m + 1 = k THEN d ELSE 0
    BY <1>3
  <2>6. Extra(m) \in Nat /\ Extra(m + 1) = Extra(m) + z
    BY <1>3, <2>5
  <2>7. y = x + z
    BY <2>3, <2>5
  <2> HIDE DEF Extra, x, y
  <2>8. f[m + 1] \in Nat
    <3>1. \A a, b \in Nat : a + b \in Nat
      OBVIOUS
    <3> QED BY <2>2, <2>3, <2>4, <3>1
  <2>9. g[m + 1] = (f[m] + Extra(m)) + (x + z)
    BY <2>2, <2>4, <2>7
  <2>10. f[m + 1] + Extra(m + 1) = (f[m] + x) + (Extra(m) + z)
    BY <2>2, <2>6
  <2>11. \A a, b, c \in Nat : (a + b) + (c + z) = (a + c) + (b + z)
    OBVIOUS
  <2> QED BY <2>3, <2>4, <2>6, <2>8, <2>9, <2>10, <2>11, ZenonT(30)
<1> HIDE DEF T
<1>7. n \in T
  BY <1>3, <1>5, <1>6, SetInduction
<1>8. Extra(n) = d
  BY <1>3
<1> HIDE DEF Extra
<1> QED BY <1>1, <1>2, <1>3, <1>7, <1>8 DEF T

(* A sum of nothing is nothing.                                            *)
LEMMA SumOfZeros ==
  ASSUME NEW s \in Seq(Nat), \A i \in 1..Len(s) : s[i] = 0
  PROVE  SumOf(s) = 0
<1> DEFINE n == Len(s)
<1>1. PICK f : /\ f[0] = 0
               /\ \A i \in 0..(n - 1) : f[i + 1] = f[i] + s[i + 1]
               /\ SumOf(s) = f[n]
  BY SumUnfolds
<1> DEFINE T == {m \in Nat : m <= n => f[m] = 0}
<1>2. n \in Nat /\ \A i \in 1..n : s[i] = 0
  OBVIOUS
<1> HIDE DEF n
<1>3. 0 \in T
  BY <1>1
<1>4. ASSUME NEW m \in Nat, m \in T PROVE m + 1 \in T
  <2> SUFFICES ASSUME m + 1 <= n PROVE f[m + 1] = 0
    OBVIOUS
  <2>1. m \in 0..(n - 1) /\ m + 1 \in 1..n /\ m <= n
    BY <1>2
  <2>2. f[m] = 0 /\ s[m + 1] = 0
    BY <1>2, <1>4, <2>1
  <2>3. f[m + 1] = f[m] + s[m + 1]
    BY <1>1, <2>1
  <2> QED BY <2>2, <2>3
<1> HIDE DEF T
<1>5. n \in T
  BY <1>2, <1>3, <1>4, SetInduction
<1> QED BY <1>1, <1>2, <1>5 DEF T

(* One more element adds itself to the sum.                                *)
LEMMA SumAppends ==
  ASSUME NEW s \in Seq(Nat), NEW x \in Nat
  PROVE  SumOf(Append(s, x)) = SumOf(s) + x
<1> DEFINE n == Len(s)
           t == Append(s, x)
<1>1. PICK f : /\ f[0] = 0
               /\ \A i \in 0..(n - 1) : f[i + 1] = f[i] + s[i + 1]
               /\ SumOf(s) = f[n]
  BY SumUnfolds
<1>2. t \in Seq(Nat) /\ Len(t) = n + 1 /\ t[n + 1] = x /\ \A i \in 1..n : t[i] = s[i]
  OBVIOUS
<1> HIDE DEF t
<1>3. PICK g : /\ g[0] = 0
               /\ \A i \in 0..(Len(t) - 1) : g[i + 1] = g[i] + t[i + 1]
               /\ SumOf(t) = g[Len(t)]
  BY <1>2, SumUnfolds
<1> DEFINE T == {m \in Nat : m <= n => g[m] = f[m]}
<1>4. n \in Nat
  OBVIOUS
<1> HIDE DEF n
<1>5. 0 \in T
  BY <1>1, <1>3
<1>6. ASSUME NEW m \in Nat, m \in T PROVE m + 1 \in T
  <2> SUFFICES ASSUME m + 1 <= n PROVE g[m + 1] = f[m + 1]
    OBVIOUS
  <2>1. m \in 0..(n - 1) /\ m \in 0..(Len(t) - 1) /\ m + 1 \in 1..n /\ m <= n
    BY <1>2, <1>4
  <2>2. g[m + 1] = g[m] + t[m + 1] /\ f[m + 1] = f[m] + s[m + 1]
    BY <1>1, <1>3, <2>1
  <2> QED BY <2>1, <2>2, <1>2, <1>6
<1> HIDE DEF T
<1>7. n \in T
  BY <1>4, <1>5, <1>6, SetInduction
<1>8. g[n] = f[n]
  BY <1>4, <1>7 DEF T
<1>9. g[n + 1] = g[n] + x
  BY <1>2, <1>3, <1>4
<1> QED BY <1>1, <1>2, <1>3, <1>8, <1>9 DEF t
=============================================================================
