----------------------------- MODULE ChainProofs -----------------------------
(***************************************************************************)
(* Theorems about EvalChain and the reader of the turn streams (Watch)     *)
(* beside it, for any scenarios, streams, lines and numbers of reruns, and *)
(* about the numbers that Aggregate and Compare compute of any scores,     *)
(* thresholds, outputs and runs, where the run Checks asks listed ones.    *)
(***************************************************************************)
EXTENDS EvalChain, MCNumbers, ListLemmas, FiniteSetTheorems

-----------------------------------------------------------------------------
(* The reader.                                                             *)

Pieces == [line : Nat \ {0}, part : {"whole", "head", "cut", "tail"}, renders : BOOLEAN]
Ends(p) == p.part \in {"whole", "tail"}

(* A writer begins a line when the last one is ended.                      *)
Ordered(w) ==
  \A i, j \in 1..Len(w) : i < j => w[i].line <= w[j].line /\ (Ends(w[i]) => w[i].line < w[j].line)

(* What was shown of a stream whose first n pieces were read.              *)
Faithful(s, w, n) ==
  /\ \A i, j \in 1..Len(s) : i < j => s[i] < s[j]
  /\ \A k \in 1..Len(s) : \E i \in 1..n : Ends(w[i]) /\ w[i].line = s[k]
  /\ \A i \in 1..n : w[i].part = "whole" /\ w[i].renders => \E k \in 1..Len(s) : s[k] = w[i].line

WatchInv ==
  /\ written \in [Streams -> Seq(Pieces)] /\ offset \in [Streams -> Nat] /\ shown \in [Streams -> Seq(Nat)]
  /\ \A f \in Streams :
       Ordered(written[f]) /\ offset[f] <= Len(written[f]) /\ Faithful(shown[f], written[f], offset[f])

(* What a read of new pieces shows of them.                                *)
LEMMA CompleteIsFaithful ==
  ASSUME NEW d \in Seq(Pieces), Ordered(d)
  PROVE  Complete(d) \in Seq(Nat) /\ Faithful(Complete(d), d, Len(d))
<1> DEFINE ids == [i \in DOMAIN d |-> i]
           A == {i \in DOMAIN d : (d[i].part = "whole" \/ (d[i].part = "tail" /\ i > 1)) /\ d[i].renders}
           at == Kept(ids, A)
           c == Complete(d)
           n == Len(d)
<1>1. n \in Nat /\ DOMAIN d = 1..n
  OBVIOUS
<1>2. ids \in Seq(Nat) /\ Len(ids) = n /\ \A i \in 1..n : ids[i] = i
  <2>1. ids \in [1..n -> Nat] /\ \A i \in 1..n : ids[i] = i
    BY <1>1
  <2> HIDE DEF ids, n
  <2> QED BY <1>1, <2>1
<1>3. c = [k \in DOMAIN at |-> d[at[k]].line]
  BY DEF Complete
<1> HIDE DEF ids, at, c, n
<1>4. PICK pos : Selects(at, ids, A, n, pos)
  BY <1>2, KeptSelects DEF at
<1>5. at \in Seq(Nat)
  BY <1>2, KeptSelects DEF at
<1>6. \A k \in 1..Len(at) : pos[k] \in 1..n /\ at[k] = pos[k] /\ at[k] \in A
  BY <1>2, <1>4 DEF Selects
<1>7. \A i \in A : i \in 1..n /\ Ends(d[i])
  BY <1>1 DEF Ends
<1>8. \A k \in 1..Len(at) : at[k] \in 1..n /\ Ends(d[at[k]]) /\ d[at[k]].line \in Nat
  <2>1. \A i \in 1..n : d[i].line \in Nat
    <3>1. \A i \in 1..n : d[i] \in Pieces
      BY DEF n
    <3>2. \A p \in Pieces : p.line \in Nat
      BY DEF Pieces
    <3> QED BY <3>1, <3>2
  <2> HIDE DEF A
  <2> QED BY <1>6, <1>7, <2>1
<1>9. c \in Seq(Nat) /\ Len(c) = Len(at) /\ \A k \in 1..Len(at) : c[k] = d[at[k]].line
  <2>1. Len(at) \in Nat /\ DOMAIN at = 1..Len(at)
    BY <1>5
  <2>2. c \in [1..Len(at) -> Nat] /\ \A k \in 1..Len(at) : c[k] = d[at[k]].line
    BY <1>3, <1>8, <2>1
  <2> QED BY <2>1, <2>2
<1>10. ASSUME NEW i \in 1..Len(c), NEW j \in 1..Len(c), i < j PROVE c[i] < c[j]
  <2>1. i \in 1..Len(at) /\ j \in 1..Len(at)
    BY <1>9
  <2>2. pos[i] < pos[j]
    BY <1>4, <1>10, <2>1 DEF Selects
  <2>3. at[i] < at[j] /\ at[i] \in 1..n /\ at[j] \in 1..n /\ Ends(d[at[i]])
    BY <1>6, <1>8, <2>1, <2>2
  <2>4. d[at[i]].line < d[at[j]].line
    BY <2>3 DEF Ordered, n
  <2> QED BY <1>9, <2>1, <2>4
<1>11. \A k \in 1..Len(c) : \E i \in 1..n : Ends(d[i]) /\ d[i].line = c[k]
  BY <1>8, <1>9
<1>12. ASSUME NEW i \in 1..n, d[i].part = "whole", d[i].renders PROVE \E k \in 1..Len(c) : c[k] = d[i].line
  <2>1. i \in A
    BY <1>1, <1>12
  <2>2. PICK k \in 1..Len(at) : pos[k] = i
    <3>1. ids[i] \in A
      BY <1>2, <2>1
    <3> QED BY <1>4, <3>1 DEF Selects
  <2> QED BY <1>6, <1>9, <2>2
<1> QED BY <1>9, <1>10, <1>11, <1>12 DEF Faithful, c, n

(* What is shown stays faithful when more is read.                         *)
LEMMA ReadingOn ==
  ASSUME NEW w \in Seq(Pieces), Ordered(w), NEW o \in Nat, o <= Len(w), NEW s \in Seq(Nat), Faithful(s, w, o)
  PROVE  /\ s \o Complete(SubSeq(w, o + 1, Len(w))) \in Seq(Nat)
         /\ Faithful(s \o Complete(SubSeq(w, o + 1, Len(w))), w, Len(w))
<1> DEFINE n == Len(w)
           d == SubSeq(w, o + 1, n)
           c == Complete(d)
           r == s \o c
<1>1. n \in Nat /\ o \in 0..n
  OBVIOUS
<1>2. d \in Seq(Pieces) /\ Len(d) = n - o /\ \A i \in 1..(n - o) : d[i] = w[o + i]
  BY <1>1
<1> HIDE DEF n, d, c
<1>3. Ordered(d)
  <2> SUFFICES ASSUME NEW i \in 1..(n - o), NEW j \in 1..(n - o), i < j
               PROVE  d[i].line <= d[j].line /\ (Ends(d[i]) => d[i].line < d[j].line)
    BY <1>2 DEF Ordered
  <2>1. o + i \in 1..n /\ o + j \in 1..n /\ o + i < o + j
    BY <1>1
  <2> QED BY <1>2, <2>1 DEF Ordered, n
<1>4. c \in Seq(Nat) /\ Faithful(c, d, n - o)
  BY <1>2, <1>3, CompleteIsFaithful DEF c
<1>5. /\ r \in Seq(Nat) /\ Len(r) = Len(s) + Len(c) /\ Len(s) \in Nat /\ Len(c) \in Nat
      /\ \A k \in 1..Len(s) : r[k] = s[k]
      /\ \A k \in 1..Len(c) : r[Len(s) + k] = c[k]
  BY <1>4
<1> HIDE DEF r
<1>6. \A k \in 1..Len(r) : k \in 1..Len(s) \/ (k - Len(s) \in 1..Len(c) /\ r[k] = c[k - Len(s)])
  <2> SUFFICES ASSUME NEW k \in 1..Len(r), k \notin 1..Len(s)
               PROVE  k - Len(s) \in 1..Len(c) /\ r[k] = c[k - Len(s)]
    OBVIOUS
  <2>1. k - Len(s) \in 1..Len(c) /\ Len(s) + (k - Len(s)) = k
    BY <1>5
  <2> QED BY <1>5, <2>1
<1>7. ASSUME NEW k \in 1..Len(c)
      PROVE  \E i \in 1..n : i > o /\ Ends(w[i]) /\ w[i].line = c[k]
  <2>1. PICK i \in 1..(n - o) : Ends(d[i]) /\ d[i].line = c[k]
    BY <1>4 DEF Faithful
  <2>2. o + i \in 1..n /\ o + i > o
    BY <1>1
  <2> QED BY <1>2, <2>1, <2>2
<1>8. ASSUME NEW k \in 1..Len(s)
      PROVE  \E i \in 1..n : i <= o /\ Ends(w[i]) /\ w[i].line = s[k]
  <2>1. PICK i \in 1..o : Ends(w[i]) /\ w[i].line = s[k]
    BY DEF Faithful
  <2>2. i \in 1..n /\ i <= o
    BY <1>1
  <2> QED BY <2>1, <2>2
<1>9. ASSUME NEW i \in 1..Len(r), NEW j \in 1..Len(r), i < j PROVE r[i] < r[j]
  <2>1. CASE i \in 1..Len(s) /\ j \in 1..Len(s)
    BY <1>5, <1>9, <2>1 DEF Faithful
  <2>2. CASE i \in 1..Len(s) /\ j \notin 1..Len(s)
    <3>1. PICK a \in 1..n : a <= o /\ Ends(w[a]) /\ w[a].line = s[i]
      BY <1>8, <2>2
    <3>2. j - Len(s) \in 1..Len(c) /\ r[j] = c[j - Len(s)]
      BY <1>6, <2>2
    <3>3. PICK b \in 1..n : b > o /\ w[b].line = r[j]
      BY <1>7, <3>2
    <3>4. a < b
      BY <1>1, <3>1, <3>3
    <3>5. w[a].line < w[b].line
      BY <3>1, <3>4 DEF Ordered, n
    <3> QED BY <1>5, <2>2, <3>1, <3>3, <3>5
  <2>3. CASE i \notin 1..Len(s)
    <3>1. j \notin 1..Len(s)
      BY <1>5, <1>9, <2>3
    <3>2. /\ i - Len(s) \in 1..Len(c) /\ r[i] = c[i - Len(s)]
          /\ j - Len(s) \in 1..Len(c) /\ r[j] = c[j - Len(s)]
      BY <1>6, <2>3, <3>1
    <3>3. i - Len(s) < j - Len(s)
      BY <1>5, <1>9
    <3> QED BY <1>4, <3>2, <3>3 DEF Faithful
  <2> QED BY <2>1, <2>2, <2>3
<1>10. ASSUME NEW k \in 1..Len(r) PROVE \E i \in 1..n : Ends(w[i]) /\ w[i].line = r[k]
  BY ZenonT(40), <1>5, <1>6, <1>7, <1>8
<1>11. ASSUME NEW i \in 1..n, w[i].part = "whole", w[i].renders PROVE \E k \in 1..Len(r) : r[k] = w[i].line
  <2>1. CASE i <= o
    <3>1. PICK k \in 1..Len(s) : s[k] = w[i].line
      <4>1. i \in 1..o
        BY <1>1, <2>1
      <4> QED BY <4>1, <1>11 DEF Faithful
    <3>2. k \in 1..Len(r)
      BY <1>5
    <3> QED BY <1>5, <3>1, <3>2
  <2>2. CASE ~(i <= o)
    <3>1. i - o \in 1..(n - o) /\ o + (i - o) = i
      BY <1>1, <2>2
    <3>2. d[i - o] = w[i]
      BY <1>2, <3>1
    <3>3. PICK k \in 1..Len(c) : c[k] = w[i].line
      <4>1. \A a \in 1..(n - o) : d[a].part = "whole" /\ d[a].renders => \E k \in 1..Len(c) : c[k] = d[a].line
        BY <1>4 DEF Faithful
      <4> QED BY <1>11, <3>1, <3>2, <4>1
    <3>4. Len(s) + k \in 1..Len(r)
      BY <1>5
    <3> QED BY <1>5, <3>3, <3>4
  <2> QED BY <2>1, <2>2
<1>12. Faithful(r, w, n)
  BY <1>9, <1>10, <1>11 DEF Faithful
<1> QED BY <1>5, <1>12 DEF r, c, d, n

LEMMA WritesInOrder ==
  ASSUME WatchInv, WriteStep
  PROVE  WatchInv'
<1>1. PICK f \in Streams : WriteLine(f) \/ WriteRest(f)
  BY DEF WriteStep
<1> DEFINE w == written[f]
           n == Len(w)
<1>2. w \in Seq(Pieces) /\ n \in Nat /\ Ordered(w) /\ written \in [Streams -> Seq(Pieces)]
  BY DEF WatchInv
<1>3. \A i \in 1..n : w[i] \in Pieces /\ w[i].line \in Nat \ {0}
  <2>1. \A i \in 1..n : w[i] \in Pieces
    BY <1>2
  <2>2. \A p \in Pieces : p.line \in Nat \ {0}
    BY DEF Pieces
  <2> QED BY <2>1, <2>2
<1>4. \E p \in Pieces :
        /\ written' = [written EXCEPT ![f] = Append(w, p)]
        /\ \A i \in 1..n : w[i].line <= p.line /\ (Ends(w[i]) => w[i].line < p.line)
  <2>1. CASE WriteLine(f)
    <3>1. PICK part \in {"whole", "head", "cut"}, r \in BOOLEAN : Put(f, Piece(LinesOf(f) + 1, part, r))
      BY <2>1 DEF WriteLine
    <3> DEFINE k == LinesOf(f)
               p == Piece(k + 1, part, r)
    <3>2. k \in Nat /\ \A i \in 1..n : w[i].line <= k
      <4>1. CASE w = <<>>
        BY <4>1 DEF LinesOf
      <4>2. CASE w # <<>>
        <5>1. n \in 1..n
          BY <1>2, <4>2
        <5>2. k = w[n].line
          BY <4>2 DEF LinesOf, Last
        <5>3. \A i \in 1..n : i = n \/ i < n
          BY <1>2
        <5>4. w[n].line \in Nat
          BY <1>3, <5>1
        <5> QED BY <1>2, <5>1, <5>2, <5>3, <5>4 DEF Ordered
      <4> QED BY <4>1, <4>2
    <3>3. p \in Pieces /\ p.line = k + 1
      <4> HIDE DEF k
      <4> QED BY <3>2 DEF Pieces, Piece
    <3>4. written' = [written EXCEPT ![f] = Append(w, p)]
      BY <1>2, <3>1 DEF Put
    <3> HIDE DEF p, k, w, n
    <3>5. \A i \in 1..n : w[i].line <= p.line /\ w[i].line < p.line
      BY <1>3, <3>2, <3>3
    <3> QED BY <3>3, <3>4, <3>5
  <2>2. CASE WriteRest(f)
    <3> DEFINE l == w[n]
               p == Piece(l.line, "tail", l.renders)
    <3>1. w # <<>> /\ n \in 1..n /\ l.part \in {"head", "cut"}
      BY <1>2, <2>2 DEF WriteRest, Torn, Last
    <3>2. l \in Pieces
      BY <1>3, <3>1
    <3>3. written' = [written EXCEPT ![f] = Append(w, p)]
      <4>1. LinesOf(f) = l.line
        BY <3>1 DEF LinesOf, Last
      <4> QED BY <1>2, <2>2, <4>1 DEF WriteRest, Put, Last
    <3> HIDE DEF l
    <3>4. p \in Pieces /\ p.line = l.line
      BY <3>2 DEF Pieces, Piece
    <3>5. l = w[n]
      BY DEF l
    <3>6. ASSUME NEW i \in 1..n PROVE w[i].line <= p.line /\ (Ends(w[i]) => w[i].line < p.line)
      <4>1. CASE i = n
        <5>1. ~Ends(w[i]) /\ w[i].line = p.line /\ w[i].line \in Nat
          BY <1>3, <3>1, <3>4, <3>5, <4>1 DEF Ends
        <5> QED BY <5>1
      <4>2. CASE i < n
        <5> HIDE DEF p, w, n
        <5> QED BY <1>2, <3>1, <3>4, <3>5, <4>2 DEF Ordered, n
      <4> QED BY <1>2, <4>1, <4>2
    <3> HIDE DEF p
    <3> QED BY <3>3, <3>4, <3>6
  <2> QED BY <1>1, <2>1, <2>2
<1>5. PICK p \in Pieces :
        /\ written' = [written EXCEPT ![f] = Append(w, p)]
        /\ \A i \in 1..n : w[i].line <= p.line /\ (Ends(w[i]) => w[i].line < p.line)
  BY <1>4
<1> DEFINE v == Append(w, p)
<1>6. v \in Seq(Pieces) /\ Len(v) = n + 1 /\ v[n + 1] = p /\ \A i \in 1..n : v[i] = w[i]
  BY <1>2
<1>7. written' \in [Streams -> Seq(Pieces)] /\ written'[f] = v /\ \A g \in Streams : g # f => written'[g] = written[g]
  BY <1>2, <1>5, <1>6
<1>8. UNCHANGED <<offset, shown>>
  BY <1>1 DEF WriteLine, WriteRest, viewVars
<1> HIDE DEF v, w, n
<1>9. Ordered(v)
  <2> SUFFICES ASSUME NEW i \in 1..(n + 1), NEW j \in 1..(n + 1), i < j
               PROVE  v[i].line <= v[j].line /\ (Ends(v[i]) => v[i].line < v[j].line)
    BY <1>6 DEF Ordered
  <2>1. i \in 1..n /\ (j \in 1..n \/ j = n + 1)
    BY <1>2
  <2>2. CASE j \in 1..n
    BY <1>2, <1>6, <2>1, <2>2 DEF Ordered, n
  <2>3. CASE j = n + 1
    BY <1>5, <1>6, <2>1, <2>3
  <2> QED BY <2>1, <2>2, <2>3
<1>10. ASSUME NEW g \in Streams
       PROVE  Ordered(written'[g]) /\ offset[g] <= Len(written'[g]) /\ Faithful(shown[g], written'[g], offset[g])
  <2>1. CASE g = f
    <3>1. offset[g] \in 0..n /\ Faithful(shown[g], w, offset[g])
      BY <2>1 DEF WatchInv, w, n
    <3>2. \A i \in 1..offset[g] : v[i] = w[i]
      BY <1>2, <1>6, <3>1
    <3>3. Faithful(shown[g], v, offset[g])
      <4> DEFINE s == shown[g]
                 m == offset[g]
      <4>1. \A i, j \in 1..Len(s) : i < j => s[i] < s[j]
        BY <3>1 DEF Faithful
      <4>2. \A k \in 1..Len(s) : \E i \in 1..m : Ends(w[i]) /\ w[i].line = s[k]
        BY <3>1 DEF Faithful
      <4>3. \A i \in 1..m : w[i].part = "whole" /\ w[i].renders => \E k \in 1..Len(s) : s[k] = w[i].line
        BY <3>1 DEF Faithful
      <4> HIDE DEF s, m, v, w
      <4>4. \A k \in 1..Len(s) : \E i \in 1..m : Ends(v[i]) /\ v[i].line = s[k]
        BY <3>2, <4>2 DEF m
      <4>5. \A i \in 1..m : v[i].part = "whole" /\ v[i].renders => \E k \in 1..Len(s) : s[k] = v[i].line
        BY <3>2, <4>3 DEF m
      <4> QED BY <4>1, <4>4, <4>5 DEF Faithful, s, m
    <3>4. offset[g] <= Len(v)
      BY <1>2, <1>6, <3>1
    <3> QED BY <1>7, <1>9, <2>1, <3>3, <3>4
  <2>2. CASE g # f
    BY <1>7, <2>2 DEF WatchInv
  <2> QED BY <2>1, <2>2
<1> QED BY <1>7, <1>8, <1>10 DEF WatchInv

LEMMA ReadsFaithfully ==
  ASSUME WatchInv, NEW f \in Streams, ReadFile(f)
  PROVE  WatchInv'
<1> DEFINE w == written[f]
           o == offset[f]
           r == shown[f] \o Complete(SubSeq(w, o + 1, Len(w)))
<1>1. /\ w \in Seq(Pieces) /\ Ordered(w) /\ o \in Nat /\ o <= Len(w) /\ shown[f] \in Seq(Nat)
      /\ Faithful(shown[f], w, o)
  BY DEF WatchInv
<1>2. r \in Seq(Nat) /\ Faithful(r, w, Len(w)) /\ Len(w) \in Nat
  BY <1>1, ReadingOn
<1>3. /\ written' = written /\ offset' = [offset EXCEPT ![f] = Len(w)] /\ shown' = [shown EXCEPT ![f] = r]
  BY DEF ReadFile, NewPieces, WatchInv
<1> HIDE DEF r
<1>4. offset' \in [Streams -> Nat] /\ shown' \in [Streams -> Seq(Nat)]
  BY <1>2, <1>3 DEF WatchInv
<1>5. ASSUME NEW g \in Streams
      PROVE  Ordered(written[g]) /\ offset'[g] <= Len(written[g]) /\ Faithful(shown'[g], written[g], offset'[g])
  <2>1. CASE g = f
    <3>1. offset'[g] = Len(w) /\ shown'[g] = r /\ written[g] = w
      BY <1>3, <2>1 DEF WatchInv
    <3> QED BY <1>1, <1>2, <3>1
  <2>2. CASE g # f
    <3>1. offset'[g] = offset[g] /\ shown'[g] = shown[g]
      BY <1>3, <2>2 DEF WatchInv
    <3> QED BY <3>1 DEF WatchInv
  <2> QED BY <2>1, <2>2
<1> QED BY <1>3, <1>4, <1>5 DEF WatchInv

(* What a step of the chain does to writers and reader.                    *)
LEMMA ChainWatches ==
  ASSUME [EvalNext]_evalVars
  PROVE  WriteStep \/ (\E f \in Streams : ReadFile(f)) \/ UNCHANGED <<written, offset, shown>>
<1> USE DEF watchVars, viewVars
<1>1. CASE ChainStep
  BY <1>1 DEF ChainStep, CheckArguments, EndScenario, EndRun, Gate, ScoreRaises, ScoreOne, EndScore, RunAggregate, StopView
<1>2. CASE WriteStream
  BY <1>2 DEF WriteStream
<1>3. CASE ReaderStep
  BY <1>3 DEF ReaderStep, Open, ViewStep, Interrupt, Look, ReadDies, EndPass, EndView
<1>4. CASE Kill
  BY <1>4 DEF Kill
<1>5. CASE \E name \in {"score", "aggregate"} : Rerun(name)
  BY <1>5 DEF Rerun
<1>6. CASE UNCHANGED evalVars
  BY <1>6 DEF evalVars
<1> QED BY <1>1, <1>2, <1>3, <1>4, <1>5, <1>6 DEF EvalNext

(* A reader shows the complete lines of a stream in order and once each,   *)
(* however the writer's pieces and the reader's passes interleave, and it  *)
(* leaves out only lines that it met in two pieces.                        *)
THEOREM WatchersAreFaithful == EvalSpec => []ShownFaithfully
<1>1. ChainInit => WatchInv
  <2> SUFFICES ASSUME WatchInit PROVE WatchInv
    BY DEF ChainInit
  <2>1. <<>> \in Seq(Pieces) /\ <<>> \in Seq(Nat) /\ Len(<<>>) = 0
    OBVIOUS
  <2>2. Ordered(<<>>) /\ Faithful(<<>>, <<>>, 0)
    BY DEF Ordered, Faithful
  <2> QED BY <2>1, <2>2 DEF WatchInit, WatchInv
<1>2. ASSUME WatchInv, [EvalNext]_evalVars PROVE WatchInv'
  <2>1. CASE UNCHANGED <<written, offset, shown>>
    BY <1>2, <2>1 DEF WatchInv
  <2> QED BY <1>2, <2>1, ChainWatches, WritesInOrder, ReadsFaithfully
<1>3. WatchInv => ShownFaithfully
  <2> SUFFICES ASSUME WatchInv, NEW f \in Streams
               PROVE  LET past == SubSeq(written[f], 1, offset[f])
                      IN  /\ \A i, j \in DOMAIN shown[f] : i < j => shown[f][i] < shown[f][j]
                          /\ \A n \in ToSet(shown[f]) : \E p \in ToSet(past) : p.line = n /\ p.part \in {"whole", "tail"}
                          /\ \A p \in ToSet(past) : p.part = "whole" /\ p.renders => p.line \in ToSet(shown[f])
    BY DEF ShownFaithfully
  <2> DEFINE w == written[f]
             o == offset[f]
             s == shown[f]
             past == SubSeq(w, 1, o)
  <2>1. w \in Seq(Pieces) /\ s \in Seq(Nat) /\ o \in Nat /\ o <= Len(w) /\ Faithful(s, w, o)
    BY DEF WatchInv
  <2>2. past \in Seq(Pieces) /\ Len(past) = o /\ \A i \in 1..o : past[i] = w[i]
    BY <2>1
  <2>3. DOMAIN s = 1..Len(s) /\ DOMAIN past = 1..o
    BY <2>1, <2>2
  <2> HIDE DEF past, w, o, s
  <2>4. \A i, j \in DOMAIN s : i < j => s[i] < s[j]
    BY <2>1, <2>3 DEF Faithful
  <2>5. ASSUME NEW n \in ToSet(s) PROVE \E p \in ToSet(past) : p.line = n /\ p.part \in {"whole", "tail"}
    <3>1. PICK k \in 1..Len(s) : s[k] = n
      BY <2>3 DEF ToSet
    <3>2. PICK i \in 1..o : Ends(w[i]) /\ w[i].line = s[k]
      BY <2>1 DEF Faithful
    <3>3. past[i] \in ToSet(past) /\ past[i] = w[i]
      BY <2>2, <2>3 DEF ToSet
    <3> QED BY <3>1, <3>2, <3>3 DEF Ends
  <2>6. ASSUME NEW p \in ToSet(past), p.part = "whole", p.renders PROVE p.line \in ToSet(s)
    <3>1. PICK i \in 1..o : past[i] = p
      BY <2>3 DEF ToSet
    <3>2. w[i] = p
      BY <2>2, <3>1
    <3>3. PICK k \in 1..Len(s) : s[k] = w[i].line
      BY <2>1, <2>6, <3>2 DEF Faithful
    <3> QED BY <2>3, <3>2, <3>3 DEF ToSet
  <2> QED BY <2>4, <2>5, <2>6 DEF past, w, o, s
<1> QED BY <1>1, <1>2, <1>3, PTL DEF EvalSpec

-----------------------------------------------------------------------------
(* What an aggregation finds.                                              *)

LEMMA Enumerated ==
  ASSUME NEW X, IsFiniteSet(X)
  PROVE  LET q == SetToSeq(X)
         IN  q \in Seq(X) /\ IsInjective(q) /\ ToSet(q) = X
<1> DEFINE n == Cardinality(X)
           D == 1..n
           q == SetToSeq(X)
<1>1. n \in Nat /\ ExistsBijection(D, X)
  BY FS_CardinalityType
<1>2. IsFiniteSet(D) /\ Cardinality(D) = n
  BY <1>1, FS_Interval
<1>3. \E f \in [D -> X] : IsInjective(f)
  BY <1>1 DEF ExistsBijection, Bijection, Injection
<1>4. q \in [D -> X] /\ IsInjective(q)
  BY <1>3 DEF SetToSeq
<1> HIDE DEF q
<1>5. q \in Surjection(D, X)
  <2>1. q \in Injection(D, X)
    BY <1>4 DEF Injection
  <2> HIDE DEF D, n
  <2> QED BY <1>2, <2>1, FS_Injection DEF n
<1>6. \A x \in X : \E i \in D : q[i] = x
  BY <1>5 DEF Surjection
<1>7. q \in Seq(X) /\ DOMAIN q = D
  BY <1>1, <1>4
<1>8. ToSet(q) = X
  BY <1>4, <1>6, <1>7 DEF ToSet
<1> QED BY <1>4, <1>7, <1>8 DEF q

Written == {files[s] : s \in Scenarios}

LEMMA FoundIs ==
  /\ Found \in Seq(Written) /\ IsInjective(Found)
  /\ ToSet(Found) = {x \in Written : x # None}
<1> DEFINE q == SetToSeq(Written)
           A == {x \in ToSet(q) : x # None}
           n == Len(q)
<1>1. IsFiniteSet(Written)
  <2>1. [s \in Scenarios |-> files[s]] \in Surjection(Scenarios, Written)
    BY DEF Surjection, Written
  <2> QED BY <2>1, ChainAssumption, FS_Surjection
<1>2. q \in Seq(Written) /\ IsInjective(q) /\ ToSet(q) = Written
  BY <1>1, Enumerated
<1>3. Found = Kept(q, A)
  BY DEF Found, DiscoverScores, Written
<1>4. n \in Nat /\ DOMAIN q = 1..n
  BY <1>2
<1>5. A = {x \in Written : x # None}
  BY <1>2
<1> HIDE DEF q, A, n
<1>6. PICK pos : Selects(Found, q, A, n, pos)
  BY <1>2, <1>3, KeptSelects DEF n
<1>7. Found \in Seq(Written)
  BY <1>2, <1>3, KeptSelects
<1>8. DOMAIN Found = 1..Len(Found) /\ Len(Found) \in Nat
  BY <1>7
<1>9. /\ \A k \in 1..Len(Found) : pos[k] \in 1..n /\ Found[k] = q[pos[k]] /\ Found[k] \in A
      /\ \A j, k \in 1..Len(Found) : j < k => pos[j] < pos[k]
      /\ \A i \in 1..n : q[i] \in A => \E k \in 1..Len(Found) : pos[k] = i
  BY <1>6 DEF Selects
<1>10. IsInjective(Found)
  <2> SUFFICES ASSUME NEW j \in 1..Len(Found), NEW k \in 1..Len(Found), Found[j] = Found[k]
               PROVE  j = k
    BY <1>8 DEF IsInjective
  <2>1. pos[j] = pos[k]
    BY <1>2, <1>4, <1>9 DEF IsInjective
  <2>2. j < k \/ k < j \/ j = k
    BY <1>8
  <2> QED BY <1>9, <2>1, <2>2
<1>11. ToSet(Found) = A
  <2>1. ToSet(Found) \subseteq A
    BY <1>8, <1>9 DEF ToSet
  <2>2. ASSUME NEW x \in A PROVE x \in ToSet(Found)
    <3>1. x \in ToSet(q)
      BY <1>2, <1>5
    <3>2. PICK i \in 1..n : q[i] = x
      BY <1>4, <3>1 DEF ToSet
    <3>3. PICK k \in 1..Len(Found) : pos[k] = i
      BY <1>9, <3>2
    <3> QED BY <1>8, <1>9, <3>2, <3>3 DEF ToSet
  <2> QED BY <2>1, <2>2
<1> QED BY <1>5, <1>7, <1>10, <1>11

(* The numbers of a results.json.                                          *)
SplitFine(r) ==
  LET sp == r.split
      blocked(x) == \/ \E e \in r.judge : e.key = x.key
                    \/ \E e \in r.agent : e.key = x.key /\ e.types \intersect EnvironmentalErrors # {}
  IN  /\ sp.attempted = r.total
      /\ sp.agent + sp.judge + sp.passed + sp.failed = sp.attempted
      /\ sp.passed = Cardinality({x \in ToSet(r.scores) : x.pass /\ ~blocked(x)})

(* Elements of a list without repetitions are counted as its positions.    *)
LEMMA CountsElements ==
  ASSUME NEW X, NEW s \in Seq(X), IsInjective(s), NEW A
  PROVE  Cardinality({i \in DOMAIN s : s[i] \in A}) = Cardinality({x \in ToSet(s) : x \in A})
<1> DEFINE I == {i \in DOMAIN s : s[i] \in A}
           Y == {x \in ToSet(s) : x \in A}
           f == [i \in I |-> s[i]]
<1>1. DOMAIN s = 1..Len(s) /\ Len(s) \in Nat /\ IsFiniteSet(DOMAIN s)
  BY FS_Interval
<1>2. IsFiniteSet(I)
  BY <1>1, FS_Subset
<1>3. f \in Injection(I, Y)
  BY DEF Injection, IsInjective, ToSet
<1>4. f \in Surjection(I, Y)
  BY DEF Surjection, ToSet
<1> HIDE DEF I, Y, f
<1>5. ExistsBijection(I, Y)
  BY <1>3, <1>4 DEF ExistsBijection, Bijection
<1>6. Cardinality(Y) = Cardinality(I)
  BY <1>2, <1>5, FS_Bijection
<1> QED BY <1>6 DEF I, Y

LEMMA SplitsAddUp ==
  ASSUME NEW X, NEW scores \in Seq(X), IsInjective(scores), NEW disk, NEW setup, NEW thresholds, NEW failOn,
         NEW r, r = Results(scores, disk, setup, thresholds, failOn), r.split # None
  PROVE  SplitFine(r)
<1> DEFINE D == DOMAIN scores
           n == Len(scores)
           J == CollectJudgeErrors(scores)
           E == CollectAgentErrors(scores, disk)
           a == {e.key : e \in {x \in E : x.types \intersect EnvironmentalErrors # {}}}
           j == {e.key : e \in J}
           b == a \union j
           Ok == {x \in ToSet(scores) : x.pass /\ x.key \notin b}
           P == {i \in D : scores[i].pass /\ scores[i].key \notin b}
           B == {i \in D : scores[i].key \in b}
<1>1. n \in Nat /\ D = 1..n /\ IsFiniteSet(D) /\ Cardinality(D) = n
  <2>1. n \in Nat /\ D = 1..n
    OBVIOUS
  <2> HIDE DEF n, D
  <2>2. IsFiniteSet(1..n) /\ Cardinality(1..n) = n
    BY <2>1, FS_Interval
  <2> QED BY <2>1, <2>2
<1>2. /\ r.scores = scores /\ r.total = n /\ r.judge = J /\ r.agent = E
      /\ r.split = BuildTaskQualitySplit(scores, E, J)
  BY DEF Results
<1> DEFINE done == n - Cardinality(b)
           passed == Cardinality(P)
<1>3. r.split = [attempted |-> n, agent |-> Cardinality(a), judge |-> Cardinality(j \ a), completed |-> done,
                 passed |-> passed, failed |-> IF done > passed THEN done - passed ELSE 0]
  BY <1>2 DEF BuildTaskQualitySplit, Count
<1>4. \A k \in b : \E i \in D : scores[i].key = k
  <2>1. ASSUME NEW e \in J PROVE \E i \in D : scores[i].key = e.key
    <3> DEFINE Q == {x \in ToSet(scores) : Some(x.judges, LAMBDA p : p.error # None)}
               Row(x) == [key |-> x.key, types |-> {p.error : p \in ToSet(x.judges)} \ {None}]
    <3>0. J = {Row(x) : x \in Q}
      BY DEF CollectJudgeErrors
    <3>1. PICK x \in ToSet(scores) : e.key = x.key
      <4>1. \A x : Row(x).key = x.key
        OBVIOUS
      <4>2. Q \subseteq ToSet(scores)
        OBVIOUS
      <4> HIDE DEF J, Q, Row
      <4> QED BY <3>0, <4>1, <4>2
    <3> QED BY <3>1 DEF ToSet
  <2>2. ASSUME NEW e \in E PROVE \E i \in D : scores[i].key = e.key
    <3> DEFINE Q == {x \in ToSet(scores) : x.key \in DOMAIN disk /\ AgentErrorTypes(disk[x.key]) # {}}
               Row(x) == [key |-> x.key, types |-> AgentErrorTypes(disk[x.key]), vacuous |-> x.pass]
    <3>0. E = {Row(x) : x \in Q}
      BY DEF CollectAgentErrors
    <3>1. PICK x \in ToSet(scores) : e.key = x.key
      <4>1. \A x : Row(x).key = x.key
        OBVIOUS
      <4>2. Q \subseteq ToSet(scores)
        OBVIOUS
      <4> HIDE DEF E, Q, Row
      <4> QED BY <3>0, <4>1, <4>2
    <3> QED BY <3>1 DEF ToSet
  <2> HIDE DEF J, E, D
  <2> QED BY <2>1, <2>2
<1>5. P \subseteq D /\ B \subseteq D /\ P \intersect B = {}
  OBVIOUS
<1>6. [i \in B |-> scores[i].key] \in Surjection(B, b)
  <2>1. \A i \in B : scores[i].key \in b
    OBVIOUS
  <2>2. \A k \in b : \E i \in B : scores[i].key = k
    BY <1>4
  <2> HIDE DEF B, b
  <2> QED BY <2>1, <2>2 DEF Surjection
<1> HIDE DEF D, n, J, E, a, j, P, B
<1>7. IsFiniteSet(P) /\ IsFiniteSet(B)
  BY <1>1, <1>5, FS_Subset
<1>8. IsFiniteSet(b) /\ Cardinality(b) <= Cardinality(B)
  <2> HIDE DEF b
  <2> QED BY <1>6, <1>7, FS_Surjection
<1>9. Cardinality(P) + Cardinality(B) <= n
  <2>1. Cardinality(P \union B) = Cardinality(P) + Cardinality(B) - Cardinality({}) /\ IsFiniteSet(P \union B)
    BY <1>5, <1>7, FS_Union
  <2>2. P \union B \subseteq D
    BY <1>5
  <2>3. Cardinality(P \union B) <= n
    BY <1>1, <2>2, FS_Subset
  <2> QED BY <1>7, <2>1, <2>3, FS_EmptySet, FS_CardinalityType
<1>10. Cardinality(a) + Cardinality(j \ a) = Cardinality(b)
  <2>1. a \subseteq b /\ j \ a \subseteq b /\ a \intersect (j \ a) = {} /\ b = a \union (j \ a)
    OBVIOUS
  <2>2. IsFiniteSet(a) /\ IsFiniteSet(j \ a)
    BY <1>8, <2>1, FS_Subset
  <2>3. Cardinality(b) = Cardinality(a) + Cardinality(j \ a) - Cardinality({})
    BY <2>1, <2>2, FS_Union
  <2> QED BY <2>2, <2>3, FS_EmptySet, FS_CardinalityType
<1>11. /\ Cardinality(P) \in Nat /\ Cardinality(b) \in Nat /\ Cardinality(a) \in Nat
       /\ Cardinality(j \ a) \in Nat /\ Cardinality(B) \in Nat
  <2>1. a \subseteq b /\ j \ a \subseteq b
    OBVIOUS
  <2>2. IsFiniteSet(a) /\ IsFiniteSet(j \ a)
    BY <1>8, <2>1, FS_Subset
  <2> QED BY <2>2, <1>7, <1>8, FS_CardinalityType
<1>12. passed = Cardinality(Ok)
  <2> DEFINE A == {x \in ToSet(scores) : x.pass /\ x.key \notin b}
  <2>1. P = {i \in D : scores[i] \in A}
    BY DEF P, D, ToSet
  <2>2. {x \in ToSet(scores) : x \in A} = Ok
    OBVIOUS
  <2> HIDE DEF A, b, Ok
  <2>3. Cardinality({i \in DOMAIN scores : scores[i] \in A}) = Cardinality({x \in ToSet(scores) : x \in A})
    BY CountsElements
  <2> QED BY <2>1, <2>2, <2>3 DEF D
<1> DEFINE sp == r.split
           blocked(x) == \/ \E e \in r.judge : e.key = x.key
                         \/ \E e \in r.agent : e.key = x.key /\ e.types \intersect EnvironmentalErrors # {}
<1>13. \A x : blocked(x) <=> x.key \in b
  BY <1>2 DEF a, j
<1>14. {x \in ToSet(r.scores) : x.pass /\ ~blocked(x)} = Ok
  BY <1>2, <1>13
<1> HIDE DEF b, Ok
<1>15. sp.attempted = r.total
  BY <1>2, <1>3
<1>16. sp.agent + sp.judge + sp.passed + sp.failed = sp.attempted
  <2>1. done >= passed
    BY <1>1, <1>8, <1>9, <1>11
  <2>2. (IF done > passed THEN done - passed ELSE 0) = done - passed
    BY <1>1, <1>11, <2>1
  <2>3. Cardinality(a) + Cardinality(j \ a) + passed + (done - passed) = n
    BY <1>1, <1>10, <1>11
  <2> QED BY <1>3, <2>2, <2>3
<1> DEFINE W == {x \in ToSet(r.scores) : x.pass /\ ~blocked(x)}
<1>17. sp.passed = Cardinality(W)
  <2> HIDE DEF W, passed
  <2>1. sp.passed = passed
    BY <1>3
  <2>2. W = Ok
    BY <1>14 DEF W
  <2> QED BY <1>12, <2>1, <2>2
<1> QED BY <1>15, <1>16, <1>17 DEF SplitFine

LEMMA NoneFails ==
  ASSUME NEW X, NEW scores \in Seq(X), Failed(scores) = 0
  PROVE  \A x \in ToSet(scores) : x.pass
<1> DEFINE I == {i \in DOMAIN scores : ~scores[i].pass}
<1>1. IsFiniteSet(I)
  <2>1. DOMAIN scores = 1..Len(scores) /\ Len(scores) \in Nat
    OBVIOUS
  <2>2. IsFiniteSet(DOMAIN scores)
    BY <2>1, FS_Interval
  <2> QED BY <2>2, FS_Subset
<1>2. Cardinality(I) = 0
  BY DEF Failed, Count
<1>3. I = {}
  <2> HIDE DEF I
  <2> QED BY <1>1, <1>2, FS_EmptySet
<1> QED BY <1>3 DEF ToSet

LEMMA NoJudgeErred ==
  ASSUME NEW scores, CollectJudgeErrors(scores) = {}, NEW x \in ToSet(scores), NEW i \in DOMAIN x.judges
  PROVE  x.judges[i].error = None
<1> DEFINE Q == {y \in ToSet(scores) : Some(y.judges, LAMBDA p : p.error # None)}
           Row(y) == [key |-> y.key, types |-> {p.error : p \in ToSet(y.judges)} \ {None}]
<1>1. CollectJudgeErrors(scores) = {Row(y) : y \in Q}
  BY DEF CollectJudgeErrors
<1>2. x.judges[i].error # None => x \in Q
  BY DEF Some
<1> HIDE DEF Q, Row
<1> QED BY <1>1, <1>2

(* With a budget of nothing there is no failed check.                      *)
LEMMA NoCheckFailed ==
  ASSUME NEW X, NEW scores \in Seq(X), NEW thresholds, NEW failOn, Enforce(scores, thresholds, failOn),
         NEW t \in thresholds, t.pct = 0, t.mode = "rules",
         NEW x \in ToSet(scores), NEW i \in DOMAIN x.checks, x.checks[i].dim = t.dim
  PROVE  x.checks[i].passed # "no"
<1> SUFFICES ASSUME x.checks[i].passed = "no" PROVE FALSE
  OBVIOUS
<1> DEFINE d == t.dim
           c == CountRulesFailures(scores, d)
           keys == {s.key : s \in ToSet(scores)}
           Scored == {k \in keys : \E j \in DOMAIN scores : scores[j].key = k /\
                                     \E h \in DOMAIN scores[j].checks : scores[j].checks[h].dim = d}
           Bad == {k \in keys : \E j \in DOMAIN scores : scores[j].key = k /\
                                  \E h \in DOMAIN scores[j].checks :
                                    scores[j].checks[h].dim = d /\ scores[j].checks[h].passed = "no"}
<1>1. c.total = Cardinality(Scored) /\ c.failed = Cardinality(Bad)
  BY DEF CountRulesFailures, Some
<1>2. IsFiniteSet(keys)
  <2> DEFINE D == DOMAIN scores
             n == Len(scores)
             f == [j \in D |-> scores[j].key]
  <2>1. D = 1..n /\ n \in Nat
    OBVIOUS
  <2>2. f \in Surjection(D, keys)
    <3>1. keys = {scores[j].key : j \in D}
      BY DEF ToSet
    <3>2. \A k \in keys : \E j \in D : f[j] = k
      BY <3>1
    <3>3. \A j \in D : f[j] \in keys
      BY <3>1
    <3> QED BY <3>2, <3>3 DEF Surjection
  <2> HIDE DEF D, f, keys, n
  <2>3. IsFiniteSet(D)
    <3>1. \A m \in Nat : IsFiniteSet(1..m)
      BY FS_Interval
    <3> QED BY <2>1, <3>1
  <2> QED BY <2>2, <2>3, FS_Surjection
<1>3. Bad \subseteq keys /\ Scored \subseteq keys
  OBVIOUS
<1>4. x.key \in Bad /\ x.key \in Scored
  <2>1. PICK j \in DOMAIN scores : x = scores[j]
    BY DEF ToSet
  <2>2. x.key \in keys
    OBVIOUS
  <2> HIDE DEF keys
  <2> QED BY <2>1, <2>2
<1>5. WithinBudget(c, 0)
  BY DEF Enforce
<1> HIDE DEF c, keys, Scored, Bad
<1>6. IsFiniteSet(Bad) /\ IsFiniteSet(Scored)
  BY <1>2, <1>3, FS_Subset
<1>7. Cardinality(Bad) \in Nat /\ Cardinality(Scored) \in Nat
  BY <1>6, FS_CardinalityType
<1>8. Cardinality(Bad) # 0 /\ Cardinality(Scored) # 0
  BY <1>4, <1>6, FS_EmptySet
<1> QED BY <1>1, <1>5, <1>7, <1>8 DEF WithinBudget

-----------------------------------------------------------------------------
(* The chain.                                                              *)

ChainInv ==
  /\ ended \subseteq Scenarios
  /\ phase \in {"args", "run", "gate"} => command = "eval" /\ results = None
  /\ command = "eval" /\ phase \in {"score", "aggregate"} /\ ~opts.dry => RealTurns # {}
  /\ GreenIsEarned /\ OverallIsEarned
  /\ results # None /\ results.split # None => SplitFine(results)

(* A green exit and a pass overall, from what an aggregation found.        *)
LEMMA Aggregates ==
  ASSUME ChainInv, NEW exports, RunAggregate(exports)
  PROVE  ChainInv'
<1>1. /\ phase = "aggregate" /\ phase' = "over"
      /\ UNCHANGED <<opts, command, fate, ended, files, raised>>
  BY DEF RunAggregate, Exit
<1>2. RealTurns' = RealTurns /\ OutcomeDirs' = OutcomeDirs
  BY <1>1 DEF RealTurns, OutcomeDirs
<1>3. Found \in Seq(Written) /\ IsInjective(Found) /\ ToSet(Found) = {x \in Written : x # None}
  BY FoundIs
<1>4. \A s \in Scenarios : files[s] # None => files[s] \in ToSet(Found)
  BY <1>3 DEF Written
<1>5. CASE Found = <<>>
  <2>1. rc' = 1 /\ results' = results
    BY <1>5 DEF RunAggregate, Exit
  <2>2. \A s \in Scenarios : files[s] = None
    <3>1. ToSet(Found) = {}
      BY <1>5 DEF ToSet
    <3> QED BY <1>4, <3>1
  <2>3. GreenIsEarned'
    BY <2>1 DEF GreenIsEarned, Finished
  <2>4. OverallIsEarned'
    <3>1. OutcomeDirs \subseteq Scenarios
      BY DEF OutcomeDirs, ChainInv
    <3>2. results # None /\ results.overall => \A s \in ended : fate[s] # "setup"
      BY DEF OverallIsEarned, ChainInv
    <3> QED BY <1>1, <1>2, <2>1, <2>2, <3>1, <3>2 DEF OverallIsEarned
  <2> QED BY <1>1, <1>2, <2>1, <2>3, <2>4 DEF ChainInv, SplitFine
<1>6. CASE Found # <<>>
  <2> DEFINE r == Results(Found, Disk, SetupErrors, opts.thresholds, DefaultFailLevels)
  <2>1. results' = r /\ rc' = AggregateExit(r, exports)
    BY <1>6 DEF RunAggregate, Exit
  <2>2. /\ r.scores = Found /\ r.overall = (Failed(Found) = 0 /\ SetupErrors = {})
        /\ r.judge = CollectJudgeErrors(Found)
        /\ r.kept = Enforce(Found, opts.thresholds, DefaultFailLevels)
    BY DEF Results
  <2>3. r.split # None => SplitFine(r)
    BY <1>3, SplitsAddUp
  <2> HIDE DEF r
  <2>4. GreenIsEarned'
    <3>1. command = "eval" /\ ~opts.dry => RealTurns # {}
      BY <1>1 DEF ChainInv
    <3>2. \E s \in Scenarios : files[s] # None
      <4>1. Found[1] \in ToSet(Found)
        <5>1. 1 \in DOMAIN Found
          BY <1>3, <1>6
        <5> QED BY <5>1 DEF ToSet
      <4> QED BY <4>1, <1>3 DEF Written
    <3>3. ASSUME rc' = 0, NEW s \in Scenarios, files[s] # None
          PROVE  /\ \A i \in DOMAIN files[s].judges : files[s].judges[i].error = None
                 /\ \A t \in opts.thresholds : t.pct = 0 /\ t.mode = "rules" =>
                      \A i \in DOMAIN files[s].checks :
                        files[s].checks[i].dim = t.dim => files[s].checks[i].passed # "no"
      <4>1. files[s] \in ToSet(Found)
        BY <1>4, <3>3
      <4>2. Enforce(Found, opts.thresholds, DefaultFailLevels) /\ CollectJudgeErrors(Found) = {}
        BY <2>1, <2>2, <3>3 DEF AggregateExit
      <4>3. \A i \in DOMAIN files[s].judges : files[s].judges[i].error = None
        BY <4>1, <4>2, NoJudgeErred
      <4>4. ASSUME NEW t \in opts.thresholds, t.pct = 0, t.mode = "rules",
                   NEW i \in DOMAIN files[s].checks, files[s].checks[i].dim = t.dim
            PROVE  files[s].checks[i].passed # "no"
        BY <1>3, <4>1, <4>2, <4>4, NoCheckFailed
      <4> QED BY <4>3, <4>4
    <3> DEFINE earned == /\ \E s \in Scenarios : files[s] # None
                         /\ \A s \in Scenarios : files[s] # None =>
                              /\ \A i \in DOMAIN files[s].judges : files[s].judges[i].error = None
                              /\ \A t \in opts.thresholds : t.pct = 0 /\ t.mode = "rules" =>
                                   \A i \in DOMAIN files[s].checks :
                                     files[s].checks[i].dim = t.dim => files[s].checks[i].passed # "no"
    <3>4. rc' = 0 => earned
      BY <3>2, <3>3
    <3>5. earned' = earned
      BY <1>1
    <3>6. GreenIsEarned' = (/\ Finished("eval")' /\ ~opts'.dry => RealTurns' # {}
                            /\ (Finished("eval")' /\ ~opts'.dry) \/ Finished("aggregate")' => earned')
      BY DEF GreenIsEarned
    <3> HIDE DEF earned
    <3> QED BY <1>1, <1>2, <3>1, <3>4, <3>5, <3>6 DEF Finished
  <2>5. OverallIsEarned'
    <3> SUFFICES ASSUME r.overall PROVE OverallIsEarned'
      BY <2>1 DEF OverallIsEarned
    <3>1. Failed(Found) = 0 /\ SetupErrors = {}
      BY <2>2
    <3>2. \A s \in ended : fate[s] # "setup"
      BY <3>1 DEF SetupErrors
    <3>3. \A x \in ToSet(Found) : x.pass
      BY <1>3, <3>1, NoneFails
    <3>4. OutcomeDirs \subseteq Scenarios
      BY DEF OutcomeDirs, ChainInv
    <3>5. \A s \in OutcomeDirs : files[s] # None => files[s].pass /\ files[s] \in ToSet(r.scores)
      BY <1>4, <2>2, <3>3, <3>4
    <3> QED BY <1>1, <1>2, <2>1, <3>2, <3>5 DEF OverallIsEarned
  <2> QED BY <1>1, <2>1, <2>3, <2>4, <2>5 DEF ChainInv, SplitFine
<1> QED BY <1>5, <1>6

LEMMA ChainFollows == EvalSpec => []ChainInv
<1>1. ChainInit => ChainInv
  BY DEF ChainInit, ChainInv, GreenIsEarned, OverallIsEarned, Finished
<1>2. ASSUME ChainInv, [EvalNext]_evalVars PROVE ChainInv'
  <2> DEFINE early == phase \in {"args", "run", "gate"} => command = "eval" /\ results = None
             turned == command = "eval" /\ phase \in {"score", "aggregate"} /\ ~opts.dry => RealTurns # {}
             whole == results # None /\ results.overall => \A s \in ended : fate[s] # "setup"
             fine == results # None /\ results.split # None => SplitFine(results)
  <2>0. ended \subseteq Scenarios /\ early /\ turned /\ whole /\ fine
    BY <1>2 DEF ChainInv, OverallIsEarned
  (* A step after which no command has just ended with 0, or only belt score. *)
  <2>1. ASSUME ended' \subseteq Scenarios, early', turned', UNCHANGED results, whole', phase' # "over"
        PROVE  ChainInv'
    <3>1. GreenIsEarned'
      BY <2>1 DEF GreenIsEarned, Finished
    <3>2. OverallIsEarned'
      BY <2>1 DEF OverallIsEarned
    <3> QED BY <2>0, <2>1, <3>1, <3>2 DEF ChainInv, SplitFine
  <2>2. CASE UNCHANGED chainVars
    <3> USE <2>2 DEF chainVars
    <3>1. GreenIsEarned' = GreenIsEarned
      BY DEF GreenIsEarned, Finished, RealTurns
    <3>2. OverallIsEarned' = OverallIsEarned
      BY DEF OverallIsEarned, OutcomeDirs
    <3>3. turned' = turned /\ fine' = fine /\ early' = early
      BY DEF RealTurns, SplitFine
    <3> QED BY <1>2, <2>0, <3>1, <3>2, <3>3 DEF ChainInv
  <2>3. CASE CheckArguments
    <3>1. /\ command = "eval" /\ results = None /\ UNCHANGED <<command, results, ended>>
          /\ phase' = "run" \/ (phase' = "over" /\ rc' = 1)
      BY <2>0, <2>3 DEF CheckArguments, Exit
    <3>2. GreenIsEarned'
      BY <3>1 DEF GreenIsEarned, Finished
    <3>3. OverallIsEarned'
      BY <3>1 DEF OverallIsEarned
    <3> QED BY <2>0, <3>1, <3>2, <3>3 DEF ChainInv
  <2>4. CASE \E s \in Scenarios : EndScenario(s)
    <3>1. /\ phase = "run" /\ UNCHANGED <<phase, command, results>> /\ results = None
          /\ ended' \subseteq Scenarios
      BY <2>0, <2>4 DEF EndScenario, Running
    <3> QED BY <2>0, <2>1, <3>1
  <2>5. CASE \E code \in {0, 1} : EndRun(code)
    <3>1. phase = "run" /\ phase' = "gate" /\ UNCHANGED <<command, results, ended>> /\ results = None
      BY <2>0, <2>5 DEF EndRun
    <3> QED BY <2>0, <2>1, <3>1
  <2>6. CASE Gate
    <3>1. phase = "gate" /\ UNCHANGED <<command, results, ended, opts, fate>> /\ results = None /\ command = "eval"
      BY <2>0, <2>6 DEF Gate
    <3>2. RealTurns' = RealTurns
      BY <3>1 DEF RealTurns
    <3>3. \/ phase' = "over" /\ (opts.dry \/ rc' # 0)
          \/ phase' = "score" /\ RealTurns # {}
      BY <2>6 DEF Gate, Exit
    <3>4. CASE phase' = "score"
      BY <2>0, <2>1, <3>1, <3>2, <3>3, <3>4
    <3>5. CASE phase' = "over"
      <4>1. GreenIsEarned'
        BY <3>1, <3>3, <3>5 DEF GreenIsEarned, Finished
      <4>2. OverallIsEarned'
        BY <3>1 DEF OverallIsEarned
      <4> QED BY <2>0, <3>1, <3>5, <4>1, <4>2 DEF ChainInv
    <3> QED BY <3>3, <3>4, <3>5
  <2>7. CASE \E s \in Scenarios : ScoreRaises(s) \/ (\E kind \in Kinds : ScoreOne(s, kind))
    <3>1. phase = "score" /\ UNCHANGED <<phase, command, results, ended, opts, fate>>
      BY <2>7 DEF ScoreRaises, ScoreOne
    <3>2. RealTurns' = RealTurns
      BY <3>1 DEF RealTurns
    <3> QED BY <2>0, <2>1, <3>1, <3>2
  <2>8. CASE \E code \in {0, 1} : EndScore(code)
    <3>1. /\ phase = "score" /\ UNCHANGED <<command, results, ended, opts, fate>>
          /\ phase' = IF command = "score" THEN "over" ELSE "aggregate"
      BY <2>8 DEF EndScore, Exit
    <3>2. RealTurns' = RealTurns
      BY <3>1 DEF RealTurns
    <3>3. CASE command = "score"
      <4>1. GreenIsEarned'
        BY <3>1, <3>3 DEF GreenIsEarned, Finished
      <4>2. OverallIsEarned'
        BY <2>0, <3>1, <3>3 DEF OverallIsEarned
      <4> QED BY <2>0, <3>1, <3>3, <4>1, <4>2 DEF ChainInv, SplitFine
    <3>4. CASE command # "score"
      BY <2>0, <2>1, <3>1, <3>2, <3>4
    <3> QED BY <3>3, <3>4
  <2>9. CASE \E exports \in ExportCodes : RunAggregate(exports)
    BY <1>2, <2>9, Aggregates
  <2>10. CASE \E name \in {"score", "aggregate"} : Rerun(name)
    <3>1. /\ phase' \in {"score", "aggregate"} /\ command' = phase'
          /\ UNCHANGED <<results, ended, opts, fate>>
      BY <2>10 DEF Rerun
    <3> QED BY <2>0, <2>1, <3>1
  <2>11. CASE Kill
    <3>1. phase' = "killed" /\ UNCHANGED <<results, ended, opts, fate, command>>
      BY <2>11 DEF Kill
    <3> QED BY <2>0, <2>1, <3>1
  <2>12. CASE WriteStream \/ ReaderStep \/ UNCHANGED evalVars
    BY <2>2, <2>12 DEF WriteStream, ReaderStep, evalVars
  <2> QED
    BY <1>2, <2>3, <2>4, <2>5, <2>6, <2>7, <2>8, <2>9, <2>10, <2>11, <2>12 DEF EvalNext, ChainStep
<1> QED
  BY <1>1, <1>2, PTL DEF EvalSpec

(* belt eval and belt aggregate exit with 0 only for turns that were made, *)
(* scores that are on disk, judges that did not fail and checks within a   *)
(* budget of nothing: whichever scenarios fail, whichever scoring raises   *)
(* or is cut off, however often the commands are run again or killed.      *)
THEOREM GreenIsAlwaysEarned == EvalSpec => []GreenIsEarned
<1>1. ChainInv => GreenIsEarned
  BY DEF ChainInv
<1> QED BY <1>1, ChainFollows, PTL

(* A pass overall is one of every group and every scenario scored.         *)
THEOREM OverallIsAlwaysEarned == EvalSpec => []OverallIsEarned
<1>1. ChainInv => OverallIsEarned
  BY DEF ChainInv
<1> QED BY <1>1, ChainFollows, PTL

(* The numbers of results.json add up, for any number of scenarios and     *)
(* whichever of them the environment kept from being tried or judged.      *)
THEOREM SplitsAlwaysAddUp == EvalSpec => []SplitAddsUp
<1>1. ChainInv => SplitAddsUp
  BY DEF ChainInv, SplitAddsUp, SplitFine
<1> QED BY <1>1, ChainFollows, PTL

-----------------------------------------------------------------------------
(* The numbers.  What the judges said.                                     *)

(* What a judge may have said: of a turn, verdicts on some dimensions.     *)
Spoken(Dims) == UNION {[dims -> Verdicts] : dims \in SUBSET Dims}
Payloads(p, Dims) == p.turns \in Seq(Spoken(Dims))

(* What a verdict counts, and that the failing ones count nothing.         *)
LEMMA RanksAre ==
  ASSUME None \notin Int, None \notin Verdicts
  PROVE  /\ \A v \in Verdicts : WorstOfTurnsRank(v) \in -1..2 /\ (WorstOfTurnsRank(v) <= 0 <=> v \in DefaultFailLevels)
         /\ WorstOfTurnsRank(None) = -1 /\ ScoreRank(None) = -1 /\ None \notin DefaultFailLevels
         /\ \A v : ScoreRank(v) \in -1..2
<1>1. ASSUME NEW v \in Verdicts PROVE WorstOfTurnsRank(v) \in -1..2 /\ (WorstOfTurnsRank(v) <= 0 <=> v \in DefaultFailLevels)
  BY DEF WorstOfTurnsRank, LevelToScore, Verdicts, DefaultFailLevels
<1>2. WorstOfTurnsRank(None) = -1 /\ ScoreRank(None) = -1 /\ None \notin DefaultFailLevels
  BY DEF WorstOfTurnsRank, LevelToScore, ScoreRank, Verdicts, DefaultFailLevels
<1>3. \A v : ScoreRank(v) \in -1..2
  BY DEF ScoreRank
<1> QED BY <1>1, <1>2, <1>3

(* The verdict of a scenario is one of a turn, and none is worse.          *)
Worst(p, d, t) ==
  /\ t \in Voted(p, d) /\ IterLLMVerdicts(p)[d] = p.turns[t][d]
  /\ \A u \in Voted(p, d) : WorstOfTurnsRank(p.turns[t][d]) <= WorstOfTurnsRank(p.turns[u][d])

(* There is such a turn.                                                   *)
LEMMA WorstExists ==
  ASSUME None \notin Int, None \notin Verdicts, NEW Dims, NEW p, Payloads(p, Dims), NEW d \in DimensionsOf(p)
  PROVE  /\ \E t : Worst(p, d, t)
         /\ \A t \in Voted(p, d) : p.turns[t][d] \in Verdicts
<1> DEFINE V == Voted(p, d)
           rank(t) == WorstOfTurnsRank(p.turns[t][d])
           W == {t \in V : \A u \in V : rank(t) <= rank(u)}
<1>1. V \subseteq Nat /\ V # {} /\ \A t \in V : p.turns[t][d] \in Verdicts
  <2>1. p.turns \in Seq(Spoken(Dims)) /\ DOMAIN p.turns = 1..Len(p.turns)
    BY DEF Payloads
  <2>2. V \subseteq Nat
    BY <2>1 DEF Voted
  <2>3. V # {}
    BY DEF Voted, DimensionsOf
  <2>4. ASSUME NEW t \in V PROVE p.turns[t][d] \in Verdicts
    <3>1. t \in DOMAIN p.turns /\ d \in DOMAIN p.turns[t]
      BY DEF Voted
    <3>2. p.turns[t] \in Spoken(Dims)
      BY <2>1, <3>1, ElementOfSeq
    <3>3. PICK dims \in SUBSET Dims : p.turns[t] \in [dims -> Verdicts]
      BY <3>2 DEF Spoken
    <3> QED BY <3>1, <3>3
  <2> QED BY <2>2, <2>3, <2>4
<1>2. \A t \in V : rank(t) \in -1..2
  BY <1>1, RanksAre
<1> HIDE DEF V, rank
<1>3. W # {}
  <2> DEFINE T == {rank(t) + 1 : t \in V}
  <2>1. T \subseteq Nat /\ T # {}
    <3>1. \A t \in V : rank(t) + 1 \in Nat
      <4> TAKE t \in V
      <4>1. \A r \in -1..2 : r + 1 \in Nat
        OBVIOUS
      <4> QED BY <1>2, <4>1
    <3> QED BY <1>1, <3>1
  <2>2. PICK x \in T : \A y \in T : x <= y
    <3> HIDE DEF T
    <3> QED BY <2>1, LeastElement
  <2>3. PICK t \in V : x = rank(t) + 1
    BY <2>2
  <2>4. ASSUME NEW u \in V PROVE rank(t) <= rank(u)
    <3>1. rank(u) + 1 \in T
      OBVIOUS
    <3> HIDE DEF T
    <3>2. rank(t) + 1 <= rank(u) + 1
      BY <2>2, <2>3, <3>1
    <3> QED BY <1>2, <3>2
  <2> QED BY <2>4
<1>4. WorstTurn(p, d) = Min(W)
  BY DEF WorstTurn, V, rank
<1>5. Min(W) \in W
  <2>1. W \subseteq Nat
    BY <1>1
  <2> HIDE DEF W
  <2>2. PICK x \in W : \A y \in W : x <= y
    BY <1>3, <2>1, LeastElement
  <2> QED BY <2>2 DEF Min
<1>6. IterLLMVerdicts(p)[d] = p.turns[Min(W)][d]
  BY <1>4 DEF IterLLMVerdicts
<1> DEFINE t0 == Min(W)
<1>7. t0 \in V /\ \A u \in V : rank(t0) <= rank(u)
  BY <1>5
<1>8. Worst(p, d, t0)
  <2> HIDE DEF t0
  <2>1. t0 \in Voted(p, d) /\ \A u \in Voted(p, d) : WorstOfTurnsRank(p.turns[t0][d]) <= WorstOfTurnsRank(p.turns[u][d])
    BY <1>7 DEF V, rank
  <2>2. IterLLMVerdicts(p)[d] = p.turns[t0][d]
    BY <1>6 DEF t0
  <2> QED BY <2>1, <2>2 DEF Worst
<1>9. \A t \in Voted(p, d) : p.turns[t][d] \in Verdicts
  BY <1>1 DEF V
<1> HIDE DEF t0
<1> QED BY <1>8, <1>9

(* GetLLMScore and VerdictForDim, judge by judge.                          *)
ScoreStep(v, p, d) ==
  IF d \notin DimensionsOf(p) THEN v
  ELSE IF v = None THEN IterLLMVerdicts(p)[d]
  ELSE IF WorstOfTurnsRank(IterLLMVerdicts(p)[d]) < WorstOfTurnsRank(v) THEN IterLLMVerdicts(p)[d] ELSE v

VerdictStep(v, p, d, failOn) ==
  IF d \notin DimensionsOf(p) THEN v
  ELSE IF v = None \/ (IterLLMVerdicts(p)[d] \in failOn /\ v \notin failOn) THEN IterLLMVerdicts(p)[d] ELSE v

(* The score of a scenario is folded over its judges.                      *)
LEMMA ScoreUnfolds ==
  ASSUME NEW s, NEW S, s.judges \in Seq(S), NEW d
  PROVE  \E f : /\ f[0] = None
                /\ \A i \in 1..Len(s.judges) : f[i] = ScoreStep(f[i - 1], s.judges[i], d)
                /\ GetLLMScore(s, d) = f[Len(s.judges)]
<1> DEFINE n == Len(s.judges)
           X == {None} \union {IterLLMVerdicts(s.judges[i])[d] : i \in 1..n}
           step == [i \in 1..n |-> [v \in X |-> ScoreStep(v, s.judges[i], d)]]
           G(g) == [i \in 0..Len(s.judges) |-> IF i = 0 THEN None ELSE ScoreStep(g[i - 1], s.judges[i], d)]
           K == CHOOSE g : g = G(g)
<1>1. n \in Nat
  OBVIOUS
<1>2. step \in [1..n -> [X -> X]]
  <2>1. \A i \in 1..n : \A v \in X : ScoreStep(v, s.judges[i], d) \in X
    <3> TAKE i \in 1..n
    <3> TAKE v \in X
    <3>1. IterLLMVerdicts(s.judges[i])[d] \in X
      OBVIOUS
    <3> HIDE DEF X
    <3> QED BY <3>1 DEF ScoreStep
  <2> HIDE DEF X
  <2> QED BY <2>1
<1>3. PICK f \in [0..n -> X] : Iterate(f, None, n, step)
  <2>1. None \in X
    OBVIOUS
  <2> HIDE DEF n, step, X
  <2> QED BY <1>1, <1>2, <2>1, Iterates
<1>4. f = G(f)
  <2>1. ASSUME NEW i \in 0..n PROVE f[i] = IF i = 0 THEN None ELSE ScoreStep(f[i - 1], s.judges[i], d)
    <3>1. CASE i = 0 BY <3>1, <1>3 DEF Iterate
    <3>2. CASE i # 0
      <4> HIDE DEF X
      <4>1. i \in 1..n /\ i - 1 \in 0..n
        BY <1>1, <3>2
      <4>2. f[i - 1] \in X
        BY <4>1
      <4>3. step[i][f[i - 1]] = ScoreStep(f[i - 1], s.judges[i], d)
        BY <4>1, <4>2
      <4> HIDE DEF step
      <4> QED BY <4>1, <4>3, <1>3, <3>2 DEF Iterate
    <3> QED BY <3>1, <3>2
  <2>2. f = [i \in 0..n |-> f[i]]
    <3> HIDE DEF X, n
    <3> QED OBVIOUS
  <2> QED BY <2>1, <2>2
<1>5. GetLLMScore(s, d) = K[n]
  BY DEF GetLLMScore, ScoreStep
<1>6. \A g : \A i \in 0..n : G(g)[i] = IF i = 0 THEN None ELSE ScoreStep(g[i - 1], s.judges[i], d)
  OBVIOUS
<1> HIDE DEF G
<1>7. K = G(K)
  BY <1>4
<1> HIDE DEF K, n
<1>8. \A i \in 0..n : K[i] = IF i = 0 THEN None ELSE ScoreStep(K[i - 1], s.judges[i], d)
  BY <1>6, <1>7
<1>9. K[0] = None /\ \A i \in 1..n : K[i] = ScoreStep(K[i - 1], s.judges[i], d)
  BY <1>1, <1>8
<1> QED BY <1>5, <1>9 DEF n

(* So is its verdict.                                                      *)
LEMMA VerdictUnfolds ==
  ASSUME NEW s, NEW S, s.judges \in Seq(S), NEW d, NEW failOn
  PROVE  \E f : /\ f[0] = None
                /\ \A i \in 1..Len(s.judges) : f[i] = VerdictStep(f[i - 1], s.judges[i], d, failOn)
                /\ VerdictForDim(s, d, failOn) = f[Len(s.judges)]
<1> DEFINE n == Len(s.judges)
           X == {None} \union {IterLLMVerdicts(s.judges[i])[d] : i \in 1..n}
           step == [i \in 1..n |-> [v \in X |-> VerdictStep(v, s.judges[i], d, failOn)]]
           G(g) == [i \in 0..Len(s.judges) |-> IF i = 0 THEN None ELSE VerdictStep(g[i - 1], s.judges[i], d, failOn)]
           K == CHOOSE g : g = G(g)
<1>1. n \in Nat
  OBVIOUS
<1>2. step \in [1..n -> [X -> X]]
  <2>1. \A i \in 1..n : \A v \in X : VerdictStep(v, s.judges[i], d, failOn) \in X
    <3> TAKE i \in 1..n
    <3> TAKE v \in X
    <3>1. IterLLMVerdicts(s.judges[i])[d] \in X
      OBVIOUS
    <3> HIDE DEF X
    <3> QED BY <3>1 DEF VerdictStep
  <2> HIDE DEF X
  <2> QED BY <2>1
<1>3. PICK f \in [0..n -> X] : Iterate(f, None, n, step)
  <2>1. None \in X
    OBVIOUS
  <2> HIDE DEF n, step, X
  <2> QED BY <1>1, <1>2, <2>1, Iterates
<1>4. f = G(f)
  <2>1. ASSUME NEW i \in 0..n PROVE f[i] = IF i = 0 THEN None ELSE VerdictStep(f[i - 1], s.judges[i], d, failOn)
    <3>1. CASE i = 0 BY <3>1, <1>3 DEF Iterate
    <3>2. CASE i # 0
      <4> HIDE DEF X
      <4>1. i \in 1..n /\ i - 1 \in 0..n
        BY <1>1, <3>2
      <4>2. f[i - 1] \in X
        BY <4>1
      <4>3. step[i][f[i - 1]] = VerdictStep(f[i - 1], s.judges[i], d, failOn)
        BY <4>1, <4>2
      <4> HIDE DEF step
      <4> QED BY <4>1, <4>3, <1>3, <3>2 DEF Iterate
    <3> QED BY <3>1, <3>2
  <2>2. f = [i \in 0..n |-> f[i]]
    <3> HIDE DEF X, n
    <3> QED OBVIOUS
  <2> QED BY <2>1, <2>2
<1>5. VerdictForDim(s, d, failOn) = K[n]
  BY DEF VerdictForDim, VerdictStep
<1>6. \A g : \A i \in 0..n : G(g)[i] = IF i = 0 THEN None ELSE VerdictStep(g[i - 1], s.judges[i], d, failOn)
  OBVIOUS
<1> HIDE DEF G
<1>7. K = G(K)
  BY <1>4
<1> HIDE DEF K, n
<1>8. \A i \in 0..n : K[i] = IF i = 0 THEN None ELSE VerdictStep(K[i - 1], s.judges[i], d, failOn)
  BY <1>6, <1>7
<1>9. K[0] = None /\ \A i \in 1..n : K[i] = VerdictStep(K[i - 1], s.judges[i], d, failOn)
  BY <1>1, <1>8
<1> QED BY <1>5, <1>9 DEF n

WellJudged(s, Dims) == \E P : s.judges \in Seq(P) /\ \A p \in P : Payloads(p, Dims)

(* The verdict of a payload is the worst of its turns, and fails if one    *)
(* does.                                                                   *)
LEMMA VerdictIs ==
  ASSUME None \notin Int, None \notin Verdicts, NEW Dims, NEW p, Payloads(p, Dims), NEW d \in DimensionsOf(p)
  PROVE  /\ IterLLMVerdicts(p)[d] \in Verdicts /\ IterLLMVerdicts(p)[d] # None
         /\ \A t \in Voted(p, d) : WorstOfTurnsRank(IterLLMVerdicts(p)[d]) <= WorstOfTurnsRank(p.turns[t][d])
         /\ IterLLMVerdicts(p)[d] \in DefaultFailLevels <=> \E t \in Voted(p, d) : p.turns[t][d] \in DefaultFailLevels
<1>1. PICK t : Worst(p, d, t)
  BY WorstExists
<1>2. \A u \in Voted(p, d) : p.turns[u][d] \in Verdicts
  BY WorstExists
<1> DEFINE v == IterLLMVerdicts(p)[d]
           x(u) == p.turns[u][d]
<1>3. t \in Voted(p, d) /\ v = x(t) /\ \A u \in Voted(p, d) : WorstOfTurnsRank(v) <= WorstOfTurnsRank(x(u))
  BY <1>1 DEF Worst
<1> HIDE DEF v, x
<1>4. v \in Verdicts /\ v # None /\ \A u \in Voted(p, d) : x(u) \in Verdicts
  BY <1>2, <1>3 DEF x
<1>5. ASSUME NEW u \in Voted(p, d), x(u) \in DefaultFailLevels PROVE v \in DefaultFailLevels
  <2>1. WorstOfTurnsRank(x(u)) <= 0 /\ WorstOfTurnsRank(x(u)) \in -1..2 /\ WorstOfTurnsRank(v) \in -1..2
    BY <1>4, <1>5, RanksAre
  <2>2. WorstOfTurnsRank(v) <= 0
    BY <1>3, <2>1
  <2> QED BY <1>4, <2>2, RanksAre
<1>6. v \in DefaultFailLevels <=> \E u \in Voted(p, d) : x(u) \in DefaultFailLevels
  BY <1>3, <1>5
<1> QED BY <1>3, <1>4, <1>6 DEF v, x

(* The score of a scenario is never better than a turn of a judge.         *)
LEMMA ScoreIsWorst ==
  ASSUME None \notin Int, None \notin Verdicts, NEW Dims, NEW s, WellJudged(s, Dims), NEW d
  PROVE  /\ \A i \in 1..Len(s.judges) : \A t \in Voted(s.judges[i], d) :
              WorstOfTurnsRank(GetLLMScore(s, d)) <= WorstOfTurnsRank(s.judges[i].turns[t][d])
         /\ GetLLMScore(s, d) # None => s.judges # <<>>
<1> DEFINE n == Len(s.judges)
           p(i) == s.judges[i]
           w(i) == IterLLMVerdicts(p(i))[d]
           rank(v) == WorstOfTurnsRank(v)
<1>0. PICK P : s.judges \in Seq(P) /\ \A q \in P : Payloads(q, Dims)
  BY DEF WellJudged
<1>1. PICK f : /\ f[0] = None
               /\ \A i \in 1..n : f[i] = ScoreStep(f[i - 1], p(i), d)
               /\ GetLLMScore(s, d) = f[n]
  BY <1>0, ScoreUnfolds
<1>2. n \in Nat /\ \A i \in 1..n : Payloads(p(i), Dims)
  BY <1>0, LenProperties, ElementOfSeq
<1>3. \A i \in 1..n : d \in DimensionsOf(p(i)) => w(i) \in Verdicts /\ w(i) # None
  BY <1>2, VerdictIs
<1> DEFINE Value == {None} \union Verdicts
           T == {m \in 0..n : /\ f[m] \in Value
                              /\ \A i \in 1..m : d \in DimensionsOf(p(i)) => f[m] # None /\ rank(f[m]) <= rank(w(i))}
<1>4. \A v \in Value : rank(v) \in -1..2
  BY RanksAre
<1> HIDE DEF n, p, w, rank, Value
<1>5. 0 \in T
  BY <1>1, <1>2 DEF Value
<1>6. ASSUME NEW m \in 1..n, m - 1 \in T PROVE m \in T
  <2> DEFINE v == f[m - 1]
             u == f[m]
  <2>1. v \in Value /\ \A i \in 1..(m - 1) : d \in DimensionsOf(p(i)) => v # None /\ rank(v) <= rank(w(i))
    BY <1>6
  <2>2. u = ScoreStep(v, p(m), d) /\ m \in 0..n
    BY <1>1, <1>2
  <2> HIDE DEF u, v
  <2>3. /\ u \in Value
        /\ v # None => u # None /\ rank(u) <= rank(v)
        /\ d \in DimensionsOf(p(m)) => u # None /\ rank(u) <= rank(w(m))
    <3>1. CASE d \notin DimensionsOf(p(m))
      <4>1. u = v
        BY <2>2, <3>1 DEF ScoreStep
      <4> QED BY <1>4, <2>1, <3>1, <4>1
    <3>2. CASE d \in DimensionsOf(p(m))
      <4>1. u = IF v = None THEN w(m) ELSE IF rank(w(m)) < rank(v) THEN w(m) ELSE v
        BY <2>2, <3>2 DEF ScoreStep, w, rank
      <4>2. w(m) \in Verdicts /\ w(m) # None /\ w(m) \in Value
        BY <1>3, <3>2 DEF Value
      <4> QED BY <1>4, <2>1, <4>1, <4>2
    <3> QED BY <3>1, <3>2
  <2>4. ASSUME NEW i \in 1..m, d \in DimensionsOf(p(i)) PROVE u # None /\ rank(u) <= rank(w(i))
    <3>1. CASE i = m
      BY <2>3, <2>4, <3>1
    <3>2. CASE i # m
      <4>1. i \in 1..(m - 1)
        BY <1>2, <3>2
      <4>2. v # None /\ rank(v) <= rank(w(i))
        BY <2>1, <2>4, <4>1
      <4>3. w(i) \in Value
        BY <1>2, <1>3, <2>4 DEF Value
      <4>4. u # None /\ rank(u) <= rank(v)
        BY <2>3, <4>2
      <4> QED BY <1>4, <2>1, <2>3, <4>2, <4>3, <4>4
    <3> QED BY <3>1, <3>2
  <2> QED BY <2>2, <2>3, <2>4 DEF u
<1>7. n \in T
  <2> HIDE DEF T
  <2> QED BY <1>2, <1>5, <1>6, CountUp
<1>8. ASSUME NEW i \in 1..n, NEW t \in Voted(p(i), d) PROVE rank(f[n]) <= rank(p(i).turns[t][d])
  <2>1. d \in DimensionsOf(p(i))
    BY DEF Voted, DimensionsOf
  <2>2. rank(f[n]) <= rank(w(i)) /\ f[n] \in Value
    BY <1>2, <1>7, <2>1
  <2>3. rank(w(i)) <= rank(p(i).turns[t][d])
    BY <1>2, <2>1, VerdictIs DEF rank, w
  <2>4. p(i).turns[t][d] \in Verdicts
    BY <1>2, <2>1, WorstExists
  <2>5. rank(f[n]) \in Int /\ rank(w(i)) \in Int /\ rank(p(i).turns[t][d]) \in Int
    <3>1. w(i) \in Value /\ p(i).turns[t][d] \in Value
      BY <1>3, <2>1, <2>4 DEF Value
    <3> QED BY <1>4, <2>2, <3>1
  <2> QED BY <2>2, <2>3, <2>5
<1>9. f[n] # None => s.judges # <<>>
  BY <1>1 DEF n
<1> QED BY <1>1, <1>8, <1>9 DEF n, p, rank

(* A scenario fails a dimension iff a turn of one of its judges does.      *)
LEMMA VerdictMeans ==
  ASSUME None \notin Int, None \notin Verdicts, NEW Dims, NEW s, WellJudged(s, Dims), NEW d
  PROVE  LET v == VerdictForDim(s, d, DefaultFailLevels)
         IN  /\ v \in DefaultFailLevels <=>
                  \E i \in 1..Len(s.judges) : \E t \in Voted(s.judges[i], d) : s.judges[i].turns[t][d] \in DefaultFailLevels
             /\ v \in DefaultFailLevels => v # None
<1> DEFINE n == Len(s.judges)
           p(i) == s.judges[i]
           w(i) == IterLLMVerdicts(p(i))[d]
           F == DefaultFailLevels
<1>0. PICK P : s.judges \in Seq(P) /\ \A q \in P : Payloads(q, Dims)
  BY DEF WellJudged
<1>1. PICK f : /\ f[0] = None
               /\ \A i \in 1..n : f[i] = VerdictStep(f[i - 1], p(i), d, F)
               /\ VerdictForDim(s, d, F) = f[n]
  BY <1>0, VerdictUnfolds
<1>2. n \in Nat /\ \A i \in 1..n : Payloads(p(i), Dims)
  BY <1>0, LenProperties, ElementOfSeq
<1>3. None \notin F
  BY RanksAre
<1> DEFINE Fails(i) == d \in DimensionsOf(p(i)) /\ w(i) \in F
           T == {m \in 0..n : f[m] \in F <=> \E i \in 1..m : Fails(i)}
<1>4. \A i \in 1..n : Fails(i) <=> \E t \in Voted(p(i), d) : p(i).turns[t][d] \in F
  <2> TAKE i \in 1..n
  <2>1. CASE d \in DimensionsOf(p(i))
    BY <1>2, <2>1, VerdictIs
  <2>2. CASE d \notin DimensionsOf(p(i))
    BY <2>2 DEF Voted, DimensionsOf
  <2> QED BY <2>1, <2>2
<1> HIDE DEF n, p, w, F
<1>5. 0 \in T
  BY <1>1, <1>2, <1>3
<1>6. ASSUME NEW m \in 1..n, m - 1 \in T PROVE m \in T
  <2> DEFINE v == f[m - 1]
             u == f[m]
  <2>1. v \in F <=> \E i \in 1..(m - 1) : Fails(i)
    BY <1>6
  <2>2. u = VerdictStep(v, p(m), d, F) /\ m \in 0..n
    BY <1>1, <1>2
  <2> HIDE DEF u, v
  <2>3. u \in F <=> (v \in F \/ Fails(m))
    BY <1>3, <2>2 DEF VerdictStep, w
  <2> HIDE DEF Fails
  <2>4. (\E i \in 1..m : Fails(i)) <=> ((\E i \in 1..(m - 1) : Fails(i)) \/ Fails(m))
    BY <1>2
  <2> QED BY <2>1, <2>2, <2>3, <2>4 DEF u
<1>7. n \in T
  <2> HIDE DEF T
  <2> QED BY <1>2, <1>5, <1>6, CountUp
<1>8. f[n] \in F <=> \E i \in 1..n : \E t \in Voted(p(i), d) : p(i).turns[t][d] \in F
  BY <1>4, <1>7
<1> QED BY <1>1, <1>3, <1>8 DEF n, p, F

-----------------------------------------------------------------------------
(* Comparing two runs.                                                     *)

(* A difference turned round.                                              *)
LEMMA DeltaTurns ==
  ASSUME None \notin Int, NEW x, NEW y
  PROVE  /\ Delta(x, y) = None <=> Delta(y, x) = None
         /\ Delta(x, y) # None => /\ Delta(x, y) \in Int /\ Delta(y, x) = -Delta(x, y)
                                  /\ x # None /\ y # None
         /\ Delta(x, x) \in {None, 0}
<1>1. ScoreRank(x) \in -1..2 /\ ScoreRank(y) \in -1..2
  BY DEF ScoreRank
<1> QED BY <1>1 DEF Delta

(* A key stands for a score that has it.                                   *)
(* What is compared under a key is a score of the run.                     *)
LEMMA ByKeyIs ==
  ASSUME NEW S, NEW run \in Seq(S), NEW byLeaf, NEW k \in DOMAIN ByKey(run, byLeaf)
  PROVE  \E i \in 1..Len(run) : ByKey(run, byLeaf)[k] = run[i] /\ KeyOf(run[i], byLeaf) = k
<1> DEFINE I == {i \in 1..Len(run) : KeyOf(run[i], byLeaf) = k}
<1>1. DOMAIN run = 1..Len(run) /\ Len(run) \in Nat
  OBVIOUS
<1>2. PICK s \in ToSet(run) : KeyOf(s, byLeaf) = k
  BY DEF ByKey
<1>3. I # {}
  BY <1>1, <1>2 DEF ToSet
<1>4. Max(I) \in I
  <2> DEFINE T == {Len(run) - i : i \in I}
  <2>1. T \subseteq Nat /\ T # {}
    BY <1>1, <1>3
  <2>2. PICK x \in T : \A y \in T : x <= y
    <3> HIDE DEF T
    <3> QED BY <2>1, LeastElement
  <2>3. PICK m \in I : x = Len(run) - m
    BY <2>2
  <2>4. ASSUME NEW i \in I PROVE m >= i
    <3>1. Len(run) - i \in T /\ i \in Nat /\ m \in Nat
      OBVIOUS
    <3> HIDE DEF T, I
    <3>2. Len(run) - m <= Len(run) - i
      BY <2>2, <2>3, <3>1
    <3> QED BY <1>1, <3>1, <3>2
  <2> HIDE DEF I
  <2> QED BY <2>4 DEF Max
<1>5. ByKey(run, byLeaf)[k] = run[Max(I)]
  <2>1. k \in {KeyOf(t, byLeaf) : t \in ToSet(run)}
    BY <1>2
  <2>2. SelectLastInSeq(run, LAMBDA t : KeyOf(t, byLeaf) = k) = Max(I)
    BY <1>3 DEF SelectLastInSeq
  <2> QED BY <2>1, <2>2 DEF ByKey
<1> QED BY <1>4, <1>5

(* Either run may be the first.                                            *)
LEMMA NormalizedTurns ==
  ASSUME NEW a, NEW b
  PROVE  Normalized(a, b) = Normalized(b, a)
<1>1. Normalized(a, b) <=> Normalized(b, a)
  BY DEF Normalized
<1>2. Normalized(a, b) \in BOOLEAN /\ Normalized(b, a) \in BOOLEAN
  BY DEF Normalized
<1> QED BY <1>1, <1>2

(* The verdict of a run on k, in the dimension d.                          *)
Verdict(run, byLeaf, k, d) ==
  IF k \in DOMAIN ByKey(run, byLeaf) THEN GetLLMScore(ByKey(run, byLeaf)[k], d) ELSE None

Compares(c, a, b, N) ==
  c = [k \in DOMAIN ByKey(a, N) \union DOMAIN ByKey(b, N) |->
         [a |-> k \in DOMAIN ByKey(a, N), b |-> k \in DOMAIN ByKey(b, N),
          delta |-> [d \in LLMDims(a) \intersect LLMDims(b) |->
                       Delta(Verdict(a, N, k, d), Verdict(b, N, k, d))]]]

(* Both comparisons are of the same form.                                  *)
LEMMA ComparesAre ==
  ASSUME NEW a, NEW b
  PROVE  Compares(CompareRuns(a, b), a, b, Normalized(a, b)) /\ Compares(CompareRuns(b, a), b, a, Normalized(a, b))
<1>1. \A x, y : Compares(CompareRuns(x, y), x, y, Normalized(x, y))
  BY DEF Compares, CompareRuns, Verdict
<1> QED BY <1>1, NormalizedTurns

(* The answer of AskCompare to any question.                               *)
CompareAnswered(q, r, Scores) ==
  q.a \in Seq(Scores) /\ q.b \in Seq(Scores) /\ r = [ab |-> CompareRuns(q.a, q.b), ba |-> CompareRuns(q.b, q.a)]

(* Whatever two runs are compared: the other way round every difference    *)
(* turns round, none is stated where a run was not judged or from better   *)
(* than the worst turn, and a run does not differ from itself              *)
(* (commands/compare.py).                                                  *)
THEOREM AnyComparisonIsFair ==
  ASSUME None \notin Int, None \notin Verdicts, NEW Dims, NEW Scores, \A s \in Scores : WellJudged(s, Dims),
         asked.family = "compare" => CompareAnswered(asked, answer, Scores)
  PROVE  ComparisonFair
<1> SUFFICES ASSUME asked.family = "compare" PROVE ComparisonFair
  BY DEF ComparisonFair
<1> DEFINE a == asked.a
           b == asked.b
           ab == answer.ab
           ba == answer.ba
           N == Normalized(a, b)
           A == DOMAIN ByKey(a, N)
           B == DOMAIN ByKey(b, N)
           E == LLMDims(a) \intersect LLMDims(b)
           x(k, d) == Verdict(a, N, k, d)
           y(k, d) == Verdict(b, N, k, d)
<1>1. a \in Seq(Scores) /\ b \in Seq(Scores) /\ Compares(ab, a, b, N) /\ Compares(ba, b, a, N)
  BY ComparesAre DEF CompareAnswered
<1> HIDE DEF a, b, ab, ba, N
<1>2. /\ ab = [k \in A \union B |-> [a |-> k \in A, b |-> k \in B, delta |-> [d \in E |-> Delta(x(k, d), y(k, d))]]]
      /\ ba = [k \in A \union B |-> [a |-> k \in B, b |-> k \in A, delta |-> [d \in E |-> Delta(y(k, d), x(k, d))]]]
  <2>1. /\ B \union A = A \union B
        /\ LLMDims(b) \intersect LLMDims(a) = E
    OBVIOUS
  <2>2. ab = [k \in A \union B |-> [a |-> k \in A, b |-> k \in B, delta |-> [d \in E |-> Delta(x(k, d), y(k, d))]]]
    BY <1>1 DEF Compares
  <2>3. ba = [k \in B \union A |-> [a |-> k \in B, b |-> k \in A,
                   delta |-> [d \in LLMDims(b) \intersect LLMDims(a) |-> Delta(y(k, d), x(k, d))]]]
    BY <1>1 DEF Compares
  <2> HIDE DEF A, B, E, x, y
  <2> QED BY <2>1, <2>2, <2>3
<1> HIDE DEF A, B, E, x, y
<1>3. DOMAIN ab = A \union B /\ DOMAIN ba = A \union B
  BY <1>2
<1>4. \A k \in A \union B : /\ DOMAIN ab[k].delta = E /\ DOMAIN ba[k].delta = E
                            /\ ab[k].a = (k \in A) /\ ab[k].b = (k \in B)
                            /\ \A d \in E : ab[k].delta[d] = Delta(x(k, d), y(k, d)) /\ ba[k].delta[d] = Delta(y(k, d), x(k, d))
  BY <1>2
<1>5. \A k \in A \union B : \A d \in E :
        /\ ab[k].delta[d] = None <=> ba[k].delta[d] = None
        /\ ab[k].delta[d] # None => ab[k].delta[d] \in Int /\ ba[k].delta[d] = -ab[k].delta[d]
        /\ a = b /\ ab[k].delta[d] # None => ab[k].delta[d] = 0
  <2> TAKE k \in A \union B
  <2> TAKE d \in E
  <2>1. ab[k].delta[d] = Delta(x(k, d), y(k, d)) /\ ba[k].delta[d] = Delta(y(k, d), x(k, d))
    BY <1>4
  <2>2. a = b => x(k, d) = y(k, d)
    BY DEF x, y
  <2> QED BY <2>1, <2>2, DeltaTurns
<1>6. Regressions(ab) = Improvements(ba)
  <2>1. Cells(ab) = Cells(ba)
    BY <1>3, <1>4 DEF Cells
  <2>2. \A c \in Cells(ab) : (Difference(ab, c) # None /\ Difference(ab, c) < 0) <=> (Difference(ba, c) # None /\ Difference(ba, c) > 0)
    <3> TAKE c \in Cells(ab)
    <3>1. c[1] \in A \union B /\ c[2] \in E
      BY <1>3, <1>4 DEF Cells
    <3>2. Difference(ab, c) = ab[c[1]].delta[c[2]] /\ Difference(ba, c) = ba[c[1]].delta[c[2]]
      BY DEF Difference
    <3> DEFINE u == ab[c[1]].delta[c[2]]
               v == ba[c[1]].delta[c[2]]
    <3>3. (u = None <=> v = None) /\ (u # None => u \in Int /\ v = -u)
      BY <1>5, <3>1
    <3> HIDE DEF u, v
    <3>4. (u # None /\ u < 0) <=> (v # None /\ v > 0)
      BY <3>3
    <3> QED BY <3>2, <3>4 DEF u, v
  <2> QED BY <2>1, <2>2 DEF Regressions, Improvements
<1>7. \A s \in ToSet(a) \union ToSet(b) : NoBetterThanATurn(s)
  <2> TAKE s \in ToSet(a) \union ToSet(b)
  <2>1. s \in Scores
    BY <1>1, LenProperties, ElementOfSeq DEF ToSet
  <2>2. WellJudged(s, Dims)
    BY <2>1
  <2>3. \A i \in 1..Len(s.judges) : \A t \in Voted(s.judges[i], "quality") :
          WorstOfTurnsRank(GetLLMScore(s, "quality")) <= WorstOfTurnsRank(s.judges[i].turns[t]["quality"])
    BY <2>2, ScoreIsWorst
  <2>4. DOMAIN s.judges = 1..Len(s.judges)
    BY <2>2, LenProperties DEF WellJudged
  <2> QED BY <2>3, <2>4 DEF NoBetterThanATurn, ToSet
<1>8. ASSUME ~N, NEW k \in A \union B
      PROVE  /\ ab[k].a <=> \E s \in ToSet(a) : s.key = k
             /\ ab[k].b <=> \E s \in ToSet(b) : s.key = k
             /\ \A d \in E : ab[k].delta[d] # None => Judged(a, k) /\ Judged(b, k)
  <2>1. N = FALSE
    BY <1>8 DEF N, Normalized
  <2>2. ASSUME NEW run \in Seq(Scores), NEW d
        PROVE  /\ DOMAIN ByKey(run, N) = {s.key : s \in ToSet(run)}
               /\ Verdict(run, N, k, d) # None => Judged(run, k)
    <3>1. DOMAIN ByKey(run, N) = {s.key : s \in ToSet(run)}
      BY <2>1 DEF ByKey, KeyOf
    <3>2. ASSUME Verdict(run, N, k, d) # None PROVE Judged(run, k)
      <4> DEFINE s == ByKey(run, N)[k]
      <4>1. k \in DOMAIN ByKey(run, N) /\ GetLLMScore(s, d) # None
        BY <3>2 DEF Verdict
      <4>2. PICK i \in 1..Len(run) : s = run[i] /\ KeyOf(run[i], N) = k
        <5>1. k \in DOMAIN ByKey(run, N)
          BY <4>1
        <5> HIDE DEF s
        <5>2. \E i \in 1..Len(run) : ByKey(run, N)[k] = run[i] /\ KeyOf(run[i], N) = k
          BY <5>1, ByKeyIs
        <5> QED BY <5>2 DEF s
      <4>3. run[i] \in Scores /\ run[i].key = k /\ run[i] \in ToSet(run)
        BY <2>1, <4>2, LenProperties, ElementOfSeq DEF KeyOf, ToSet
      <4>4. run[i].judges # <<>>
        BY <4>1, <4>2, <4>3, ScoreIsWorst
      <4> QED BY <4>3, <4>4 DEF Judged
    <3> QED BY <3>1, <3>2
  <2>3. A = {s.key : s \in ToSet(a)} /\ B = {s.key : s \in ToSet(b)}
    BY <1>1, <2>2 DEF A, B
  <2>4. (ab[k].a <=> \E s \in ToSet(a) : s.key = k) /\ (ab[k].b <=> \E s \in ToSet(b) : s.key = k)
    <3>1. ab[k].a = (k \in A) /\ ab[k].b = (k \in B)
      BY <1>4
    <3>2. (k \in A <=> \E s \in ToSet(a) : s.key = k) /\ (k \in B <=> \E s \in ToSet(b) : s.key = k)
      BY <2>3
    <3> QED BY <3>1, <3>2, Zenon
  <2>5. ASSUME NEW d \in E, ab[k].delta[d] # None PROVE Judged(a, k) /\ Judged(b, k)
    <3>1. x(k, d) # None /\ y(k, d) # None
      BY <1>4, <2>5, DeltaTurns
    <3> QED BY <1>1, <2>2, <3>1 DEF x, y
  <2> QED BY <2>4, <2>5
<1>9. /\ DOMAIN ab = DOMAIN ba
      /\ \A k \in DOMAIN ab : \A d \in DOMAIN ab[k].delta :
           /\ ab[k].delta[d] = None <=> ba[k].delta[d] = None
           /\ ab[k].delta[d] # None => ba[k].delta[d] = -ab[k].delta[d]
           /\ a = b /\ ab[k].delta[d] # None => ab[k].delta[d] = 0
      /\ Regressions(ab) = Improvements(ba)
      /\ \A s \in ToSet(a) \union ToSet(b) : NoBetterThanATurn(s)
      /\ ~N => \A k \in DOMAIN ab :
                 /\ ab[k].a <=> \E s \in ToSet(a) : s.key = k
                 /\ ab[k].b <=> \E s \in ToSet(b) : s.key = k
                 /\ \A d \in DOMAIN ab[k].delta : ab[k].delta[d] # None => Judged(a, k) /\ Judged(b, k)
  BY <1>3, <1>4, <1>5, <1>6, <1>7, <1>8
<1> QED BY <1>9 DEF ComparisonFair, a, b, ab, ba, N

-----------------------------------------------------------------------------
(* Costs.                                                                  *)

(* Sums of one and of two.                                                 *)
LEMMA SumOfOne ==
  ASSUME NEW x \in Nat
  PROVE  SumOf(<<x>>) = x
<1> DEFINE s == <<x>>
<1>0. s \in Seq(Nat)
  OBVIOUS
<1>2. Len(s) = 1 /\ s[1] = x /\ 0 \in 0..0 /\ 0 + 1 = 1
  OBVIOUS
<1> HIDE DEF s
<1>1. PICK f : f[0] = 0 /\ (\A i \in 0..(Len(s) - 1) : f[i + 1] = f[i] + s[i + 1]) /\ SumOf(s) = f[Len(s)]
  BY <1>0, SumUnfolds
<1>3. f[0 + 1] = f[0] + s[0 + 1]
  BY <1>1, <1>2
<1>4. f[1] = x
  BY <1>1, <1>2, <1>3
<1> QED BY <1>1, <1>2, <1>4 DEF s

LEMMA SumOfTwo ==
  ASSUME NEW x \in Nat, NEW y \in Nat
  PROVE  SumOf(<<x, y>>) = x + y
<1> DEFINE s == <<x, y>>
<1>0. s \in Seq(Nat)
  OBVIOUS
<1>2. Len(s) = 2 /\ s[1] = x /\ s[2] = y
  OBVIOUS
<1> HIDE DEF s
<1>1. PICK f : f[0] = 0 /\ (\A i \in 0..(Len(s) - 1) : f[i + 1] = f[i] + s[i + 1]) /\ SumOf(s) = f[Len(s)]
  BY <1>0, SumUnfolds
<1>3. 0 \in 0..(Len(s) - 1) /\ 1 \in 0..(Len(s) - 1) /\ 0 + 1 = 1 /\ 1 + 1 = 2
  BY <1>2
<1>4. f[1] = f[0] + s[1] /\ f[2] = f[1] + s[2]
  BY <1>1, <1>3
<1>5. f[2] = x + y
  BY <1>1, <1>2, <1>4
<1> QED BY <1>1, <1>2, <1>5 DEF s

(* What a scenario adds to the costs.                                      *)
CostOf(o) == IF o.cost = None THEN 0 ELSE o.cost
OutputsOf(s, disk) == IF s.key \in DOMAIN disk THEN LoadTurnOutputs(disk[s.key]) ELSE <<>>
AgentOf(s, disk) == Total(OutputsOf(s, disk), CostOf)
Charged(s, disk) == Some(OutputsOf(s, disk), LAMBDA o : o.cost # None)
SecondsOf(s, disk) == Total(OutputsOf(s, disk), LAMBDA o : o.secs)
TokensOf(s) == Total(s.judges, LAMBDA p : p.tokens)

(* The costs of a run are sums over its scenarios.                         *)
LEMMA CostsAre ==
  ASSUME NEW scores, NEW disk
  PROVE  AggregateCostTiming(scores, disk) =
           [agent |-> Total(scores, LAMBDA s : AgentOf(s, disk)), judge |-> Total(scores, CostOf),
            total |-> Total(scores, LAMBDA s : AgentOf(s, disk)) + Total(scores, CostOf),
            counted |-> Count(scores, LAMBDA s : Charged(s, disk)),
            seconds |-> Total(scores, LAMBDA s : SecondsOf(s, disk)),
            tokens |-> Total(scores, TokensOf)]
BY DEF AggregateCostTiming, AgentOf, CostOf, OutputsOf, Charged, SecondsOf, TokensOf

(* The outputs of a turn, and their costs.                                 *)
Outputs == [state : {"read", "missing", "unreadable"}, error : {None, "unknown"} \union EnvironmentalErrors,
            cost : {None} \union Nat, secs : Nat]

(* A first output that was read is among those loaded.                     *)
LEMMA Loaded ==
  ASSUME NEW t \in Seq(Outputs)
  PROVE  /\ LoadTurnOutputs(t) \in Seq(Outputs)
         /\ t # <<>> /\ t[1].state = "read" => \E k \in 1..Len(LoadTurnOutputs(t)) : LoadTurnOutputs(t)[k] = t[1]
<1> DEFINE I == {i \in 1..Len(t) : t[i].state = "missing"}
           gap == IF I # {} THEN Min(I) ELSE 0
           s == IF gap = 0 THEN t ELSE SubSeq(t, 1, gap - 1)
           read == {o \in ToSet(t) : o.state = "read"}
<1>1. LoadTurnOutputs(t) = Kept(s, read)
  BY DEF LoadTurnOutputs, SelectInSeq
<1>2. I # {} => Min(I) \in I
  <2>1. I \subseteq Nat
    OBVIOUS
  <2> HIDE DEF I
  <2> SUFFICES ASSUME I # {} PROVE Min(I) \in I
    OBVIOUS
  <2>2. PICK x \in I : \A y \in I : x <= y
    BY <2>1, LeastElement
  <2> QED BY <2>2 DEF Min
<1>3. gap \in 0..Len(t) /\ (gap # 0 => t[gap].state = "missing") /\ Len(t) \in Nat
  BY <1>2
<1> HIDE DEF gap, I
<1>4. s \in Seq(Outputs)
  BY <1>3
<1>5. Kept(s, read) \in Seq(Outputs)
  BY <1>4, KeptElements
<1>6. ASSUME t # <<>>, t[1].state = "read" PROVE \E k \in 1..Len(Kept(s, read)) : Kept(s, read)[k] = t[1]
  <2>1. 1 \in DOMAIN t /\ t[1] \in read
    BY <1>6, EmptySeq, LenProperties DEF ToSet
  <2>2. gap # 1
    <3> SUFFICES ASSUME gap = 1 PROVE FALSE
      OBVIOUS
    <3>1. t[gap].state = "missing"
      BY <1>3
    <3>2. t[gap] = t[1]
      OBVIOUS
    <3>3. "read" = "missing"
      BY <1>6, <3>1, <3>2
    <3> QED BY <3>3
  <2>3. 1 \in 1..Len(s) /\ s[1] = t[1]
    <3>1. CASE gap = 0
      BY <2>1, <3>1, LenProperties
    <3>2. CASE gap # 0
      <4>1. gap - 1 \in 1..Len(t)
        BY <1>3, <2>2, <3>2
      <4>2. s = SubSeq(t, 1, gap - 1)
        BY <3>2
      <4> HIDE DEF s
      <4> QED BY <4>1, <4>2
    <3> QED BY <3>1, <3>2
  <2> HIDE DEF s, read
  <2> QED BY <1>4, <2>1, <2>3, KeptElements
<1> QED BY <1>1, <1>5, <1>6

Paid(s) ==
  /\ s.cost \in {None} \union Nat
  /\ \E P : s.judges \in Seq(P) /\ \A p \in P : p.tokens \in Nat

(* The agent of a scenario costs at least what its first turn did.         *)
LEMMA PartsAreNumbers ==
  ASSUME NEW s, Paid(s), NEW disk, s.key \in DOMAIN disk, disk[s.key] \in Seq(Outputs)
  PROVE  /\ AgentOf(s, disk) \in Nat /\ CostOf(s) \in Nat /\ SecondsOf(s, disk) \in Nat /\ TokensOf(s) \in Nat
         /\ LET t == disk[s.key] IN t # <<>> /\ t[1].state = "read" => AgentOf(s, disk) >= CostOf(t[1])
<1> DEFINE t == disk[s.key]
           o == OutputsOf(s, disk)
<1>1. o = LoadTurnOutputs(t) /\ o \in Seq(Outputs)
  BY Loaded DEF OutputsOf
<1> HIDE DEF o
<1>2. DOMAIN o = 1..Len(o) /\ Len(o) \in Nat /\ \A k \in 1..Len(o) : o[k] \in Outputs
  BY <1>1, LenProperties, ElementOfSeq
<1>3. \A k \in 1..Len(o) : CostOf(o[k]) \in Nat /\ o[k].secs \in Nat
  BY <1>2 DEF CostOf, Outputs
<1> DEFINE costs == [k \in 1..Len(o) |-> CostOf(o[k])]
           secs == [k \in 1..Len(o) |-> o[k].secs]
<1>4. costs \in Seq(Nat) /\ Len(costs) = Len(o) /\ secs \in Seq(Nat)
  BY <1>2, <1>3
<1>5. AgentOf(s, disk) = SumOf(costs) /\ SecondsOf(s, disk) = SumOf(secs)
  BY <1>2 DEF AgentOf, SecondsOf, Total, o
<1>6. \A k \in 1..Len(o) : costs[k] = CostOf(o[k])
  OBVIOUS
<1> HIDE DEF costs, secs
<1>7. AgentOf(s, disk) \in Nat /\ SecondsOf(s, disk) \in Nat /\ \A k \in 1..Len(o) : CostOf(o[k]) <= AgentOf(s, disk)
  BY <1>4, <1>5, <1>6, SumIsNat
<1>8. CostOf(s) \in Nat
  BY DEF CostOf, Paid
<1>9. TokensOf(s) \in Nat
  <2>1. PICK P : s.judges \in Seq(P) /\ \A p \in P : p.tokens \in Nat
    BY DEF Paid
  <2> DEFINE tokens == [k \in DOMAIN s.judges |-> s.judges[k].tokens]
  <2>2. DOMAIN s.judges = 1..Len(s.judges) /\ Len(s.judges) \in Nat /\ \A k \in 1..Len(s.judges) : s.judges[k] \in P
    BY <2>1, LenProperties, ElementOfSeq
  <2>3. tokens \in Seq(Nat)
    BY <2>1, <2>2
  <2>4. TokensOf(s) = SumOf(tokens)
    BY DEF TokensOf, Total
  <2> HIDE DEF tokens
  <2> QED BY <2>3, <2>4, SumIsNat
<1>10. ASSUME t # <<>>, t[1].state = "read" PROVE AgentOf(s, disk) >= CostOf(t[1])
  <2>1. PICK k \in 1..Len(o) : o[k] = t[1]
    BY <1>1, <1>10, Loaded
  <2>2. CostOf(t[1]) <= AgentOf(s, disk) /\ CostOf(t[1]) \in Nat
    BY <1>3, <1>7, <2>1
  <2> HIDE DEF t
  <2> QED BY <1>7, <2>2
<1> QED BY <1>7, <1>8, <1>9, <1>10

(* The costs of one scenario, and of two.                                  *)
Costs(c, agent, judge, counted, seconds, tokens) ==
  c = [agent |-> agent, judge |-> judge, total |-> agent + judge, counted |-> counted, seconds |-> seconds, tokens |-> tokens]
Ones(p) == IF p THEN 1 ELSE 0

(* The costs of one scenario, and of two.                                  *)
LEMMA CostsOfOne ==
  ASSUME NEW s, NEW disk, AgentOf(s, disk) \in Nat, CostOf(s) \in Nat, SecondsOf(s, disk) \in Nat, TokensOf(s) \in Nat
  PROVE  Costs(AggregateCostTiming(<<s>>, disk), AgentOf(s, disk), CostOf(s), Ones(Charged(s, disk)),
               SecondsOf(s, disk), TokensOf(s))
<1>1. DOMAIN <<s>> = {1} /\ <<s>>[1] = s
  OBVIOUS
<1>2. \A x : [i \in {1} |-> x] = <<x>>
  OBVIOUS
<1>3. Total(<<s>>, LAMBDA x : AgentOf(x, disk)) = AgentOf(s, disk)
  <2>1. [i \in DOMAIN <<s>> |-> AgentOf(<<s>>[i], disk)] = <<AgentOf(s, disk)>>
    BY <1>1, <1>2
  <2> QED BY <2>1, SumOfOne DEF Total
<1>4. Total(<<s>>, CostOf) = CostOf(s)
  <2>1. [i \in DOMAIN <<s>> |-> CostOf(<<s>>[i])] = <<CostOf(s)>>
    BY <1>1, <1>2
  <2> QED BY <2>1, SumOfOne DEF Total
<1>5. Total(<<s>>, LAMBDA x : SecondsOf(x, disk)) = SecondsOf(s, disk)
  <2>1. [i \in DOMAIN <<s>> |-> SecondsOf(<<s>>[i], disk)] = <<SecondsOf(s, disk)>>
    BY <1>1, <1>2
  <2> QED BY <2>1, SumOfOne DEF Total
<1>6. Total(<<s>>, TokensOf) = TokensOf(s)
  <2>1. [i \in DOMAIN <<s>> |-> TokensOf(<<s>>[i])] = <<TokensOf(s)>>
    BY <1>1, <1>2
  <2> QED BY <2>1, SumOfOne DEF Total
<1>7. Count(<<s>>, LAMBDA x : Charged(x, disk)) = Ones(Charged(s, disk))
  <2>1. {i \in DOMAIN <<s>> : Charged(<<s>>[i], disk)} = IF Charged(s, disk) THEN {1} ELSE {}
    BY <1>1
  <2> QED BY <2>1, FS_EmptySet, FS_Singleton DEF Count, Ones
<1> QED BY <1>3, <1>4, <1>5, <1>6, <1>7, CostsAre DEF Costs

LEMMA CostsOfTwo ==
  ASSUME NEW s, NEW t, NEW disk,
         AgentOf(s, disk) \in Nat, CostOf(s) \in Nat, SecondsOf(s, disk) \in Nat, TokensOf(s) \in Nat,
         AgentOf(t, disk) \in Nat, CostOf(t) \in Nat, SecondsOf(t, disk) \in Nat, TokensOf(t) \in Nat
  PROVE  Costs(AggregateCostTiming(<<s, t>>, disk), AgentOf(s, disk) + AgentOf(t, disk), CostOf(s) + CostOf(t),
               Ones(Charged(s, disk)) + Ones(Charged(t, disk)),
               SecondsOf(s, disk) + SecondsOf(t, disk), TokensOf(s) + TokensOf(t))
<1> DEFINE l == <<s, t>>
<1>1. DOMAIN l = {1, 2} /\ l[1] = s /\ l[2] = t
  OBVIOUS
<1>2. \A x, y : [i \in {1, 2} |-> IF i = 1 THEN x ELSE y] = <<x, y>>
  OBVIOUS
<1> HIDE DEF l
<1>3. Total(l, LAMBDA x : AgentOf(x, disk)) = AgentOf(s, disk) + AgentOf(t, disk)
  <2>1. [i \in DOMAIN l |-> AgentOf(l[i], disk)] = <<AgentOf(s, disk), AgentOf(t, disk)>>
    <3>1. \A i \in {1, 2} : AgentOf(l[i], disk) = IF i = 1 THEN AgentOf(s, disk) ELSE AgentOf(t, disk)
      BY <1>1
    <3> QED BY <1>1, <1>2, <3>1
  <2> QED BY <2>1, SumOfTwo DEF Total
<1>4. Total(l, CostOf) = CostOf(s) + CostOf(t)
  <2>1. [i \in DOMAIN l |-> CostOf(l[i])] = <<CostOf(s), CostOf(t)>>
    <3>1. \A i \in {1, 2} : CostOf(l[i]) = IF i = 1 THEN CostOf(s) ELSE CostOf(t)
      BY <1>1
    <3> QED BY <1>1, <1>2, <3>1
  <2> QED BY <2>1, SumOfTwo DEF Total
<1>5. Total(l, LAMBDA x : SecondsOf(x, disk)) = SecondsOf(s, disk) + SecondsOf(t, disk)
  <2>1. [i \in DOMAIN l |-> SecondsOf(l[i], disk)] = <<SecondsOf(s, disk), SecondsOf(t, disk)>>
    <3>1. \A i \in {1, 2} : SecondsOf(l[i], disk) = IF i = 1 THEN SecondsOf(s, disk) ELSE SecondsOf(t, disk)
      BY <1>1
    <3> QED BY <1>1, <1>2, <3>1
  <2> QED BY <2>1, SumOfTwo DEF Total
<1>6. Total(l, TokensOf) = TokensOf(s) + TokensOf(t)
  <2>1. [i \in DOMAIN l |-> TokensOf(l[i])] = <<TokensOf(s), TokensOf(t)>>
    <3>1. \A i \in {1, 2} : TokensOf(l[i]) = IF i = 1 THEN TokensOf(s) ELSE TokensOf(t)
      BY <1>1
    <3> QED BY <1>1, <1>2, <3>1
  <2> QED BY <2>1, SumOfTwo DEF Total
<1>7. Count(l, LAMBDA x : Charged(x, disk)) = Ones(Charged(s, disk)) + Ones(Charged(t, disk))
  <2> DEFINE one == IF Charged(s, disk) THEN {1} ELSE {}
             two == IF Charged(t, disk) THEN {2} ELSE {}
  <2>1. {i \in DOMAIN l : Charged(l[i], disk)} = one \union two
    BY <1>1
  <2>2. IsFiniteSet(one) /\ IsFiniteSet(two) /\ Cardinality(one) = Ones(Charged(s, disk)) /\ Cardinality(two) = Ones(Charged(t, disk))
    BY FS_EmptySet, FS_Singleton DEF Ones
  <2>3. one \intersect two = {}
    OBVIOUS
  <2> HIDE DEF one, two
  <2>4. Cardinality(one \union two) = Cardinality(one) + Cardinality(two) - Cardinality(one \intersect two)
    BY <2>2, FS_Union
  <2>5. Cardinality(one \intersect two) = 0
    BY <2>3, FS_EmptySet
  <2>6. Cardinality(one) \in Nat /\ Cardinality(two) \in Nat
    BY <2>2, FS_CardinalityType
  <2>7. Cardinality(one \union two) = Ones(Charged(s, disk)) + Ones(Charged(t, disk))
    <3>1. Cardinality(one \union two) = Cardinality(one) + Cardinality(two)
      BY <2>4, <2>5, <2>6
    <3> QED BY <2>2, <3>1
  <2>8. Count(l, LAMBDA x : Charged(x, disk)) = Cardinality({i \in DOMAIN l : Charged(l[i], disk)})
    BY DEF Count
  <2> QED BY <2>1, <2>7, <2>8
<1> QED BY <1>3, <1>4, <1>5, <1>6, <1>7, CostsAre DEF Costs, l

(* The answer of AskCosts to any question.                                 *)
CostsAnswered(q, r, s, t) ==
  /\ q.turns \in [{"a", "b"} -> Seq(Outputs)] /\ Paid(s) /\ Paid(t) /\ s.key = "a" /\ t.key = "b"
  /\ r = [a |-> AggregateCostTiming(<<s>>, q.turns), b |-> AggregateCostTiming(<<t>>, q.turns),
          both |-> AggregateCostTiming(<<s, t>>, q.turns)]

(* Whatever the outputs of two scenarios and their scores: the costs of    *)
(* both are the sums of those of each, and a first turn that was paid is   *)
(* in them (aggregate_cost_timing).                                        *)
THEOREM AnyCostsAddUp ==
  ASSUME NEW s, NEW t, asked.family = "costs" => CostsAnswered(asked, answer, s, t)
  PROVE  CostsAddUp
<1> SUFFICES ASSUME asked.family = "costs" PROVE CostsAddUp
  BY DEF CostsAddUp
<1> DEFINE disk == asked.turns
<1>1. /\ disk \in [{"a", "b"} -> Seq(Outputs)] /\ Paid(s) /\ Paid(t) /\ s.key = "a" /\ t.key = "b"
      /\ answer.a = AggregateCostTiming(<<s>>, disk) /\ answer.b = AggregateCostTiming(<<t>>, disk)
      /\ answer.both = AggregateCostTiming(<<s, t>>, disk)
  BY DEF CostsAnswered
<1>2. s.key \in DOMAIN disk /\ t.key \in DOMAIN disk /\ disk[s.key] \in Seq(Outputs) /\ disk[t.key] \in Seq(Outputs)
  BY <1>1
<1> HIDE DEF disk
<1>3. /\ AgentOf(s, disk) \in Nat /\ CostOf(s) \in Nat /\ SecondsOf(s, disk) \in Nat /\ TokensOf(s) \in Nat
      /\ AgentOf(t, disk) \in Nat /\ CostOf(t) \in Nat /\ SecondsOf(t, disk) \in Nat /\ TokensOf(t) \in Nat
  BY <1>1, <1>2, PartsAreNumbers
<1>4. /\ Costs(answer.a, AgentOf(s, disk), CostOf(s), Ones(Charged(s, disk)), SecondsOf(s, disk), TokensOf(s))
      /\ Costs(answer.b, AgentOf(t, disk), CostOf(t), Ones(Charged(t, disk)), SecondsOf(t, disk), TokensOf(t))
      /\ Costs(answer.both, AgentOf(s, disk) + AgentOf(t, disk), CostOf(s) + CostOf(t),
               Ones(Charged(s, disk)) + Ones(Charged(t, disk)),
               SecondsOf(s, disk) + SecondsOf(t, disk), TokensOf(s) + TokensOf(t))
  BY <1>1, <1>3, CostsOfOne, CostsOfTwo
<1>5. \A f \in DOMAIN answer.both : answer.both[f] = answer.a[f] + answer.b[f]
  BY <1>3, <1>4 DEF Costs
<1>6. ASSUME NEW k \in {"a", "b"}, disk[k] # <<>>, disk[k][1].state = "read", disk[k][1].cost # None
      PROVE  (IF k = "a" THEN answer.a ELSE answer.b).agent >= disk[k][1].cost
  <2>1. CostOf(disk[k][1]) = disk[k][1].cost
    BY <1>6 DEF CostOf
  <2>2. CASE k = "a"
    <3>1. answer.a.agent = AgentOf(s, disk)
      BY <1>4 DEF Costs
    <3>2. AgentOf(s, disk) >= CostOf(disk[s.key][1])
      BY <1>1, <1>2, <1>6, <2>2, PartsAreNumbers
    <3> QED BY <1>1, <2>1, <2>2, <3>1, <3>2
  <2>3. CASE k = "b"
    <3>1. answer.b.agent = AgentOf(t, disk)
      BY <1>4 DEF Costs
    <3>2. AgentOf(t, disk) >= CostOf(disk[t.key][1])
      BY <1>1, <1>2, <1>6, <2>3, PartsAreNumbers
    <3> QED BY <1>1, <2>1, <2>3, <3>1, <3>2
  <2> QED BY <2>2, <2>3
<1> QED BY <1>5, <1>6 DEF CostsAddUp, disk

-----------------------------------------------------------------------------
(* Counting.                                                               *)

(* A set that can be listed, and the list.                                 *)
LEMMA Listed ==
  ASSUME NEW I, IsFiniteSet(I)
  PROVE  LET l == SetToSeq(I)
         IN  /\ l \in [1..Cardinality(I) -> I]
             /\ \A j, k \in 1..Cardinality(I) : l[j] = l[k] => j = k
             /\ \A i \in I : \E k \in 1..Cardinality(I) : l[k] = i
<1> DEFINE n == Cardinality(I)
           l == SetToSeq(I)
<1>1. n \in Nat /\ ExistsBijection(1..n, I)
  BY FS_CardinalityType
<1>2. IsFiniteSet(1..n) /\ Cardinality(1..n) = n
  BY <1>1, FS_Interval
<1>3. \E f \in [1..n -> I] : IsInjective(f)
  <2>1. PICK f \in Bijection(1..n, I) : TRUE
    BY <1>1 DEF ExistsBijection
  <2> QED BY <2>1 DEF Bijection, Injection, IsInjective
<1>4. l \in [1..n -> I] /\ IsInjective(l)
  BY <1>3 DEF SetToSeq
<1> HIDE DEF l, n
<1>5. l \in Injection(1..n, I)
  BY <1>4 DEF Injection, IsInjective
<1>6. l \in Surjection(1..n, I)
  BY <1>2, <1>5, FS_Injection DEF n
<1>7. \A i \in I : \E k \in 1..n : l[k] = i
  BY <1>6 DEF Surjection
<1>8. \A j, k \in 1..n : l[j] = l[k] => j = k
  BY <1>4 DEF IsInjective
<1> QED BY <1>4, <1>7, <1>8 DEF l, n

(* The parts of a set add up to it.                                        *)
LEMMA PartsAddUp ==
  ASSUME NEW I, IsFiniteSet(I), NEW A, \A i \in I : IsFiniteSet(A[i]),
         \A i, j \in I : i # j => A[i] \intersect A[j] = {}
  PROVE  /\ IsFiniteSet(UNION {A[i] : i \in I})
         /\ Cardinality(UNION {A[i] : i \in I}) = SumAll([i \in I |-> Cardinality(A[i])])
<1> DEFINE n == Cardinality(I)
           l == SetToSeq(I)
           F == [i \in I |-> Cardinality(A[i])]
           s == [k \in DOMAIN l |-> F[l[k]]]
<1>1. n \in Nat /\ \A i \in I : Cardinality(A[i]) \in Nat
  BY FS_CardinalityType
<1>2. /\ l \in [1..n -> I] /\ \A j, k \in 1..n : l[j] = l[k] => j = k
      /\ \A i \in I : \E k \in 1..n : l[k] = i
  BY Listed
<1>3. SumAll(F) = SumOf(s)
  BY DEF SumAll
<1> HIDE DEF l, n
<1>4. s \in Seq(Nat) /\ Len(s) = n /\ \A k \in 1..n : s[k] = Cardinality(A[l[k]])
  BY <1>1, <1>2
<1> HIDE DEF s, F
<1>5. PICK f : f[0] = 0 /\ (\A i \in 0..(n - 1) : f[i + 1] = f[i] + s[i + 1]) /\ SumOf(s) = f[n]
  BY <1>4, SumUnfolds
<1> DEFINE U(m) == UNION {A[l[j]] : j \in 1..m}
           T == {m \in 0..n : IsFiniteSet(U(m)) /\ Cardinality(U(m)) = f[m]}
<1>6. 0 \in T
  <2>1. U(0) = {}
    OBVIOUS
  <2> QED BY <1>1, <1>5, <2>1, FS_EmptySet
<1>7. ASSUME NEW m \in 1..n, m - 1 \in T PROVE m \in T
  <2>1. m - 1 \in 0..(n - 1) /\ (m - 1) + 1 = m /\ m \in 0..n /\ l[m] \in I
    BY <1>1, <1>2
  <2>2. f[m] = f[m - 1] + Cardinality(A[l[m]])
    BY <1>4, <1>5, <2>1
  <2>3. IsFiniteSet(U(m - 1)) /\ Cardinality(U(m - 1)) = f[m - 1]
    BY <1>7
  <2>4. U(m) = U(m - 1) \union A[l[m]]
    <3>1. \A j : j \in 1..m <=> j \in 1..(m - 1) \/ j = m
      BY <1>1
    <3> QED BY <3>1
  <2>5. U(m - 1) \intersect A[l[m]] = {}
    <3>1. \A j \in 1..(m - 1) : l[j] \in I /\ l[j] # l[m]
      BY <1>1, <1>2
    <3>2. \A j \in 1..(m - 1) : A[l[j]] \intersect A[l[m]] = {}
      BY <2>1, <3>1
    <3> QED BY <3>2
  <2> HIDE DEF U
  <2>6. IsFiniteSet(A[l[m]])
    BY <2>1
  <2>7. IsFiniteSet(U(m)) /\ Cardinality(U(m)) = Cardinality(U(m - 1)) + Cardinality(A[l[m]]) - Cardinality({})
    BY <2>3, <2>4, <2>5, <2>6, FS_Union
  <2>8. Cardinality({}) = 0 /\ Cardinality(U(m - 1)) \in Nat /\ Cardinality(A[l[m]]) \in Nat
    BY <2>3, <2>6, FS_EmptySet, FS_CardinalityType
  <2>9. Cardinality(U(m)) = f[m]
    BY <2>2, <2>3, <2>7, <2>8
  <2> QED BY <2>1, <2>7, <2>9
<1>8. n \in T
  <2> HIDE DEF T
  <2> QED BY <1>1, <1>6, <1>7, CountUp
<1>9. U(n) = UNION {A[i] : i \in I}
  BY <1>2
<1> HIDE DEF U
<1> QED BY <1>3, <1>5, <1>8, <1>9 DEF F

(* Sets of one size.                                                       *)
LEMMA OneToOne ==
  ASSUME NEW A, NEW B, IsFiniteSet(A), NEW f \in [A -> B],
         \A x, y \in A : f[x] = f[y] => x = y, \A z \in B : \E x \in A : f[x] = z
  PROVE  Cardinality(B) = Cardinality(A)
<1>1. f \in Injection(A, B)
  BY DEF Injection, IsInjective
<1>3. f \in Surjection(A, B)
  BY DEF Surjection
<1>4. f \in Bijection(A, B)
  BY <1>1, <1>3 DEF Bijection
<1>2. ExistsBijection(A, B)
  BY <1>4 DEF ExistsBijection
<1> QED BY <1>2, FS_Bijection

(* A column of places.                                                     *)
LEMMA Column ==
  ASSUME NEW i, NEW col, IsFiniteSet(col)
  PROVE  IsFiniteSet({i} \X col) /\ Cardinality({i} \X col) = Cardinality(col)
<1>1. IsFiniteSet({i}) /\ Cardinality({i}) = 1
  BY FS_Singleton
<1>2. IsFiniteSet({i} \X col) /\ Cardinality({i} \X col) = Cardinality({i}) * Cardinality(col)
  BY <1>1, FS_Product
<1>3. Cardinality(col) \in Nat
  BY FS_CardinalityType
<1> QED BY <1>1, <1>2, <1>3

(* The places Q[x] in the elements x of s.                                 *)
PlacesIn(s, Q) == UNION {{i} \X Q[s[i]] : i \in DOMAIN s}

(* What counts in r counts in s, with the same number.                     *)
SameCounts(r, s, S) ==
  /\ Len(r) = Len(s) /\ ToSet(r) = ToSet(s)
  /\ \A Q \in SUBSET S : Cardinality({i \in DOMAIN r : r[i] \in Q}) = Cardinality({i \in DOMAIN s : s[i] \in Q})
  /\ \A Q : (\A x \in S : IsFiniteSet(Q[x])) => Cardinality(PlacesIn(r, Q)) = Cardinality(PlacesIn(s, Q))

(* In a list turned round everything counts as often.                      *)
LEMMA ReverseCounts ==
  ASSUME NEW S, NEW s \in Seq(S)
  PROVE  SameCounts(s, Reverse(s), S) /\ Reverse(s) \in Seq(S)
<1> DEFINE n == Len(s)
           r == Reverse(s)
           m(i) == (n - i) + 1
<1>1. n \in Nat /\ DOMAIN s = 1..n /\ \A i \in 1..n : s[i] \in S
  OBVIOUS
<1>2. r = [i \in 1..n |-> s[m(i)]]
  BY DEF Reverse
<1> HIDE DEF n, r
<1>3. \A i \in 1..n : m(i) \in 1..n /\ m(m(i)) = i
  BY <1>1
<1>4. \A i \in 1..n : \A j \in 1..n : m(i) = m(j) => i = j
  BY <1>1
<1> HIDE DEF m
<1>5. r \in Seq(S) /\ Len(r) = n /\ DOMAIN r = 1..n /\ \A i \in 1..n : r[i] = s[m(i)] /\ s[i] = r[m(i)]
  BY <1>1, <1>2, <1>3
<1>6. ToSet(s) = ToSet(r)
  BY <1>1, <1>3, <1>5 DEF ToSet
<1>7. IsFiniteSet(1..n)
  BY <1>1, FS_Interval
<1>8. ASSUME NEW Q \in SUBSET S
      PROVE  Cardinality({i \in DOMAIN s : s[i] \in Q}) = Cardinality({i \in DOMAIN r : r[i] \in Q})
  <2> DEFINE A == {i \in 1..n : r[i] \in Q}
             B == {i \in 1..n : s[i] \in Q}
             f == [i \in A |-> m(i)]
  <2>1. IsFiniteSet(A)
    BY <1>7, FS_Subset
  <2>2. f \in [A -> B] /\ (\A x, y \in A : f[x] = f[y] => x = y) /\ \A z \in B : \E x \in A : f[x] = z
    BY <1>3, <1>4, <1>5
  <2> HIDE DEF f, A, B
  <2>3. Cardinality(B) = Cardinality(A)
    BY <2>1, <2>2, OneToOne
  <2> QED BY <1>1, <1>5, <2>3 DEF A, B
<1>9. ASSUME NEW Q, \A x \in S : IsFiniteSet(Q[x])
      PROVE  Cardinality(PlacesIn(s, Q)) = Cardinality(PlacesIn(r, Q))
  <2> DEFINE A == PlacesIn(r, Q)
             B == PlacesIn(s, Q)
             f == [x \in A |-> <<m(x[1]), x[2]>>]
  <2>1. A = UNION {{i} \X Q[r[i]] : i \in 1..n} /\ B = UNION {{i} \X Q[s[i]] : i \in 1..n}
    BY <1>1, <1>5 DEF PlacesIn
  <2>2. \A x : x \in A <=> \E i \in 1..n : \E j \in Q[r[i]] : x = <<i, j>>
    BY <2>1
  <2>3. \A x : x \in B <=> \E i \in 1..n : \E j \in Q[s[i]] : x = <<i, j>>
    BY <2>1
  <2>4. IsFiniteSet(A)
    <3> DEFINE P == {{i} \X Q[r[i]] : i \in 1..n}
               g == [i \in 1..n |-> {i} \X Q[r[i]]]
    <3>1. IsFiniteSet(P)
      <4>1. g \in Surjection(1..n, P)
        BY DEF Surjection
      <4> HIDE DEF g, P
      <4> QED BY <1>7, <4>1, FS_Surjection
    <3>2. \A p \in P : IsFiniteSet(p)
      <4>1. ASSUME NEW i \in 1..n PROVE IsFiniteSet({i} \X Q[r[i]])
        <5>1. r[i] \in S
          BY <1>1, <1>3, <1>5
        <5>2. IsFiniteSet(Q[r[i]])
          BY <1>9, <5>1
        <5> QED BY <5>2, Column
      <4> QED BY <4>1
    <3>3. A = UNION P
      BY <2>1
    <3> HIDE DEF P
    <3> QED BY <3>1, <3>2, <3>3, FS_UNION
  <2> HIDE DEF A, B
  <2>5. \A x \in A : x[1] \in 1..n /\ x = <<x[1], x[2]>> /\ x[2] \in Q[r[x[1]]]
    BY <2>2
  <2>6. f \in [A -> B]
    <3>1. ASSUME NEW x \in A PROVE <<m(x[1]), x[2]>> \in B
      BY <1>3, <1>5, <2>3, <2>5
    <3> QED BY <3>1
  <2>7. ASSUME NEW x \in A, NEW y \in A, f[x] = f[y] PROVE x = y
    <3>1. m(x[1]) = m(y[1]) /\ x[2] = y[2]
      BY <2>7
    <3> QED BY <1>4, <2>5, <3>1
  <2>8. ASSUME NEW z \in B PROVE \E x \in A : f[x] = z
    <3>0. PICK i \in 1..n : \E j \in Q[s[i]] : z = <<i, j>>
      BY <2>3
    <3>1. PICK j \in Q[s[i]] : z = <<i, j>>
      BY <3>0
    <3>2. <<m(i), j>> \in A
      BY <1>3, <1>5, <2>2, <3>1
    <3>3. f[<<m(i), j>>] = z
      BY <1>3, <3>1, <3>2
    <3> QED BY <3>2, <3>3
  <2> HIDE DEF f
  <2>9. Cardinality(B) = Cardinality(A)
    BY <2>4, <2>6, <2>7, <2>8, OneToOne
  <2> QED BY <2>9 DEF A, B
<1> QED BY <1>5, <1>6, <1>8, <1>9 DEF SameCounts, n, r

-----------------------------------------------------------------------------
(* The statistics of a run.                                                *)

(* The places of a score's checks and judges that the statistics count.    *)
CheckOutcomes == {"yes", "no", "skipped"}
OfDim(S, d) == [x \in S |-> {j \in DOMAIN x.checks : x.checks[j].dim = d}]
PassedOfDim(S, d) == [x \in S |-> {j \in DOMAIN x.checks : x.checks[j].dim = d /\ x.checks[j].passed = "yes"}]
AnyCheck(S) == [x \in S |-> {j \in DOMAIN x.checks : TRUE}]
PassedCheck(S) == [x \in S |-> {j \in DOMAIN x.checks : x.checks[j].passed = "yes"}]
Speaks(p, n, d) == p.name = n /\ d \in DimensionsOf(p)
Rows(S, n, d) == [x \in S |-> {j \in DOMAIN x.judges : Speaks(x.judges[j], n, d)}]
RowsOf(S, n, d, v) == [x \in S |-> {j \in DOMAIN x.judges : Speaks(x.judges[j], n, d) /\ IterLLMVerdicts(x.judges[j])[d] = v}]

(* What a score is: its checks had one of three outcomes, and its judges   *)
(* spoke of some dimensions.                                               *)
Checked(x) == \E C : x.checks \in Seq(C) /\ \A c \in C : c.passed \in CheckOutcomes
Scored(x, Dims) == x.pass \in BOOLEAN /\ Checked(x) /\ WellJudged(x, Dims)

(* Nothing that is counted is infinite.                                    *)
LEMMA ScoredFinite ==
  ASSUME NEW S, NEW Dims, \A x \in S : Scored(x, Dims)
  PROVE  \A x \in S : IsFiniteSet(DOMAIN x.checks) /\ IsFiniteSet(DOMAIN x.judges)
<1> TAKE x \in S
<1>1. PICK C : x.checks \in Seq(C)
  BY DEF Scored, Checked
<1>2. PICK P : x.judges \in Seq(P)
  BY DEF Scored, WellJudged
<1>3. \A n \in Nat : IsFiniteSet(1..n)
  BY FS_Interval
<1>4. DOMAIN x.checks = 1..Len(x.checks) /\ Len(x.checks) \in Nat
  BY <1>1
<1>5. DOMAIN x.judges = 1..Len(x.judges) /\ Len(x.judges) \in Nat
  BY <1>2
<1> QED BY <1>3, <1>4, <1>5

LEMMA CountsFinite ==
  ASSUME NEW S, NEW Dims, \A x \in S : Scored(x, Dims)
  PROVE  /\ \A x \in S : IsFiniteSet(AnyCheck(S)[x]) /\ IsFiniteSet(PassedCheck(S)[x])
         /\ \A d : \A x \in S : IsFiniteSet(OfDim(S, d)[x]) /\ IsFiniteSet(PassedOfDim(S, d)[x])
         /\ \A n, d : \A x \in S : IsFiniteSet(Rows(S, n, d)[x])
         /\ \A n, d, v : \A x \in S : IsFiniteSet(RowsOf(S, n, d, v)[x])
<1>1. ASSUME NEW x \in S, NEW A \in SUBSET DOMAIN x.checks PROVE IsFiniteSet(A)
  BY ScoredFinite, FS_Subset
<1>2. ASSUME NEW x \in S, NEW A \in SUBSET DOMAIN x.judges PROVE IsFiniteSet(A)
  BY ScoredFinite, FS_Subset
<1>3. \A x \in S : AnyCheck(S)[x] \subseteq DOMAIN x.checks /\ PassedCheck(S)[x] \subseteq DOMAIN x.checks
  BY DEF AnyCheck, PassedCheck
<1>4. \A d : \A x \in S : OfDim(S, d)[x] \subseteq DOMAIN x.checks /\ PassedOfDim(S, d)[x] \subseteq DOMAIN x.checks
  BY DEF OfDim, PassedOfDim
<1>5. \A n, d : \A x \in S : Rows(S, n, d)[x] \subseteq DOMAIN x.judges
  BY DEF Rows
<1>6. \A n, d, v : \A x \in S : RowsOf(S, n, d, v)[x] \subseteq DOMAIN x.judges
  BY DEF RowsOf
<1> QED BY <1>1, <1>2, <1>3, <1>4, <1>5, <1>6

(* What the statistics of the checks are counted from.                     *)
StatsOf(run, S) ==
  [passed |-> Len(run) - Failed(run), total |-> Len(run),
   rules |-> [d \in {c.dim : c \in UNION {ToSet(s.checks) : s \in ToSet(run)}} |->
                [passed |-> Cardinality(PlacesIn(run, PassedOfDim(S, d))),
                 failed |-> Cardinality(PlacesIn(run, OfDim(S, d))) - Cardinality(PlacesIn(run, PassedOfDim(S, d))),
                 total |-> Cardinality(PlacesIn(run, OfDim(S, d)))]],
   partial |-> IF Cardinality(PlacesIn(run, AnyCheck(S))) = 0 THEN None
               ELSE [passed |-> Cardinality(PlacesIn(run, PassedCheck(S))),
                     total |-> Cardinality(PlacesIn(run, AnyCheck(S)))]]

(* They are what build_stats counts.                                       *)
LEMMA StatsAre ==
  ASSUME NEW S, NEW run \in Seq(S)
  PROVE  BuildStats(run) = StatsOf(run, S)
<1>1. \A i \in DOMAIN run : run[i] \in S
  BY ElementOfSeq
<1>2. \A d : CountAll(run, Checks, LAMBDA c : c.dim = d) = Cardinality(PlacesIn(run, OfDim(S, d)))
  <2> TAKE d
  <2> DEFINE G(i) == {j \in DOMAIN Checks(run[i]) : Checks(run[i])[j].dim = d}
  <2>1. \A i \in DOMAIN run : G(i) = OfDim(S, d)[run[i]]
    BY <1>1 DEF OfDim, Checks
  <2>2. CountAll(run, Checks, LAMBDA c : c.dim = d) = Cardinality(UNION {{i} \X G(i) : i \in DOMAIN run})
    BY DEF CountAll, Places
  <2> HIDE DEF G
  <2> QED BY <2>1, <2>2 DEF PlacesIn
<1>3. \A d : CountAll(run, Checks, LAMBDA c : c.dim = d /\ c.passed = "yes") = Cardinality(PlacesIn(run, PassedOfDim(S, d)))
  <2> TAKE d
  <2> DEFINE G(i) == {j \in DOMAIN Checks(run[i]) : Checks(run[i])[j].dim = d /\ Checks(run[i])[j].passed = "yes"}
  <2>1. \A i \in DOMAIN run : G(i) = PassedOfDim(S, d)[run[i]]
    BY <1>1 DEF PassedOfDim, Checks
  <2>2. CountAll(run, Checks, LAMBDA c : c.dim = d /\ c.passed = "yes") = Cardinality(UNION {{i} \X G(i) : i \in DOMAIN run})
    BY DEF CountAll, Places
  <2> HIDE DEF G
  <2> QED BY <2>1, <2>2 DEF PlacesIn
<1>4. CountAll(run, Checks, LAMBDA c : TRUE) = Cardinality(PlacesIn(run, AnyCheck(S)))
  <2> DEFINE G(i) == {j \in DOMAIN Checks(run[i]) : TRUE}
  <2>1. \A i \in DOMAIN run : G(i) = AnyCheck(S)[run[i]]
    BY <1>1 DEF AnyCheck, Checks
  <2>2. CountAll(run, Checks, LAMBDA c : TRUE) = Cardinality(UNION {{i} \X G(i) : i \in DOMAIN run})
    BY DEF CountAll, Places
  <2> HIDE DEF G
  <2> QED BY <2>1, <2>2 DEF PlacesIn
<1>5. CountAll(run, Checks, LAMBDA c : c.passed = "yes") = Cardinality(PlacesIn(run, PassedCheck(S)))
  <2> DEFINE G(i) == {j \in DOMAIN Checks(run[i]) : Checks(run[i])[j].passed = "yes"}
  <2>1. \A i \in DOMAIN run : G(i) = PassedCheck(S)[run[i]]
    BY <1>1 DEF PassedCheck, Checks
  <2>2. CountAll(run, Checks, LAMBDA c : c.passed = "yes") = Cardinality(UNION {{i} \X G(i) : i \in DOMAIN run})
    BY DEF CountAll, Places
  <2> HIDE DEF G
  <2> QED BY <2>1, <2>2 DEF PlacesIn
<1>6. ComputePartialScore(run) = IF Cardinality(PlacesIn(run, AnyCheck(S))) = 0 THEN None
               ELSE [passed |-> Cardinality(PlacesIn(run, PassedCheck(S))),
                     total |-> Cardinality(PlacesIn(run, AnyCheck(S)))]
  BY <1>4, <1>5 DEF ComputePartialScore
<1> QED BY <1>2, <1>3, <1>6 DEF BuildStats, StatsOf

-----------------------------------------------------------------------------
(* The same scores in another order.                                       *)

(* The histogram counts the rows of the judges.                            *)
LEMMA HistogramIs ==
  ASSUME NEW S, NEW run \in Seq(S), NEW n, NEW d
  PROVE  /\ Histogram(run, n, d).total = Cardinality(PlacesIn(run, Rows(S, n, d)))
         /\ Histogram(run, n, d).verdicts["inconclusive"] = Cardinality(PlacesIn(run, RowsOf(S, n, d, "inconclusive")))
<1> DEFINE H == Histogram(run, n, d)
<1>1. \A i \in DOMAIN run : run[i] \in S
  BY ElementOfSeq
<1>2. H.total = Cardinality(PlacesIn(run, Rows(S, n, d)))
  <2> DEFINE G(i) == {j \in DOMAIN Judges(run[i]) : Judges(run[i])[j].name = n /\ d \in DimensionsOf(Judges(run[i])[j]) /\ TRUE}
  <2>1. \A i \in DOMAIN run : G(i) = Rows(S, n, d)[run[i]]
    BY <1>1 DEF Rows, Speaks, Judges
  <2>2. H.total = CountAll(run, Judges, LAMBDA p : p.name = n /\ d \in DimensionsOf(p) /\ TRUE)
    BY DEF Histogram
  <2>3. H.total = Cardinality(UNION {{i} \X G(i) : i \in DOMAIN run})
    BY <2>2 DEF CountAll, Places
  <2> HIDE DEF G
  <2>4. UNION {{i} \X G(i) : i \in DOMAIN run} = UNION {{i} \X Rows(S, n, d)[run[i]] : i \in DOMAIN run}
    BY <2>1
  <2>5. PlacesIn(run, Rows(S, n, d)) = UNION {{i} \X Rows(S, n, d)[run[i]] : i \in DOMAIN run}
    BY DEF PlacesIn
  <2> HIDE DEF H
  <2> QED BY <2>3, <2>4, <2>5
<1>3. H.verdicts["inconclusive"] = Cardinality(PlacesIn(run, RowsOf(S, n, d, "inconclusive")))
  <2> DEFINE G(i) == {j \in DOMAIN Judges(run[i]) : Judges(run[i])[j].name = n /\ d \in DimensionsOf(Judges(run[i])[j]) /\ IterLLMVerdicts(Judges(run[i])[j])[d] = "inconclusive"}
  <2>1. \A i \in DOMAIN run : G(i) = RowsOf(S, n, d, "inconclusive")[run[i]]
    BY <1>1 DEF RowsOf, Speaks, Judges
  <2>2. H.verdicts["inconclusive"] = CountAll(run, Judges, LAMBDA p : p.name = n /\ d \in DimensionsOf(p) /\ IterLLMVerdicts(p)[d] = "inconclusive")
    BY DEF Histogram, Verdicts
  <2>3. H.verdicts["inconclusive"] = Cardinality(UNION {{i} \X G(i) : i \in DOMAIN run})
    BY <2>2 DEF CountAll, Places
  <2> HIDE DEF G
  <2>4. UNION {{i} \X G(i) : i \in DOMAIN run} = UNION {{i} \X RowsOf(S, n, d, "inconclusive")[run[i]] : i \in DOMAIN run}
    BY <2>1
  <2>5. PlacesIn(run, RowsOf(S, n, d, "inconclusive")) = UNION {{i} \X RowsOf(S, n, d, "inconclusive")[run[i]] : i \in DOMAIN run}
    BY DEF PlacesIn
  <2> HIDE DEF H
  <2> QED BY <2>3, <2>4, <2>5
<1> QED BY <1>2, <1>3

(* What two runs with the same scores, as often, have in common.           *)
LEMMA SameStats ==
  ASSUME NEW S, NEW Dims, \A x \in S : Scored(x, Dims),
         NEW run \in Seq(S), NEW r \in Seq(S), SameCounts(run, r, S)
  PROVE  BuildStats(run) = BuildStats(r)
<1>1. \A Q : (\A x \in S : IsFiniteSet(Q[x])) => Cardinality(PlacesIn(run, Q)) = Cardinality(PlacesIn(r, Q))
  BY DEF SameCounts
<1>2. \A d : Cardinality(PlacesIn(run, OfDim(S, d))) = Cardinality(PlacesIn(r, OfDim(S, d)))
  BY <1>1, CountsFinite
<1>3. \A d : Cardinality(PlacesIn(run, PassedOfDim(S, d))) = Cardinality(PlacesIn(r, PassedOfDim(S, d)))
  BY <1>1, CountsFinite
<1>4. Cardinality(PlacesIn(run, AnyCheck(S))) = Cardinality(PlacesIn(r, AnyCheck(S)))
  BY <1>1, CountsFinite
<1>5. Cardinality(PlacesIn(run, PassedCheck(S))) = Cardinality(PlacesIn(r, PassedCheck(S)))
  BY <1>1, CountsFinite
<1>6. Len(run) = Len(r) /\ ToSet(run) = ToSet(r)
  BY DEF SameCounts
<1>7. Failed(run) = Failed(r)
  <2> DEFINE Q == {x \in S : ~x.pass}
  <2>1. \A i \in DOMAIN run : run[i] \in S
    BY ElementOfSeq
  <2>2. \A i \in DOMAIN r : r[i] \in S
    BY ElementOfSeq
  <2>3. Failed(run) = Cardinality({i \in DOMAIN run : run[i] \in Q})
    BY <2>1 DEF Failed, Count
  <2>4. Failed(r) = Cardinality({i \in DOMAIN r : r[i] \in Q})
    BY <2>2 DEF Failed, Count
  <2>5. Q \in SUBSET S
    OBVIOUS
  <2> HIDE DEF Q
  <2> QED BY <2>3, <2>4, <2>5 DEF SameCounts
<1>8. StatsOf(run, S) = StatsOf(r, S)
  BY <1>2, <1>3, <1>4, <1>5, <1>6, <1>7 DEF StatsOf
<1> QED BY <1>8, StatsAre

(* The statistics, trials, failures and the warning are the same.          *)
LEMMA SameTrials ==
  ASSUME NEW S, NEW run \in Seq(S), NEW r \in Seq(S), SameCounts(run, r, S)
  PROVE  ComputeReliability(run) = ComputeReliability(r)
<1>1. \A i \in DOMAIN run : run[i] \in S
  BY ElementOfSeq
<1>2. \A i \in DOMAIN r : r[i] \in S
  BY ElementOfSeq
<1>3. ToSet(run) = ToSet(r)
  BY DEF SameCounts
<1>4. (\E i \in DOMAIN run : run[i].base # run[i].key) <=> \E i \in DOMAIN r : r[i].base # r[i].key
  <2>1. (\E i \in DOMAIN run : run[i].base # run[i].key) <=> \E x \in ToSet(run) : x.base # x.key
    BY DEF ToSet
  <2>2. (\E i \in DOMAIN r : r[i].base # r[i].key) <=> \E x \in ToSet(r) : x.base # x.key
    BY DEF ToSet
  <2> QED BY <1>3, <2>1, <2>2
<1>5. \A b : Count(run, LAMBDA s : s.base = b) = Count(r, LAMBDA s : s.base = b)
  <2> TAKE b
  <2> DEFINE Q == {x \in S : x.base = b}
  <2>3. Count(run, LAMBDA s : s.base = b) = Cardinality({i \in DOMAIN run : run[i] \in Q})
    BY <1>1 DEF Count
  <2>4. Count(r, LAMBDA s : s.base = b) = Cardinality({i \in DOMAIN r : r[i] \in Q})
    BY <1>2 DEF Count
  <2>5. Q \in SUBSET S
    OBVIOUS
  <2> HIDE DEF Q
  <2> QED BY <2>3, <2>4, <2>5 DEF SameCounts
<1>6. \A b : Count(run, LAMBDA s : s.base = b /\ s.pass) = Count(r, LAMBDA s : s.base = b /\ s.pass)
  <2> TAKE b
  <2> DEFINE Q == {x \in S : x.base = b /\ x.pass}
  <2>3. Count(run, LAMBDA s : s.base = b /\ s.pass) = Cardinality({i \in DOMAIN run : run[i] \in Q})
    BY <1>1 DEF Count
  <2>4. Count(r, LAMBDA s : s.base = b /\ s.pass) = Cardinality({i \in DOMAIN r : r[i] \in Q})
    BY <1>2 DEF Count
  <2>5. Q \in SUBSET S
    OBVIOUS
  <2> HIDE DEF Q
  <2> QED BY <2>3, <2>4, <2>5 DEF SameCounts
<1> DEFINE many(s) == \E i \in DOMAIN s : s[i].base # s[i].key
           some(u, b) == Count(u, LAMBDA s : s.base = b)
           pass(u, b) == Count(u, LAMBDA s : s.base = b /\ s.pass)
           C(s) == IF ~many(s) THEN None ELSE [b \in {x.base : x \in ToSet(s)} |-> [trials |-> some(s, b), passed |-> pass(s, b)]]
<1>7. ComputeReliability(run) = C(run)
  BY DEF ComputeReliability, Some
<1>8. ComputeReliability(r) = C(r)
  BY DEF ComputeReliability, Some
<1>9. many(run) <=> many(r)
  BY <1>4
<1>10. \A b : some(run, b) = some(r, b)
  BY <1>5
<1>11. \A b : pass(run, b) = pass(r, b)
  BY <1>6
<1> HIDE DEF many, some, pass
<1> QED BY <1>3, <1>7, <1>8, <1>9, <1>10, <1>11

LEMMA SameFailures ==
  ASSUME NEW S, NEW run \in Seq(S), NEW r \in Seq(S), SameCounts(run, r, S), NEW thresholds, NEW failOn
  PROVE  Enforce(run, thresholds, failOn) = Enforce(r, thresholds, failOn)
<1>1. \A i \in DOMAIN run : run[i] \in S
  BY ElementOfSeq
<1>2. \A i \in DOMAIN r : r[i] \in S
  BY ElementOfSeq
<1>3. ToSet(run) = ToSet(r)
  BY DEF SameCounts
<1>4. \A d : CountRulesFailures(run, d) = CountRulesFailures(r, d)
  <2> TAKE d
  <2> DEFINE some(s, k) == \E i \in DOMAIN s : s[i].key = k /\ \E j \in DOMAIN s[i].checks : s[i].checks[j].dim = d /\ TRUE
             no(s, k) == \E i \in DOMAIN s : s[i].key = k /\ \E j \in DOMAIN s[i].checks : s[i].checks[j].dim = d /\ s[i].checks[j].passed = "no"
             keys(s) == {x.key : x \in ToSet(s)}
             C(s) == [total |-> Cardinality({k \in keys(s) : some(s, k)}), failed |-> Cardinality({k \in keys(s) : no(s, k)})]
  <2>1. \A k : some(run, k) <=> some(r, k)
    BY <1>3 DEF ToSet
  <2>2. \A k : no(run, k) <=> no(r, k)
    <3> DEFINE bad(x) == \E j \in DOMAIN x.checks : x.checks[j].dim = d /\ x.checks[j].passed = "no"
    <3>1. \A k : (no(run, k) <=> \E i \in DOMAIN run : run[i].key = k /\ bad(run[i])) /\ (no(r, k) <=> \E i \in DOMAIN r : r[i].key = k /\ bad(r[i]))
      OBVIOUS
    <3> HIDE DEF bad, no
    <3>2. \A k : (no(run, k) <=> \E x \in ToSet(run) : x.key = k /\ bad(x)) /\ (no(r, k) <=> \E x \in ToSet(r) : x.key = k /\ bad(x))
      BY <3>1 DEF ToSet
    <3> QED BY <1>3, <3>2
  <2>3. keys(run) = keys(r)
    BY <1>3
  <2>4. CountRulesFailures(run, d) = C(run)
    BY DEF CountRulesFailures, Some
  <2>5. CountRulesFailures(r, d) = C(r)
    BY DEF CountRulesFailures, Some
  <2> HIDE DEF some, no, keys
  <2> QED BY <2>1, <2>2, <2>3, <2>4, <2>5
<1>5. \A d : CountLLMFailures(run, d, failOn) = CountLLMFailures(r, d, failOn)
  <2> TAKE d
  <2> DEFINE Q == {x \in S : VerdictForDim(x, d, failOn) # None}
             F == {x \in S : VerdictForDim(x, d, failOn) \in failOn}
             C(s) == [total |-> Cardinality({i \in DOMAIN s : s[i] \in Q}), failed |-> Cardinality({i \in DOMAIN s : s[i] \in F})]
  <2>1. CountLLMFailures(run, d, failOn) = C(run)
    BY <1>1 DEF CountLLMFailures, Count
  <2>2. CountLLMFailures(r, d, failOn) = C(r)
    BY <1>2 DEF CountLLMFailures, Count
  <2>3. Q \in SUBSET S /\ F \in SUBSET S
    OBVIOUS
  <2> HIDE DEF Q, F
  <2>4. C(run) = C(r)
    BY <2>3 DEF SameCounts
  <2> QED BY <2>1, <2>2, <2>4
<1>6. Enforce(run, thresholds, failOn) <=> Enforce(r, thresholds, failOn)
  BY <1>4, <1>5 DEF Enforce
<1>7. Enforce(run, thresholds, failOn) \in BOOLEAN /\ Enforce(r, thresholds, failOn) \in BOOLEAN
  BY DEF Enforce
<1> QED BY <1>6, <1>7

LEMMA SameWarning ==
  ASSUME NEW S, NEW Dims, \A x \in S : Scored(x, Dims),
         NEW run \in Seq(S), NEW r \in Seq(S), SameCounts(run, r, S), NEW n, NEW d
  PROVE  InconclusiveWarning(Histogram(run, n, d)) = InconclusiveWarning(Histogram(r, n, d))
<1>1. \A Q : (\A x \in S : IsFiniteSet(Q[x])) => Cardinality(PlacesIn(run, Q)) = Cardinality(PlacesIn(r, Q))
  BY DEF SameCounts
<1>2. Cardinality(PlacesIn(run, Rows(S, n, d))) = Cardinality(PlacesIn(r, Rows(S, n, d)))
  BY <1>1, CountsFinite
<1>3. \A v : Cardinality(PlacesIn(run, RowsOf(S, n, d, v))) = Cardinality(PlacesIn(r, RowsOf(S, n, d, v)))
  BY <1>1, CountsFinite
<1>4. Histogram(run, n, d).total = Histogram(r, n, d).total
  BY <1>2, HistogramIs
<1>5. Histogram(run, n, d).verdicts["inconclusive"] = Histogram(r, n, d).verdicts["inconclusive"]
  BY <1>3, HistogramIs
<1> QED BY <1>4, <1>5 DEF InconclusiveWarning

(* The order of the files makes no difference.                             *)
LEMMA TurnedIsSame ==
  ASSUME NEW S, NEW Dims, \A x \in S : Scored(x, Dims), NEW run \in Seq(S), NEW thresholds
  PROVE  Statistics(run, thresholds) = Statistics(Reverse(run), thresholds)
<1> DEFINE r == Reverse(run)
           M == {[t EXCEPT !.pct = @ + 50] : t \in thresholds}
<1>1. r \in Seq(S) /\ SameCounts(run, r, S)
  BY ReverseCounts
<1> HIDE DEF r
<1>2. BuildStats(run) = BuildStats(r)
  BY <1>1, SameStats
<1>3. ComputeReliability(run) = ComputeReliability(r)
  BY <1>1, SameTrials
<1>4. Enforce(run, thresholds, DefaultFailLevels) = Enforce(r, thresholds, DefaultFailLevels)
  BY <1>1, SameFailures
<1>5. Enforce(run, M, DefaultFailLevels) = Enforce(r, M, DefaultFailLevels)
  <2> HIDE DEF M
  <2> QED BY <1>1, SameFailures
<1>6. InconclusiveWarning(Histogram(run, "llm", "quality")) = InconclusiveWarning(Histogram(r, "llm", "quality"))
  <2>1. \A n, d : InconclusiveWarning(Histogram(run, n, d)) = InconclusiveWarning(Histogram(r, n, d))
    BY <1>1, SameWarning
  <2> QED BY <2>1
<1> QED BY <1>2, <1>3, <1>4, <1>5, <1>6 DEF Statistics, r

-----------------------------------------------------------------------------
(* What adds up.                                                           *)

(* The places in a sequence are those in its elements.                     *)
LEMMA PlacesAddUp ==
  ASSUME NEW S, NEW s \in Seq(S), NEW Q, \A x \in S : IsFiniteSet(Q[x]),
         NEW I \in SUBSET DOMAIN s, \A i \in DOMAIN s \ I : Q[s[i]] = {}
  PROVE  /\ IsFiniteSet(PlacesIn(s, Q))
         /\ Cardinality(PlacesIn(s, Q)) = SumAll([i \in I |-> Cardinality(Q[s[i]])])
<1> DEFINE A == [i \in I |-> {i} \X Q[s[i]]]
<1>1. IsFiniteSet(I)
  <2>1. DOMAIN s = 1..Len(s) /\ Len(s) \in Nat
    OBVIOUS
  <2>2. IsFiniteSet(DOMAIN s)
    BY <2>1, FS_Interval
  <2> QED BY <2>2, FS_Subset
<1>2. \A i \in I : IsFiniteSet(Q[s[i]])
  BY ElementOfSeq
<1>3. \A i \in I : A[i] = {i} \X Q[s[i]] /\ IsFiniteSet(A[i]) /\ Cardinality(A[i]) = Cardinality(Q[s[i]])
  BY <1>2, Column
<1>4. \A i, j \in I : i # j => A[i] \intersect A[j] = {}
  OBVIOUS
<1>5. PlacesIn(s, Q) = UNION {A[i] : i \in I}
  <2>1. PlacesIn(s, Q) = UNION {{i} \X Q[s[i]] : i \in I}
    BY DEF PlacesIn
  <2> QED BY <2>1
<1> HIDE DEF A
<1>6. IsFiniteSet(UNION {A[i] : i \in I}) /\ Cardinality(UNION {A[i] : i \in I}) = SumAll([i \in I |-> Cardinality(A[i])])
  <2>1. \A i \in I : IsFiniteSet(A[i])
    BY <1>3
  <2> QED BY <1>1, <1>4, <2>1, PartsAddUp, ZenonT(40)
<1>7. [i \in I |-> Cardinality(A[i])] = [i \in I |-> Cardinality(Q[s[i]])]
  BY <1>3
<1> QED BY <1>5, <1>6, <1>7

(* The statistics of a dimension agree with the feedback per scenario.     *)
OthersOfDim(S, d) == [x \in S |-> {j \in DOMAIN x.checks : x.checks[j].dim = d /\ x.checks[j].passed # "yes"}]
FailedOfDim(S, d) == [x \in S |-> {j \in DOMAIN x.checks : x.checks[j].dim = d /\ x.checks[j].passed = "no"}]
SkippedOfDim(S, d) == [x \in S |-> {j \in DOMAIN x.checks : x.checks[j].dim = d /\ x.checks[j].passed = "skipped"}]

(* The feedback of a scenario counts the places of its checks.             *)
LEMMA FeedbackIs ==
  ASSUME NEW S, NEW Dims, \A x \in S : Scored(x, Dims), NEW x \in S, NEW d \in {c.dim : c \in ToSet(x.checks)}
  PROVE  LET f == RulesFeedback(x.checks)[d]
         IN  /\ f.passed = Cardinality(PassedOfDim(S, d)[x])
             /\ f.failed + f.skipped = Cardinality(OthersOfDim(S, d)[x])
<1> DEFINE f == RulesFeedback(x.checks)[d]
           N == FailedOfDim(S, d)[x]
           K == SkippedOfDim(S, d)[x]
<1>1. f.passed = Cardinality(PassedOfDim(S, d)[x])
  BY DEF RulesFeedback, Count, PassedOfDim
<1>2. f.failed = Cardinality(N)
  BY DEF RulesFeedback, Count, FailedOfDim
<1>3. f.skipped = Cardinality(K)
  BY DEF RulesFeedback, Count, SkippedOfDim
<1>4. IsFiniteSet(N) /\ IsFiniteSet(K)
  <2>1. IsFiniteSet(DOMAIN x.checks)
    BY ScoredFinite
  <2>2. N \subseteq DOMAIN x.checks /\ K \subseteq DOMAIN x.checks
    BY DEF FailedOfDim, SkippedOfDim
  <2> HIDE DEF N, K
  <2> QED BY <2>1, <2>2, FS_Subset
<1>5. N \intersect K = {}
  BY DEF FailedOfDim, SkippedOfDim
<1>6. N \union K = OthersOfDim(S, d)[x]
  <2>1. \A j \in DOMAIN x.checks : x.checks[j].passed \in CheckOutcomes
    <3>1. PICK C : x.checks \in Seq(C) /\ \A c \in C : c.passed \in CheckOutcomes
      BY DEF Scored, Checked
    <3> QED BY <3>1, ElementOfSeq
  <2>2. \A j \in DOMAIN x.checks : x.checks[j].passed # "yes" <=> x.checks[j].passed = "no" \/ x.checks[j].passed = "skipped"
    BY <2>1 DEF CheckOutcomes
  <2> QED BY <2>2 DEF FailedOfDim, SkippedOfDim, OthersOfDim
<1> HIDE DEF f, N, K
<1>7. Cardinality(N \union K) = Cardinality(N) + Cardinality(K)
  <2>1. Cardinality(N \union K) = Cardinality(N) + Cardinality(K) - Cardinality({})
    BY <1>4, <1>5, FS_Union
  <2> QED BY <1>4, <2>1, FS_EmptySet, FS_CardinalityType
<1> QED BY <1>1, <1>2, <1>3, <1>6, <1>7 DEF f

(* What did not pass is what failed or was skipped.                        *)
LEMMA OthersAre ==
  ASSUME NEW S, NEW Dims, \A x \in S : Scored(x, Dims), NEW run \in Seq(S), NEW d
  PROVE  Cardinality(PlacesIn(run, OthersOfDim(S, d))) = Cardinality(PlacesIn(run, OfDim(S, d))) - Cardinality(PlacesIn(run, PassedOfDim(S, d)))
<1> DEFINE A == PlacesIn(run, OfDim(S, d))
           B == PlacesIn(run, PassedOfDim(S, d))
           C == PlacesIn(run, OthersOfDim(S, d))
<1>1. \A i \in DOMAIN run : run[i] \in S
  BY ElementOfSeq
<1>2. \A x \in S : /\ OfDim(S, d)[x] = PassedOfDim(S, d)[x] \union OthersOfDim(S, d)[x]
                   /\ PassedOfDim(S, d)[x] \intersect OthersOfDim(S, d)[x] = {}
  BY DEF OfDim, PassedOfDim, OthersOfDim
<1>3. \A x : x \in A <=> \E i \in DOMAIN run : \E j \in OfDim(S, d)[run[i]] : x = <<i, j>>
  BY DEF PlacesIn
<1>4. \A x : x \in B <=> \E i \in DOMAIN run : \E j \in PassedOfDim(S, d)[run[i]] : x = <<i, j>>
  BY DEF PlacesIn
<1>5. \A x : x \in C <=> \E i \in DOMAIN run : \E j \in OthersOfDim(S, d)[run[i]] : x = <<i, j>>
  BY DEF PlacesIn
<1>6. IsFiniteSet(A)
  <2>1. \A x \in S : IsFiniteSet(OfDim(S, d)[x])
    BY CountsFinite
  <2> DEFINE Q == OfDim(S, d)
  <2> HIDE DEF Q
  <2>2. IsFiniteSet(PlacesIn(run, Q))
    BY <2>1, PlacesAddUp DEF Q
  <2> QED BY <2>2 DEF Q
<1> HIDE DEF A, B, C
<1>7. A = B \union C
  BY <1>1, <1>2, <1>3, <1>4, <1>5
<1>8. B \intersect C = {}
  BY <1>1, <1>2, <1>4, <1>5
<1>9. IsFiniteSet(B) /\ IsFiniteSet(C)
  BY <1>6, <1>7, FS_Subset
<1>10. Cardinality(A) = Cardinality(B) + Cardinality(C) - Cardinality({})
  BY <1>7, <1>8, <1>9, FS_Union
<1> QED BY <1>9, <1>10, FS_EmptySet, FS_CardinalityType DEF A, B, C

(* The rows of a dimension in the feedback.                                *)
RowsIn(run, d) == {j \in DOMAIN run : d \in {c.dim : c \in ToSet(run[j].checks)}}

RowsGive(run, S, d) ==
  /\ Cardinality(PlacesIn(run, PassedOfDim(S, d))) =
       SumAll([i \in RowsIn(run, d) |-> RulesFeedback(run[i].checks)[d].passed])
  /\ Cardinality(PlacesIn(run, OfDim(S, d))) - Cardinality(PlacesIn(run, PassedOfDim(S, d))) =
       SumAll([i \in RowsIn(run, d) |-> RulesFeedback(run[i].checks)[d].failed + RulesFeedback(run[i].checks)[d].skipped])

(* The rows of the feedback add up to the statistics.                      *)
LEMMA RowsAddUp ==
  ASSUME NEW S, NEW Dims, \A x \in S : Scored(x, Dims), NEW run \in Seq(S), NEW d
  PROVE  RowsGive(run, S, d)
<1> DEFINE I == RowsIn(run, d)
           Y == PassedOfDim(S, d)
           N == OthersOfDim(S, d)
<1>1. I \in SUBSET DOMAIN run
  BY DEF RowsIn
<1>2. \A i \in DOMAIN run : run[i] \in S
  BY ElementOfSeq
<1>3. \A x \in S : IsFiniteSet(Y[x]) /\ IsFiniteSet(N[x])
  <2>1. \A x \in S : N[x] \subseteq DOMAIN x.checks
    BY DEF OthersOfDim
  <2>2. \A x \in S : IsFiniteSet(N[x])
    BY <2>1, ScoredFinite, FS_Subset
  <2> QED BY <2>2, CountsFinite
<1>4. \A i \in DOMAIN run \ I : Y[run[i]] = {} /\ N[run[i]] = {}
  <2> TAKE i \in DOMAIN run \ I
  <2>1. \A j \in DOMAIN run[i].checks : run[i].checks[j].dim # d
    BY DEF RowsIn, ToSet
  <2> QED BY <1>2, <2>1 DEF PassedOfDim, OthersOfDim
<1>5. \A i \in I : /\ RulesFeedback(run[i].checks)[d].passed = Cardinality(Y[run[i]])
                   /\ RulesFeedback(run[i].checks)[d].failed + RulesFeedback(run[i].checks)[d].skipped = Cardinality(N[run[i]])
  <2> TAKE i \in I
  <2>1. run[i] \in S /\ d \in {c.dim : c \in ToSet(run[i].checks)}
    BY <1>1, <1>2 DEF RowsIn
  <2> QED BY <2>1, FeedbackIs
<1> HIDE DEF I, Y, N
<1>6. Cardinality(PlacesIn(run, Y)) = SumAll([i \in I |-> Cardinality(Y[run[i]])])
  BY <1>1, <1>3, <1>4, PlacesAddUp
<1>7. Cardinality(PlacesIn(run, N)) = SumAll([i \in I |-> Cardinality(N[run[i]])])
  BY <1>1, <1>3, <1>4, PlacesAddUp
<1>8. [i \in I |-> RulesFeedback(run[i].checks)[d].passed] = [i \in I |-> Cardinality(Y[run[i]])]
  BY <1>5
<1>9. [i \in I |-> RulesFeedback(run[i].checks)[d].failed + RulesFeedback(run[i].checks)[d].skipped] = [i \in I |-> Cardinality(N[run[i]])]
  BY <1>5
<1>10. Cardinality(PlacesIn(run, N)) = Cardinality(PlacesIn(run, OfDim(S, d))) - Cardinality(PlacesIn(run, Y))
  BY OthersAre DEF N, Y
<1> QED BY <1>6, <1>7, <1>8, <1>9, <1>10 DEF RowsGive, I, Y, N

(* The checks of a run are those of its dimensions.                        *)
LEMMA DimsAddUp ==
  ASSUME NEW S, NEW Dims, \A x \in S : Scored(x, Dims), NEW run \in Seq(S)
  PROVE  Cardinality(PlacesIn(run, AnyCheck(S))) =
           SumAll([d \in {c.dim : c \in UNION {ToSet(s.checks) : s \in ToSet(run)}} |-> Cardinality(PlacesIn(run, OfDim(S, d)))])
<1> DEFINE dims == {c.dim : c \in UNION {ToSet(s.checks) : s \in ToSet(run)}}
           P == PlacesIn(run, AnyCheck(S))
           A == [d \in dims |-> PlacesIn(run, OfDim(S, d))]
           dim == [x \in P |-> run[x[1]].checks[x[2]].dim]
<1>1. \A i \in DOMAIN run : run[i] \in S
  BY ElementOfSeq
<1>2. \A x : x \in P <=> \E i \in DOMAIN run : \E j \in DOMAIN run[i].checks : x = <<i, j>>
  <2>1. \A i \in DOMAIN run : AnyCheck(S)[run[i]] = DOMAIN run[i].checks
    BY <1>1 DEF AnyCheck
  <2>2. \A x : x \in P <=> \E i \in DOMAIN run : \E j \in AnyCheck(S)[run[i]] : x = <<i, j>>
    BY DEF PlacesIn
  <2> HIDE DEF P
  <2> QED BY <2>1, <2>2
<1>3. \A d \in dims : \A x : x \in A[d] <=> x \in P /\ dim[x] = d
  <2> TAKE d \in dims
  <2>1. \A x : x \in A[d] <=> \E i \in DOMAIN run : \E j \in OfDim(S, d)[run[i]] : x = <<i, j>>
    BY DEF PlacesIn
  <2>2. \A i \in DOMAIN run : \A j : j \in OfDim(S, d)[run[i]] <=> j \in DOMAIN run[i].checks /\ run[i].checks[j].dim = d
    BY <1>1 DEF OfDim
  <2>3. \A x : x \in A[d] <=> \E i \in DOMAIN run : \E j \in DOMAIN run[i].checks : x = <<i, j>> /\ run[i].checks[j].dim = d
    BY <2>1, <2>2
  <2>4. \A i \in DOMAIN run : \A j \in DOMAIN run[i].checks : <<i, j>> \in P /\ dim[<<i, j>>] = run[i].checks[j].dim
    BY <1>2
  <2> HIDE DEF A, P, dim
  <2> QED BY <1>2, <2>3, <2>4
<1>4. dim \in Surjection(P, dims)
  <2>1. \A x \in P : dim[x] \in dims
    <3> TAKE x \in P
    <3>1. PICK i \in DOMAIN run : \E j \in DOMAIN run[i].checks : x = <<i, j>>
      BY <1>2
    <3>2. PICK j \in DOMAIN run[i].checks : x = <<i, j>>
      BY <3>1
    <3>3. run[i] \in ToSet(run) /\ run[i].checks[j] \in ToSet(run[i].checks)
      BY DEF ToSet
    <3>4. dim[x] = run[i].checks[j].dim
      BY <3>2
    <3> QED BY <3>3, <3>4
  <2>2. ASSUME NEW d \in dims PROVE \E x \in P : dim[x] = d
    <3>1. PICK s \in ToSet(run) : \E c \in ToSet(s.checks) : c.dim = d
      OBVIOUS
    <3>2. PICK i \in DOMAIN run : s = run[i]
      BY DEF ToSet
    <3>3. PICK j \in DOMAIN s.checks : s.checks[j].dim = d
      BY <3>1 DEF ToSet
    <3>4. <<i, j>> \in P
      BY <1>2, <3>2, <3>3
    <3>5. dim[<<i, j>>] = d
      BY <3>2, <3>3, <3>4
    <3> QED BY <3>4, <3>5
  <2>3. dim \in [P -> dims]
    <3> HIDE DEF dims, P
    <3> QED BY <2>1
  <2> HIDE DEF dim, dims, P
  <2> QED BY <2>2, <2>3 DEF Surjection
<1>5. IsFiniteSet(P)
  <2>1. \A x \in S : IsFiniteSet(AnyCheck(S)[x])
    BY CountsFinite
  <2> DEFINE Q == AnyCheck(S)
  <2> HIDE DEF Q
  <2>2. IsFiniteSet(PlacesIn(run, Q))
    BY <2>1, PlacesAddUp DEF Q
  <2> QED BY <2>2 DEF Q
<1>6. A = [d \in dims |-> PlacesIn(run, OfDim(S, d))]
  OBVIOUS
<1> HIDE DEF dims, P, A, dim
<1>7. IsFiniteSet(dims)
  BY <1>4, <1>5, FS_Surjection
<1>8. \A d \in dims : IsFiniteSet(A[d])
  BY <1>3, <1>5, FS_Subset
<1>9. \A d, e \in dims : d # e => A[d] \intersect A[e] = {}
  BY <1>3
<1>10. UNION {A[d] : d \in dims} = P
  BY <1>3, <1>4 DEF Surjection
<1>11. Cardinality(UNION {A[d] : d \in dims}) = SumAll([d \in dims |-> Cardinality(A[d])])
  BY <1>7, <1>8, <1>9, PartsAddUp
<1>12. [d \in dims |-> Cardinality(A[d])] = [d \in dims |-> Cardinality(PlacesIn(run, OfDim(S, d)))]
  BY <1>6
<1> QED BY <1>10, <1>11, <1>12 DEF dims, P

-----------------------------------------------------------------------------
(* Trials.                                                                 *)

(* A power unfolds, one factor at a time.                                  *)
Powers(f, n, k) ==
  /\ f \in [0..k -> Nat] /\ f[0] = 1
  /\ \A i \in 1..k : f[i] = n * f[i - 1]
  /\ Power(n, k) = f[k]

(* There are these partial products.                                       *)
LEMMA PowerUnfolds ==
  ASSUME NEW n \in Nat, NEW k \in Nat
  PROVE  \E f : Powers(f, n, k)
<1> DEFINE step == [i \in 1..k |-> [v \in Nat |-> n * v]]
           G(f) == [i \in 0..k |-> IF i = 0 THEN 1 ELSE n * f[i - 1]]
<1>1. \A v \in Nat : n * v \in Nat
  OBVIOUS
<1>2. 1 \in Nat /\ step \in [1..k -> [Nat -> Nat]]
  BY <1>1
<1>3. PICK f \in [0..k -> Nat] : Iterate(f, 1, k, step)
  <2> HIDE DEF step
  <2> QED BY <1>2, Iterates
<1>4. f = G(f)
  <2>1. ASSUME NEW i \in 0..k PROVE f[i] = G(f)[i]
    <3>1. CASE i = 0 BY <3>1, <1>3 DEF Iterate
    <3>2. CASE i # 0
      <4>1. i \in 1..k /\ i - 1 \in 0..k
        BY <3>2
      <4>2. f[i - 1] \in Nat
        BY <4>1, <1>3
      <4>3. f[i] = step[i][f[i - 1]]
        <5> HIDE DEF step
        <5> QED BY <4>1, <1>3 DEF Iterate
      <4>4. step[i][f[i - 1]] = n * f[i - 1]
        BY <4>1, <4>2
      <4> QED BY <3>2, <4>1, <4>3, <4>4
    <3> QED BY <3>1, <3>2
  <2> QED BY <2>1
<1> DEFINE K == CHOOSE g : g = G(g)
<1>5. K = G(K)
  <2>1. \E g : g = G(g)
    BY <1>4
  <2> HIDE DEF G
  <2> QED BY <2>1
<1>6. Power(n, k) = K[k]
  BY DEF Power
<1>7. \A g : DOMAIN G(g) = 0..k /\ \A i \in 0..k : G(g)[i] = IF i = 0 THEN 1 ELSE n * g[i - 1]
  OBVIOUS
<1>12. \A g : G(g) = [i \in 0..k |-> G(g)[i]]
  OBVIOUS
<1> HIDE DEF K, G
<1>8. \A i \in 0..k : K[i] = IF i = 0 THEN 1 ELSE n * K[i - 1]
  BY <1>5, <1>7
<1>9. K[0] = 1
  BY <1>8
<1>10. ASSUME NEW i \in 1..k PROVE K[i] = n * K[i - 1]
  BY <1>8
<1>11. K \in [0..k -> Nat]
  <2> DEFINE T == {i \in 0..k : K[i] \in Nat}
  <2>1. 0 \in T
    BY <1>9
  <2>2. ASSUME NEW i \in 1..k, i - 1 \in T PROVE i \in T
    BY <1>1, <1>10, <2>2
  <2>3. ASSUME NEW j \in 0..k PROVE K[j] \in Nat
    <3>1. \A i \in 1..j : i - 1 \in T => i \in T
      BY <2>2
    <3>2. j \in Nat
      OBVIOUS
    <3> HIDE DEF T
    <3>3. j \in T
      BY <2>1, <3>1, <3>2, CountUp
    <3> QED BY <3>3 DEF T
  <2>4. K = [i \in 0..k |-> K[i]]
    BY <1>5, <1>12
  <2> QED BY <2>3, <2>4
<1> QED BY <1>6, <1>9, <1>10, <1>11 DEF Powers

(* x^k is at most x * n^(k - 1), and n^k is n * n^(k - 1).                 *)
LEMMA PowersCompare ==
  ASSUME NEW n \in Nat, NEW x \in 0..n, NEW k \in Nat, k > 0
  PROVE  /\ Power(x, k) \in Nat /\ Power(n, k - 1) \in Nat
         /\ Power(x, k) <= x * Power(n, k - 1)
         /\ Power(n, k) = n * Power(n, k - 1)
<1> DEFINE m == k - 1
<1>1. m \in Nat /\ m + 1 = k /\ x \in Nat
  OBVIOUS
<1> HIDE DEF m
<1>2. PICK f : Powers(f, x, k)
  BY <1>1, PowerUnfolds
<1>3. PICK g : Powers(g, n, k)
  BY PowerUnfolds
<1>4. PICK h : Powers(h, n, m)
  BY <1>1, PowerUnfolds
<1>20. f \in [0..k -> Nat] /\ f[0] = 1 /\ (\A i \in 1..k : f[i] = x * f[i - 1]) /\ Power(x, k) = f[k]
  BY <1>2 DEF Powers
<1>21. g \in [0..k -> Nat] /\ g[0] = 1 /\ (\A i \in 1..k : g[i] = n * g[i - 1]) /\ Power(n, k) = g[k]
  BY <1>3 DEF Powers
<1>22. h \in [0..m -> Nat] /\ h[0] = 1 /\ (\A i \in 1..m : h[i] = n * h[i - 1]) /\ Power(n, m) = h[m]
  BY <1>4 DEF Powers
<1>5. g[m] = h[m]
  <2> DEFINE T == {i \in 0..m : g[i] = h[i]}
  <2>1. 0 \in T
    BY <1>1, <1>21, <1>22
  <2>2. \A i \in 1..m : i - 1 \in T => i \in T
    <3> TAKE i \in 1..m
    <3>1. i \in 1..k /\ i \in 0..m
      BY <1>1
    <3> QED BY <1>21, <1>22, <3>1
  <2> HIDE DEF T
  <2>3. m \in T
    BY <1>1, <2>1, <2>2, CountUp
  <2> QED BY <2>3 DEF T
<1>6. f[k] <= x * h[m]
  <2> DEFINE T == {i \in 0..m : f[i + 1] <= x * h[i]}
  <2>1. 0 \in T
    <3>1. 1 \in 1..k /\ f[1] = x * f[0]
      BY <1>1, <1>20
    <3> QED BY <1>1, <1>20, <1>22, <3>1
  <2>2. ASSUME NEW i \in 1..m, i - 1 \in T PROVE i \in T
    <3> DEFINE a == f[i]
               b == h[i - 1]
    <3>1. i \in 0..m /\ i + 1 \in 1..k /\ i \in 0..k /\ i - 1 \in 0..m /\ (i - 1) + 1 = i /\ (i + 1) - 1 = i
      BY <1>1
    <3>2. a \in Nat /\ b \in Nat
      BY <1>20, <1>22, <3>1
    <3>3. a <= x * b
      BY <2>2, <3>1
    <3>4. f[i + 1] = x * a /\ h[i] = n * b
      BY <1>20, <1>22, <3>1
    <3> HIDE DEF a, b
    <3>5. x * b <= n * b
      <4>1. n - x \in Nat
        BY <1>1
      <4>2. (n - x) * b \in Nat
        BY <3>2, <4>1
      <4>3. n * b = x * b + (n - x) * b
        BY <1>1, <3>2
      <4>4. x * b \in Nat /\ n * b \in Nat
        BY <1>1, <3>2
      <4> QED BY <4>2, <4>3, <4>4
    <3>6. a <= n * b /\ n * b \in Nat
      <4>1. x * b \in Nat /\ n * b \in Nat
        BY <1>1, <3>2
      <4> QED BY <3>2, <3>3, <3>5, <4>1
    <3>7. x * a <= x * (n * b)
      <4> DEFINE c == n * b
      <4>0. c \in Nat /\ a <= c
        BY <3>6
      <4> HIDE DEF c
      <4>1. c - a \in Nat
        BY <3>2, <4>0
      <4>2. x * (c - a) \in Nat
        BY <1>1, <4>1
      <4>3. x * c = x * a + x * (c - a)
        BY <1>1, <3>2, <4>0
      <4>4. x * a \in Nat /\ x * c \in Nat
        BY <1>1, <3>2, <4>0
      <4>5. x * a <= x * c
        BY <4>2, <4>3, <4>4
      <4> QED BY <4>5 DEF c
    <3> QED BY <3>1, <3>4, <3>7
  <2> HIDE DEF T
  <2>3. m \in T
    BY <1>1, <2>1, <2>2, CountUp
  <2> QED BY <1>1, <2>3 DEF T
<1>7. g[k] = n * g[m]
  <2>1. k \in 1..k /\ k - 1 = m
    BY <1>1
  <2> QED BY <1>21, <2>1
<1>8. f[k] \in Nat /\ h[m] \in Nat
  BY <1>1, <1>20, <1>22
<1> QED BY <1>20, <1>21, <1>22, <1>5, <1>6, <1>7, <1>8 DEF m

(* pass^k, the pass rate and pass@k, all times trials^k.                   *)
LEMMA PassesInOrder ==
  ASSUME NEW r, r.trials \in Nat, r.passed \in 0..r.trials, NEW k \in Nat, k > 0
  PROVE  LET n == Power(r.trials, k - 1)
         IN  PassPow(r, k) <= r.passed * n /\ r.passed * n <= PassAt(r, k)
<1> DEFINE t == r.trials
           p == r.passed
           n == Power(t, k - 1)
<1> t \in Nat /\ p \in 0..t
  OBVIOUS
<1> HIDE DEF t, p
<1>1. Power(p, k) <= p * n /\ n \in Nat /\ Power(t, k) = t * n
  BY PowersCompare
<1>2. t - p \in 0..t
  OBVIOUS
<1> DEFINE q == t - p
<1>3. Power(q, k) <= q * n /\ Power(q, k) \in Nat
  <2> HIDE DEF q
  <2>1. q \in 0..t
    BY <1>2 DEF q
  <2> QED BY <2>1, PowersCompare
<1> HIDE DEF n
<1>4. t * n = p * n + q * n /\ p * n \in Nat /\ q * n \in Nat
  BY <1>1, <1>2
<1>5. p * n <= Power(t, k) - Power(q, k)
  <2> DEFINE a == Power(q, k)
             b == p * n
             c == q * n
             e == Power(t, k)
  <2>1. a <= c /\ a \in Nat /\ e = b + c /\ b \in Nat /\ c \in Nat
    BY <1>1, <1>3, <1>4
  <2> HIDE DEF a, b, c, e
  <2>2. b <= e - a
    BY <2>1
  <2> QED BY <2>2 DEF a, b, e
<1> QED BY <1>1, <1>5 DEF PassPow, PassAt, n, t, p

(* Every trial is counted once.                                            *)
LEMMA TrialsAddUp ==
  ASSUME NEW S, NEW run \in Seq(S), ComputeReliability(run) # None
  PROVE  LET t == ComputeReliability(run)
         IN  /\ SumAll([b \in DOMAIN t |-> t[b].trials]) = Len(run)
             /\ SumAll([b \in DOMAIN t |-> t[b].passed]) = Len(run) - Failed(run)
             /\ \A b \in DOMAIN t : t[b].trials \in Nat /\ t[b].passed \in 0..t[b].trials
<1> DEFINE t == ComputeReliability(run)
           n == Len(run)
           B == {s.base : s \in ToSet(run)}
           A == [b \in B |-> {i \in 1..n : run[i].base = b}]
           P == [b \in B |-> {i \in 1..n : run[i].base = b /\ run[i].pass}]
           base == [i \in 1..n |-> run[i].base]
<1>1. n \in Nat /\ DOMAIN run = 1..n /\ IsFiniteSet(1..n) /\ Cardinality(1..n) = n
  <2>1. n \in Nat /\ DOMAIN run = 1..n
    OBVIOUS
  <2> HIDE DEF n
  <2> QED BY <2>1, FS_Interval
<1>2. DOMAIN t = B /\ \A b \in B : t[b].trials = Cardinality(A[b]) /\ t[b].passed = Cardinality(P[b])
  <2> DEFINE F == [b \in B |-> [trials |-> Count(run, LAMBDA s : s.base = b), passed |-> Count(run, LAMBDA s : s.base = b /\ s.pass)]]
  <2>1. t = F
    BY DEF ComputeReliability
  <2>2. DOMAIN F = B /\ \A b \in B : F[b].trials = Cardinality(A[b]) /\ F[b].passed = Cardinality(P[b])
    <3>1. \A b \in B : F[b].trials = Cardinality({i \in 1..n : run[i].base = b})
      BY <1>1 DEF Count
    <3>2. \A b \in B : F[b].passed = Cardinality({i \in 1..n : run[i].base = b /\ run[i].pass})
      BY <1>1 DEF Count
    <3> QED BY <3>1, <3>2
  <2> QED BY <2>1, <2>2
<1>3. base \in Surjection(1..n, B)
  <2>1. ToSet(run) = {run[i] : i \in 1..n}
    BY <1>1 DEF ToSet
  <2>2. \A i \in 1..n : base[i] \in B
    BY <2>1
  <2>3. \A b \in B : \E i \in 1..n : base[i] = b
    BY <2>1
  <2> QED BY <2>2, <2>3 DEF Surjection
<1>4. IsFiniteSet(B)
  <2> HIDE DEF B, base, n
  <2> QED BY <1>1, <1>3, FS_Surjection
<1>5. \A b \in B : A[b] \subseteq 1..n /\ P[b] \subseteq A[b]
  OBVIOUS
<1>6. \A b \in B : IsFiniteSet(A[b]) /\ IsFiniteSet(P[b])
  <2> HIDE DEF A, P, n
  <2> QED BY <1>1, <1>5, FS_Subset
<1>7. \A b \in B : /\ Cardinality(A[b]) \in Nat /\ Cardinality(P[b]) \in 0..Cardinality(A[b])
  <2> HIDE DEF A, P, n
  <2>1. \A b \in B : Cardinality(P[b]) <= Cardinality(A[b]) /\ Cardinality(P[b]) \in Nat /\ Cardinality(A[b]) \in Nat
    BY <1>5, <1>6, FS_Subset, FS_CardinalityType
  <2> QED BY <2>1
<1>8. UNION {A[b] : b \in B} = 1..n
  <2>1. \A i \in 1..n : base[i] \in B /\ i \in A[base[i]]
    BY <1>3 DEF Surjection
  <2>2. \A b \in B : A[b] \subseteq 1..n
    BY <1>5
  <2> HIDE DEF A, base, B
  <2> QED BY <2>1, <2>2
<1>9. UNION {P[b] : b \in B} = {i \in 1..n : run[i].pass}
  <2>1. \A i \in 1..n : base[i] \in B /\ (run[i].pass => i \in P[base[i]])
    BY <1>3 DEF Surjection
  <2>2. \A b \in B : P[b] \subseteq {i \in 1..n : run[i].pass}
    OBVIOUS
  <2> HIDE DEF P, base, B
  <2> QED BY <2>1, <2>2
<1>10. \A b, c \in B : b # c => A[b] \intersect A[c] = {} /\ P[b] \intersect P[c] = {}
  OBVIOUS
<1> HIDE DEF A, P, B, n
<1>11. Cardinality(UNION {A[b] : b \in B}) = SumAll([b \in B |-> Cardinality(A[b])])
  <2>1. \A b \in B : IsFiniteSet(A[b])
    BY <1>6
  <2>2. \A b, c \in B : b # c => A[b] \intersect A[c] = {}
    BY <1>10
  <2> QED BY <1>4, <2>1, <2>2, PartsAddUp, ZenonT(40)
<1>12. Cardinality(UNION {P[b] : b \in B}) = SumAll([b \in B |-> Cardinality(P[b])])
  <2>1. \A b \in B : IsFiniteSet(P[b])
    BY <1>6
  <2>2. \A b, c \in B : b # c => P[b] \intersect P[c] = {}
    BY <1>10
  <2> QED BY <1>4, <2>1, <2>2, PartsAddUp, ZenonT(40)
<1>13. Cardinality({i \in 1..n : run[i].pass}) = n - Failed(run)
  <2> DEFINE Y == {i \in 1..n : run[i].pass}
             N == {i \in 1..n : ~run[i].pass}
  <2>1. Failed(run) = Cardinality(N)
    BY <1>1 DEF Failed, Count
  <2>2. Y \union N = 1..n /\ Y \intersect N = {}
    OBVIOUS
  <2> HIDE DEF Y, N
  <2>3. IsFiniteSet(Y) /\ IsFiniteSet(N)
    BY <1>1, <2>2, FS_Subset
  <2>4. n = Cardinality(Y) + Cardinality(N) - Cardinality({})
    <3>1. Cardinality(Y \union N) = Cardinality(Y) + Cardinality(N) - Cardinality(Y \intersect N)
      BY <2>3, FS_Union
    <3> QED BY <1>1, <2>2, <3>1
  <2>5. n = Cardinality(Y) + Cardinality(N) /\ Cardinality(Y) \in Nat /\ Cardinality(N) \in Nat
    BY <2>3, <2>4, FS_EmptySet, FS_CardinalityType
  <2>6. Cardinality(Y) = n - Failed(run)
    BY <2>1, <2>5
  <2> QED BY <2>6 DEF Y
<1>14. [b \in B |-> t[b].trials] = [b \in B |-> Cardinality(A[b])] /\ [b \in B |-> t[b].passed] = [b \in B |-> Cardinality(P[b])]
  BY <1>2
<1>15. SumAll([b \in DOMAIN t |-> t[b].trials]) = n
  BY <1>1, <1>2, <1>8, <1>11, <1>14
<1>16. SumAll([b \in DOMAIN t |-> t[b].passed]) = n - Failed(run)
  BY <1>2, <1>9, <1>12, <1>13, <1>14
<1>17. \A b \in DOMAIN t : t[b].trials \in Nat /\ t[b].passed \in 0..t[b].trials
  BY <1>2, <1>7
<1> QED BY <1>15, <1>16, <1>17 DEF n

-----------------------------------------------------------------------------
(* Thresholds and the warning.                                             *)

(* What the options say.                                                   *)
IsThreshold(t) == t.mode \in {"rules", "llm"} /\ t.pct \in 0..100

(* A threshold that was read is one.                                       *)
LEMMA ThresholdsAre ==
  ASSUME NEW Given, NEW raws \in Seq(Given), ReadThresholds(raws) # None
  PROVE  \A t \in ReadThresholds(raws) : t \in Given /\ IsThreshold(t)
<1> DEFINE parsed == [i \in DOMAIN raws |-> ParseThreshold(raws[i])]
           same(r, q) == r.mode = q.mode /\ r.dim = q.dim
           last == {parsed[i] : i \in {j \in DOMAIN parsed : \A k \in DOMAIN parsed : k > j => ~same(raws[k], raws[j])}}
<1>1. ReadThresholds(raws) = IF (\E i \in DOMAIN parsed : parsed[i] = None) \/ ~ValidateThresholds(last) THEN None ELSE last
  BY DEF ReadThresholds
<1>2. \A t \in last : \E i \in DOMAIN raws : t = parsed[i]
  OBVIOUS
<1>3. DOMAIN parsed = DOMAIN raws
  OBVIOUS
<1>4. \A i \in DOMAIN raws : parsed[i] = ParseThreshold(raws[i])
  OBVIOUS
<1> HIDE DEF parsed, last
<1>5. (\A i \in DOMAIN raws : parsed[i] # None) /\ ValidateThresholds(last) /\ ReadThresholds(raws) = last
  BY <1>1, <1>3
<1>6. ASSUME NEW t \in last PROVE t \in Given /\ IsThreshold(t)
  <2>1. PICK i \in DOMAIN raws : t = parsed[i]
    BY <1>2
  <2>2. t = raws[i] /\ t.pct \in 0..100
    BY <1>4, <1>5, <2>1 DEF ParseThreshold
  <2>3. t.mode \in {"rules", "llm"}
    BY <1>5 DEF ValidateThresholds
  <2>4. raws[i] \in Given
    BY ElementOfSeq
  <2> QED BY <2>2, <2>3, <2>4 DEF IsThreshold
<1> QED BY <1>5, <1>6

(* What a threshold is held against.                                       *)
CountFor(run, t) ==
  IF t.mode = "rules" THEN CountRulesFailures(run, t.dim) ELSE CountLLMFailures(run, t.dim, DefaultFailLevels)
CountMeans(run, t) ==
  LET c == CountFor(run, t)
  IN  /\ c.total \in Nat /\ c.failed \in 0..c.total
      /\ c.failed > 0 <=> \E s \in ToSet(run) : Misses(s, t)
      /\ run # <<>> /\ (\A s \in ToSet(run) : Misses(s, t)) => c.failed = c.total /\ c.total > 0

(* A count of some of A and of some of those, in numbers.                  *)
LEMMA PartsOf ==
  ASSUME NEW A, IsFiniteSet(A), NEW T \in SUBSET A, NEW F \in SUBSET T
  PROVE  /\ Cardinality(T) \in Nat /\ Cardinality(F) \in 0..Cardinality(T)
         /\ Cardinality(F) > 0 <=> F # {}
<1>1. IsFiniteSet(T) /\ IsFiniteSet(F)
  BY FS_Subset
<1>2. Cardinality(T) \in Nat /\ Cardinality(F) \in Nat /\ Cardinality(F) <= Cardinality(T)
  BY <1>1, FS_Subset, FS_CardinalityType
<1>3. Cardinality(F) = 0 <=> F = {}
  BY <1>1, FS_EmptySet
<1> QED BY <1>2, <1>3

(* The scenarios that a rules threshold counts are those with a failed     *)
(* check.                                                                  *)
LEMMA RulesCountMeans ==
  ASSUME NEW S, NEW run \in Seq(S), NEW t, t.mode = "rules"
  PROVE  CountMeans(run, t)
<1> DEFINE d == t.dim
           keys == {s.key : s \in ToSet(run)}
           some(x) == \E j \in DOMAIN x.checks : x.checks[j].dim = d
           no(x) == \E j \in DOMAIN x.checks : x.checks[j].dim = d /\ x.checks[j].passed = "no"
           T == {k \in keys : \E i \in DOMAIN run : run[i].key = k /\ some(run[i])}
           F == {k \in keys : \E i \in DOMAIN run : run[i].key = k /\ no(run[i])}
           n == Len(run)
           key == [i \in 1..n |-> run[i].key]
<1>1. n \in Nat /\ DOMAIN run = 1..n /\ IsFiniteSet(1..n) /\ ToSet(run) = {run[i] : i \in 1..n}
  <2>1. n \in Nat /\ DOMAIN run = 1..n
    OBVIOUS
  <2>2. ToSet(run) = {run[i] : i \in 1..n}
    BY <2>1 DEF ToSet
  <2> HIDE DEF n
  <2> QED BY <2>1, <2>2, FS_Interval
<1>2. IsFiniteSet(keys)
  <2>1. key \in Surjection(1..n, keys)
    <3>1. \A i \in 1..n : key[i] \in keys
      BY <1>1
    <3>2. \A k \in keys : \E i \in 1..n : key[i] = k
      BY <1>1
    <3> QED BY <3>1, <3>2 DEF Surjection
  <2> HIDE DEF key, keys, n
  <2> QED BY <1>1, <2>1, FS_Surjection
<1>3. CountFor(run, t) = [total |-> Cardinality(T), failed |-> Cardinality(F)]
  <2>1. CountFor(run, t) = CountRulesFailures(run, d)
    BY DEF CountFor
  <2>2. CountRulesFailures(run, d) =
          [total |-> Cardinality({k \in keys : \E i \in DOMAIN run : run[i].key = k /\ \E j \in DOMAIN run[i].checks : run[i].checks[j].dim = d /\ TRUE}),
           failed |-> Cardinality(F)]
    BY DEF CountRulesFailures, Some
  <2> QED BY <2>1, <2>2
<1>4. \A s : Misses(s, t) <=> no(s)
  BY DEF Misses, ToSet
<1>5. \A x : no(x) => some(x)
  OBVIOUS
<1> HIDE DEF no, some
<1>6. T \in SUBSET keys /\ F \in SUBSET T
  BY <1>5
<1>7. F # {} <=> \E s \in ToSet(run) : Misses(s, t)
  BY <1>1, <1>4
<1>8. ASSUME run # <<>>, \A s \in ToSet(run) : Misses(s, t) PROVE F = T /\ T # {}
  <2>1. n > 0
    BY <1>8
  <2>2. 1 \in 1..n /\ run[1].key \in keys
    BY <1>1, <2>1
  <2>3. \A k \in keys : k \in F
    BY <1>1, <1>4, <1>8
  <2> HIDE DEF keys, F, T
  <2> QED BY <1>6, <2>2, <2>3
<1> HIDE DEF T, F, keys
<1>9. /\ Cardinality(T) \in Nat /\ Cardinality(F) \in 0..Cardinality(T)
      /\ Cardinality(F) > 0 <=> F # {}
  BY <1>2, <1>6, PartsOf
<1>10. CountFor(run, t).total = Cardinality(T) /\ CountFor(run, t).failed = Cardinality(F)
  BY <1>3
<1> QED BY <1>7, <1>8, <1>9, <1>10 DEF CountMeans

(* Those of an LLM threshold are those with a failing turn.                *)
LEMMA LLMCountMeans ==
  ASSUME None \notin Int, None \notin Verdicts,
         NEW S, NEW Dims, \A x \in S : Scored(x, Dims), NEW run \in Seq(S), NEW t, t.mode # "rules"
  PROVE  CountMeans(run, t)
<1> DEFINE d == t.dim
           n == Len(run)
           v(s) == VerdictForDim(s, d, DefaultFailLevels)
           T == {i \in DOMAIN run : v(run[i]) # None}
           F == {i \in DOMAIN run : v(run[i]) \in DefaultFailLevels}
<1>1. n \in Nat /\ DOMAIN run = 1..n /\ IsFiniteSet(DOMAIN run) /\ \A i \in 1..n : run[i] \in S
  <2>1. n \in Nat /\ DOMAIN run = 1..n
    OBVIOUS
  <2>2. \A i \in 1..n : run[i] \in S
    BY ElementOfSeq
  <2>3. IsFiniteSet(1..n)
    <3> HIDE DEF n
    <3> QED BY <2>1, FS_Interval
  <2> QED BY <2>1, <2>2, <2>3
<1>2. ToSet(run) = {run[i] : i \in 1..n}
  BY <1>1 DEF ToSet
<1>3. CountFor(run, t) = [total |-> Cardinality(T), failed |-> Cardinality(F)]
  BY DEF CountFor, CountLLMFailures, Count
<1>4. ASSUME NEW s \in S PROVE (v(s) \in DefaultFailLevels <=> Misses(s, t)) /\ (v(s) \in DefaultFailLevels => v(s) # None)
  <2>1. WellJudged(s, Dims)
    BY DEF Scored
  <2>2. /\ v(s) \in DefaultFailLevels <=>
             \E i \in 1..Len(s.judges) : \E u \in Voted(s.judges[i], d) : s.judges[i].turns[u][d] \in DefaultFailLevels
        /\ v(s) \in DefaultFailLevels => v(s) # None
    BY <2>1, VerdictMeans
  <2>3. PICK P : s.judges \in Seq(P)
    BY <2>1 DEF WellJudged
  <2>4. DOMAIN s.judges = 1..Len(s.judges)
    BY <2>3
  <2>5. Misses(s, t) <=> \E p \in ToSet(s.judges) : \E u \in Voted(p, d) : p.turns[u][d] \in DefaultFailLevels
    BY DEF Misses, Voted
  <2>6. ToSet(s.judges) = {s.judges[i] : i \in 1..Len(s.judges)}
    BY <2>4 DEF ToSet
  <2> HIDE DEF v
  <2> QED BY <2>2, <2>5, <2>6
<1> HIDE DEF v, n
<1>5. T \in SUBSET DOMAIN run /\ F \in SUBSET T
  BY <1>1, <1>4
<1>6. F # {} <=> \E s \in ToSet(run) : Misses(s, t)
  BY <1>1, <1>2, <1>4
<1>7. ASSUME run # <<>>, \A s \in ToSet(run) : Misses(s, t) PROVE F = T /\ T # {}
  <2>1. 1 \in DOMAIN run
    <3>1. n > 0
      BY <1>7 DEF n
    <3> QED BY <1>1, <3>1
  <2>2. \A i \in DOMAIN run : i \in F
    BY <1>1, <1>2, <1>4, <1>7
  <2> HIDE DEF F, T
  <2> QED BY <1>5, <2>1, <2>2
<1> HIDE DEF T, F
<1>8. /\ Cardinality(T) \in Nat /\ Cardinality(F) \in 0..Cardinality(T)
      /\ Cardinality(F) > 0 <=> F # {}
  BY <1>1, <1>5, PartsOf
<1>9. CountFor(run, t).total = Cardinality(T) /\ CountFor(run, t).failed = Cardinality(F)
  BY <1>3
<1> QED BY <1>6, <1>7, <1>8, <1>9 DEF CountMeans

(* A threshold is kept by what the scenarios say.                          *)
ThresholdsMean(run, T) ==
  LET kept == Enforce(run, T, DefaultFailLevels)
      more == Enforce(run, {[t EXCEPT !.pct = @ + 50] : t \in T}, DefaultFailLevels)
  IN  /\ kept => more
      /\ \A t \in T : /\ t.pct = 0 /\ kept => \A s \in ToSet(run) : ~Misses(s, t)
                      /\ t.pct < 100 /\ run # <<>> /\ (\A s \in ToSet(run) : Misses(s, t)) => ~kept
      /\ (\A t \in T : \A s \in ToSet(run) : ~Misses(s, t)) => kept

(* They are kept and missed accordingly.                                   *)
LEMMA ThresholdsHold ==
  ASSUME None \notin Int, None \notin Verdicts,
         NEW S, NEW Dims, \A x \in S : Scored(x, Dims), NEW run \in Seq(S),
         NEW X, NEW Y, NEW Z, NEW T \in SUBSET [mode : X, dim : Y, pct : Z], \A t \in T : IsThreshold(t)
  PROVE  ThresholdsMean(run, T)
<1> DEFINE c(t) == CountFor(run, t)
           up(t) == [t EXCEPT !.pct = @ + 50]
           kept == Enforce(run, T, DefaultFailLevels)
           more == Enforce(run, {up(t) : t \in T}, DefaultFailLevels)
           missed(t) == \E s \in ToSet(run) : Misses(s, t)
           all(t) == \A s \in ToSet(run) : Misses(s, t)
<1>1. \A t \in T : CountMeans(run, t)
  BY RulesCountMeans, LLMCountMeans
<1>2. \A t \in T : /\ c(t).total \in Nat /\ c(t).failed \in 0..c(t).total
                   /\ c(t).failed > 0 <=> missed(t)
                   /\ run # <<>> /\ all(t) => c(t).failed = c(t).total /\ c(t).total > 0
  BY <1>1 DEF CountMeans
<1>3. kept <=> \A t \in T : WithinBudget(c(t), t.pct)
  BY DEF Enforce, CountFor
<1>4. more <=> \A t \in T : WithinBudget(c(t), t.pct + 50)
  <2>1. \A t \in T : up(t).pct = t.pct + 50 /\ CountFor(run, up(t)) = c(t)
    <3> TAKE t \in T
    <3>1. up(t).pct = t.pct + 50 /\ up(t).mode = t.mode /\ up(t).dim = t.dim
      OBVIOUS
    <3> HIDE DEF up
    <3> QED BY <3>1 DEF CountFor
  <2>2. more <=> \A t \in T : WithinBudget(CountFor(run, up(t)), up(t).pct)
    <3> HIDE DEF up
    <3> QED BY DEF Enforce, CountFor
  <2> HIDE DEF up, c
  <2> QED BY <2>1, <2>2
<1>5. \A t \in T : t.pct \in 0..100
  BY DEF IsThreshold
<1> HIDE DEF c, kept, more, missed, all
<1>6. kept => more
  <2> SUFFICES ASSUME kept, NEW t \in T PROVE WithinBudget(c(t), t.pct + 50)
    BY <1>4
  <2> DEFINE a == c(t).total
             b == c(t).failed
             p == t.pct
  <2>1. a \in Nat /\ b \in 0..a /\ p \in 0..100 /\ WithinBudget(c(t), p)
    BY <1>2, <1>3, <1>5
  <2>2. a = 0 \/ 100 * b <= p * a
    BY <2>1 DEF WithinBudget
  <2> HIDE DEF a, b, p
  <2>3. (p + 50) * a = p * a + 50 * a /\ p * a \in Nat /\ 50 * a \in Nat
    BY <2>1
  <2>4. a = 0 \/ 100 * b <= (p + 50) * a
    BY <2>1, <2>2, <2>3
  <2> QED BY <2>4 DEF WithinBudget, a, b, p
<1>7. ASSUME NEW t \in T, t.pct = 0, kept PROVE ~missed(t)
  <2> DEFINE a == c(t).total
             b == c(t).failed
  <2>1. a \in Nat /\ b \in 0..a /\ (b > 0 <=> missed(t)) /\ WithinBudget(c(t), 0)
    BY <1>2, <1>3, <1>7
  <2>2. a = 0 \/ 100 * b <= 0 * a
    BY <2>1 DEF WithinBudget
  <2> HIDE DEF a, b
  <2> QED BY <2>1, <2>2
<1>8. ASSUME NEW t \in T, t.pct < 100, run # <<>>, all(t) PROVE ~kept
  <2> DEFINE a == c(t).total
             b == c(t).failed
             p == t.pct
  <2>1. a \in Nat /\ a > 0 /\ b = a /\ p \in 0..99
    BY <1>2, <1>5, <1>8
  <2>2. WithinBudget(c(t), p) => a = 0 \/ 100 * b <= p * a
    BY DEF WithinBudget
  <2> HIDE DEF a, b, p
  <2>3. 100 * a = p * a + (100 - p) * a /\ 100 - p > 0
    BY <2>1
  <2>4. (100 - p) * a > 0 /\ p * a \in Nat /\ (100 - p) * a \in Nat
    BY <2>1, <2>3
  <2>5. ~(100 * b <= p * a)
    BY <2>1, <2>3, <2>4
  <2>6. ~WithinBudget(c(t), p)
    BY <2>1, <2>2, <2>5
  <2> QED BY <1>3, <2>6 DEF p
<1>9. ASSUME \A t \in T : ~missed(t) PROVE kept
  <2> SUFFICES ASSUME NEW t \in T PROVE WithinBudget(c(t), t.pct)
    BY <1>3
  <2> DEFINE a == c(t).total
             b == c(t).failed
             p == t.pct
  <2>1. a \in Nat /\ b \in 0..a /\ ~(b > 0) /\ p \in 0..100
    BY <1>2, <1>5, <1>9
  <2> HIDE DEF a, b, p
  <2>2. p * a \in Nat /\ 100 * b = 0
    BY <2>1
  <2>3. 100 * b <= p * a
    BY <2>2
  <2> QED BY <2>3 DEF WithinBudget, a, b, p
<1> QED BY <1>6, <1>7, <1>8, <1>9 DEF ThresholdsMean, kept, more, missed, all

(* The warning is about a turn.                                            *)
SaidOf(run, n, d, v) ==
  \E s \in ToSet(run) : \E p \in ToSet(s.judges) : \E i \in Voted(p, d) : p.name = n /\ p.turns[i][d] = v

(* A warning is about a turn that was said to be inconclusive.             *)
LEMMA WarningMeans ==
  ASSUME None \notin Int, None \notin Verdicts,
         NEW S, NEW Dims, \A x \in S : Scored(x, Dims), NEW run \in Seq(S), NEW n, NEW d,
         InconclusiveWarning(Histogram(run, n, d))
  PROVE  SaidOf(run, n, d, "inconclusive")
<1> DEFINE v == "inconclusive"
           A == PlacesIn(run, RowsOf(S, n, d, v))
           B == PlacesIn(run, Rows(S, n, d))
<1>1. 100 * Cardinality(A) > 20 * Cardinality(B)
  BY HistogramIs DEF InconclusiveWarning
<1> HIDE DEF v
<1>2. \A i \in DOMAIN run : run[i] \in S
  BY ElementOfSeq
<1>3. IsFiniteSet(A) /\ IsFiniteSet(B)
  <2> DEFINE Q == RowsOf(S, n, d, v)
             rows == Rows(S, n, d)
  <2>1. \A x \in S : IsFiniteSet(Q[x]) /\ IsFiniteSet(rows[x])
    BY CountsFinite
  <2> HIDE DEF Q, rows
  <2>2. IsFiniteSet(PlacesIn(run, Q)) /\ IsFiniteSet(PlacesIn(run, rows))
    BY <2>1, PlacesAddUp
  <2> QED BY <2>2 DEF Q, rows
<1> HIDE DEF A, B
<1>4. A # {}
  <2>1. Cardinality(A) \in Nat /\ Cardinality(B) \in Nat
    BY <1>3, FS_CardinalityType
  <2>2. Cardinality(A) # 0
    BY <1>1, <2>1
  <2> QED BY <2>2, FS_EmptySet
<1>5. PICK i \in DOMAIN run : \E j \in RowsOf(S, n, d, v)[run[i]] : TRUE
  BY <1>4 DEF A, PlacesIn
<1>6. PICK j \in DOMAIN run[i].judges : Speaks(run[i].judges[j], n, d) /\ IterLLMVerdicts(run[i].judges[j])[d] = v
  BY <1>2, <1>5 DEF RowsOf
<1> DEFINE s == run[i]
           p == s.judges[j]
<1>7. s \in ToSet(run) /\ p \in ToSet(s.judges)
  BY DEF ToSet
<1>8. Payloads(p, Dims)
  <2>1. PICK P : s.judges \in Seq(P) /\ \A q \in P : Payloads(q, Dims)
    BY <1>2 DEF Scored, WellJudged
  <2> QED BY <2>1, ElementOfSeq
<1> HIDE DEF s, p
<1>9. p.name = n /\ d \in DimensionsOf(p) /\ IterLLMVerdicts(p)[d] = v
  BY <1>6 DEF Speaks, s, p
<1>10. PICK t : Worst(p, d, t)
  BY <1>8, <1>9, WorstExists
<1>11. t \in Voted(p, d) /\ p.turns[t][d] = v
  BY <1>9, <1>10 DEF Worst
<1> QED BY <1>7, <1>9, <1>11 DEF SaidOf, v

(* The answer of AskStatistics to any question.                            *)
StatisticsAnswered(q, r, Scores, Given) ==
  /\ q.run \in Seq(Scores) /\ q.raws \in Seq(Given)
  /\ LET thresholds == ReadThresholds(q.raws)
     IN  r = IF thresholds = None THEN [refused |-> TRUE]
             ELSE [refused |-> FALSE, thresholds |-> thresholds,
                   here |-> Statistics(q.run, thresholds), turned |-> Statistics(Reverse(q.run), thresholds)]

(* Whatever the scores of a run, in either order of their files, and the   *)
(* thresholds given: what `belt aggregate` says of them adds up to what    *)
(* the scenarios, the trials and the turns say (aggregator/stats.py,       *)
(* thresholds.py, reliability.py).                                         *)
THEOREM AnyStatisticsAddUp ==
  ASSUME None \notin Int, None \notin Verdicts,
         NEW Dims, NEW Scores, \A s \in Scores : Scored(s, Dims), NEW X, NEW Y, NEW Z,
         asked.family = "statistics" => StatisticsAnswered(asked, answer, Scores, [mode : X, dim : Y, pct : Z])
  PROVE  StatisticsAddUp
<1> SUFFICES ASSUME asked.family = "statistics", ~answer.refused PROVE StatisticsAddUp
  BY DEF StatisticsAddUp
<1> DEFINE run == asked.run
           T == ReadThresholds(asked.raws)
           here == answer.here
           stats == here.stats
           trials == here.trials
           dims == {c.dim : c \in UNION {ToSet(s.checks) : s \in ToSet(run)}}
<1>1. run \in Seq(Scores) /\ asked.raws \in Seq([mode : X, dim : Y, pct : Z])
  BY DEF StatisticsAnswered
<1>2. T # None /\ answer.thresholds = T /\ here = Statistics(run, T) /\ answer.turned = Statistics(Reverse(run), T)
  BY DEF StatisticsAnswered
<1>3. T \in SUBSET [mode : X, dim : Y, pct : Z] /\ \A t \in T : IsThreshold(t)
  BY <1>1, <1>2, ThresholdsAre
<1> HIDE DEF run, T, here
<1>4. /\ stats = StatsOf(run, Scores) /\ trials = ComputeReliability(run)
      /\ here.kept = Enforce(run, T, DefaultFailLevels)
      /\ here.more = Enforce(run, {[t EXCEPT !.pct = @ + 50] : t \in T}, DefaultFailLevels)
      /\ here.warned = InconclusiveWarning(Histogram(run, "llm", "quality"))
  BY <1>1, <1>2, StatsAre DEF Statistics
<1>5. here = answer.turned
  BY <1>1, <1>2, TurnedIsSame
<1> HIDE DEF stats, trials
<1>6. /\ DOMAIN stats.rules = dims /\ stats.passed = Len(run) - Failed(run) /\ stats.total = Len(run)
      /\ \A d \in dims : /\ stats.rules[d].passed = Cardinality(PlacesIn(run, PassedOfDim(Scores, d)))
                      /\ stats.rules[d].failed = Cardinality(PlacesIn(run, OfDim(Scores, d))) - Cardinality(PlacesIn(run, PassedOfDim(Scores, d)))
                      /\ stats.rules[d].total = Cardinality(PlacesIn(run, OfDim(Scores, d)))
      /\ stats.partial # None => stats.partial.total = Cardinality(PlacesIn(run, AnyCheck(Scores)))
  BY <1>4 DEF StatsOf
<1>7. ASSUME NEW d \in DOMAIN stats.rules
      PROVE  LET rows == [i \in RowsIn(run, d) |-> RulesFeedback(run[i].checks)[d]]
             IN  /\ stats.rules[d].passed = SumAll([i \in DOMAIN rows |-> rows[i].passed])
                 /\ stats.rules[d].failed = SumAll([i \in DOMAIN rows |-> rows[i].failed + rows[i].skipped])
  <2> DEFINE rows == [i \in RowsIn(run, d) |-> RulesFeedback(run[i].checks)[d]]
             f == [i \in RowsIn(run, d) |-> RulesFeedback(run[i].checks)[d].passed]
             g == [i \in RowsIn(run, d) |-> RulesFeedback(run[i].checks)[d].failed + RulesFeedback(run[i].checks)[d].skipped]
  <2>1. [i \in DOMAIN rows |-> rows[i].passed] = f /\ [i \in DOMAIN rows |-> rows[i].failed + rows[i].skipped] = g
    OBVIOUS
  <2>0. RowsGive(run, Scores, d)
    BY <1>1, RowsAddUp
  <2>2. /\ Cardinality(PlacesIn(run, PassedOfDim(Scores, d))) = SumAll(f)
        /\ Cardinality(PlacesIn(run, OfDim(Scores, d))) - Cardinality(PlacesIn(run, PassedOfDim(Scores, d))) = SumAll(g)
    BY <2>0 DEF RowsGive
  <2> HIDE DEF f, g, rows
  <2>3. stats.rules[d].passed = SumAll(f) /\ stats.rules[d].failed = SumAll(g)
    BY <1>6, <1>7, <2>2
  <2> QED BY <2>1, <2>3 DEF rows
<1>8. stats.partial # None => stats.partial.total = SumAll([d \in DOMAIN stats.rules |-> stats.rules[d].total])
  <2>1. Cardinality(PlacesIn(run, AnyCheck(Scores))) = SumAll([d \in dims |-> Cardinality(PlacesIn(run, OfDim(Scores, d)))])
    BY <1>1, DimsAddUp
  <2>2. [d \in dims |-> Cardinality(PlacesIn(run, OfDim(Scores, d)))] = [d \in DOMAIN stats.rules |-> stats.rules[d].total]
    <3> HIDE DEF dims
    <3> QED BY <1>6
  <2> QED BY <1>6, <2>1, <2>2
<1>9. trials # None =>
        /\ SumAll([b \in DOMAIN trials |-> trials[b].trials]) = stats.total
        /\ SumAll([b \in DOMAIN trials |-> trials[b].passed]) = stats.passed
        /\ \A b \in DOMAIN trials : \A k \in {1, 3, 8} :
             LET n == Power(trials[b].trials, k - 1)
             IN  PassPow(trials[b], k) <= trials[b].passed * n /\ trials[b].passed * n <= PassAt(trials[b], k)
  <2> SUFFICES ASSUME trials # None
               PROVE  /\ SumAll([b \in DOMAIN trials |-> trials[b].trials]) = stats.total
                      /\ SumAll([b \in DOMAIN trials |-> trials[b].passed]) = stats.passed
                      /\ \A b \in DOMAIN trials : \A k \in {1, 3, 8} :
                           LET n == Power(trials[b].trials, k - 1)
                           IN  PassPow(trials[b], k) <= trials[b].passed * n /\ trials[b].passed * n <= PassAt(trials[b], k)
    OBVIOUS
  <2>1. /\ SumAll([b \in DOMAIN trials |-> trials[b].trials]) = stats.total
        /\ SumAll([b \in DOMAIN trials |-> trials[b].passed]) = stats.passed
        /\ \A b \in DOMAIN trials : trials[b].trials \in Nat /\ trials[b].passed \in 0..trials[b].trials
    BY <1>1, <1>4, <1>6, TrialsAddUp
  <2>2. ASSUME NEW b \in DOMAIN trials, NEW k \in {1, 3, 8}
        PROVE  LET n == Power(trials[b].trials, k - 1)
               IN  PassPow(trials[b], k) <= trials[b].passed * n /\ trials[b].passed * n <= PassAt(trials[b], k)
    <3> DEFINE r == trials[b]
    <3>1. k \in Nat /\ k > 0 /\ r.trials \in Nat /\ r.passed \in 0..r.trials
      BY <2>1
    <3> HIDE DEF r
    <3>2. LET n == Power(r.trials, k - 1)
          IN  PassPow(r, k) <= r.passed * n /\ r.passed * n <= PassAt(r, k)
      BY <3>1, PassesInOrder
    <3> QED BY <3>2 DEF r
  <2> QED BY <2>1, <2>2
<1>10. ThresholdsMean(run, T)
  BY <1>1, <1>3, ThresholdsHold
<1>11. /\ here.kept => here.more
       /\ \A t \in T : /\ t.pct = 0 /\ here.kept => \A s \in ToSet(run) : ~Misses(s, t)
                       /\ t.pct < 100 /\ run # <<>> /\ (\A s \in ToSet(run) : Misses(s, t)) => ~here.kept
       /\ (\A t \in T : \A s \in ToSet(run) : ~Misses(s, t)) => here.kept
  BY <1>4, <1>10 DEF ThresholdsMean
<1>12. here.warned =>
         \E s \in ToSet(run) : \E p \in ToSet(s.judges) : \E i \in Voted(p, "quality") :
           p.name = "llm" /\ p.turns[i]["quality"] = "inconclusive"
  <2>1. \A n, d : InconclusiveWarning(Histogram(run, n, d)) => SaidOf(run, n, d, "inconclusive")
    BY <1>1, WarningMeans
  <2>2. here.warned => SaidOf(run, "llm", "quality", "inconclusive")
    BY <1>4, <2>1
  <2> QED BY <2>2 DEF SaidOf
<1> QED BY <1>2, <1>5, <1>7, <1>8, <1>9, <1>11, <1>12 DEF StatisticsAddUp, RowsIn, run, here, stats, trials

(* All the numbers, whatever is asked.                                     *)
THEOREM AnyNumbersAreFair ==
  ASSUME None \notin Int, None \notin Verdicts,
         NEW Dims, NEW Scores, \A s \in Scores : WellJudged(s, Dims), NEW Scoring, \A s \in Scoring : Scored(s, Dims),
         NEW X, NEW Y, NEW Z, NEW s, NEW t,
         asked.family = "statistics" => StatisticsAnswered(asked, answer, Scoring, [mode : X, dim : Y, pct : Z]),
         asked.family = "costs" => CostsAnswered(asked, answer, s, t),
         asked.family = "compare" => CompareAnswered(asked, answer, Scores)
  PROVE  NumbersAreFair
<1>1. StatisticsAddUp
  BY AnyStatisticsAddUp
<1>2. CostsAddUp
  BY AnyCostsAddUp
<1>3. ComparisonFair
  BY AnyComparisonIsFair
<1> QED BY <1>1, <1>2, <1>3 DEF NumbersAreFair
=============================================================================
