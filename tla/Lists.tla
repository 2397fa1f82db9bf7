-------------------------------- MODULE Lists --------------------------------
(***************************************************************************)
(* Two operations on lists, as recursive functions: the provers know the   *)
(* definitions of these, and lemmas about them can be proved (ListLemmas), *)
(* which cannot be said of SelectSeq.                                      *)
(***************************************************************************)
EXTENDS Naturals, Sequences

(* [x for x in s if x in A]                                                *)
Kept(s, A) ==
  LET kept[i \in 0..Len(s)] ==
        IF i = 0 THEN <<>> ELSE IF s[i] \in A THEN Append(kept[i - 1], s[i]) ELSE kept[i - 1]
  IN  kept[Len(s)]

(* sum(s), of natural numbers.                                             *)
SumOf(s) ==
  LET sum[i \in 0..Len(s)] == IF i = 0 THEN 0 ELSE sum[i - 1] + s[i]
  IN  sum[Len(s)]
=============================================================================
