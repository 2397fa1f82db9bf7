------------------------------- MODULE Asking -------------------------------
(***************************************************************************)
(* What the questions of MCChecks have in common.                          *)
(***************************************************************************)
EXTENDS Integers, Sequences, FiniteSets, SequencesExt, PyNone

VARIABLES asked,   (* the question: its family and the inputs               *)
          answer   (* what the code makes of them                           *)

checksVars == <<asked, answer>>

(* The topic is chosen first.                                              *)
About(topic) == [family |-> "none", topic |-> topic]

SeqsUpTo(set, n) == UNION {[1..k -> set] : k \in 0..n}
Small(set, n) == {x \in SUBSET set : Cardinality(x) <= n}
=============================================================================
