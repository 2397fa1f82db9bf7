----------------------------- MODULE MCEvalChain -----------------------------
(***************************************************************************)
(* EvalChain for TLC.  The chain is explored without a reader, for every   *)
(* command line and every fate of the scenarios; the readers beside a run  *)
(* whose scenarios raise, so that nothing is scored: a reader does not see *)
(* the later phases, and they do not write streams.                        *)
(***************************************************************************)
EXTENDS EvalChain

CONSTANTS s1, s2

MCDemands == {{}, {[mode |-> "rules", dim |-> "execution", pct |-> 0]},
              {[mode |-> "llm", dim |-> "quality", pct |-> 50]}}

MCInit ==
  /\ ChainInit
  /\ viewer # "none" =>
       /\ fate = [s \in Scenarios |-> "raised"]
       /\ opts = [dry |-> FALSE, modes |-> TRUE, preflight |-> TRUE, thresholds |-> {}]

(* Without a reader no stream is written.                                  *)
MCNext == EvalNext /\ (viewer = "none" => UNCHANGED watchVars) /\ (viewer # "none" => reruns' = 0)

MCSpec == MCInit /\ [][MCNext]_evalVars /\ WF_evalVars(ViewStep /\ UNCHANGED chainVars)
=============================================================================
