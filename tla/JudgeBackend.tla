---------------------------- MODULE JudgeBackend ----------------------------
(***************************************************************************)
(* The providers of LLM judges (src/belt/scorer/llm/backend.py), the probe *)
(* of every judge before belt eval starts an agent (preflight.py), and     *)
(* what a judge's request comes to (_call_api of scorer/llm/scorer.py).    *)
(*                                                                         *)
(* A judge is [prefix, option, key, url, reply, models]: the model's       *)
(* prefix, the provider from its configuration, whether a key is set, the  *)
(* base URL [scheme, host] (None: no endpoint), what the server answers to *)
(* a request per way to authenticate ("ok", an HTTP status, "timeout" or   *)
(* "network"), and whether it has the endpoint for single models that the  *)
(* probes of two providers ask, and not the one that judges' requests use. *)
(***************************************************************************)
EXTENDS Lists, Integers, FiniteSets, SequencesExt

CONSTANT None

Providers == {"azure", "openai", "anthropic", "ollama"}

(* resolve_backend: the model's prefix, or else the configuration, or else *)
(* BELT_LLM_PROVIDER; an unknown name counts as none.                      *)
ResolveBackend(prefix, option, env) ==
  LET known == Kept(<<prefix, option, env>>, Providers)
  IN  IF known = <<>> THEN None ELSE Head(known)

(* _validate_base_url_scheme.                                              *)
BaseUrlAllowed(url, insecure) ==
  \/ url.scheme = "https"
  \/ url.scheme = "http" /\ (url.host = "loopback" \/ insecure)

-----------------------------------------------------------------------------
(* Authentication.                                                         *)

(* The header of a first attempt.  Anthropic's backend remembers that the  *)
(* bearer form worked; a probe starts with the key all the same.           *)
ProbeHeader(provider, judge) ==
  CASE provider = "anthropic" -> "key"
    [] provider = "openai" -> IF judge.key THEN "bearer" ELSE "none"
    [] provider = "azure" -> IF judge.key THEN "key" ELSE "none"
    [] provider = "ollama" -> "none"
RequestHeader(provider, judge, learned) ==
  IF provider = "anthropic" /\ learned THEN "bearer"
  ELSE IF provider = "openai" THEN "bearer" ELSE ProbeHeader(provider, judge)

(* auth_retry_headers.                                                     *)
AuthRetryHeader(provider, judge, header) ==
  IF provider = "anthropic" /\ judge.key /\ header = "key" THEN "bearer" ELSE None

(* classify_error.                                                         *)
ClassifyError(reply) ==
  CASE reply = "429" -> "rate_limited"
    [] reply \in {"401", "403", "404"} -> "auth_failed"
    [] reply = "timeout" -> "timeout"
    [] OTHER -> "other"

(* Azure's token of a service principal, in units of ten minutes: reused   *)
(* until one unit before its end; `grant` is the life of the token that a  *)
(* request for one brings, None if it fails.  `ends` is when it really     *)
(* ends, which the code does not keep.                                     *)
NoToken == [until |-> 0, ends |-> 0]
TokenHeader(cache, now, grant) ==
  IF now < cache.until THEN [sent |-> "cached", cache |-> cache]
  ELSE IF grant = None THEN [sent |-> "none", cache |-> cache]
  ELSE [sent |-> "new",
        cache |-> [until |-> now + grant - 1, ends |-> now + grant]]

-----------------------------------------------------------------------------
(* Probes: "proceed", "reject" (a ScorerError) or "raises" (a ConfigError),*)
(* and whether the other header was found to work.                         *)

Verdict(reply) == IF ClassifyError(reply) = "auth_failed" THEN "reject" ELSE "proceed"
Probed(end, learned) == [end |-> end, learned |-> learned]

(* The answer to a GET of the model: as a request's if the server has the  *)
(* endpoint, and else that there is no such path.                          *)
Shown(judge, header) == IF judge.models THEN judge.reply[header] ELSE "404"

(* Mutant: whatever the second header is answered, the first one's         *)
(* rejection stands.                                                       *)
DoGetPreflightStubborn(provider, judge) ==
  LET first == Shown(judge, ProbeHeader(provider, judge))
      other == AuthRetryHeader(provider, judge, ProbeHeader(provider, judge))
  IN  IF Verdict(first) = "reject" /\ first \in {"401", "403"} /\ other # None
      THEN IF Shown(judge, other) = "ok" THEN Probed("proceed", TRUE) ELSE Probed("reject", FALSE)
      ELSE Probed(Verdict(first), FALSE)

(* _do_get_preflight: 401 and 403 are asked again with the other header if *)
(* there is one, and the second answer decides.                            *)
DoGetPreflight(provider, judge) ==
  LET first == Shown(judge, ProbeHeader(provider, judge))
      other == AuthRetryHeader(provider, judge, ProbeHeader(provider, judge))
  IN  IF first \in {"401", "403"} /\ other # None
      THEN Probed(Verdict(Shown(judge, other)), Shown(judge, other) = "ok")
      ELSE Probed(Verdict(first), FALSE)

OpenAIPreflight(judge, insecure) ==
  IF BaseUrlAllowed(judge.url, insecure) THEN DoGetPreflight("openai", judge) ELSE Probed("raises", FALSE)
AnthropicPreflight(judge, insecure) ==
  IF BaseUrlAllowed(judge.url, insecure) THEN DoGetPreflight("anthropic", judge) ELSE Probed("raises", FALSE)
AzurePreflight(judge) ==
  IF judge.url = None THEN Probed("proceed", FALSE)
  ELSE Probed(Verdict(judge.reply[ProbeHeader("azure", judge)]), FALSE)
OllamaPreflight(judge, insecure) ==
  Probed(IF BaseUrlAllowed(judge.url, insecure) /\ judge.reply["none"] = "404" THEN "reject" ELSE "proceed", FALSE)

PreflightModel(judge, env, insecure) ==
  LET provider == ResolveBackend(judge.prefix, judge.option, env)
  IN  CASE provider = None -> Probed("raises", FALSE)
        [] provider = "openai" -> OpenAIPreflight(judge, insecure)
        [] provider = "anthropic" -> AnthropicPreflight(judge, insecure)
        [] provider = "azure" -> AzurePreflight(judge)
        [] provider = "ollama" -> OllamaPreflight(judge, insecure)

(* The judges of a list of scorers: a consensus stands for its judges, a   *)
(* rules scorer for none.                                                  *)
CollectLLMScorers(scorers) == FlattenSeq([i \in DOMAIN scorers |-> scorers[i].judges])

(* preflight_judges: all rejections in one error; but another exception    *)
(* of one probe is the only thing that is said.                            *)
PreflightJudges(judges, env, insecure) ==
  LET ending(e) == {i \in DOMAIN judges : PreflightModel(judges[i], env, insecure).end = e}
  IN  CASE ending("raises") # {} -> [end |-> "raises", failures |-> {}]
        [] ending("raises") = {} /\ ending("reject") # {} -> [end |-> "reject", failures |-> ending("reject")]
        [] OTHER -> [end |-> "proceed", failures |-> {}]

-----------------------------------------------------------------------------
(* A request: "answered", "fatal" (a ScorerError), "raises" (a             *)
(* ConfigError) or the type of a JudgeInfraError; how often it was posted; *)
(* what the backend remembers.                                             *)

Outcome(reply) ==
  CASE reply = "ok" -> "answered"
    [] reply \in {"401", "403", "404"} -> "fatal"
    [] OTHER -> ClassifyError(reply)

CallApi(judge, env, insecure, learned) ==
  LET provider == ResolveBackend(judge.prefix, judge.option, env)
      built == IF judge.url = None THEN FALSE
               ELSE BaseUrlAllowed(judge.url, insecure) /\ (provider \in {"azure", "anthropic"} => judge.key)
      header == IF provider = None THEN "none" ELSE RequestHeader(provider, judge, learned)
      other == AuthRetryHeader(provider, judge, header)
      first == judge.reply[header]
  IN  CASE provider = None -> [end |-> "raises", posts |-> 0, learned |-> learned]
        [] provider # None /\ ~built -> [end |-> "auth_failed", posts |-> 0, learned |-> learned]
        [] provider # None /\ built /\ first \in {"401", "403"} /\ other # None ->
             [end |-> Outcome(judge.reply[other]), posts |-> 2,
              learned |-> learned \/ judge.reply[other] = "ok"]
        [] OTHER -> [end |-> Outcome(first), posts |-> 1, learned |-> learned]
=============================================================================
