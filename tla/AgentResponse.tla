---------------------------- MODULE AgentResponse ----------------------------
(***************************************************************************)
(* How a reply of the local Agent is sorted into unavailable, malformed or *)
(* an answer (agent.go:185-297), and how an answer is written for the      *)
(* client (responses.go:60-66, 212-226).                                   *)
(* A response keeps the fields that decide something; texts of which only  *)
(* the form matters are booleans or one of a few cases.                    *)
(***************************************************************************)
EXTENDS Integers

CONSTANT maximumCacheTTL    \* in units of the clock

ASSUME TTLIsNat == maximumCacheTTL \in Nat

maximumRetryAfter == 86400

(* The cache fields of a response: all well formed; non-empty, of scope      *)
(* "request", but malformed; all empty; anything else.                       *)
Scopes == {"full", "loose", "none", "other"}

(* A reply that holds no response, by the reason.  "cut" is a deadline that  *)
(* passes while the body is read: the decoder fails, not the request.        *)
Unanswered == {"unreachable", "timeout", "aborted", "status"}
Garbled    == {"not_json", "undecodable", "oversized", "trailing", "cut"}

-----------------------------------------------------------------------------
expectedStatus(decision) ==
  CASE decision \in {"allow", "observe"}    -> {200}
    [] decision \in {"block", "challenge"}  -> {403}
    [] decision = "rate_limit"              -> {429}
    [] decision = "error"                   -> 400..599
    [] OTHER                                -> {}

(* response.texts: reason, IDs, challenge URL and token are well formed;     *)
(* response.complete: none of the fields a challenge needs is missing.       *)
validateEvaluationResponse(response) ==
  /\ response.sameRequest
  /\ response.status \in expectedStatus(response.decision)
  /\ response.texts
  /\ response.retry \in 0..maximumRetryAfter
  /\ response.retry > 0 => response.decision \in {"rate_limit", "block"}
  /\ response.ttl \in 0..maximumCacheTTL
  /\ response.decision = "challenge" => response.token /\ response.complete
  /\ IF response.cacheable
     THEN /\ response.decision \in {"block", "rate_limit"}
          /\ response.ttl > 0
          /\ response.scope = "full"
          /\ response.revision # 0
     ELSE response.scope = "none" /\ response.revision = 0

(* The kind of result: an agentErrorKind, or "answer" without an error.      *)
evaluate(reply) ==
  CASE reply.kind \in Unanswered -> "unavailable"
    [] reply.kind \in Garbled    -> "malformed"
    [] reply.kind = "response"   -> IF validateEvaluationResponse(reply.response)
                                    THEN "answer" ELSE "malformed"

(* The status of a page, and whether it carries Retry-After.                 *)
enforcementStatus(response) ==
  CASE response.decision = "rate_limit" -> 429
    [] response.decision = "error" /\ response.status \in 400..599 -> response.status
    [] response.decision = "error" /\ response.status \notin 400..599 -> 503
    [] OTHER -> 403

(* A slip that the runs show a property notices. *)
retryAfterShown_rateLimitOnly(response) ==
  response.retry > 0 /\ enforcementStatus(response) = 429

retryAfterShown(response) ==
  response.retry > 0 /\ enforcementStatus(response) \in {429, 403}

=============================================================================
