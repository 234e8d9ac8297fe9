---------------------------- MODULE ClientResponse ----------------------------
(***************************************************************************)
(* What ServeHTTP shows the client for a reply of the Agent: the service   *)
(* behind, the page of a denial, or that of a failure, under each setting  *)
(* of the failure modes (middleware.go:97-150, responses.go:60-77).        *)
(***************************************************************************)
EXTENDS AgentResponse

(* What the client gets: the answer of the service behind, or a page.        *)
PassedOn == [status |-> 0, retryAfter |-> 0]

write(response) ==
  [status |-> enforcementStatus(response),
   retryAfter |-> IF retryAfterShown(response) THEN response.retry ELSE 0]

(* The three settings of FailureMode, each "allow" or "deny".                *)
FailureModes == [{"unavailable", "malformed", "explicitLocalDeny"} -> {"allow", "deny"}]

handleFailure(kind, mode) ==
  IF mode[kind] = "allow" THEN PassedOn
  ELSE write([decision |-> "error", status |-> 503, retry |-> 0])

handleDecision(response, mode) ==
  CASE response.decision \in {"allow", "observe"} -> PassedOn
    [] response.decision \in {"block", "challenge", "rate_limit"} ->
         IF mode["explicitLocalDeny"] = "allow" THEN PassedOn ELSE write(response)
    [] OTHER -> handleFailure("malformed", mode)

(* The Agent's own "error" is a failure like no answer at all: its status    *)
(* goes no further.                                                          *)
shown(reply, mode) ==
  LET kind == evaluate(reply)
  IN CASE kind # "answer" -> handleFailure(kind, mode)
       [] kind = "answer" /\ reply.response.decision = "error" ->
            handleFailure("unavailable", mode)
       [] OTHER -> handleDecision(reply.response, mode)

=============================================================================
