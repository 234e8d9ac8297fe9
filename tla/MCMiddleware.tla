---------------------------- MODULE MCMiddleware ----------------------------
(* Instances of Middleware for TLC. *)
EXTENDS Middleware, TLC

allow ==
  [sameRequest |-> TRUE, decision |-> "allow", status |-> 200, texts |-> TRUE,
   complete |-> FALSE, retry |-> 0, ttl |-> 0, token |-> FALSE, cacheable |-> FALSE,
   scope |-> "none", revision |-> 0, grant |-> ""]
block(revision, ttl) ==
  [allow EXCEPT !.decision = "block", !.status = 403, !.cacheable = TRUE,
                !.ttl = ttl, !.scope = "full", !.revision = revision]
challenge ==
  [allow EXCEPT !.decision = "challenge", !.status = 403, !.token = TRUE, !.complete = TRUE]
errorAnswer == [allow EXCEPT !.decision = "error", !.status = 500]

(* The first request is blocked, then allowed; the second one is challenged  *)
(* or allowed first, then blocked.                                           *)
MCKeyOf    == [r \in Requests |-> r]
TwoPolicies(r1, r2) == <<r1 :> block(1, 2) @@ r2 :> challenge,
                         r1 :> allow @@ r2 :> block(2, 1)>>
CONSTANTS r1, r2
MCPolicies == TwoPolicies(r1, r2)

(* The configuration FailClosed is about; another one only turns some of the  *)
(* pages into "next".                                                        *)
Closed == {[agentUnavailable |-> "deny", malformedResponse |-> "deny",
            explicitLocalDeny |-> "deny"]}
=============================================================================
