--------------------------- MODULE MCDecisionCache ---------------------------
(***************************************************************************)
(* Instances of DecisionCache for TLC, with the keys that Fingerprint gives *)
(* a few requests.                                                          *)
(***************************************************************************)
EXTENDS DecisionCache, TLC

(* The names in sort order, upper-case letters first, are "SID", "sid" and   *)
(* "x-a".                                                                    *)
SID == 1
sid == 2
xa  == 3

F == INSTANCE Fingerprint WITH Lower <- <<"sid", "sid", "x-a">>

NoPairs == [n \in {} |-> ""]
plain ==
  [fixed |-> "get", ClientIPSource |-> "direct", BodyTruncated |-> FALSE, HeadersTruncated |-> FALSE,
   CookiesTruncated |-> FALSE, Headers |-> NoPairs, Cookies |-> NoPairs, Body |-> ""]

(* Requests that differ in one thing each: a header, a body, a flag.         *)
withHeader == [plain EXCEPT !.Headers = xa :> "1"]
withBody   == [plain EXCEPT !.Headers = xa :> "1", !.Body = "b"]
DistinctRequests == {plain, withHeader, withBody}

(* The same pair sent as a header or as a cookie, cookies whose names differ *)
(* only in case, and an address known from another source.                   *)
asHeader  == [plain EXCEPT !.Headers = sid :> "1"]
asCookie  == [plain EXCEPT !.Cookies = sid :> "1"]
asCookie2 == [plain EXCEPT !.Cookies = SID :> "1"]
asRelayed == [asCookie EXCEPT !.ClientIPSource = "cloudflare"]
SimilarRequests == {asHeader, asCookie, asCookie2, asRelayed}

KeysOf(requests) == [r \in requests |-> F!evaluationCacheKey(r)]
DistinctKeys == KeysOf(DistinctRequests)
SimilarKeys  == KeysOf(SimilarRequests)

(* Answers, by the fields put looks at.                                      *)
allow  == [decision |-> "allow", cacheable |-> FALSE, ttl |-> 0, scope |-> "none",
           revision |-> 0, token |-> FALSE, grant |-> ""]
block1 == [allow EXCEPT !.decision = "block", !.cacheable = TRUE, !.scope = "full",
                        !.ttl = 3, !.revision = 1, !.grant = "g"]
brief1 == [block1 EXCEPT !.decision = "rate_limit", !.ttl = 1, !.grant = "h"]
block2 == [block1 EXCEPT !.ttl = 2, !.revision = 2]
MCAnswers == {allow, block1, brief1, block2}

CallerSymmetry == Permutations(Callers)
=============================================================================
