----------------------------- MODULE MCChallenge -----------------------------
(* Instances of Challenge for TLC. *)
EXTENDS Challenge, TLC

CONSTANTS visitor, other, challengeFile

MCFileOf == "challenge" :> challengeFile

Link(origin, tls, trusted, proto, path) ==
  [origin |-> origin, tls |-> tls, trusted |-> trusted, proto |-> proto,
   sameHost |-> TRUE, path |-> path]

Direct(path) == Link("https", TRUE, FALSE, "other", path)

MCDecisionOf == [v \in {visitor, other} |-> "challenge"]

(* The visitor comes over TLS that ends at Traefik, at a proxy that is       *)
(* trusted or not, or without TLS through one that changes the host; the     *)
(* other one asks for a path that cannot be challenged, and only reads pages.*)
MCLinksOf ==
  visitor :> {Direct("escaped"),
              Link("https", FALSE, TRUE, "https", "plain"),
              Link("https", FALSE, FALSE, "https", "plain"),
              [Link("http", FALSE, FALSE, "other", "plain") EXCEPT !.sameHost = FALSE]}
    @@ other :> {Direct("slashes")}
=============================================================================
