----------------------------- MODULE Fingerprint -----------------------------
(***************************************************************************)
(* evaluationCacheKey (cache.go:143-191): what of a request its key in the *)
(* decision cache depends on.  The key is a hash of a sequence of parts,   *)
(* each ended by a NUL that no part contains; two requests share a key     *)
(* exactly when their parts are the same sequence.  Of what varies between *)
(* the requests of a middleware and is told to the Agent (agent.go:29-52), *)
(* two fields are no parts: ClientIPSource, and the RequestID, which get   *)
(* writes anew into what it serves.                                        *)
(***************************************************************************)
EXTENDS Sorting, Sequences

CONSTANT
  Lower       \* Lower[n]: strings.ToLower of the name n

(* One map: its names in order, lower-cased, each followed by its value.     *)
writeStringMap(values) ==
  LET keys == sorted(DOMAIN values)
  IN  [i \in 1..(2 * Cardinality(DOMAIN values)) |->
        IF i % 2 = 1 THEN Lower[keys[(i + 1) \div 2]] ELSE values[keys[i \div 2]]]

onlyIf(flag, part) == IF flag THEN <<part>> ELSE <<>>

(* The key as it would be without the headers, to show what they are for.    *)
evaluationCacheKey_noHeaders(request) ==
  <<request.fixed>>
  \o writeStringMap(request.Cookies)
  \o onlyIf(request.Body # "", request.Body)

(* fixed stands for the nine parts every request has, ClientIP to            *)
(* ResourceHint; a body of "" is no body.                                    *)
evaluationCacheKey(request) ==
  <<request.fixed>>
  \o onlyIf(request.BodyTruncated, "body-truncated")
  \o onlyIf(request.HeadersTruncated, "headers-truncated")
  \o onlyIf(request.CookiesTruncated, "cookies-truncated")
  \o writeStringMap(request.Headers)
  \o writeStringMap(request.Cookies)
  \o onlyIf(request.Body # "", request.Body)

=============================================================================
