------------------------------ MODULE MCExchange ------------------------------
(***************************************************************************)
(* What goes between a request, the Agent and the client, each conversion  *)
(* over a few values of every field: the headers and cookies described to  *)
(* the Agent, the body captured for it, and its reply, through evaluate to *)
(* the cache and to what the client is shown.                              *)
(***************************************************************************)
EXTENDS ClientResponse, Forwarding, BodyCapture

VARIABLE exchange

Cache == INSTANCE DecisionCache WITH
  Callers <- {}, Requests <- {}, KeyOf <- [r \in {} |-> r], Answers <- {},
  MaximumEntries <- 1, MaximumTTL <- 1, Patience <- 0, MaxTime <- 1,
  NoRequest <- "none", NoEntry <- "none", clock <- 1, entries <- [k \in {} |-> k],
  requestIndex <- [k \in {} |-> k], latestRevision <- 0,
  wanted <- [c \in {} |-> c], asked <- [c \in {} |-> c], served <- [c \in {} |-> c]

Responses ==
  [sameRequest : {TRUE}, texts : {TRUE}, complete : {TRUE},
   decision : {"allow", "observe", "block", "challenge", "rate_limit", "error", "other"},
   status : {200, 399, 400, 403, 429, 503, 599, 600},
   retry : {-1, 0, 1, maximumRetryAfter + 1}, ttl : {-1, 0, 1, maximumCacheTTL + 1},
   token : BOOLEAN, cacheable : BOOLEAN, scope : Scopes, revision : {0, 1}]

Replies == [kind : {"response"}, response : Responses] \cup [kind : Unanswered \cup Garbled]

(* Values within the limit, longer, and with a byte that is not forwarded.   *)
Short == 1
Values == [length : {Short, maximumForwardedValueBytes + 1}, dirty : {FALSE}]
            \cup [length : {Short}, dirty : {TRUE}]

Functions(S, T) == UNION {[D -> T] : D \in SUBSET S}

Configured == BoundedSeq({3, 6}, 2) \cup {<<CookieHeader, 6>>, <<6, ContentLength>>}

(* The method, the length of the body (-1 if unknown) and whether there is a *)
(* Transfer-Encoding, which makes Go drop Content-Length.                    *)
Framings == {<<"GET", 1, FALSE>>, <<"POST", -1, FALSE>>, <<"POST", 1, FALSE>>, <<"POST", -1, TRUE>>}

Headers(framing_) ==
  {CookieHeader, 3, 4, 6} \cup (IF framing_[2] >= 0 THEN {ContentLength} ELSE {})

HeaderCases ==
  UNION {[kind : {"headers"}, configured : Configured, framing : {f},
          values : Functions(Headers(f), Values)] : f \in Framings}

(* Cookies of three names and of one that is too long, and pairs that        *)
(* net/http cannot parse.                                                    *)
Clean == {v \in Values : ~v.dirty}
CookiePairs == [name : 1..4 \cup {7}, value : Clean] \cup [name : {2}, value : Values \ Clean]

CookieCases == [kind : {"cookies"}, configured : BoundedSeq({2, 3}, 2),
                values : BoundedSeq(CookiePairs, 4)]

Bodies == [bytes : {[i \in 1..n |-> i] : n \in 0..(MaximumBytes + 2)}, end : {"eof", "error"}]
Paths == {<<"">>, <<"a">>, <<"a", "">>, <<"a", "b">>, <<"b">>}
BodyCases ==
  [kind : {"body"},
   request : [hasBody : BOOLEAN, protocol : {"http", "grpc"}, path : Paths,
              type : {<<>>, <<"text", "xml">>, <<"image", "png">>}, body : Bodies],
   config : [enabled : BOOLEAN, bypass : SUBSET {<<"">>, <<"a">>, <<"a", "">>},
             types : SUBSET {<<"text", "xml">>, <<"image", "*">>}]]

ExchangeInit ==
  \/ exchange \in [kind : {"reply"}, reply : Replies]
  \/ exchange \in HeaderCases
  \/ exchange \in CookieCases
  \/ exchange \in BodyCases
ExchangeNext == UNCHANGED exchange
ExchangeSpec == ExchangeInit /\ [][ExchangeNext]_exchange

-----------------------------------------------------------------------------
Accepted == exchange.kind = "reply" /\ evaluate(exchange.reply) = "answer"

Denied == Accepted /\ exchange.reply.response.decision \in {"block", "challenge", "rate_limit"}

(* A denial reaches the client with the status and the Retry-After that the  *)
(* Agent gave: validation and the page writer agree.  Whatever else keeps a  *)
(* client from the service is a 503 without Retry-After, also when the       *)
(* Agent's own answer is an "error" with another status (agent.go:237-265,   *)
(* middleware.go:97-151, responses.go:60-66, 212-226; README.md:113-118).    *)
ShownAsAnswered ==
  exchange.kind = "reply" => \A mode \in FailureModes :
    LET seen == shown(exchange.reply, mode)
    IN IF Denied /\ mode["explicitLocalDeny"] = "deny"
       THEN /\ seen.status = exchange.reply.response.status
            /\ seen.retryAfter = exchange.reply.response.retry
       ELSE seen \in {PassedOn, [status |-> 503, retryAfter |-> 0]}

(* put keeps exactly the validated answers the Agent marked cacheable, save  *)
(* those with a challenge token (agent.go:279-295, cache.go:68-75).          *)
CacheKeepsWhatWasAuthorised ==
  Accepted =>
    (Cache!storable(exchange.reply.response) <=>
       exchange.reply.response.cacheable /\ ~exchange.reply.response.token)

-----------------------------------------------------------------------------
framed == framing(exchange.framing[1], exchange.framing[2], exchange.framing[3])

ForwardedBy(mode) ==
  LET policy == newForwardingPolicy(mode, exchange.configured)
  IN IF exchange.kind = "headers"
     THEN forwardedHeaders(policy, exchange.values, framed)
     ELSE forwardedCookies(policy, exchange.values)

Forwards == exchange.kind \in {"headers", "cookies"}
Modes == {"all", "allowlist"}

Parsed == readCookies(exchange.values)

(* What the request holds under the name n, the first of several cookies.    *)
Held == IF exchange.kind = "headers"
        THEN [n \in DOMAIN exchange.values \ ({CookieHeader} \cup framed) |-> exchange.values[n]]
        ELSE firstCookies(Parsed)

(* What is not flagged is complete: every header, and every cookie that      *)
(* net/http could parse, in the scope of the mode reaches the Agent whole,   *)
(* and none of these cookies came twice (forwarding.go:99-152, 165-215;      *)
(* README.md:76-82).                                                         *)
CompleteUnlessFlagged ==
  Forwards => \A mode \in Modes :
    ~ForwardedBy(mode).truncated =>
      /\ \A n \in DOMAIN Held :
           mode = "all" \/ Contains(exchange.configured, n) =>
             /\ n \in DOMAIN ForwardedBy(mode).kept
             /\ ForwardedBy(mode).kept[n] = Held[n].length
      /\ exchange.kind = "cookies" =>
           \A i, j \in DOMAIN Parsed : Parsed[i].name = Parsed[j].name => i = j

(* The bounds never cost configured data anything: what else a request       *)
(* carries changes nothing that is forwarded under a configured name, and    *)
(* the order in which its cookies arrive changes nothing at all, unless one  *)
(* came twice (forwarding.go:96-98, 163-164).                               *)
AllowlistedDataIsKept ==
  Forwards =>
    LET alone == ForwardedBy("allowlist").kept
        among == ForwardedBy("all").kept
    IN /\ \A n \in Range(exchange.configured) :
            /\ n \in DOMAIN alone <=> n \in DOMAIN among
            /\ n \in DOMAIN alone => alone[n] = among[n]
       /\ exchange.kind = "cookies" /\ Cardinality(DOMAIN Held) = Len(Parsed) =>
            among = forwardedCookies(newForwardingPolicy("all", exchange.configured),
                                     Reverse(exchange.values)).kept

Bytes(kept, names) == FoldSet(LAMBDA n, sum : sum + NameBytes + kept[n], 0, names)

(* The documented bounds hold for all that is forwarded but a framing        *)
(* header, which is added when they have been checked: a request without one *)
(* stays within them, and so do its cookies.  The raw Cookie header is never *)
(* forwarded (forwarding.go:145-159, 206-212; README.md:78-82).              *)
BoundedUnlessFramed ==
  Forwards => \A mode \in Modes :
    LET kept  == ForwardedBy(mode).kept
        names == DOMAIN kept \ (IF exchange.kind = "headers" THEN framed ELSE {})
    IN /\ Cardinality(names) <= maximumForwarded
       /\ Bytes(kept, names) <= maximumForwardedBytes
       /\ \A n \in names : kept[n] <= maximumForwardedValueBytes
       /\ exchange.kind = "headers" => CookieHeader \notin DOMAIN kept

(* What README.md:78-79 and forwarding_test.go:119, 152 say: "bounded (128   *)
(* headers and 128 cookies, 64 KiB of each, ...)", framing header or not     *)
(* (forwarding.go:17-27, 153-159).                                           *)
ForwardingIsBounded ==
  Forwards => \A mode \in Modes :
    LET kept == ForwardedBy(mode).kept
    IN /\ Cardinality(DOMAIN kept) <= maximumForwarded
       /\ Bytes(kept, DOMAIN kept) <= maximumForwardedBytes

-----------------------------------------------------------------------------
(* Capturing a body changes nothing for the handler behind: it reads the     *)
(* same bytes and meets the same end.  The Agent gets the whole body or is   *)
(* told that it does not, and no more than the limit and one byte is held    *)
(* (body.go:20-39; README.md:103-107).                                       *)
BodyIntact ==
  exchange.kind = "body" =>
    LET captured == captureRequestBody(exchange.request, exchange.config)
    IN /\ captured.replay = exchange.request.body
       /\ captured.read <= MaximumBytes + 1
       /\ captures(exchange.request, exchange.config) =>
            \/ captured.body = exchange.request.body.bytes /\ exchange.request.body.end = "eof"
            \/ captured.oversized /\ Len(exchange.request.body.bytes) > MaximumBytes
            \/ captured.failed /\ exchange.request.body.end = "error"
       /\ captured.oversized => ~captured.failed /\ captured.body = <<>>

=============================================================================
