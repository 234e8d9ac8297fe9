----------------------------- MODULE BodyCapture -----------------------------
(***************************************************************************)
(* What captureRequestBody (body.go) reads of a request's body for the     *)
(* Agent, and what it leaves for the handler behind the middleware.  A     *)
(* body is a stream: a sequence of bytes, and whether an error or the end  *)
(* comes after them.                                                       *)
(***************************************************************************)
EXTENDS Integers, Sequences, SequencesExt

CONSTANT MaximumBytes       \* requestBody.maximumBytes

ASSUME LimitNatural == MaximumBytes \in Nat

(* Media types and patterns are pairs; "" is a type that does not parse.     *)
bodyContentTypeAllowed(type, allowed) ==
  /\ type # <<>>
  /\ \E pattern \in allowed : pattern = type \/ pattern = <<type[1], "*">>

(* A path is the sequence of its segments, the last empty after a slash at   *)
(* the end; "/" is << "" >>.  A prefix matches itself and what lies below.   *)
trimmed(prefix) ==
  IF Last(prefix) = "" THEN Front(prefix) ELSE prefix

bypassBodyPath(path, prefixes) ==
  \E prefix \in prefixes :
    prefix = <<"">> \/ path = prefix \/ IsStrictPrefix(trimmed(prefix), path)

captures(request, config) ==
  /\ config.enabled
  /\ request.hasBody
  /\ request.protocol = "http"
  /\ ~bypassBodyPath(request.path, config.bypass)
  /\ bodyContentTypeAllowed(request.type, config.types)

(* A slip that the runs show a property notices. *)
limited_noLookahead(stream, n) ==
  IF Len(stream.bytes) >= n - 1
  THEN [bytes |-> SubSeq(stream.bytes, 1, n - 1), end |-> "eof"]
  ELSE stream

(* What a reader limited to n bytes has read, and the error it has met.      *)
limited(stream, n) ==
  IF Len(stream.bytes) >= n
  THEN [bytes |-> SubSeq(stream.bytes, 1, n), end |-> "eof"]
  ELSE stream

rest(stream, n) == [stream EXCEPT !.bytes = SubSeq(@, n + 1, Len(@))]

multiReader(prefix, stream) == [stream EXCEPT !.bytes = prefix \o @]

(* "body" is what the Agent is given, "replay" the body the request has      *)
(* afterwards, "read" the bytes held in memory.                              *)
captureRequestBody(request, config) ==
  LET prefix    == limited(request.body, MaximumBytes + 1)
      oversized == prefix.end = "eof" /\ Len(prefix.bytes) > MaximumBytes
      failed    == prefix.end = "error"
  IN IF captures(request, config)
     THEN [body      |-> IF failed \/ oversized THEN <<>> ELSE prefix.bytes,
           oversized |-> oversized,
           failed    |-> failed,
           replay    |-> multiReader(prefix.bytes, rest(request.body, Len(prefix.bytes))),
           read      |-> Len(prefix.bytes)]
     ELSE [body |-> <<>>, oversized |-> FALSE, failed |-> FALSE,
           replay |-> request.body, read |-> 0]

=============================================================================
