------------------------------ MODULE Forwarding ------------------------------
(***************************************************************************)
(* Which headers and cookies of a request are described to the Agent       *)
(* (forwarding.go).  Names are numbers in the order in which the code      *)
(* sorts them; a value is its length and whether it holds a byte that may  *)
(* not be forwarded in a header, or that net/http refuses in a cookie;     *)
(* names count NameBytes each.  Header names are taken in their canonical  *)
(* form, as Go's HTTP server delivers them.                                *)
(***************************************************************************)
EXTENDS Sorting, Sequences, SequencesExt

CONSTANTS
  CookieHeader,             \* the name of the raw Cookie header
  ContentLength,            \* the names of the two headers that frame a body
  TransferEncoding,
  NoTokens,                 \* names with a byte that no name may have
  InvalidNames,             \* these, and those that are too long
  NameBytes,
  FramingBytes,             \* the length of what the framing headers say
  maximumForwardedValueBytes,
  maximumForwarded,         \* maximumForwardedHeaders, maximumForwardedCookies
  maximumForwardedBytes     \* maximumForwardedHeaderBytes, ...CookieBytes

ASSUME NamesAreNumbers ==
  /\ {CookieHeader, ContentLength, TransferEncoding} \subseteq Nat
  /\ CookieHeader \notin {ContentLength, TransferEncoding}
ASSUME NoTokensAreInvalid == NoTokens \subseteq InvalidNames
ASSUME BoundsAreNumbers ==
  {NameBytes, FramingBytes, maximumForwardedValueBytes, maximumForwarded, maximumForwardedBytes}
    \subseteq Nat

(* The configured names in their order, each where it occurs first.          *)
newForwardingPolicy(mode, configured) ==
  LET places == sorted({i \in DOMAIN configured :
                          \A j \in 1..(i - 1) : configured[j] # configured[i]})
  IN [all |-> mode = "all", names |-> [i \in DOMAIN places |-> configured[places[i]]]]

(* Three slips that the runs show a property notices: order_sorted,          *)
(* flag_never and fits_oneMore.                                              *)
order_sorted(policy, present) ==
  sorted(IF policy.all THEN present \cup Range(policy.names) ELSE Range(policy.names))

(* Configured names first, then the others, sorted.                          *)
order(policy, present) ==
  policy.names \o IF policy.all THEN sorted(present \ Range(policy.names)) ELSE <<>>

Empty == [kept |-> [n \in {} |-> 0], total |-> 0, truncated |-> FALSE]

add(taken, name, length) ==
  [kept |-> [n \in DOMAIN taken.kept \cup {name} |-> IF n = name THEN length ELSE taken.kept[n]],
   total |-> taken.total + NameBytes + length, truncated |-> taken.truncated]

fits_oneMore(taken, length) ==
  /\ Cardinality(DOMAIN taken.kept) <= maximumForwarded
  /\ taken.total + NameBytes + length <= maximumForwardedBytes

fits(taken, length) ==
  /\ Cardinality(DOMAIN taken.kept) < maximumForwarded
  /\ taken.total + NameBytes + length <= maximumForwardedBytes

flag_never(taken) == taken

flag(taken) == [taken EXCEPT !.truncated = TRUE]

(* One pass of the loop over the names: one that may not be forwarded or     *)
(* does not fit is left out, a long value is cut; each of these is flagged.  *)
take(taken, name, value) ==
  LET length == IF value.length > maximumForwardedValueBytes
                THEN maximumForwardedValueBytes ELSE value.length
      cut    == IF length < value.length THEN flag(taken) ELSE taken
  IN CASE name \in InvalidNames \/ value.dirty -> flag(taken)
       [] ~(name \in InvalidNames \/ value.dirty) /\ ~fits(taken, length) -> flag(cut)
       [] OTHER -> add(cut, name, length)

takeEach(names, values) ==
  LET taken[i \in 0..Len(names)] ==
        IF i = 0 THEN Empty
        ELSE IF names[i] \in DOMAIN values THEN take(taken[i - 1], names[i], values[names[i]])
        ELSE taken[i - 1]
  IN taken[Len(names)]

takeAll(policy, values) == takeEach(order(policy, DOMAIN values), values)

(* headers is a function of the names present; framed, the names of the      *)
(* framing headers that this request has.                                    *)
framing(method, contentLength, transferEncoding) ==
  (IF contentLength >= 0 /\ method \notin {"GET", "HEAD"} THEN {ContentLength} ELSE {})
    \cup (IF transferEncoding THEN {TransferEncoding} ELSE {})

forwardedHeaders(policy, headers, framed) ==
  LET taken == takeAll(policy, [n \in DOMAIN headers \ {CookieHeader} |-> headers[n]])
  IN [kept |-> [n \in DOMAIN taken.kept \cup framed |->
                 IF n \in framed THEN FramingBytes ELSE taken.kept[n]],
      truncated |-> taken.truncated]

(* net/http: of the pairs of the Cookie headers, in the order in which they  *)
(* arrived, those that it can parse.  The others it leaves out, and it says  *)
(* so to nobody.  A value's length is what is left of it without its quotes. *)
parsable(pair) == pair.name \notin NoTokens /\ ~pair.value.dirty

readCookies(pairs) ==
  LET places == sorted({i \in DOMAIN pairs : parsable(pairs[i])})
  IN [i \in DOMAIN places |-> pairs[places[i]]]

(* Of a name that occurs again the first cookie counts.                      *)
firstCookies(cookies) ==
  [n \in {cookies[i].name : i \in DOMAIN cookies} |->
    cookies[CHOOSE i \in DOMAIN cookies :
              cookies[i].name = n /\ \A j \in 1..(i - 1) : cookies[j].name # n].value]

forwardedCookies(policy, pairs) ==
  LET parsed == readCookies(pairs)
      first  == firstCookies(parsed)
      taken  == takeAll(policy, first)
  IN [kept |-> taken.kept,
      truncated |-> taken.truncated \/ Cardinality(DOMAIN first) < Len(parsed)]

=============================================================================
