---------------------------- MODULE DecisionCache ----------------------------
(***************************************************************************)
(* The deny-only decision cache of cache.go and the goroutines that use it *)
(* from ServeHTTP.  A goroutine reads the clock once (middleware.go:88),   *)
(* looks its request up, and on a miss asks the Agent and puts the answer  *)
(* back UNDER THE READING TAKEN BEFORE IT ASKED.  get and put hold the     *)
(* mutex and are one step each; others run in between, so puts arrive in   *)
(* any order and with readings that are not in order either.               *)
(*                                                                         *)
(* A fingerprint (evaluationCacheKey) is KeyOf[r]; module Fingerprint says *)
(* which requests share one.  The rest of what cacheCompositeKey hashes is *)
(* the answer's grant (ResourceID, DecisionScope and CacheKey) and its     *)
(* revision; the client address is already a part of the fingerprint.      *)
(***************************************************************************)
EXTENDS Integers, FiniteSets, Functions

CONSTANTS
  Callers,          \* goroutines in ServeHTTP
  Requests,         \* the evaluationRequests they may carry
  KeyOf,            \* KeyOf[r]: evaluationCacheKey(r)
  Answers,          \* the valid answers the Agent may give
  MaximumEntries,   \* decisionCache.maximumEntries
  MaximumTTL,       \* decisionCache.maximumTTL, in units of the clock
  Patience,         \* bounds reading the clock .. get, and .. put
  MaxTime,          \* bound: the last instant
  NoRequest, NoEntry

Denials == {"block", "rate_limit"}

ASSUME KeyOfIsFunction == KeyOf = [r \in Requests |-> KeyOf[r]]
ASSUME AnswersTyped ==
  \A a \in Answers : a.revision \in Nat /\ a.ttl \in Nat
ASSUME BoundsTyped ==
  MaximumEntries \in Nat /\ MaximumTTL \in Nat /\ Patience \in Nat /\ MaxTime \in Nat
ASSUME NoRequestIsNone == NoRequest \notin Requests

Never == 0            \* no reading; the clock starts at 1
Times == 1..MaxTime
Keys  == {KeyOf[r] : r \in Requests}

VARIABLES
  clock,
  entries, requestIndex, latestRevision,   \* the fields of decisionCache
  wanted,   \* wanted[c]: the request c works on, NoRequest if it is idle
  asked,    \* asked[c]: the reading c holds while the Agent decides, or Never
  served    \* served[c]: the entry get returned to c, until c has answered

cacheVars == <<entries, requestIndex, latestRevision>>
vars == <<clock, entries, requestIndex, latestRevision, wanted, asked, served>>

Composites == Keys \X {a.grant : a \in Answers} \X Nat

(* An entry keeps the answer it was built from.  request and answeredAt are  *)
(* history: whose answer it was, and the instant at which put stored it.     *)
Entry == [answer : Answers, requestFingerprint : Keys,
          expiresAt : Nat, createdAt : Nat, request : Requests, answeredAt : Nat]

TypeOK ==
  /\ clock \in Nat \ {0}
  /\ DOMAIN entries \subseteq Composites
  /\ \A k \in DOMAIN entries : entries[k] \in Entry
  /\ DOMAIN requestIndex \subseteq Keys
  /\ \A f \in DOMAIN requestIndex : requestIndex[f] \in Composites
  /\ latestRevision \in Nat
  /\ wanted \in [Callers -> Requests \cup {NoRequest}]
  /\ asked \in [Callers -> Nat]
  /\ served \in [Callers -> Entry \cup {NoEntry}]

Empty == [k \in {} |-> k]

Init ==
  /\ clock = 1
  /\ entries = Empty
  /\ requestIndex = Empty
  /\ latestRevision = 0
  /\ wanted = [c \in Callers |-> NoRequest]
  /\ asked = [c \in Callers |-> Never]
  /\ served = [c \in Callers |-> NoEntry]

-----------------------------------------------------------------------------
(* The methods.  deleteEntry removes an entry, and its fingerprint from the  *)
(* index if the index still points to it; keptEntries and keptIndex are what *)
(* deleting a set of entries leaves.                                         *)

(* Operators named <method>_<slip> are a method with a slip in it; only the   *)
(* runs that show that a property notices the slip use them.                 *)
keptEntries_all(es, dead) == es

keptEntries(es, dead) == Restrict(es, DOMAIN es \ dead)

keptIndex_all(es, index, dead) == index

keptIndex(es, index, dead) ==
  Restrict(index, {f \in DOMAIN index :
    ~\E k \in dead : es[k].requestFingerprint = f /\ index[f] = k})

with(f, key, value) == [x \in DOMAIN f \cup {key} |-> IF x = key THEN value ELSE f[x]]

enabled == MaximumEntries # 0 /\ MaximumTTL # 0

expired_early(now, entry) == now + 1 >= entry.expiresAt

expired(now, entry) == now >= entry.expiresAt

(* get finds a live entry of the latest revision ...                         *)
hit(r, now) ==
  /\ enabled
  /\ KeyOf[r] \in DOMAIN requestIndex
  /\ LET composite == requestIndex[KeyOf[r]] IN
       /\ composite \in DOMAIN entries
       /\ ~expired(now, entries[composite])
       /\ entries[composite].requestFingerprint = KeyOf[r]
       /\ entries[composite].answer.revision = latestRevision

found(r) == entries[requestIndex[KeyOf[r]]]

(* ... or deletes what it found instead: a dangling index or a useless entry. *)
get_miss(r, now) ==
  /\ ~hit(r, now)
  /\ IF enabled /\ KeyOf[r] \in DOMAIN requestIndex
     THEN LET composite == requestIndex[KeyOf[r]]
              dead      == {composite} \cap DOMAIN entries
          IN  /\ entries' = keptEntries(entries, dead)
              /\ requestIndex' = IF dead = {}
                                 THEN Restrict(requestIndex, DOMAIN requestIndex \ {KeyOf[r]})
                                 ELSE keptIndex(entries, requestIndex, dead)
     ELSE UNCHANGED <<entries, requestIndex>>
  /\ UNCHANGED latestRevision

(* What put insists on: the Agent authorised this denial to be kept.         *)
storable_withToken(a) ==
  /\ enabled
  /\ a.cacheable /\ a.ttl > 0 /\ a.scope \in {"full", "loose"} /\ a.revision # 0
  /\ a.decision \in Denials

storable(a) ==
  /\ enabled
  /\ a.cacheable /\ a.ttl > 0 /\ a.scope \in {"full", "loose"} /\ a.revision # 0
  /\ a.decision \in Denials
  /\ ~a.token

lifetime_unbounded(a) == a.ttl

lifetime(a) == IF a.ttl > MaximumTTL THEN MaximumTTL ELSE a.ttl

cacheCompositeKey(r, a) == <<KeyOf[r], a.grant, a.revision>>

newEntry_backwards(r, a, now) ==
  [answer |-> a, requestFingerprint |-> KeyOf[r], expiresAt |-> now - lifetime(a),
   createdAt |-> now, request |-> r, answeredAt |-> clock]

newEntry(r, a, now) ==
  [answer |-> a, requestFingerprint |-> KeyOf[r], expiresAt |-> now + lifetime(a),
   createdAt |-> now, request |-> r, answeredAt |-> clock]

(* The oldest entries by createdAt; put takes the first its map walk meets.  *)
oldest_any(es) == DOMAIN es

oldest(es) == {k \in DOMAIN es : \A l \in DOMAIN es : es[k].createdAt <= es[l].createdAt}

(* put, on the entries es and index of its start: empty after a new revision. *)
insert(r, a, now, es, index) ==
  LET composite  == cacheCompositeKey(r, a)
      swept      == {k \in DOMAIN es : expired(now, es[k])}
      liveIndex  == keptIndex(es, index, swept)
      replaced   == IF KeyOf[r] \in DOMAIN liveIndex
                    THEN {liveIndex[KeyOf[r]]} \ {composite} ELSE {}
      dead       == swept \cup (replaced \cap DOMAIN es)
      keptEs     == keptEntries(es, dead)
      full       == /\ composite \notin DOMAIN keptEs
                    /\ Cardinality(DOMAIN keptEs) >= MaximumEntries
  IN \E evicted \in IF full THEN {{k} : k \in oldest(keptEs)} ELSE {{}} :
       /\ entries' = with(keptEntries(es, dead \cup evicted),
                          composite, newEntry(r, a, now))
       /\ requestIndex' = with(keptIndex(es, index, dead \cup evicted),
                               KeyOf[r], composite)

put_keepsOldPolicy(r, a, now) ==
  IF ~storable(a) \/ a.revision < latestRevision
  THEN UNCHANGED cacheVars
  ELSE /\ latestRevision' = a.revision
       /\ insert(r, a, now, entries, requestIndex)

put_acceptsOldPolicy(r, a, now) ==
  IF ~storable(a)
  THEN UNCHANGED cacheVars
  ELSE /\ latestRevision' = a.revision
       /\ IF a.revision # latestRevision
          THEN insert(r, a, now, Empty, Empty)
          ELSE insert(r, a, now, entries, requestIndex)

put(r, a, now) ==
  IF ~storable(a) \/ a.revision < latestRevision
  THEN UNCHANGED cacheVars
  ELSE /\ latestRevision' = a.revision
       /\ IF a.revision > latestRevision
          THEN insert(r, a, now, Empty, Empty)
          ELSE insert(r, a, now, entries, requestIndex)

-----------------------------------------------------------------------------
(* The goroutines. *)

Holds(c, now) ==
  /\ wanted[c] = NoRequest
  /\ now <= clock /\ clock <= now + Patience

(* The lookup finds a denial; c now has it in hand, outside the mutex.       *)
Hit(c, r, now) ==
  /\ Holds(c, now)
  /\ hit(r, now)
  /\ wanted' = [wanted EXCEPT ![c] = r]
  /\ served' = [served EXCEPT ![c] = found(r)]
  /\ UNCHANGED <<clock, entries, requestIndex, latestRevision, asked>>

(* The lookup finds nothing and c goes on to the Agent.                      *)
Miss(c, r, now) ==
  /\ Holds(c, now)
  /\ get_miss(r, now)
  /\ wanted' = [wanted EXCEPT ![c] = r]
  /\ asked' = [asked EXCEPT ![c] = now]
  /\ UNCHANGED <<clock, served>>

(* The Agent answered: c puts the answer and is done.                        *)
Store(c, a) ==
  /\ asked[c] # Never
  /\ put(wanted[c], a, asked[c])
  /\ wanted' = [wanted EXCEPT ![c] = NoRequest]
  /\ asked' = [asked EXCEPT ![c] = Never]
  /\ UNCHANGED <<clock, served>>

(* The breaker refused c, or the Agent gave no answer to put.                *)
Abandon(c) ==
  /\ asked[c] # Never
  /\ wanted' = [wanted EXCEPT ![c] = NoRequest]
  /\ asked' = [asked EXCEPT ![c] = Never]
  /\ UNCHANGED <<clock, entries, requestIndex, latestRevision, served>>

(* c has written the denial it was served.                                   *)
Return(c) ==
  /\ served[c] # NoEntry
  /\ wanted' = [wanted EXCEPT ![c] = NoRequest]
  /\ served' = [served EXCEPT ![c] = NoEntry]
  /\ UNCHANGED <<clock, entries, requestIndex, latestRevision, asked>>

Tick ==
  /\ clock < MaxTime
  /\ \A c \in Callers : asked[c] # Never => clock < asked[c] + Patience
  /\ clock' = clock + 1
  /\ UNCHANGED <<entries, requestIndex, latestRevision, wanted, asked, served>>

Next ==
  \/ \E c \in Callers, r \in Requests, now \in Times : Hit(c, r, now) \/ Miss(c, r, now)
  \/ \E c \in Callers, a \in Answers : Store(c, a)
  \/ \E c \in Callers : Abandon(c) \/ Return(c)
  \/ Tick

Spec == Init /\ [][Next]_vars

-----------------------------------------------------------------------------
(* The index and the entries are two views of one relation: every entry is   *)
(* the one its fingerprint points to, and nothing in the index dangles, so   *)
(* a fingerprint has one entry at most whatever grants the Agent gave for it *)
(* (cache.go:98-122, 125-130).  Were it otherwise, an entry could neither be *)
(* found nor replaced, and a sweep could delete another entry's index.       *)
Matches(es, index) ==
  /\ \A k \in DOMAIN es :
       /\ es[k].requestFingerprint \in DOMAIN index
       /\ index[es[k].requestFingerprint] = k
  /\ \A f \in DOMAIN index :
       /\ index[f] \in DOMAIN es
       /\ es[index[f]].requestFingerprint = f
IndexMatchesEntries == Matches(entries, requestIndex)

(* Every entry was granted under the latest revision seen: an answer given   *)
(* under an older one can be late, and still leaves no entry (cache.go:86-92). *)
OneRevision == \A k \in DOMAIN entries : entries[k].answer.revision = latestRevision

(* The cache never holds more than its limit (cache.go:105-118). *)
Bounded == Cardinality(DOMAIN entries) <= MaximumEntries

(* A goroutine is served only what the Agent said of the request it carries, *)
(* as README.md:109-111 promises: "bound to the exact request, client, ...". *)
ExactBinding == \A c \in Callers : served[c] # NoEntry => served[c].request = wanted[c]

(* A denial is served from the cache for at most MaximumTTL after the Agent  *)
(* gave it, and the lag of the reading that looked it up (cache.go:56-59,    *)
(* 75-82, 119-122): the readings of put and get are both late, by different  *)
(* amounts.                                                                  *)
StaleDenyBound ==
  [][\A c \in Callers : served[c] = NoEntry /\ served'[c] # NoEntry =>
       clock < served'[c].answeredAt + MaximumTTL + Patience]_vars

(* The revision never goes back, and what is served was granted under the    *)
(* latest one (cache.go:60-64, 86-92).                                       *)
NoOlderPolicy ==
  [][/\ latestRevision' >= latestRevision
     /\ \A c \in Callers : served[c] = NoEntry /\ served'[c] # NoEntry =>
          served'[c].answer.revision = latestRevision]_vars

(* A put costs the other requests at most one denial that still has time to  *)
(* run, the oldest kept, and that only when the cache is full and the policy *)
(* has not changed; a lookup costs none (cache.go:55-64, 93-118).            *)
Lost ==
  {k \in DOMAIN entries \ DOMAIN entries' :
     entries[k].expiresAt > clock /\ entries[k].requestFingerprint \notin DOMAIN requestIndex'}

LosesOnlyTheOldest ==
  [][latestRevision' = latestRevision /\ Lost # {} =>
       /\ Cardinality(Lost) = 1
       /\ Cardinality(DOMAIN entries') = MaximumEntries
       /\ \A k \in Lost, l \in DOMAIN entries \cap DOMAIN entries' :
            entries[k].createdAt <= entries[l].createdAt]_vars

=============================================================================
