--------------------------- MODULE ProviderRanges ---------------------------
(***************************************************************************)
(* provider_ranges.go: the store of the address ranges of the CDN          *)
(* providers, and the one background goroutine that refreshes it from the  *)
(* lists the providers publish, one source after another.  A list may      *)
(* change between two refreshes, and any fetch may fail.                   *)
(*                                                                         *)
(* An address is a number, a network the set of its addresses.             *)
(***************************************************************************)
EXTENDS Integers, Sequences, FiniteSets

CONSTANTS
  Addresses,
  NotPublic,            \* the addresses publicProviderIP refuses
  SourceOrder,          \* defaultProviderSources: their names, in order
  ProviderOf,           \* ProviderOf[s]: the provider of source s
  Lists,                \* Lists[s]: the lists s may publish, sets of networks
  providerMaximumRanges,
  MaximumStaleAge,      \* providerMaximumStaleAge, in units of the clock
  Interval,             \* providerRefreshInterval
  RefreshTime,          \* bounds a refresh: a fetch takes providerFetchTimeout at most
  MaxTime,              \* bound: the last instant
  FaultsUntil           \* bound: up to here fetches may fail and lists change

Sources   == {SourceOrder[i] : i \in DOMAIN SourceOrder}
Providers == {"cloudflare", "bunny"}
Never == 0              \* time.Time{}; the clock starts at 1

ASSUME AddressesNatural == Addresses \subseteq Nat /\ NotPublic \subseteq Addresses
ASSUME SourcesNamed     == SourceOrder \in Seq(Sources)
ASSUME ProvidersKnown   == ProviderOf \in [Sources -> Providers]
ASSUME NetworksNonempty ==
  \A s \in Sources : Lists[s] # {} /\ Lists[s] \subseteq SUBSET ((SUBSET Addresses) \ {{}})
ASSUME DurationsOrdered ==
  /\ MaximumStaleAge \in Nat /\ Interval \in Nat /\ RefreshTime \in Nat
  /\ RefreshTime < Interval
ASSUME BoundsNatural    == MaxTime \in Nat /\ FaultsUntil \in Nat

VARIABLES
  clock,
  sources,        \* store.sources; a source never read has no networks
  due,            \* the sources run has still to fetch in this refresh
  stamp,          \* the now of the last refresh begun, Never before run starts
  nextTick,       \* when the ticker fires next, Never before it is created
  published,      \* what each source publishes now
  publishedAt,    \* history: the last instant at which s published an address
  missed          \* history: fetches of s that failed since one succeeded

updaterVars == <<sources, due, stamp, nextTick, missed>>
worldVars   == <<published, publishedAt>>
rangeVars   == <<clock, updaterVars, worldVars>>

-----------------------------------------------------------------------------
Covers(list, ip) == \E network \in list : ip \in network

(* providerFor: what the store says of ip at now. *)
(* Operators named <operation>_<slip> are an operation with a slip in it;    *)
(* only the runs that show that a property notices the slip use them.        *)
fresh_strict(s, now) == now - sources[s].updatedAt < MaximumStaleAge

fresh(s, now) == now - sources[s].updatedAt <= MaximumStaleAge

matches(ip, now) ==
  {ProviderOf[s] : s \in {q \in Sources : fresh(q, now) /\ Covers(sources[q].networks, ip)}}

providerFor(ip, now) ==
  IF matches(ip, now) = Providers THEN "ambiguous"
  ELSE IF matches(ip, now) = {} THEN "none"
  ELSE CHOOSE p \in Providers : p \in matches(ip, now)

(* parseProviderNetworks accepts the list.  Of a network it looks at the     *)
(* first address only.                                                       *)
base(network) == CHOOSE ip \in network : \A other \in network : ip <= other

usable(list) ==
  /\ list # {}
  /\ Cardinality(list) <= providerMaximumRanges
  /\ \A network \in list : base(network) \notin NotPublic

-----------------------------------------------------------------------------
Seen(list, s, at) ==
  [ip \in Addresses |-> IF Covers(list, ip) THEN at ELSE publishedAt[s][ip]]

RangesTypeOK ==
  /\ clock \in Nat \ {0}
  /\ sources \in [Sources -> [networks : SUBSET SUBSET Addresses, updatedAt : Nat]]
  /\ due \in Seq(Sources)
  /\ stamp \in Nat
  /\ nextTick \in Nat
  /\ published \in [Sources -> SUBSET SUBSET Addresses]
  /\ publishedAt \in [Sources -> [Addresses -> Nat]]
  /\ missed \in [Sources -> Nat]

RangesInit ==
  /\ clock = 1
  /\ sources = [s \in Sources |-> [networks |-> {}, updatedAt |-> Never]]
  /\ due = <<>>
  /\ stamp = Never
  /\ nextTick = Never
  /\ published \in {f \in [Sources -> UNION {Lists[s] : s \in Sources}] :
                      \A s \in Sources : f[s] \in Lists[s]}
  /\ publishedAt = [s \in Sources |->
                      [ip \in Addresses |-> IF Covers(published[s], ip) THEN 1 ELSE Never]]
  /\ missed = [s \in Sources |-> 0]

(* The first middleware that is created with a live context starts run,      *)
(* which refreshes at once; the others find that it runs.                    *)
Start ==
  /\ stamp = Never
  /\ due' = SourceOrder
  /\ stamp' = clock
  /\ UNCHANGED <<clock, sources, nextTick, missed, worldVars>>

(* The ticker fires.  The refresh bears the time of the tick.                *)
Refresh ==
  /\ due = <<>> /\ nextTick # Never /\ nextTick <= clock
  /\ due' = SourceOrder
  /\ stamp' = nextTick
  /\ nextTick' = nextTick + Interval
  /\ UNCHANGED <<clock, sources, missed, worldVars>>

Finish_noTicker ==
  /\ due # <<>>
  /\ due' = Tail(due)
  /\ UNCHANGED <<clock, stamp, nextTick, worldVars>>

(* fetch is done with the next source, and so is refresh with the last one:  *)
(* only now, after the first refresh, is the ticker created.                 *)
Finish ==
  /\ due # <<>>
  /\ due' = Tail(due)
  /\ nextTick' = IF due' = <<>> /\ nextTick = Never THEN clock + Interval ELSE nextTick
  /\ UNCHANGED <<clock, stamp, worldVars>>

Fetched_stampsByTicker ==
  /\ Finish
  /\ LET s == Head(due) IN
       /\ usable(published[s])
       /\ sources' = [sources EXCEPT ![s] =
                        [networks |-> published[s], updatedAt |-> nextTick - Interval]]
       /\ missed' = [missed EXCEPT ![s] = 0]

Fetched ==
  /\ Finish
  /\ LET s == Head(due) IN
       /\ usable(published[s])
       /\ sources' = [sources EXCEPT ![s] =
                        [networks |-> published[s], updatedAt |-> stamp]]
       /\ missed' = [missed EXCEPT ![s] = 0]

FetchFailed_restamps ==
  /\ Finish
  /\ clock <= FaultsUntil \/ ~usable(published[Head(due)])
  /\ missed' = [missed EXCEPT ![Head(due)] = @ + 1]
  /\ sources' = [sources EXCEPT ![Head(due)].updatedAt = stamp]

FetchFailed ==
  /\ Finish
  /\ clock <= FaultsUntil \/ ~usable(published[Head(due)])
  /\ missed' = [missed EXCEPT ![Head(due)] = @ + 1]
  /\ UNCHANGED sources

-----------------------------------------------------------------------------
(* A provider publishes a list: in the end, always the same.                 *)
Publish(s, list) ==
  /\ clock <= FaultsUntil \/ list = published[s]
  /\ published' = [published EXCEPT ![s] = list]
  /\ publishedAt' = [publishedAt EXCEPT ![s] = Seen(list, s, clock)]
  /\ UNCHANGED <<clock, updaterVars>>

(* Time passes, not beyond the end of a refresh, nor past a tick unseen.     *)
Tick ==
  /\ clock < MaxTime
  /\ due # <<>> => clock < stamp + RefreshTime
  /\ due = <<>> /\ nextTick # Never => clock < nextTick
  /\ clock' = clock + 1
  /\ publishedAt' = [s \in Sources |-> Seen(published[s], s, clock')]
  /\ UNCHANGED <<updaterVars, published>>

Fetch == Fetched \/ FetchFailed

RangesNext ==
  \/ Start \/ Refresh \/ Fetch \/ Tick
  \/ \E s \in Sources : \E list \in Lists[s] : Publish(s, list)

RangesSpec == RangesInit /\ [][RangesNext]_rangeVars

(* A middleware is created in the end, time passes, the goroutine runs on.   *)
FairRangesSpec ==
  RangesSpec /\ WF_rangeVars(Start) /\ WF_rangeVars(Refresh) /\ WF_rangeVars(Fetch)
             /\ WF_rangeVars(Tick)

-----------------------------------------------------------------------------
(* An address is taken for a provider's node only if one of its sources      *)
(* published it in the last MaximumStaleAge: a source that cannot be read    *)
(* stops being believed, however often it is tried (README.md:140-143).      *)
StaleListsExpire ==
  \A ip \in Addresses, p \in Providers : providerFor(ip, clock) = p =>
    \E s \in Sources : /\ ProviderOf[s] = p
                       /\ publishedAt[s][ip] # Never
                       /\ clock <= publishedAt[s][ip] + MaximumStaleAge

(* A list outlives any outage that spans so few refreshes that they fit into *)
(* MaximumStaleAge, with the time the first and the last one of them take:   *)
(* six with the constants of provider_ranges.go:19-25.                       *)
Outlived(s) == (missed[s] + 1) * Interval + 2 * RefreshTime <= MaximumStaleAge

OutageSurvived ==
  \A s \in Sources : sources[s].updatedAt # Never /\ Outlived(s) => fresh(s, clock)

(* Once fetches succeed and lists rest, every usable list is known and stays *)
(* so, and one that has become unusable is forgotten.                        *)
Current(s) == IF usable(published[s])
              THEN sources[s].networks = published[s] /\ fresh(s, clock)
              ELSE ~\E ip \in Addresses : fresh(s, clock) /\ Covers(sources[s].networks, ip)

Settles == (clock > FaultsUntil) ~> [](\A s \in Sources : Current(s))

(* "non-public ranges ... are rejected" (README.md:144-145).                 *)
NonPublicRejected ==
  \A ip \in NotPublic : providerFor(ip, clock) = "none"

=============================================================================
