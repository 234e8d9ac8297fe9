# A verification project for the Sokol Traefik plugin

TLA+ modules that model the plugin in `src/`, TLC configurations that check them
on small instances, and proofs that TLAPS checks for every instance. Lines are
cited as `file:first-last` of `src/`.

## The system

A request passes through `ServeHTTP` (`middleware.go`) in one goroutine. It

1. finds the visitor's address (`client_ip.go`), for which it reads the address
   ranges of the CDN providers, kept fresh by one background goroutine for all
   middlewares (`provider_ranges.go`);
2. answers the challenge endpoints itself (`challenge.go`), and refuses bad
   metadata and oversized bodies (`body.go`);
3. collects headers and cookies (`forwarding.go`);
4. reads the clock, **once**, and with this reading looks the request up in the
   deny-only decision cache and asks the circuit breaker (`cache.go`);
5. has the local Agent evaluate it (`agent.go`) and reports to the breaker;
6. puts the answer into the cache, still under the reading of step 4;
7. hands the request on or writes a page (`responses.go`).

| Component | State | Operations | What is hard | What makes it correct |
|---|---|---|---|---|
| Circuit breaker | failures, openUntil, probe; mutex | allow, success, failure | reports come late, in any order, with old readings, while a probe is out | open exactly at the threshold; one trial call at a time; never wedged; recovers |
| Decision cache | entries by composite key, index by fingerprint, latest revision; mutex | get, put (sweep, replace, evict) | two maps to keep inverse; late puts; policy revisions out of order; a full cache | consistent, bounded, one revision, no denial for another request or after its time |
| Cache key | none | evaluationCacheKey | which requests it tells apart | equal keys only for equal requests |
| Agent client | token, HTTP client | evaluate, challengeCreate, challengeVerify | timeouts in each phase, malformed replies | no unvalidated answer is acted on |
| Pipeline | per goroutine | ServeHTTP | everything above interleaved with changes of policy | fails closed when told to; every request answered |
| Range store and updater | list and stamp per source; RWMutex; ticker | replace, providerFor; refresh | failing sources, staleness, startup | old lists expire, short outages do no harm, heals |
| Client address | none of its own | extractClientIPWithSource | several reads of a store that changes | only vouched-for addresses; nodes are not visitors |
| Page store | page cache; mutex | write, page | cache keyed by file name, fallbacks cached too, late goroutines | recent pages; spaced loads; a challenge page that can be solved |
| Forwarding, body | none | forwardedHeaders, forwardedCookies, captureRequestBody | bounds, order, replay of the body | bounded, deterministic, body intact |
| Challenge endpoints | none (the Agent uses tokens up) | create, verify | verify timing out after the Agent acted; schemes behind proxies | a visitor that does not give up gets in |
| Installer, publisher | plugin directory; releases on Gitea | scripts/ | failures, signals and crashes between two commands, racing runs, lost answers | only complete releases get installed; a later run repairs |
| Configuration | none | New, validateConfig | - | bounds that the models take as assumptions |

## The modules

| Module | Models | State and actions |
|---|---|---|
| `AgentGate` | what a breaker promises, abstractly | callers outstanding, shut or not, an allowance |
| `CircuitBreaker` | cache.go:193-238 and its calls in middleware.go:88-107 | `failures`, `openUntil`, `probe` are the fields. `asked[c]` is the reading goroutine `c` holds while it waits. `Admit`/`Refuse` are `allow`; `Succeed`/`Fail` are the reports |
| `DecisionCache` | cache.go:13-141 and its calls in middleware.go:88-132 | `entries`, `requestIndex`, `latestRevision` are the fields. `Hit`/`Miss` are `get`, `Store` is `put`. An entry also remembers, as history, whose it is and when it was stored |
| `Sorting` | the walks over the sorted keys of a map in cache.go and forwarding.go | one operator |
| `Fingerprint` | cache.go:143-191 | the sequence of parts that is hashed |
| `AgentResponse` | agent.go:185-297, responses.go:60-66, 212-226 | operators: how a reply is sorted (`evaluate`), how an answer is written |
| `ClientResponse` | middleware.go:97-150, responses.go:60-77 | extends `AgentResponse`: what the client is shown for a reply under each failure mode (`shown`, by `handleFailure`, `handleDecision` and `write`) |
| `Middleware` | middleware.go:15-150 | `pc[c]` is the place in `ServeHTTP`; instances `Breaker` and `Cache` share its variables; `Amend` changes the Agent's policy |
| `ProviderRanges` | provider_ranges.go | `sources` is the store; `due`, `stamp`, `nextTick` are where the updater is; `Publish` is the world |
| `ClientIP` | client_ip.go | one goroutine; each read of the store is a step (`Recognize` twice, `Check`, `Name`) and any step of the updater may come in between |
| `Forwarding` | forwarding.go | operators: the policy, the order, the loop over the names with its bounds and flags, the framing headers; `readCookies` is what net/http makes of the pairs that arrive |
| `BodyCapture` | body.go | operators: when a body is captured, the limited reader, the replay |
| `PageStore` | responses.go:21-58, 127-203 | `cache` is the page cache, `disk` the files, which `Edit` changes; `heldAt` is history. `page` is the method |
| `Challenge` | challenge.go, agent.go:341-410, middleware.go:182-194, responses.go:60-111 | extends `PageStore`. `place[v]` is where visitor `v` is: `Visit`, `Show`, `Create`, `Solve`, `Verify` (or `Reject`, `VerifyFails`), `Enter`. `token`, `late` are the Agent's |
| `Publisher` | scripts/publish-gitea-release.sh, next-version.sh, package-release.sh | `releases` is what Gitea holds; `pc`, `version`, `attempt` are the variables of each run; one action per request |
| `Installer` | scripts/install-from-gitea.sh | extends `Publisher`. `destination` is the plugin directory, `inst[i]` the step and the workspace of each installer; one action per command, and `Interrupt` and `Kill` at any of them |
| `CircuitBreakerProofs`, `DecisionCacheProofs`, `MiddlewareProofs`, `ProviderRangesProofs`, `ClientIPProofs`, `ExchangeProofs`, `ChallengeProofs`, `DeliveryProofs` | | the theorems |
| `MC...` | | requests, answers, lists, policies and visitors for TLC; `MCExchange` also states the properties of the conversions in `ClientResponse`, `Forwarding` and `BodyCapture`, one exchange per initial state. `MCRequest` joins it with `MCClientIP`: a run looks up an address or at one exchange |

Each method that runs under a mutex is one step. What a goroutine does on its
own until its next shared step belongs to the step before it. A shell script is
not atomic: every command of it that touches the directory or the network is a
step.

How they are composed: `Middleware` is built from `CircuitBreaker` and
`DecisionCache` (by instances over shared variables) and `AgentResponse`;
`ClientIP` runs over the store of `ProviderRanges`; `Challenge` shows the pages
of `PageStore`; `Installer` downloads the releases of `Publisher`. What
`ClientIP`, `Forwarding` and `BodyCapture` compute are the inputs of
`Middleware`, where a request is a value; the refusals before the lookup are one
step there.

Abstractions: requests, addresses and grants are model values or small sets; a
hash is injective; parsing and validation of a text is a field that says how it
turned out; logs are left out. An address is a number and a network a set of
numbers, of which `usable` looks at the smallest as provider_ranges.go:288-292
does. A source that was never read is one with no networks. Header and cookie
names are numbers in the order in which the code sorts them, a value is its
length and whether a byte of it may not be forwarded. A page file holds a
content or something that cannot be used. A package is its version and its
commit, since package-release.sh is deterministic.

The outside is as the code takes it to be: the Agent uses a token up when it
verifies a proof, possibly after the plugin gave the call up, and compares the
context of the two calls; Gitea refuses a second release of a version; `mv`
puts a directory into one that exists; a browser keeps a `__Host-` cookie over
https only. `ChallengeFileUnshared` excludes a configuration that shares the
challenge page's file with another decision: plugin.go allows it, and a fallback
cached for one would then be shown for the other.

Operators with an underscore (`success_keepsFailures`) are a definition with a
slip in it. No specification uses them: for each property a run checks there is
one for which TLC finds the property violated, so that the property says
something about the code.

## What the runs check

| Run | Instance | What it shows |
|---|---|---|
| `breaker` | 3 goroutines, threshold 2, window 2, calls up to 2 | however late reports come, the breaker is open exactly from the threshold on (`OpenExactlyAtThreshold`), a set probe flag always has a call out that will clear it (`ProbeIsAccounted`), an open breaker lets through one call more than were out (`StormBound`, `GateSpec`), a failure buys a pause (`FailureBuysQuiet`), and it closes for good (`Recovers`) |
| `cache` | 2 goroutines, 3 requests, 4 answers of 2 revisions, room for 2 | index and entries stay inverse, bounded, of one revision; only the oldest live denial is ever lost; denials are exact and expire |
| `key_collision` | 4 requests that differ in where or how a name is written, or in where the address came from | **violated**: see Findings |
| `request` | 34 requests, 2 sources that trade an address; around every limit: replies of every kind, up to five headers, four cookies, bodies up to two bytes over | the address reported was vouched for (`AddressIsVouchedFor`), known nodes are not visitors (`NodesAreNotVisitors`), the label fits the header (`LabelNamesItsHeader`); a denial is shown with the Agent's status and Retry-After and any failure, its own "error" too, as a 503 without one (`ShownAsAnswered`); what validation admits is kept exactly if the Agent said so (`CacheKeepsWhatWasAuthorised`); what the Agent is told is complete or flagged (`CompleteUnlessFlagged`), never loses a configured name to others nor depends on the order of arrival (`AllowlistedDataIsKept`), and but for a framing header is bounded (`BoundedUnlessFramed`); the body stays intact for the handler behind (`BodyIntact`) |
| `forwarded_bound` | the headers and cookies of `request` | **violated**: see Findings |
| `middleware` | 2 goroutines, 2 requests, 2 policies, all failure modes at deny | nothing is handed on that the Agent would not have let through since the request came (`FailClosed`); a denial is recent news (`DenialIsRecent`); a live denial is never overlooked (`LiveDenialIsEnforced`); every request is answered; the pipeline implements `CircuitBreaker!Spec` and `DecisionCache!Spec` |
| `ranges` | 2 sources, lists that change, become empty or bad | addresses expire with the last list that had them (`StaleListsExpire`), outages of a few refreshes pass unnoticed (`OutageSurvived`), and all is known again afterwards (`Settles`) |
| `wide_range` | a network 3..9 where 9 is not public | **violated**: see Findings |
| `shared_node` | two lists that share an address | **violated**: see Findings |
| `visit` | 2 visitors, some of whose links cannot be recognised (an untrusted proxy, another host) or challenged; files edited and broken at any time; 2 failures | a page is what its file held a reload interval and a delay ago, or later (`PageIsRecent`); a file, broken or not, is loaded no sooner than that interval after its last load, less the delay (`LoadsAreSpaced`); a challenged visitor that does not give up gets in, although tokens are lost to calls that timed out and files are broken (`VisitorGetsIn`) |
| `delivery` | 2 workflow runs, 2 installers, 3 initial directories, 1 fault of any kind | what was installed is a complete release, packaged from its commit (`PluginIsARelease`); a publisher gives up only when overtaken at every attempt (`GivesUpOnlyWhenOvertaken`); there is a plugin again and again, so nothing an installer leaves behind makes the next one refuse (`Heals`) |
| `atomic_replace` | one installer, one signal | **violated**: see Findings |

### Bounds

`MaxTime` ends time. It is long enough for what a run is about: in `breaker` for
two windows after the last failure, in `ranges` for a list to expire after the
last change, in `cache` for an entry to be stored, to expire and to be found
late, in `visit` for a page to be older than an interval and a delay allow.
`Patience` bounds how late a reading is used; in the code it is
`agent.requestTimeout` and the scheduling around it. `FaultsUntil` is the
instant after which a liveness run lets evaluations or fetches succeed;
`MaxFaults` is the number of failures of `visit` (two: a retry with a token that
was used up, and a second late verification) and of `delivery` (one, at any
command of any script; each command may be the one that is signalled or
killed). Three goroutines are enough for a call from before the breaker opened,
a probe, and a second probe; two for a put that overtakes another. For
the addresses of `request` one goroutine suffices, since goroutines there do not write anything
shared; its time is so short (a list is stale one instant after its refresh)
because refreshes and reads interleave within an instant. The bound on hops is 3
for 32 and on ranges 2 for 8192, and for the exchanges of `request` the bounds are two
names, 7 bytes, 3 bytes a value and 2 bytes of body; chains, lists, values and
bodies of both sizes around each occur. The `middleware` run has every failure
mode at "deny": others replace pages by "next" and touch no shared state. In
`delivery`, `MaxAttempts` is 2 for 10, and with `MaxReleases` 2 a run that fails
and is started again is enough for another to be overtaken twice. Deadlock is
checked in every run.

### Fairness

- A goroutine in `ServeHTTP` runs on: no step waits for another request
  (`FairSpec` of `Middleware`), and the Agent client has a deadline (agent.go:190).
- The breaker's recovery needs requests that keep coming (`WF` of an admission):
  without any, the breaker stays as it is, and nobody minds.
- The updater's goroutine runs on, its fetches have a deadline
  (provider_ranges.go:148), its ticker ticks; some middleware is created.
- The goroutine that writes a page, and the script in it, run on (`WF` of
  `Show`, `Solve` and the answers of verify). The visitor of `VisitorGetsIn` does
  not give up: it tries the page it has and reloads it, each again and again
  (`SF`, since either takes it away from the other).
- A script that runs goes on. A workflow that failed is started again (`WF`), and
  so is the installer, with a release that has its assets and without permission
  to replace (`SF`, since releases become complete and directories populated in
  between): Compose runs it before each start.
- No fairness is asked of the environment's faults, of time where nothing waits
  for it, or of `Publish`, `Amend`, `Edit`, `Interrupt` and `Kill`.

## What is proved

`CircuitBreakerProofs`, for any finite set of goroutines, any threshold and
durations: all safety properties of the run and that `Spec` implements
`AgentGate`. The inductive invariant is `TypeOK`, `OpenExactlyAtThreshold`,
`ProbeIsAccounted`, `ReadingsFresh` and `StormBound` together. `StormBound` is
not inductive alone: a call that the open breaker lets through needs the free
probe slot, and a failure gives back one caller and at most that slot, so the
count never exceeds `tripped` and the slot; that needs `ProbeIsAccounted` (a set
flag means an open breaker with a call behind it). `ReadingsFresh`, a reading in
use is at most `Patience` old, is what `FailureBuysQuiet` needs. Callers are
counted with the library's facts on cardinality.

`DecisionCacheProofs`, for any requests, answers, limits and key function: type
correctness, the index and the entries being inverse, one revision, the bound,
the time bound on denials, the monotone revision, that a put costs the others
at most the oldest live denial, and that a lookup that misses overlooks none.
The invariant adds that goroutines and entries are well formed: no reading is in
the future, whoever is served has a request, each entry lies under its composite
key with its request's fingerprint, expires at most `MaximumTTL` after it was
created, and is dated no later than the Agent's answer. `KeptMatches` (deleting any
entries with their index leaves the two inverse) carries the sweep, the
replacement and the eviction at once, and `InsertLeaves` the bound. `ExactlyBound`
shows that `ExactBinding` follows if the key function is injective on the
requests; that it is not is the first finding below.

`ProviderRangesProofs`, for any addresses, sources, lists and durations with
`RefreshTime < Interval`: type correctness, `StaleListsExpire` and
`OutageSurvived`. The first follows from `ListsSeen`: what the store holds was
published no earlier than its stamp. The second needs where the goroutine is:
`Punctual` ties the clock to `stamp` and `nextTick`, and `Overdue` bounds the
next tick by the last good fetch and `missed`, with one `Interval` more for a
source whose turn is still to come in this refresh. `OnlyWideNetworksSlip` turns
finding 2 around: if every published network lies within the non-public
addresses or outside them, `NonPublicRejected` holds. What the store holds is
always a list that was published and usable (`ListsHeld`), and the address that
`usable` looks at is one of the network's (`BaseWithin`).

`MiddlewareProofs`, for any number of goroutines, requests, policies, failures
and failure modes: type correctness, `FailClosed`, `DenialIsRecent` (if no two
requests share a key, and denials are kept for some time at all),
`LiveDenialIsEnforced`, and that `Spec` implements `CircuitBreaker!Spec` and
`DecisionCache!Spec`. With the last
two, what is proved of the breaker and of the cache holds in the pipeline,
under the assumptions of those modules. The invariant says of each goroutine
what it holds at its place in `ServeHTTP` (`CallersOK`), of each entry that it
denies and was created no later than the Agent last denied its request
(`EntriesOK`), and of `deniedAt` that it is up to date (`DenialsOK`).
`FailClosed` needs no more than that an answer that lets the request pass was
given since it came. `DenialIsRecent` needs the entries,
whose time runs from a reading up to `Patience` old. `LiveDenialIsEnforced` needs the
index: `LiveInv` adds that every entry is the one its fingerprint points to
(`Indexed`), is of the latest revision and lies under its own key, for the
pipeline's instance of the cache; `KeptIndexed` and `InsertIndexed` carry it
through a sweep, a replacement and an eviction, as `KeptMatches` and
`InsertLeaves` do for the cache alone. The proof uses that a revision is a number
(agent.go:71). For the
refinements each step is shown to be a step of the other module or to leave its
variables alone: what learns the Agent's reply is `Succeed` or `Fail` of the
breaker, and `Abandon` of the cache if there is nothing to put.

`ClientIPProofs`, for any addresses, chains of any length and any refreshes in
between: `AddressIsVouchedFor`, `NodesAreNotVisitors`, `LabelNamesItsHeader`. They
rest on what the loop over the chain finds, the last hop that no trusted proxy
has; that there is one is the least-number principle, which follows from the
library's `NatLessThanWellFounded`, so no induction over the chain is needed. The rest of
the invariant says that what the store knows now lies between what it knew
throughout the request and what it knew at some time in it (`Sandwich`), and
what each read established (`Believed`, `NoNode`). With `RunsTheStore`, that `Spec`
implements `RangesSpec`, the invariants of the store hold under the lookups, and
two theorems use them. `OnlyListedNodesVouch` carries `AddressIsVouchedFor` back to
the world: a node whose header is believed was in a list its provider published
at most `MaximumStaleAge` before the request was read (`EverListed`, since
`publishedAt` never goes back). `OnlySharedNodesPass` turns finding 3 around: if no
address is in lists of two providers, the check of the header's address lets no
node pass that a fresh list has.

`ExchangeProofs`, for any limits, has four parts. Its theorems are about
`ExchangeSpec` and those of `ClientIPProofs` about `ClientIP`'s `Spec`; the states of
the run `request` are those of the one beside those of the other. `BodyIntact` rests on
`BodyKeptIntact`, for streams of any bytes and any length: what the limited reader
has read and what it has not, joined, are the stream, and one byte of lookahead
tells a body of exactly the limit from a longer one. `ShownAsAnswered` and
`CacheKeepsWhatWasAuthorised` say that the cases of validation, of the failure
modes, of the page writer and of the cache, in four files, fit together;
`ShownAsGiven` says it of any reply at all, whatever its fields hold.

The third part is the loop of forwarding.go, for any names, values and limits:
`CompleteUnlessFlagged`, `AllowlistedDataIsKept`, `BoundedUnlessFramed` (which turns finding 5
around: nothing but a framing header goes beyond the bounds). The loop is
a recursive function and the total a fold, so both are reasoned about through the
least number for which a claim would fail: `UpTo` is that argument, once, for a
set of numbers instead of a predicate. `Looped` says that the recursive function
does what it says at each pass, `SumsAgree` that a fold over a finite set does not
depend on its order, and `Sorted` that sorting puts each name into one place.
The invariant of the loop (`LoopKeeps`, `AllTaken`) bounds what was taken so far and
says of each name passed that its value was taken as it came or the flag is set.
`AllowlistedDataIsKept` compares two runs of the loop: they agree on the configured
names because these come first (`LaterNames`), and on cookies in any order because
each is the only one of its name (`AnyOrder`). Both speak of the cookies that net/http
parses: `CookiesParsed` and `Reversed` say what becomes of the pairs.

The fourth is the cache key. `KeyTellsRequests` turns finding 1 around: requests
with as many headers, the same flags, both a body or none, and no names that
differ only in case have the same key only if they are the same, the source of the
client's address left aside. The sequence of
parts then splits in the same places for both, and each map can be read back from
its part (`MapTold`). With `ExactlyBound` of `DecisionCacheProofs`, nothing but a part
that moves between those, the case of a cookie's name, or that source can serve a
request another one's denial.

`ChallengeProofs`, for any visitors, files, contents and durations: type
correctness, `PageIsRecent`, `LoadsAreSpaced`. The invariant dates every cached
page: its file held it one reload interval before `nextCheck`, or later
(`CacheDated`), every load, good or not, left an entry to be checked an interval
after it, less `Patience` (`LoadsDated`), `heldAt` is a history of `disk` (`HistoryOK`), and no reading in
use is older than `Patience` (`ReadingsFresh`).

`DeliveryProofs`, for any number of runs, installers, versions and faults: type
correctness, `PluginIsARelease`, `GivesUpOnlyWhenOvertaken`. The invariant ties
each run's version to the release it made (`ReleasesOK`, `RunsOK`) and says of
every copy on its way, in a workspace or moved away, that it is damaged or a
package that was attached (`CopiesOK`); releases only grow and an asset, once
attached, does not change, so `DestinationOK` lasts. That a complete pair was
downloaded follows from the comparison with the checksum.
`OnlyFailedRestoresLoseThePlugin` and `AtomicWithoutSignalsAndDiskFaults` turn finding
4 around: without interrupts and kills an installer that moved the plugin away ends
without one only if the disk fails the move of line 111 as well, and with neither
signals nor disk faults `ReplacementIsAtomic` holds, for any number of installers and
whatever the network does. An installer that
moved a plugin away holds that one and the new one in its workspace
(`WorkspaceOK`), and a directory that is there has a plugin in it (`DirectoryOK`), so
that either move leaves one before the installer ends.

Only model-checked: liveness (`Recovers`, `EveryRequestAnswered`, `Settles`,
`VisitorGetsIn`, `Heals`), which is out of the prover's reach, as is all that speaks
of ENABLED. Every other property of a passing run is proved, and for each finding
a theorem says what its only causes are (for finding 3, at the look-up: a refresh
may still list the address afterwards). No module
declares a RECURSIVE operator. What the cache's index looks like follows for
`Middleware` from `RunsTheCache`, but theorems about an instance cannot be cited:
`LiveInv` proves what is needed of it again.

## Findings

1. **Key collision** (`key_collision`). cache.go:164-165 hashes the header map
   and then the cookie map, as pairs, with nothing in between, and
   cache.go:181-191 lower-cases names; `ClientIPSource`, which the Agent is told
   (agent.go:32), is not hashed. A pair sent as a header or as a cookie, cookies
   that differ in case only, and an address known from another source give one
   key; README.md:109-111 says "bound to the exact request".
2. **Wide range** (`wide_range`). provider_ranges.go:290 tests the first address
   of a network only; README.md:144-145 says "non-public ranges ... are
   rejected".
3. **Shared node** (`shared_node`). client_ip.go:122 ignores that an address is
   in both providers' lists; README.md:130-132 says that a header "that names a
   provider node" leaves the visitor unresolved.
4. **Replacement** (`atomic_replace`). install-from-gitea.sh:109-110 moves the old
   plugin into the workspace and the new one out of it, and the trap of lines
   42-45 deletes the workspace on a signal without ending the script: a signal
   between the two moves deletes both. (A disk that fails both the second move
   and the one of line 111 that should undo the first has the same end.)
   README.md:27-28 says "atomically installs
   it", README.md:49-51 "atomically replace the previous one". A later run
   without permission to replace installs again (`Heals`).
5. **Framing headers** (`forwarded_bound`). forwarding.go:153-159 adds
   `content-length` and `transfer-encoding` after the bounds on number and bytes
   were applied (145-149): up to 130 headers are forwarded, and more bytes than
   were counted. README.md:78-79 says "bounded (128 headers and 128 cookies, 64
   KiB of each, ...)", forwarding_test.go:119 asserts it for a request without a
   body.

## Not modelled

- Configuration and construction (plugin.go): checks one value at a time and
  keeps no state. Its bounds are the assumptions on the constants
  (`ThresholdAtLeast1`, `IntervalPositive`, ...).
- JSON decoding, dialling, the token file and TLS of the Agent client (agent.go):
  a reply is sorted by how they turned out.
- The choice between HTML and JSON, the substitution of placeholders and the
  escaping of pages (responses.go:67-125, 228-290): text, about which no property is
  stated. Placeholders are replaced in the order of a map; see the hazards in
  `PROJECT.json`.
- Which bytes a name or a value may have, and canonical header names. A cookie pair
  that net/http cannot parse is dropped without a flag (forwarding.go:166): the
  Agent learns nothing of it, and `CompleteUnlessFlagged` does not claim that it
  does. A header's value with such a byte is flagged.
- The form of an Origin header (challenge.go:167-175): `origin` and `sameHost` say
  what comes of it, and a browser sends one with every POST.
- Minor and major releases: the script makes patch releases only.
- Pages, deployment files, the SBOM and the tests.

## Plan

Done, in this order: `CircuitBreaker` with `AgentGate`; `DecisionCache` and
`Fingerprint`; `AgentResponse` and `Middleware` (composition and two
refinements); `ProviderRanges` and `ClientIP`; `Forwarding` and `BodyCapture`;
`PageStore` and `Challenge`; `Publisher` and `Installer`; and proofs about each
of these compositions.

What would come next:

1. An abstract specification of the decision cache, a set of live denials, that
   `DecisionCache` implements; and the same for the page store.
2. `LoadsAreSpaced` and `PageIsRecent` for decisions that share the challenge
   page's file, once the configuration says what should be shown then.
3. A revision counter of the Agent that restarts lower (see the hazards in
   `PROJECT.json`): what the cache then owes until the counter has caught up.
