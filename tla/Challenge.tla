------------------------------ MODULE Challenge ------------------------------
(***************************************************************************)
(* A browser that is challenged: the page it is shown, the two challenge   *)
(* endpoints of challenge.go that the page calls, and the local Agent      *)
(* behind them, which uses a token up before its reply is sent.  A call    *)
(* of the Agent may fail, its reply may come too late or not be usable;    *)
(* a verification that was given up may still take place.                  *)
(***************************************************************************)
EXTENDS PageStore, FiniteSets

CONSTANTS
  Visitors,
  DecisionOf,        \* what the Agent decides of a visitor without its cookie
  LinksOf,           \* LinksOf[v]: the ways v's connection may come in
  MaxFaults          \* bound: the failures of the Agent and its replies

Paths == {"plain", "escaped", "slashes"}

ASSUME DecisionsKnown == DecisionOf \in [Visitors -> Decisions]
Links == [origin : {"https", "http"}, tls : BOOLEAN, trusted : BOOLEAN,
          proto : {"https", "http", "other"}, sameHost : BOOLEAN, path : Paths]
ASSUME LinksTyped == LinksOf \in [Visitors -> (SUBSET Links) \ {{}}]
ASSUME FaultsBounded == MaxFaults \in Nat
(* Nothing in plugin.go forbids it; the pages of two decisions that share a  *)
(* file are cached as one.                                                   *)
ASSUME ChallengeFileUnshared ==
  \A d \in Decisions \ {"challenge"} : "challenge" \in Decisions => FileOf[d] # FileOf["challenge"]

VARIABLES
  link,              \* how the visitor comes in; it does not change
  place,             \* where the visitor is
  reading,           \* the clock reading its page is written with, or Never
  shows,             \* the page it sees
  token,             \* the token of that page, as the Agent has it
  late,              \* a verification given up that may still use it up
  cookie,            \* it holds the trust cookie
  faults

visitVars == <<link, place, reading, shows, token, late, cookie, faults>>
vars == <<pageVars, visitVars>>

Places == {"outside", "waiting", "page", "solving", "solved", "inside"}
Tokens == {"none", "issued", "created", "used"}

TypeOK ==
  /\ PageTypeOK
  /\ link \in [Visitors -> Links]
  /\ place \in [Visitors -> Places]
  /\ reading \in [Visitors -> Nat]
  /\ shows \in [Visitors -> Contents \cup BuiltIn]
  /\ token \in [Visitors -> Tokens]
  /\ late \in [Visitors -> BOOLEAN]
  /\ cookie \in [Visitors -> BOOLEAN]
  /\ faults \in 0..MaxFaults

Init ==
  /\ PageInit
  /\ link \in {l \in [Visitors -> UNION {LinksOf[v] : v \in Visitors}] :
                 \A v \in Visitors : l[v] \in LinksOf[v]}
  /\ place = [v \in Visitors |-> "outside"]
  /\ reading = [v \in Visitors |-> Never]
  /\ shows = [v \in Visitors |-> "fallbackPage"]
  /\ token = [v \in Visitors |-> "none"]
  /\ late = [v \in Visitors |-> FALSE]
  /\ cookie = [v \in Visitors |-> FALSE]
  /\ faults = 0

-----------------------------------------------------------------------------
(* requestScheme: what the plugin takes for the scheme of a request.         *)
requestScheme(l) ==
  IF l.tls THEN "https"
  ELSE IF l.trusted /\ l.proto \in {"https", "http"} THEN l.proto ELSE "http"

(* sameHost: the request carries the host the browser asked for; a proxy may *)
(* have put in another one.                                                  *)
sameOriginSubmission(v) ==
  link[v].origin = requestScheme(link[v]) /\ link[v].sameHost

(* The path as the page's two calls carry it: decoded in the URL of the      *)
(* first, escaped in the body of the second (responses.go:88-97).            *)
createPath(v) == IF link[v].path = "escaped" THEN "decoded" ELSE link[v].path
verifyPath(v) == link[v].path

validChallengeFields(path) == path # "slashes"

(* The proof is for the challenge that was created, and the first one.       *)
verified(v) == token[v] = "created" /\ createPath(v) = verifyPath(v)

-----------------------------------------------------------------------------
(* A request without a valid cookie is denied, and its page written with the *)
(* reading taken then; a reload forgets the page before.                     *)
Visit(v) ==
  /\ place[v] \in {"outside", "page", "inside"}
  /\ ~cookie[v]
  /\ place' = [place EXCEPT ![v] = "waiting"]
  /\ reading' = [reading EXCEPT ![v] = clock]
  /\ token' = [token EXCEPT ![v] = IF DecisionOf[v] = "challenge" THEN "issued" ELSE "none"]
  /\ late' = [late EXCEPT ![v] = FALSE]
  /\ UNCHANGED <<pageVars, link, shows, cookie, faults>>

Enter(v) ==
  /\ place[v] \in {"outside", "page"}
  /\ cookie[v]
  /\ place' = [place EXCEPT ![v] = "inside"]
  /\ UNCHANGED <<pageVars, link, reading, shows, token, late, cookie, faults>>

(* pageStore.write. *)
Show(v) ==
  /\ place[v] = "waiting"
  /\ page(DecisionOf[v], reading[v])
  /\ shows' = [shows EXCEPT ![v] = shownPage(DecisionOf[v], reading[v])]
  /\ place' = [place EXCEPT ![v] = "page"]
  /\ reading' = [reading EXCEPT ![v] = Never]
  /\ UNCHANGED <<clock, worldVars, link, token, late, cookie, faults>>

(* The page can be solved: a challenge page, the operator's or the plugin's. *)
Solvable(v) == token[v] # "none" /\ shows[v] # "fallbackPage"

(* challengeCreate: the Agent makes a puzzle for the token, or the answer is *)
(* 400 or 403 and the page stays as it is.                                   *)
creatable(v) == validChallengeFields(createPath(v)) /\ token[v] \in {"issued", "created"}

Create(v) ==
  /\ place[v] = "page"
  /\ Solvable(v)
  /\ \/ /\ creatable(v)
        /\ token' = [token EXCEPT ![v] = "created"]
        /\ place' = [place EXCEPT ![v] = "solving"]
        /\ UNCHANGED faults
     \/ /\ creatable(v) /\ faults < MaxFaults
        /\ faults' = faults + 1
        /\ UNCHANGED <<token, place>>
     \/ /\ ~creatable(v)
        /\ UNCHANGED <<token, place, faults>>
  /\ UNCHANGED <<pageVars, link, reading, shows, late, cookie>>

(* The browser has solved the puzzle and posts the proof.                    *)
Solve(v) ==
  /\ place[v] = "solving"
  /\ place' = [place EXCEPT ![v] = "solved"]
  /\ UNCHANGED <<pageVars, link, reading, shows, token, late, cookie, faults>>

(* challengeVerify, when the Agent is not asked: 403 or 400.                 *)
Reject(v) ==
  /\ place[v] = "solved"
  /\ ~(sameOriginSubmission(v) /\ validChallengeFields(verifyPath(v)))
  /\ place' = [place EXCEPT ![v] = "page"]
  /\ UNCHANGED <<pageVars, link, reading, shows, token, late, cookie, faults>>

(* ... and when it is: the token is used up, and a cookie set if the Agent   *)
(* verified the proof; a browser keeps a __Host- cookie over https only.     *)
Verify(v) ==
  /\ place[v] = "solved"
  /\ sameOriginSubmission(v) /\ validChallengeFields(verifyPath(v))
  /\ token' = [token EXCEPT ![v] = "used"]
  /\ cookie' = [cookie EXCEPT ![v] = @ \/ (verified(v) /\ link[v].origin = "https")]
  /\ place' = [place EXCEPT ![v] = IF verified(v) THEN "outside" ELSE "page"]
  /\ UNCHANGED <<pageVars, link, reading, shows, late, faults>>

(* ... 503: no usable reply in time.  The Agent has used the token up, or    *)
(* will do so later, or has not been reached at all.                         *)
VerifyFails(v) ==
  /\ place[v] = "solved"
  /\ sameOriginSubmission(v) /\ validChallengeFields(verifyPath(v))
  /\ faults < MaxFaults
  /\ faults' = faults + 1
  /\ place' = [place EXCEPT ![v] = "page"]
  /\ \/ token' = [token EXCEPT ![v] = "used"] /\ UNCHANGED late
     \/ late' = [late EXCEPT ![v] = TRUE] /\ UNCHANGED token
     \/ UNCHANGED <<token, late>>
  /\ UNCHANGED <<pageVars, link, reading, shows, cookie>>

VerifiedLate(v) ==
  /\ late[v]
  /\ late' = [late EXCEPT ![v] = FALSE]
  /\ token' = [token EXCEPT ![v] = "used"]
  /\ UNCHANGED <<pageVars, link, place, reading, shows, cookie, faults>>

(* The cookie reaches its Max-Age, not before it was used.                   *)
Expire(v) ==
  /\ cookie[v] /\ place[v] = "inside"
  /\ cookie' = [cookie EXCEPT ![v] = FALSE]
  /\ UNCHANGED <<pageVars, link, place, reading, shows, token, late, faults>>

Tick ==
  /\ \A v \in Visitors : reading[v] # Never => clock - reading[v] < Patience
  /\ PageTick
  /\ UNCHANGED visitVars

EditPage == (\E f \in Files : Edit(f)) /\ UNCHANGED visitVars

Step(v) == Visit(v) \/ Enter(v) \/ Show(v) \/ Create(v) \/ Solve(v) \/ Reject(v)
             \/ Verify(v) \/ VerifyFails(v) \/ VerifiedLate(v) \/ Expire(v)

Next == Tick \/ EditPage \/ \E v \in Visitors : Step(v)

Spec == Init /\ [][Next]_vars

(* A browser that does not give up: it tries the page it has, and reloads    *)
(* it now and then; the goroutine that serves it and a reachable Agent make  *)
(* progress.  Nothing is asked of the operator, the clock or the failures.   *)
Persists(v) ==
  /\ WF_vars(Show(v))
  /\ WF_vars(Solve(v))
  /\ WF_vars(Reject(v) \/ Verify(v) \/ VerifyFails(v))
  /\ SF_vars(Create(v))
  /\ SF_vars(Visit(v))
  /\ WF_vars(Enter(v))

FairSpec == Spec /\ \A v \in Visitors : Persists(v)

-----------------------------------------------------------------------------
(* A page written now is recent, see HeldRecently.                           *)
PageIsRecent ==
  [][\A v \in Visitors : Show(v) => HeldRecently(DecisionOf[v], shows'[v])]_vars

(* However many goroutines write pages at once, and however late they are,   *)
(* the file system is asked for a page only every reload interval, less the  *)
(* delay of a reading; a file that is missing or broken is no exception: a   *)
(* load that failed is remembered as one that did not (responses.go:137-150).*)
LoadsAreSpaced ==
  [][\A v \in Visitors :
       Show(v) /\ ~fresh(FileOf[DecisionOf[v]], reading[v]) => LoadedInTime(DecisionOf[v])]_vars

(* The browser's origin is one the plugin can know: TLS ends at Traefik, or  *)
(* at a trusted proxy that says so, and the host is kept.                    *)
Recognised(l) ==
  l.origin = "https" /\ l.sameHost /\ (l.tls \/ (l.trusted /\ l.proto = "https"))

(* A challenged visitor that does not give up gets in, whatever is done to   *)
(* the page files, and although tokens are lost to calls that timed out: the *)
(* challenge page works even if its file does not, and a reload brings a new *)
(* token (challenge.go:87-147, responses.go:142-150; README.md:182-187,      *)
(* compatibility_test.go:232).                                               *)
VisitorGetsIn ==
  \A v \in Visitors :
    DecisionOf[v] = "challenge" /\ Recognised(link[v]) /\ link[v].path = "plain"
      ~> place[v] = "inside"

=============================================================================
