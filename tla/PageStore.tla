------------------------------ MODULE PageStore ------------------------------
(***************************************************************************)
(* The pages a denial is answered with (pageStore of responses.go).  They  *)
(* are files the operator edits while the plugin runs; each is read at     *)
(* most once per reload interval, and a page compiled into the plugin      *)
(* stands in for a file that cannot be used.  A goroutine reads the clock  *)
(* before it takes the mutex and may be late when it has it.               *)
(***************************************************************************)
EXTENDS Integers

CONSTANTS
  FileOf,            \* FileOf[decision]: BlockFile, ChallengeFile, ...
  Contents,          \* what a file may hold that load accepts
  Unusable,          \* ... and that it does not: missing, too big, outside the root
  ReloadInterval,    \* responses.reloadInterval, in units of the clock
  Patience,          \* bounds reading the clock .. holding the mutex
  MaxTime            \* bound: the last instant

Decisions == DOMAIN FileOf
Files == {FileOf[d] : d \in Decisions}

ASSUME IntervalPositive == ReloadInterval \in Nat \ {0} /\ Patience \in Nat
ASSUME BoundNatural     == MaxTime \in Nat

Never == 0           \* the clock starts at 1
builtIn(decision) == IF decision = "challenge" THEN "fallbackChallengePage" ELSE "fallbackPage"
BuiltIn == {"fallbackChallengePage", "fallbackPage"}

ASSUME ContentsDistinct == Contents \cap (BuiltIn \cup {Unusable}) = {}

VARIABLES
  clock,
  cache,             \* pageStore.cache; nextCheck is Never where it has no entry
  disk,              \* what each file holds
  heldAt,            \* history: the last instant at which a file held each content
  loadedAt           \* history: the instant of the last load of each file, failed ones too

worldVars == <<disk, heldAt>>
pageVars  == <<clock, cache, disk, heldAt, loadedAt>>

PageTypeOK ==
  /\ clock \in Nat \ {0}
  /\ cache \in [Files -> [content : Contents \cup BuiltIn, nextCheck : Nat]]
  /\ disk \in [Files -> Contents \cup {Unusable}]
  /\ heldAt \in [Files -> [Contents \cup {Unusable} -> Nat]]
  /\ loadedAt \in [Files -> Nat]

PageInit ==
  /\ clock = 1
  /\ cache = [f \in Files |-> [content |-> "fallbackPage", nextCheck |-> Never]]
  /\ disk \in [Files -> Contents \cup {Unusable}]
  /\ heldAt = [f \in Files |-> [c \in Contents \cup {Unusable} |->
                                  IF c = disk[f] THEN clock ELSE Never]]
  /\ loadedAt = [f \in Files |-> Never]

-----------------------------------------------------------------------------
(* load, and what takes its place when it fails.  The operators named        *)
(* <operation>_<slip> are slips that the runs show a property notices.       *)
loaded_plainFallback(decision) ==
  LET held == disk[FileOf[decision]]
  IN IF held = Unusable THEN "fallbackPage" ELSE held

loaded(decision) ==
  LET held == disk[FileOf[decision]]
  IN IF held = Unusable THEN builtIn(decision) ELSE held

fresh_forGood(file, now) == cache[file].nextCheck # Never

fresh(file, now) == now < cache[file].nextCheck

(* page: what is shown of a decision at the reading now, and the cache then. *)
shownPage(decision, now) ==
  IF fresh(FileOf[decision], now) THEN cache[FileOf[decision]].content ELSE loaded(decision)

page_forgetsFailures(decision, now) ==
  IF fresh(FileOf[decision], now)
  THEN UNCHANGED <<cache, loadedAt>>
  ELSE /\ loadedAt' = [loadedAt EXCEPT ![FileOf[decision]] = clock]
       /\ IF disk[FileOf[decision]] = Unusable
          THEN UNCHANGED cache
          ELSE cache' = [cache EXCEPT ![FileOf[decision]] =
                           [content |-> loaded(decision), nextCheck |-> now + ReloadInterval]]

page(decision, now) ==
  IF fresh(FileOf[decision], now)
  THEN UNCHANGED <<cache, loadedAt>>
  ELSE /\ loadedAt' = [loadedAt EXCEPT ![FileOf[decision]] = clock]
       /\ cache' = [cache EXCEPT ![FileOf[decision]] =
                      [content |-> loaded(decision), nextCheck |-> now + ReloadInterval]]

-----------------------------------------------------------------------------
(* The operator replaces, breaks or repairs a file.                          *)
Edit(file) ==
  \E content \in (Contents \cup {Unusable}) \ {disk[file]} :
    /\ disk' = [disk EXCEPT ![file] = content]
    /\ heldAt' = [heldAt EXCEPT ![file][content] = clock]
    /\ UNCHANGED <<clock, cache, loadedAt>>

PageTick ==
  /\ clock < MaxTime
  /\ clock' = clock + 1
  /\ heldAt' = [f \in Files |-> [heldAt[f] EXCEPT ![disk[f]] = clock + 1]]
  /\ UNCHANGED <<cache, disk, loadedAt>>

-----------------------------------------------------------------------------
(* What a page of a file was made from. *)
SourceOf(content) == IF content \in BuiltIn THEN Unusable ELSE content

(* A page shown now is what its file held a reload interval and a delay ago, *)
(* or later: an edit, or a repair, is not missed for longer                  *)
(* (responses.go:137-150; compatibility_test.go:182-207).                    *)
HeldRecently(decision, content) ==
  heldAt[FileOf[decision]][SourceOf(content)] >= clock - ReloadInterval - Patience
  /\ heldAt[FileOf[decision]][SourceOf(content)] # Never

(* A file is loaded now, for a page of the decision, no sooner after its     *)
(* last load than a reload interval, less what a reading may be late: the    *)
(* load that counts may have failed.                                         *)
LoadedInTime(decision) ==
  loadedAt[FileOf[decision]] # Never =>
    clock + Patience >= loadedAt[FileOf[decision]] + ReloadInterval

=============================================================================
