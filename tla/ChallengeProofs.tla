---------------------------- MODULE ChallengeProofs ----------------------------
(***************************************************************************)
(* Theorems about Challenge and its PageStore, for any visitors, decisions,*)
(* files, contents and intervals: the pages shown are recent although they *)
(* are cached, and although goroutines hold their readings for a while.    *)
(***************************************************************************)
EXTENDS Challenge, TLAPS

(* What the history says of the files: a file holds now what it holds, and   *)
(* nothing was held in the future.                                           *)
HistoryOK ==
  \A f \in Files :
    /\ heldAt[f][disk[f]] = clock
    /\ \A c \in Contents \cup {Unusable} : heldAt[f][c] <= clock

(* A cached page was made from what its file held when it was loaded, an     *)
(* interval before it is due, or later: the reading it is dated with is not  *)
(* after the load.                                                           *)
CacheDated ==
  \A f \in Files : cache[f].nextCheck # Never =>
    /\ heldAt[f][SourceOf(cache[f].content)] # Never
    /\ heldAt[f][SourceOf(cache[f].content)] + ReloadInterval >= cache[f].nextCheck

(* A goroutine that writes a page holds a reading that is at most Patience   *)
(* old; no other holds one.                                                  *)
ReadingsFresh ==
  \A v \in Visitors :
    /\ place[v] = "waiting" <=> reading[v] # Never
    /\ reading[v] # Never => reading[v] <= clock /\ clock <= reading[v] + Patience

(* A cached page is due a reload interval after the reading of its load,     *)
(* which was at most Patience late: there is an entry for every load, for    *)
(* those that failed too.                                                    *)
LoadsDated ==
  \A f \in Files : loadedAt[f] # Never =>
    cache[f].nextCheck + Patience >= loadedAt[f] + ReloadInterval

IInv == TypeOK /\ HistoryOK /\ CacheDated /\ LoadsDated /\ ReadingsFresh

-----------------------------------------------------------------------------
(* A page, loaded or built in, comes from what its file holds.               *)
LEMMA LoadedFrom ==
  ASSUME PageTypeOK, NEW d \in Decisions
  PROVE  /\ loaded(d) \in Contents \cup BuiltIn
         /\ SourceOf(loaded(d)) = disk[FileOf[d]]
<1>1. FileOf[d] \in Files  BY DEF Files
<1>2. disk[FileOf[d]] \in Contents \cup {Unusable}  BY <1>1 DEF PageTypeOK
<1>3. builtIn(d) \in BuiltIn  BY DEF builtIn, BuiltIn
<1>4. QED  BY <1>2, <1>3, ContentsDistinct DEF loaded, SourceOf

LEMMA SourceTyped ==
  ASSUME NEW content \in Contents \cup BuiltIn
  PROVE  SourceOf(content) \in Contents \cup {Unusable}
BY DEF SourceOf

(* Whatever page() does at a reading, what it leaves is typed and dated.     *)
LEMMA PageKeeps ==
  ASSUME PageTypeOK, HistoryOK, CacheDated, NEW d \in Decisions,
         LoadsDated, NEW now \in Nat, now <= clock, clock <= now + Patience,
         page(d, now), UNCHANGED <<clock, worldVars>>
  PROVE  PageTypeOK' /\ HistoryOK' /\ CacheDated' /\ LoadsDated'
<1>1. FileOf[d] \in Files  BY DEF Files
<1>2. CASE UNCHANGED <<cache, loadedAt>>
  BY <1>2 DEF worldVars, PageTypeOK, HistoryOK, CacheDated, LoadsDated
<1>3. CASE /\ cache' = [cache EXCEPT ![FileOf[d]] =
                          [content |-> loaded(d), nextCheck |-> now + ReloadInterval]]
           /\ loadedAt' = [loadedAt EXCEPT ![FileOf[d]] = clock]
  <2>1. PageTypeOK'
    <3>1. now + ReloadInterval \in Nat /\ loaded(d) \in Contents \cup BuiltIn
      BY LoadedFrom, IntervalPositive
    <3>2. [content |-> loaded(d), nextCheck |-> now + ReloadInterval]
            \in [content : Contents \cup BuiltIn, nextCheck : Nat]
      BY <3>1
    <3>3. cache' \in [Files -> [content : Contents \cup BuiltIn, nextCheck : Nat]]
      BY <1>3, <3>2 DEF PageTypeOK
    <3>4. loadedAt' \in [Files -> Nat]  BY <1>3 DEF PageTypeOK
    <3>5. QED  BY <3>3, <3>4 DEF PageTypeOK, worldVars
  <2>2. HistoryOK'  BY DEF HistoryOK, worldVars
  <2>3. CacheDated'
    <3> SUFFICES ASSUME NEW f \in Files, cache'[f].nextCheck # Never
                 PROVE  /\ heldAt[f][SourceOf(cache'[f].content)] # Never
                        /\ heldAt[f][SourceOf(cache'[f].content)] + ReloadInterval
                             >= cache'[f].nextCheck
      BY DEF CacheDated, worldVars
    <3>1. CASE f # FileOf[d]
      <4>1. cache'[f] = cache[f]  BY <1>3, <3>1 DEF PageTypeOK
      <4>2. QED  BY <4>1 DEF CacheDated
    <3>2. CASE f = FileOf[d]
      <4>1. cache'[f].content = loaded(d) /\ cache'[f].nextCheck = now + ReloadInterval
        BY <1>1, <1>3, <3>2 DEF PageTypeOK
      <4>2. heldAt[f][SourceOf(cache'[f].content)] = clock
        BY <3>2, <4>1, LoadedFrom DEF HistoryOK
      <4>3. clock \in Nat \ {0} /\ ReloadInterval \in Nat
        BY IntervalPositive DEF PageTypeOK
      <4>4. QED  BY <4>1, <4>2, <4>3 DEF Never
    <3>3. QED  BY <3>1, <3>2
  <2>4. LoadsDated'
    <3> SUFFICES ASSUME NEW f \in Files, loadedAt'[f] # Never
                 PROVE  cache'[f].nextCheck + Patience >= loadedAt'[f] + ReloadInterval
      BY DEF LoadsDated
    <3>1. CASE f # FileOf[d]
      <4>1. cache'[f] = cache[f] /\ loadedAt'[f] = loadedAt[f]
        BY <1>3, <3>1 DEF PageTypeOK
      <4>2. QED  BY <4>1 DEF LoadsDated
    <3>2. CASE f = FileOf[d]
      <4>1. cache'[f].nextCheck = now + ReloadInterval /\ loadedAt'[f] = clock
        BY <1>1, <1>3, <3>2 DEF PageTypeOK
      <4>2. clock \in Nat /\ ReloadInterval \in Nat /\ Patience \in Nat
        BY IntervalPositive DEF PageTypeOK
      <4>3. QED  BY <4>1, <4>2
    <3>3. QED  BY <3>1, <3>2
  <2>5. QED  BY <2>1, <2>2, <2>3, <2>4
<1>4. QED  BY <1>2, <1>3 DEF page

(* The pages are left alone by what the browser and the Agent do.            *)
LEMMA PagesAlone ==
  ASSUME PageTypeOK, HistoryOK, CacheDated, LoadsDated, UNCHANGED pageVars
  PROVE  PageTypeOK' /\ HistoryOK' /\ CacheDated' /\ LoadsDated'
BY DEF pageVars, PageTypeOK, HistoryOK, CacheDated, LoadsDated

-----------------------------------------------------------------------------
LEMMA InitIInv == Init => IInv
<1> SUFFICES ASSUME Init PROVE IInv  OBVIOUS
<1> USE DEF Init, PageInit
<1>1. PageTypeOK
  <2>1. cache \in [Files -> [content : Contents \cup BuiltIn, nextCheck : Nat]]
    BY DEF BuiltIn, Never
  <2>2. heldAt \in [Files -> [Contents \cup {Unusable} -> Nat]]
    BY DEF Never
  <2>3. loadedAt \in [Files -> Nat]  BY DEF Never
  <2>4. QED  BY <2>1, <2>2, <2>3 DEF PageTypeOK
<1>2. TypeOK
  <2>1. link \in [Visitors -> Links]
    BY LinksTyped
  <2>2. shows \in [Visitors -> Contents \cup BuiltIn]  BY DEF BuiltIn
  <2>3. /\ place \in [Visitors -> Places] /\ token \in [Visitors -> Tokens]
        /\ reading \in [Visitors -> Nat]
        /\ late \in [Visitors -> BOOLEAN] /\ cookie \in [Visitors -> BOOLEAN]
    BY DEF Places, Tokens, Never
  <2>4. faults \in 0..MaxFaults  BY FaultsBounded
  <2>5. QED  BY <1>1, <2>1, <2>2, <2>3, <2>4 DEF TypeOK
<1>3. HistoryOK  BY DEF HistoryOK, Never
<1>4. CacheDated  BY DEF CacheDated
<1>5. ReadingsFresh  BY DEF ReadingsFresh
<1>6. LoadsDated  BY DEF LoadsDated
<1>7. QED  BY <1>2, <1>3, <1>4, <1>5, <1>6 DEF IInv

(* A step of the browser, the endpoints or the Agent: the pages and the      *)
(* reading stay as they are.                                                 *)
LEMMA VisitKeeps ==
  ASSUME IInv, UNCHANGED pageVars, UNCHANGED <<link, reading, shows>>,
         place' \in [Visitors -> Places], token' \in [Visitors -> Tokens],
         late' \in [Visitors -> BOOLEAN], cookie' \in [Visitors -> BOOLEAN],
         faults' \in 0..MaxFaults,
         \A v \in Visitors : place'[v] = "waiting" <=> place[v] = "waiting"
  PROVE  IInv'
<1>1. PageTypeOK' /\ HistoryOK' /\ CacheDated' /\ LoadsDated'  BY PagesAlone DEF IInv, TypeOK
<1>2. TypeOK'  BY <1>1 DEF IInv, TypeOK
<1>3. ReadingsFresh'  BY DEF IInv, ReadingsFresh, pageVars
<1>4. QED  BY <1>1, <1>2, <1>3 DEF IInv

LEMMA VisitOK == ASSUME IInv, NEW v \in Visitors, Visit(v) PROVE IInv'
<1> USE DEF IInv, Visit
<1>1. PageTypeOK' /\ HistoryOK' /\ CacheDated' /\ LoadsDated'  BY PagesAlone DEF TypeOK
<1>2. clock \in Nat \ {0} /\ clock' = clock /\ Patience \in Nat
  BY IntervalPositive DEF TypeOK, PageTypeOK, pageVars
<1>3. TypeOK'
  <2>1. token' \in [Visitors -> Tokens]  BY DEF TypeOK, Tokens
  <2>2. place' \in [Visitors -> Places]  BY DEF TypeOK, Places
  <2>3. QED  BY <1>1, <1>2, <2>1, <2>2 DEF TypeOK
<1>4. ReadingsFresh'
  BY <1>2 DEF TypeOK, ReadingsFresh, Never
<1>5. QED  BY <1>1, <1>3, <1>4

LEMMA ShowOK == ASSUME IInv, NEW v \in Visitors, Show(v) PROVE IInv'
<1> USE DEF IInv, Show
<1>1. /\ DecisionOf[v] \in Decisions /\ reading[v] \in Nat /\ reading[v] <= clock
      /\ clock <= reading[v] + Patience
  BY DecisionsKnown DEF TypeOK, ReadingsFresh
<1>2. PageTypeOK' /\ HistoryOK' /\ CacheDated' /\ LoadsDated'
  BY <1>1, PageKeeps DEF TypeOK
<1>3. shownPage(DecisionOf[v], reading[v]) \in Contents \cup BuiltIn
  <2>1. FileOf[DecisionOf[v]] \in Files  BY <1>1 DEF Files
  <2>2. cache[FileOf[DecisionOf[v]]].content \in Contents \cup BuiltIn
    BY <2>1 DEF TypeOK, PageTypeOK
  <2>3. QED  BY <1>1, <2>2, LoadedFrom DEF shownPage, TypeOK
<1>4. TypeOK'  BY <1>2, <1>3 DEF TypeOK, Places, Never
<1>5. ReadingsFresh'  BY DEF TypeOK, ReadingsFresh, worldVars
<1>6. QED  BY <1>2, <1>4, <1>5

(* The other steps of a visitor. *)
LEMMA OtherOK ==
  ASSUME IInv, NEW v \in Visitors,
         Enter(v) \/ Create(v) \/ Solve(v) \/ Reject(v) \/ Verify(v) \/ VerifyFails(v)
           \/ VerifiedLate(v) \/ Expire(v)
  PROVE  IInv'
<1> USE DEF IInv, TypeOK, Places, Tokens
<1>1. CASE Enter(v)  BY <1>1, VisitKeeps DEF Enter
<1>2. CASE Create(v)
  <2>1. token' \in [Visitors -> Tokens] /\ place' \in [Visitors -> Places]
    BY <1>2 DEF Create
  <2>2. faults' \in 0..MaxFaults  BY <1>2, FaultsBounded DEF Create
  <2>3. \A w \in Visitors : place'[w] = "waiting" <=> place[w] = "waiting"
    BY <1>2 DEF Create
  <2>4. QED  BY <1>2, <2>1, <2>2, <2>3, VisitKeeps DEF Create
<1>3. CASE Solve(v)  BY <1>3, VisitKeeps DEF Solve
<1>4. CASE Reject(v)  BY <1>4, VisitKeeps DEF Reject
<1>5. CASE Verify(v)  BY <1>5, VisitKeeps DEF Verify
<1>6. CASE VerifyFails(v)
  <2>1. /\ place' \in [Visitors -> Places]
        /\ token' \in [Visitors -> Tokens] /\ late' \in [Visitors -> BOOLEAN]
    BY <1>6 DEF VerifyFails
  <2>2. faults' \in 0..MaxFaults  BY <1>6, FaultsBounded DEF VerifyFails
  <2>3. \A w \in Visitors : place'[w] = "waiting" <=> place[w] = "waiting"
    BY <1>6 DEF VerifyFails
  <2>4. QED  BY <1>6, <2>1, <2>2, <2>3, VisitKeeps DEF VerifyFails
<1>7. CASE VerifiedLate(v)  BY <1>7, VisitKeeps DEF VerifiedLate
<1>8. CASE Expire(v)  BY <1>8, VisitKeeps DEF Expire
<1>9. QED  BY <1>1, <1>2, <1>3, <1>4, <1>5, <1>6, <1>7, <1>8

(* The operator edits a file: what it held before is dated as it was.        *)
LEMMA EditOK == ASSUME IInv, EditPage PROVE IInv'
<1> USE DEF IInv
<1>1. PICK f \in Files, content \in Contents \cup {Unusable} :
        /\ disk' = [disk EXCEPT ![f] = content]
        /\ heldAt' = [heldAt EXCEPT ![f][content] = clock]
        /\ UNCHANGED <<clock, cache, loadedAt>> /\ UNCHANGED visitVars
  BY DEF EditPage, Edit
<1>2. clock \in Nat \ {0}  BY DEF TypeOK, PageTypeOK
<1>3. PageTypeOK'  BY <1>1, <1>2 DEF TypeOK, PageTypeOK
<1>4. TypeOK'  BY <1>1, <1>3 DEF TypeOK, visitVars
<1>5. \A g \in Files, c \in Contents \cup {Unusable} :
        heldAt'[g][c] = IF g = f /\ c = content THEN clock ELSE heldAt[g][c]
  BY <1>1 DEF TypeOK, PageTypeOK
<1>6. HistoryOK'
  BY <1>1, <1>2, <1>5 DEF TypeOK, PageTypeOK, HistoryOK
<1>7. CacheDated'
  <2> SUFFICES ASSUME NEW g \in Files, cache[g].nextCheck # Never
               PROVE  /\ heldAt'[g][SourceOf(cache[g].content)] # Never
                      /\ heldAt'[g][SourceOf(cache[g].content)] + ReloadInterval
                           >= cache[g].nextCheck
    BY <1>1 DEF CacheDated
  <2> DEFINE source == SourceOf(cache[g].content)
  <2>1. source \in Contents \cup {Unusable}  BY SourceTyped DEF TypeOK, PageTypeOK
  <2>2. /\ heldAt[g][source] # Never /\ heldAt[g][source] <= clock
        /\ heldAt[g][source] + ReloadInterval >= cache[g].nextCheck
    BY <2>1 DEF CacheDated, HistoryOK
  <2>3. heldAt[g][source] \in Nat /\ cache[g].nextCheck \in Nat /\ ReloadInterval \in Nat
    BY <2>1, IntervalPositive DEF TypeOK, PageTypeOK
  <2> HIDE DEF source
  <2>4. heldAt'[g][source] \in {clock, heldAt[g][source]}  BY <1>5, <2>1
  <2>5. heldAt'[g][source] # Never /\ heldAt'[g][source] + ReloadInterval >= cache[g].nextCheck
    BY <1>2, <2>2, <2>3, <2>4 DEF Never
  <2>6. QED  BY <2>5 DEF source
<1>8. ReadingsFresh'  BY <1>1 DEF ReadingsFresh, visitVars
<1>9. LoadsDated'  BY <1>1 DEF LoadsDated
<1>10. QED  BY <1>4, <1>6, <1>7, <1>8, <1>9

LEMMA TickOK == ASSUME IInv, Tick PROVE IInv'
<1> USE DEF IInv, Tick, PageTick
<1>1. clock \in Nat \ {0} /\ clock' = clock + 1  BY DEF TypeOK, PageTypeOK
<1>2. \A f \in Files, c \in Contents \cup {Unusable} :
        heldAt'[f][c] = IF c = disk[f] THEN clock + 1 ELSE heldAt[f][c]
  BY DEF TypeOK, PageTypeOK
<1>3. PageTypeOK'  BY <1>1 DEF TypeOK, PageTypeOK
<1>4. TypeOK'  BY <1>3 DEF TypeOK, visitVars
<1>5. HistoryOK'
  BY <1>1, <1>2 DEF TypeOK, PageTypeOK, HistoryOK
<1>6. CacheDated'
  <2> SUFFICES ASSUME NEW g \in Files, cache[g].nextCheck # Never
               PROVE  /\ heldAt'[g][SourceOf(cache[g].content)] # Never
                      /\ heldAt'[g][SourceOf(cache[g].content)] + ReloadInterval
                           >= cache[g].nextCheck
    BY DEF CacheDated
  <2> DEFINE source == SourceOf(cache[g].content)
  <2>1. source \in Contents \cup {Unusable}  BY SourceTyped DEF TypeOK, PageTypeOK
  <2>2. /\ heldAt[g][source] # Never /\ heldAt[g][source] <= clock
        /\ heldAt[g][source] + ReloadInterval >= cache[g].nextCheck
    BY <2>1 DEF CacheDated, HistoryOK
  <2>3. heldAt[g][source] \in Nat /\ cache[g].nextCheck \in Nat /\ ReloadInterval \in Nat
    BY <2>1, IntervalPositive DEF TypeOK, PageTypeOK
  <2> HIDE DEF source
  <2>4. heldAt'[g][source] \in {clock + 1, heldAt[g][source]}  BY <1>2, <2>1
  <2>5. heldAt'[g][source] # Never /\ heldAt'[g][source] + ReloadInterval >= cache[g].nextCheck
    BY <1>1, <2>2, <2>3, <2>4 DEF Never
  <2>6. QED  BY <2>5 DEF source
<1>7. ReadingsFresh'
  BY <1>1, IntervalPositive DEF TypeOK, ReadingsFresh, visitVars
<1>8. LoadsDated'  BY DEF LoadsDated
<1>9. QED  BY <1>4, <1>5, <1>6, <1>7, <1>8

LEMMA StepIInv == IInv /\ [Next]_vars => IInv'
<1>1. ASSUME IInv, UNCHANGED vars PROVE IInv'
  BY <1>1, PagesAlone DEF IInv, vars, visitVars, pageVars, TypeOK, ReadingsFresh
<1>2. QED
  BY <1>1, VisitOK, ShowOK, OtherOK, EditOK, TickOK DEF Next, Step

LEMMA AlwaysIInv == Spec => []IInv
BY InitIInv, StepIInv, PTL DEF Spec

(* The visits, the pages and the Agent's tokens stay within their types      *)
(* (challenge.go:87-191, responses.go:137-150).                              *)
THEOREM TypeCorrect == Spec => []TypeOK
<1>1. IInv => TypeOK  BY DEF IInv
<1>2. QED  BY <1>1, AlwaysIInv, PTL

(* Whatever the operator does to the files, and however many decisions share *)
(* one, a page that is shown is what its file held at most a reload interval *)
(* and a delay ago: a load is dated with a reading from before it, so that a *)
(* late goroutine shortens the life of a page and never lengthens it         *)
(* (responses.go:137-150).                                                   *)
THEOREM PagesAreRecent == Spec => PageIsRecent
<1> DEFINE Recent == \A v \in Visitors : Show(v) => HeldRecently(DecisionOf[v], shows'[v])
<1>1. ASSUME IInv PROVE Recent
  <2> SUFFICES ASSUME NEW v \in Visitors, Show(v)
               PROVE  HeldRecently(DecisionOf[v], shows'[v])
    OBVIOUS
  <2> DEFINE d == DecisionOf[v]
             f == FileOf[d]
             now == reading[v]
  <2>1. d \in Decisions /\ f \in Files  BY DecisionsKnown DEF Files
  <2>2. /\ now \in Nat /\ now <= clock /\ clock <= now + Patience
        /\ clock \in Nat \ {0} /\ Patience \in Nat /\ ReloadInterval \in Nat
    BY <1>1, IntervalPositive DEF IInv, TypeOK, PageTypeOK, ReadingsFresh, Show
  <2>3. shows'[v] = shownPage(d, now)  BY <1>1 DEF Show, IInv, TypeOK
  <2> DEFINE source == SourceOf(shows'[v])
  <2>4. CASE fresh(f, now)
    <3>1. shows'[v] = cache[f].content  BY <2>3, <2>4 DEF shownPage
    <3>2. cache[f].nextCheck \in Nat /\ cache[f].content \in Contents \cup BuiltIn
      BY <1>1, <2>1 DEF IInv, TypeOK, PageTypeOK
    <3>3. now < cache[f].nextCheck /\ cache[f].nextCheck # Never
      BY <2>2, <2>4, <3>2 DEF fresh, Never
    <3>4. /\ heldAt[f][source] # Never
          /\ heldAt[f][source] + ReloadInterval >= cache[f].nextCheck
      BY <1>1, <2>1, <3>1, <3>3 DEF IInv, CacheDated
    <3>5. heldAt[f][source] \in Nat
      BY <1>1, <2>1, <3>1, <3>2, SourceTyped DEF IInv, TypeOK, PageTypeOK
    <3> HIDE DEF source, now, f
    <3>6. heldAt[f][source] >= clock - ReloadInterval - Patience
      BY <2>2, <3>2, <3>3, <3>4, <3>5
    <3>7. QED  BY <3>4, <3>6 DEF HeldRecently, source, f
  <2>5. CASE ~fresh(f, now)
    <3>1. source = disk[f]
      BY <1>1, <2>1, <2>3, <2>5, LoadedFrom DEF shownPage, IInv, TypeOK
    <3>2. heldAt[f][source] = clock  BY <1>1, <2>1, <3>1 DEF IInv, HistoryOK
    <3> HIDE DEF source, now, f
    <3>3. QED  BY <2>2, <3>2 DEF HeldRecently, source, f, Never
  <2>6. QED  BY <2>4, <2>5
<1>2. IInv /\ [Next]_vars => [Recent]_vars  BY <1>1
<1>3. QED  BY <1>2, AlwaysIInv, PTL DEF Spec, PageIsRecent, Recent

(* A file is loaded again only a reload interval after its last load, less   *)
(* Patience, whether that load succeeded or not, whoever is first and        *)
(* however late it comes: every load leaves an entry, dated with a reading   *)
(* at most Patience old, and until that entry is due nobody loads            *)
(* (responses.go:137-150).                                                   *)
THEOREM LoadsAlwaysSpaced == Spec => LoadsAreSpaced
<1> DEFINE Spaced == \A v \in Visitors :
       Show(v) /\ ~fresh(FileOf[DecisionOf[v]], reading[v]) => LoadedInTime(DecisionOf[v])
<1>1. ASSUME IInv PROVE Spaced
  <2> SUFFICES ASSUME NEW v \in Visitors, Show(v),
                      ~fresh(FileOf[DecisionOf[v]], reading[v]),
                      loadedAt[FileOf[DecisionOf[v]]] # Never
               PROVE  clock + Patience >= loadedAt[FileOf[DecisionOf[v]]] + ReloadInterval
    BY DEF LoadedInTime
  <2> DEFINE f == FileOf[DecisionOf[v]]
             now == reading[v]
  <2>1. f \in Files  BY DecisionsKnown DEF Files
  <2>2. /\ now \in Nat /\ now <= clock /\ clock \in Nat
        /\ Patience \in Nat /\ ReloadInterval \in Nat
    BY <1>1, IntervalPositive DEF IInv, TypeOK, PageTypeOK, ReadingsFresh, Show
  <2>3. cache[f].nextCheck \in Nat /\ loadedAt[f] \in Nat
    BY <1>1, <2>1 DEF IInv, TypeOK, PageTypeOK
  <2>4. cache[f].nextCheck + Patience >= loadedAt[f] + ReloadInterval
    BY <1>1, <2>1 DEF IInv, LoadsDated
  <2>5. now >= cache[f].nextCheck  BY <2>2, <2>3 DEF fresh
  <2> HIDE DEF f, now
  <2>6. clock + Patience >= loadedAt[f] + ReloadInterval  BY <2>2, <2>3, <2>4, <2>5
  <2>7. QED  BY <2>6 DEF f
<1>2. IInv /\ [Next]_vars => [Spaced]_vars  BY <1>1
<1>3. QED  BY <1>2, AlwaysIInv, PTL DEF Spec, LoadsAreSpaced, Spaced

=============================================================================
