------------------------- MODULE DecisionCacheProofs -------------------------
(***************************************************************************)
(* Theorems about DecisionCache, for any goroutines, requests, keys,       *)
(* answers, limits and clock.  The invariant that carries them all says of *)
(* each entry how its fields hang together (EntriesWellFormed); the index, *)
(* the revision and the bound then follow action by action.  Deleting and  *)
(* inserting are lemmas about any entries and index, since put starts from *)
(* the present ones or, after a new revision, from empty ones.             *)
(***************************************************************************)
EXTENDS DecisionCache, TLAPS, FiniteSetTheorems

EntryWellFormed(k, e) ==
  /\ e \in Entry
  /\ k = cacheCompositeKey(e.request, e.answer)
  /\ e.requestFingerprint = KeyOf[e.request]
  /\ e.expiresAt <= e.createdAt + MaximumTTL
  /\ e.createdAt <= e.answeredAt

WellFormed(es) == \A k \in DOMAIN es : EntryWellFormed(k, es[k])

EntriesWellFormed == WellFormed(entries) /\ IsFiniteSet(DOMAIN entries)

GoroutinesWellFormed ==
  /\ clock \in Nat \ {0}
  /\ latestRevision \in Nat
  /\ wanted \in [Callers -> Requests \cup {NoRequest}]
  /\ asked \in [Callers -> Nat]
  /\ served \in [Callers -> Entry \cup {NoEntry}]
  /\ \A c \in Callers :
       /\ asked[c] # Never => wanted[c] \in Requests /\ asked[c] <= clock
       /\ served[c] # NoEntry => wanted[c] \in Requests /\ asked[c] = Never

CacheWellFormed ==
  /\ EntriesWellFormed
  /\ IndexMatchesEntries
  /\ OneRevision
  /\ Bounded

IInv == GoroutinesWellFormed /\ CacheWellFormed

-----------------------------------------------------------------------------
(* Deleting entries removes from the index exactly what pointed to them.     *)
LEMMA KeptMatches ==
  ASSUME NEW es, NEW index, NEW dead, Matches(es, index)
  PROVE  Matches(keptEntries(es, dead), keptIndex(es, index, dead))
<1> DEFINE e == keptEntries(es, dead)
           i == keptIndex(es, index, dead)
<1>1. /\ DOMAIN e = DOMAIN es \ dead
      /\ \A k \in DOMAIN es \ dead : e[k] = es[k]
      /\ DOMAIN i = {f \in DOMAIN index : index[f] \notin dead}
      /\ \A f \in DOMAIN index : index[f] \notin dead => i[f] = index[f]
  <2>1. DOMAIN i = {f \in DOMAIN index : index[f] \notin dead}
    BY DEF keptIndex, Restrict, Matches
  <2>2. \A f \in DOMAIN i : i[f] = index[f]  BY DEF keptIndex, Restrict
  <2>3. QED  BY <2>1, <2>2 DEF keptEntries, Restrict
<1> HIDE DEF e, i
<1>2. Matches(e, i)  BY <1>1 DEF Matches
<1>3. QED  BY <1>2 DEF e, i

-----------------------------------------------------------------------------
(* What put leaves, whichever entries it starts from: every survivor is an   *)
(* entry it started with or the new one, and there is room.                  *)
LEMMA InsertLeaves ==
  ASSUME NEW r \in Requests, NEW a \in Answers, NEW now, NEW es, NEW index,
         Matches(es, index), WellFormed(es), IsFiniteSet(DOMAIN es),
         Cardinality(DOMAIN es) <= MaximumEntries, MaximumEntries # 0,
         insert(r, a, now, es, index)
  PROVE  /\ Matches(entries', requestIndex')
         /\ IsFiniteSet(DOMAIN entries')
         /\ Cardinality(DOMAIN entries') <= MaximumEntries
         /\ cacheCompositeKey(r, a) \in DOMAIN entries'
         /\ entries'[cacheCompositeKey(r, a)] = newEntry(r, a, now)
         /\ \A k \in DOMAIN entries' :
              k # cacheCompositeKey(r, a) => k \in DOMAIN es /\ entries'[k] = es[k]
<1> DEFINE composite == cacheCompositeKey(r, a)
           swept     == {k \in DOMAIN es : expired(now, es[k])}
           liveIndex == keptIndex(es, index, swept)
           replaced  == IF KeyOf[r] \in DOMAIN liveIndex
                        THEN {liveIndex[KeyOf[r]]} \ {composite} ELSE {}
           dead      == swept \cup (replaced \cap DOMAIN es)
           keptEs    == keptEntries(es, dead)
           full      == /\ composite \notin DOMAIN keptEs
                        /\ Cardinality(DOMAIN keptEs) >= MaximumEntries
<1>1. PICK evicted \in (IF full THEN {{k} : k \in oldest(keptEs)} ELSE {{}}) :
        /\ entries' = with(keptEntries(es, dead \cup evicted),
                           composite, newEntry(r, a, now))
        /\ requestIndex' = with(keptIndex(es, index, dead \cup evicted),
                                KeyOf[r], composite)
  BY DEF insert
<1> HIDE DEF composite, swept, liveIndex, replaced, dead, keptEs, full
<1> DEFINE gone == dead \cup evicted
           e1   == keptEntries(es, gone)
           i1   == keptIndex(es, index, gone)
<1> HIDE DEF gone, e1, i1
<1>2. Matches(e1, i1)  BY KeptMatches DEF e1, i1
<1>3. /\ DOMAIN e1 = DOMAIN es \ gone
      /\ \A k \in DOMAIN es \ gone : e1[k] = es[k]
      /\ DOMAIN i1 = {f \in DOMAIN index : index[f] \notin gone}
      /\ \A f \in DOMAIN index : index[f] \notin gone => i1[f] = index[f]
  <2>1. DOMAIN e1 = DOMAIN es \ gone  BY DEF e1, keptEntries, Restrict
  <2>2. \A k \in DOMAIN es \ gone : e1[k] = es[k]
    BY DEF e1, keptEntries, Restrict
  <2>3. DOMAIN i1 = {f \in DOMAIN index : index[f] \notin gone}
    BY DEF i1, keptIndex, Restrict, Matches
  <2>4. \A f \in DOMAIN i1 : i1[f] = index[f]
    BY DEF i1, keptIndex, Restrict
  <2>5. QED  BY <2>1, <2>2, <2>3, <2>4
<1>4. /\ DOMAIN entries' = {composite} \cup DOMAIN e1
      /\ entries'[composite] = newEntry(r, a, now)
      /\ \A k \in DOMAIN e1 : k # composite => entries'[k] = e1[k]
  BY <1>1 DEF with, e1, gone
<1>5. /\ DOMAIN requestIndex' = {KeyOf[r]} \cup DOMAIN i1
      /\ requestIndex'[KeyOf[r]] = composite
      /\ \A f \in DOMAIN i1 : f # KeyOf[r] => requestIndex'[f] = i1[f]
  BY <1>1 DEF with, i1, gone
<1>6. newEntry(r, a, now).requestFingerprint = KeyOf[r]  BY DEF newEntry
<1>7. (* A survivor with the fingerprint of r can only be the composite.     *)
      \A k \in DOMAIN e1 : e1[k].requestFingerprint = KeyOf[r] => k = composite
  <2> SUFFICES ASSUME NEW k \in DOMAIN e1, e1[k].requestFingerprint = KeyOf[r],
                      k # composite
               PROVE  FALSE
    OBVIOUS
  <2>1. k \in DOMAIN es /\ k \notin swept /\ k \notin replaced  BY <1>3 DEF gone, dead
  <2>2. KeyOf[r] \in DOMAIN index /\ index[KeyOf[r]] = k
    BY <1>3, <2>1 DEF Matches
  <2>3. KeyOf[r] \in DOMAIN liveIndex /\ liveIndex[KeyOf[r]] = k
    BY <2>1, <2>2 DEF liveIndex, keptIndex, Restrict
  <2>4. QED  BY <2>1, <2>3 DEF replaced
<1>8. (* The old entry at the composite, if any, had the fingerprint of r.   *)
      composite \in DOMAIN e1 => e1[composite].requestFingerprint = KeyOf[r]
  BY <1>3 DEF WellFormed, EntryWellFormed, cacheCompositeKey, composite
<1>9. Matches(entries', requestIndex')
  <2>1. ASSUME NEW k \in DOMAIN entries'
        PROVE  /\ entries'[k].requestFingerprint \in DOMAIN requestIndex'
               /\ requestIndex'[entries'[k].requestFingerprint] = k
    <3>1. CASE k = composite  BY <1>4, <1>5, <1>6, <3>1
    <3>2. CASE k # composite
      <4>1. k \in DOMAIN e1 /\ entries'[k] = e1[k]  BY <1>4, <3>2
      <4>2. e1[k].requestFingerprint # KeyOf[r]  BY <1>7, <3>2, <4>1
      <4>3. QED  BY <1>2, <1>5, <4>1, <4>2 DEF Matches
    <3>3. QED  BY <3>1, <3>2
  <2>2. ASSUME NEW f \in DOMAIN requestIndex'
        PROVE  /\ requestIndex'[f] \in DOMAIN entries'
               /\ entries'[requestIndex'[f]].requestFingerprint = f
    <3>1. CASE f = KeyOf[r]  BY <1>4, <1>5, <1>6, <3>1
    <3>2. CASE f # KeyOf[r]
      <4>1. f \in DOMAIN i1 /\ requestIndex'[f] = i1[f]  BY <1>5, <3>2
      <4>2. i1[f] \in DOMAIN e1 /\ e1[i1[f]].requestFingerprint = f
        BY <1>2, <4>1 DEF Matches
      <4>3. i1[f] # composite  BY <1>8, <3>2, <4>2
      <4>4. QED  BY <1>4, <4>1, <4>2, <4>3
    <3>3. QED  BY <3>1, <3>2
  <2>3. QED  BY <2>1, <2>2 DEF Matches
<1>10. /\ IsFiniteSet(DOMAIN entries')
       /\ Cardinality(DOMAIN entries') <= MaximumEntries
  <2>1. DOMAIN keptEs = DOMAIN es \ dead  BY DEF keptEs, keptEntries, Restrict
  <2>2. /\ IsFiniteSet(DOMAIN keptEs)
        /\ Cardinality(DOMAIN keptEs) <= Cardinality(DOMAIN es)
    BY <2>1, FS_Subset
  <2>3. /\ Cardinality(DOMAIN es) \in Nat /\ Cardinality(DOMAIN keptEs) \in Nat
        /\ MaximumEntries \in Nat
    BY <2>2, FS_CardinalityType, BoundsTyped
  <2>4. DOMAIN e1 = DOMAIN keptEs \ evicted  BY <1>3, <2>1 DEF gone
  <2>5. IsFiniteSet(DOMAIN e1)  BY <2>2, <2>4, FS_Subset
  <2>6. Cardinality(DOMAIN e1) \in Nat  BY <2>5, FS_CardinalityType
  <2>7. /\ IsFiniteSet({composite} \cup DOMAIN e1)
        /\ Cardinality({composite} \cup DOMAIN e1) =
             IF composite \in DOMAIN e1 THEN Cardinality(DOMAIN e1)
             ELSE Cardinality(DOMAIN e1) + 1
    <3>1. {composite} \cup DOMAIN e1 = DOMAIN e1 \cup {composite}  OBVIOUS
    <3>2. QED  BY <2>5, <3>1, FS_AddElement
  <2>8. CASE full
    <3>1. PICK k \in oldest(keptEs) : evicted = {k}  BY <1>1, <2>8
    <3>2. k \in DOMAIN keptEs  BY <3>1 DEF oldest
    <3>3. Cardinality(DOMAIN e1) = Cardinality(DOMAIN keptEs) - 1
      BY <2>2, <2>4, <3>1, <3>2, FS_RemoveElement
    <3>4. QED  BY <1>4, <2>2, <2>3, <2>6, <2>7, <3>3
  <2>9. CASE ~full
    <3>1. evicted = {}  BY <1>1, <2>9
    <3>2. DOMAIN e1 = DOMAIN keptEs  BY <2>4, <3>1
    <3>3. QED  BY <1>4, <2>2, <2>3, <2>7, <2>9, <3>2 DEF full
  <2>10. QED  BY <2>8, <2>9
<1>11. QED  BY <1>3, <1>4, <1>9, <1>10 DEF composite

(* The new entry is well formed: its reading is in the past, its life short. *)
LEMMA NewEntryWellFormed ==
  ASSUME NEW r \in Requests, NEW a \in Answers, NEW now \in Nat,
         clock \in Nat, now <= clock
  PROVE  /\ EntryWellFormed(cacheCompositeKey(r, a), newEntry(r, a, now))
         /\ newEntry(r, a, now).answer = a
<1>1. a.ttl \in Nat /\ MaximumTTL \in Nat  BY AnswersTyped, BoundsTyped
<1>2. lifetime(a) \in Nat /\ lifetime(a) <= MaximumTTL  BY <1>1 DEF lifetime
<1>3. KeyOf[r] \in Keys  BY DEF Keys
<1>4. now + lifetime(a) \in Nat /\ now + lifetime(a) <= now + MaximumTTL
  BY <1>1, <1>2
<1>5. QED  BY <1>3, <1>4 DEF newEntry, Entry, EntryWellFormed, cacheCompositeKey

(* put keeps the cache well formed and never takes its revision back.        *)
LEMMA PutKeepsCache ==
  ASSUME CacheWellFormed, latestRevision \in Nat, clock \in Nat,
         NEW r \in Requests, NEW a \in Answers, NEW now \in Nat, now <= clock,
         put(r, a, now)
  PROVE  /\ CacheWellFormed'
         /\ latestRevision' \in Nat /\ latestRevision' >= latestRevision
<1>1. a.revision \in Nat  BY AnswersTyped
<1>2. CASE ~storable(a) \/ a.revision < latestRevision
  BY <1>2 DEF put, cacheVars, CacheWellFormed, EntriesWellFormed, WellFormed,
              IndexMatchesEntries, Matches, OneRevision, Bounded
<1>3. CASE ~(~storable(a) \/ a.revision < latestRevision)
  <2>1. latestRevision' = a.revision /\ a.revision >= latestRevision
    BY <1>1, <1>3 DEF put
  <2>2. MaximumEntries # 0  BY <1>3 DEF storable, enabled
  <2> DEFINE Result(es) ==
        /\ IndexMatchesEntries' /\ Bounded' /\ IsFiniteSet(DOMAIN entries')
        /\ cacheCompositeKey(r, a) \in DOMAIN entries'
        /\ entries'[cacheCompositeKey(r, a)] = newEntry(r, a, now)
        /\ \A k \in DOMAIN entries' :
             k # cacheCompositeKey(r, a) => k \in DOMAIN es /\ entries'[k] = es[k]
  <2>3. CASE a.revision > latestRevision
    <3>1. insert(r, a, now, Empty, Empty)  BY <1>3, <2>3 DEF put
    <3>2. /\ DOMAIN Empty = {}
          /\ Matches(Empty, Empty) /\ WellFormed(Empty)
      BY DEF Empty, Matches, WellFormed
    <3>3. IsFiniteSet(DOMAIN Empty) /\ Cardinality(DOMAIN Empty) <= MaximumEntries
      BY <3>2, FS_EmptySet, BoundsTyped
    <3>4. Result(Empty)
      BY <2>2, <3>1, <3>2, <3>3, InsertLeaves DEF IndexMatchesEntries, Bounded
    <3>5. \A k \in DOMAIN entries' : k = cacheCompositeKey(r, a)  BY <3>2, <3>4
    <3>6. EntriesWellFormed'
      BY <3>4, <3>5, NewEntryWellFormed DEF EntriesWellFormed, WellFormed
    <3>7. OneRevision'
      BY <2>1, <3>4, <3>5, NewEntryWellFormed DEF OneRevision
    <3>8. QED  BY <1>1, <2>1, <3>4, <3>6, <3>7 DEF CacheWellFormed
  <2>4. CASE a.revision = latestRevision
    <3>1. insert(r, a, now, entries, requestIndex)  BY <1>1, <1>3, <2>4 DEF put
    <3>2. /\ Matches(entries, requestIndex) /\ WellFormed(entries)
          /\ IsFiniteSet(DOMAIN entries) /\ Cardinality(DOMAIN entries) <= MaximumEntries
      BY DEF CacheWellFormed, IndexMatchesEntries, EntriesWellFormed, Bounded
    <3>3. Result(entries)
      BY <2>2, <3>1, <3>2, InsertLeaves DEF IndexMatchesEntries, Bounded
    <3>4. EntriesWellFormed'
      <4>1. ASSUME NEW k \in DOMAIN entries', k = cacheCompositeKey(r, a)
            PROVE  EntryWellFormed(k, entries'[k])
        BY <3>3, <4>1, NewEntryWellFormed
      <4>2. ASSUME NEW k \in DOMAIN entries', k # cacheCompositeKey(r, a)
            PROVE  EntryWellFormed(k, entries'[k])
        BY <3>2, <3>3, <4>2 DEF WellFormed
      <4>3. QED  BY <3>3, <4>1, <4>2 DEF EntriesWellFormed, WellFormed
    <3>5. OneRevision'
      BY <2>1, <2>4, <3>3, NewEntryWellFormed DEF CacheWellFormed, OneRevision
    <3>6. QED  BY <1>1, <2>1, <3>3, <3>4, <3>5 DEF CacheWellFormed
  <2>5. QED  BY <1>1, <2>1, <2>3, <2>4
<1>4. QED  BY <1>2, <1>3

(* A lookup that misses deletes at most one entry, with its index.           *)
LEMMA MissKeepsCache ==
  ASSUME CacheWellFormed, latestRevision \in Nat, NEW r \in Requests, NEW now,
         get_miss(r, now)
  PROVE  CacheWellFormed' /\ latestRevision' = latestRevision
<1>1. latestRevision' = latestRevision  BY DEF get_miss
<1>2. CASE UNCHANGED <<entries, requestIndex>>
  BY <1>1, <1>2 DEF CacheWellFormed, EntriesWellFormed, WellFormed,
              IndexMatchesEntries, Matches, OneRevision, Bounded
<1>3. CASE enabled /\ KeyOf[r] \in DOMAIN requestIndex
  <2> DEFINE dead == {requestIndex[KeyOf[r]]}
  <2>1. requestIndex[KeyOf[r]] \in DOMAIN entries
    BY <1>3 DEF CacheWellFormed, IndexMatchesEntries, Matches
  <2>2. {requestIndex[KeyOf[r]]} \cap DOMAIN entries = dead /\ dead # {}  BY <2>1
  <2>3. /\ entries' = keptEntries(entries, dead)
        /\ requestIndex' = keptIndex(entries, requestIndex, dead)
    BY <1>3, <2>2 DEF get_miss
  <2> HIDE DEF dead
  <2>4. Matches(entries, requestIndex)  BY DEF CacheWellFormed, IndexMatchesEntries
  <2>5. IndexMatchesEntries'  BY <2>3, <2>4, KeptMatches DEF IndexMatchesEntries
  <2>6. /\ DOMAIN entries' = DOMAIN entries \ dead
        /\ \A k \in DOMAIN entries' : entries'[k] = entries[k]
    BY <2>3 DEF keptEntries, Restrict
  <2>7. /\ IsFiniteSet(DOMAIN entries') /\ Bounded'
    <3>1. IsFiniteSet(DOMAIN entries)  BY DEF CacheWellFormed, EntriesWellFormed
    <3>2. DOMAIN entries' \in SUBSET DOMAIN entries  BY <2>6
    <3>3. /\ IsFiniteSet(DOMAIN entries')
          /\ Cardinality(DOMAIN entries') <= Cardinality(DOMAIN entries)
      BY <3>1, <3>2, FS_Subset
    <3>4. /\ Cardinality(DOMAIN entries) \in Nat
          /\ Cardinality(DOMAIN entries') \in Nat
      BY <3>1, <3>3, FS_CardinalityType
    <3>5. QED  BY <3>3, <3>4, BoundsTyped DEF CacheWellFormed, Bounded
  <2>8. EntriesWellFormed' /\ OneRevision'
    BY <1>1, <2>6, <2>7
       DEF CacheWellFormed, EntriesWellFormed, WellFormed, OneRevision
  <2>9. QED  BY <1>1, <2>5, <2>7, <2>8 DEF CacheWellFormed
<1>4. QED  BY <1>1, <1>2, <1>3 DEF get_miss

-----------------------------------------------------------------------------
LEMMA InitIInv == Init => IInv
<1> SUFFICES ASSUME Init PROVE IInv  OBVIOUS
<1>1. DOMAIN Empty = {}  BY DEF Empty
<1>2. EntriesWellFormed /\ IndexMatchesEntries /\ OneRevision
  BY <1>1, FS_EmptySet
     DEF Init, EntriesWellFormed, WellFormed, IndexMatchesEntries, Matches, OneRevision
<1>3. Bounded  BY <1>1, FS_EmptySet, BoundsTyped DEF Init, Bounded
<1>4. GoroutinesWellFormed  BY DEF Init, GoroutinesWellFormed, Never
<1>5. QED  BY <1>2, <1>3, <1>4 DEF IInv, CacheWellFormed

(* What a lookup that hits returns: a live entry of the request's key and of *)
(* the latest revision.                                                      *)
LEMMA HitFindsEntry ==
  ASSUME CacheWellFormed, NEW r \in Requests, NEW now, hit(r, now)
  PROVE  /\ EntryWellFormed(requestIndex[KeyOf[r]], found(r))
         /\ ~expired(now, found(r))
         /\ found(r).requestFingerprint = KeyOf[r]
         /\ found(r).answer.revision = latestRevision
BY DEF hit, found, CacheWellFormed, EntriesWellFormed, WellFormed

LEMMA StepIInv == IInv /\ [Next]_vars => IInv'
<1> SUFFICES ASSUME IInv, [Next]_vars PROVE IInv'  OBVIOUS
<1>1. GoroutinesWellFormed /\ CacheWellFormed  BY DEF IInv
<1>2. ASSUME UNCHANGED cacheVars PROVE CacheWellFormed'
  BY <1>1, <1>2 DEF cacheVars, CacheWellFormed, EntriesWellFormed, WellFormed,
              IndexMatchesEntries, Matches, OneRevision, Bounded
<1>3. ASSUME NEW c \in Callers, NEW r \in Requests, NEW now \in Times, Hit(c, r, now)
      PROVE  IInv'
  <2>1. found(r) \in Entry
    BY <1>1, <1>3, HitFindsEntry DEF Hit, EntryWellFormed
  <2>2. asked[c] = Never
    BY <1>1, <1>3, NoRequestIsNone DEF GoroutinesWellFormed, Hit, Holds
  <2>3. GoroutinesWellFormed'
    BY <1>1, <1>3, <2>1, <2>2 DEF GoroutinesWellFormed, Hit
  <2>4. CacheWellFormed'  BY <1>2, <1>3 DEF Hit, cacheVars
  <2>5. QED  BY <2>3, <2>4 DEF IInv
<1>4. ASSUME NEW c \in Callers, NEW r \in Requests, NEW now \in Times, Miss(c, r, now)
      PROVE  IInv'
  <2>1. CacheWellFormed' /\ latestRevision' = latestRevision
    BY <1>1, <1>4, MissKeepsCache DEF Miss, GoroutinesWellFormed
  <2>2. served[c] = NoEntry
    BY <1>1, <1>4, NoRequestIsNone DEF GoroutinesWellFormed, Miss, Holds
  <2>3. now \in Nat /\ now <= clock  BY <1>4 DEF Miss, Holds, Times
  <2>4. GoroutinesWellFormed'
    BY <1>1, <1>4, <2>1, <2>2, <2>3 DEF GoroutinesWellFormed, Miss
  <2>5. QED  BY <2>1, <2>4 DEF IInv
<1>5. ASSUME NEW c \in Callers, NEW a \in Answers, Store(c, a)
      PROVE  IInv'
  <2>1. /\ wanted[c] \in Requests /\ asked[c] \in Nat /\ asked[c] <= clock
        /\ put(wanted[c], a, asked[c])
    BY <1>1, <1>5 DEF GoroutinesWellFormed, Store
  <2>2. CacheWellFormed' /\ latestRevision' \in Nat
    BY <1>1, <2>1, PutKeepsCache DEF GoroutinesWellFormed
  <2>3. served[c] = NoEntry  BY <1>1, <1>5 DEF GoroutinesWellFormed, Store
  <2>4. GoroutinesWellFormed'
    BY <1>1, <1>5, <2>2, <2>3 DEF GoroutinesWellFormed, Store, Never
  <2>5. QED  BY <2>2, <2>4 DEF IInv
<1>6. ASSUME NEW c \in Callers, Abandon(c) PROVE IInv'
  <2>1. served[c] = NoEntry  BY <1>1, <1>6 DEF GoroutinesWellFormed, Abandon
  <2>2. GoroutinesWellFormed'
    BY <1>1, <1>6, <2>1 DEF GoroutinesWellFormed, Abandon, Never
  <2>3. QED  BY <1>2, <1>6, <2>2 DEF IInv, Abandon, cacheVars
<1>7. ASSUME NEW c \in Callers, Return(c) PROVE IInv'
  <2>1. asked[c] = Never  BY <1>1, <1>7 DEF GoroutinesWellFormed, Return
  <2>2. GoroutinesWellFormed'
    BY <1>1, <1>7, <2>1 DEF GoroutinesWellFormed, Return
  <2>3. QED  BY <1>2, <1>7, <2>2 DEF IInv, Return, cacheVars
<1>8. CASE Tick
  <2>1. GoroutinesWellFormed'  BY <1>1, <1>8 DEF GoroutinesWellFormed, Tick
  <2>2. QED  BY <1>2, <1>8, <2>1 DEF IInv, Tick, cacheVars
<1>9. CASE UNCHANGED vars
  <2>1. GoroutinesWellFormed'  BY <1>1, <1>9 DEF GoroutinesWellFormed, vars
  <2>2. QED  BY <1>2, <1>9, <2>1 DEF IInv, vars, cacheVars
<1>10. QED  BY <1>3, <1>4, <1>5, <1>6, <1>7, <1>8, <1>9 DEF Next

LEMMA AlwaysIInv == Spec => []IInv
<1>1. QED  BY InitIInv, StepIInv, PTL DEF Spec

-----------------------------------------------------------------------------
(* The fields of the cache and the goroutines' readings keep their types.    *)
THEOREM TypeCorrect == Spec => []TypeOK
<1>1. ASSUME IInv PROVE TypeOK
  <2>1. \A k \in DOMAIN entries : entries[k] \in Entry /\ k \in Composites
    <3>1. ASSUME NEW k \in DOMAIN entries
          PROVE  entries[k] \in Entry /\ k \in Composites
      <4>1. EntryWellFormed(k, entries[k])
        BY <1>1 DEF IInv, CacheWellFormed, EntriesWellFormed, WellFormed
      <4>2. /\ entries[k].answer \in Answers /\ entries[k].request \in Requests
            /\ entries[k].answer.revision \in Nat
        BY <4>1, AnswersTyped DEF EntryWellFormed, Entry
      <4>3. QED
        BY <4>1, <4>2 DEF EntryWellFormed, cacheCompositeKey, Composites, Keys
    <3>2. QED  BY <3>1
  <2>2. \A f \in DOMAIN requestIndex : requestIndex[f] \in DOMAIN entries /\ f \in Keys
    BY <1>1, <2>1 DEF IInv, CacheWellFormed, IndexMatchesEntries, Matches, Entry
  <2>3. QED  BY <1>1, <2>1, <2>2 DEF IInv, GoroutinesWellFormed, TypeOK
<1>2. QED  BY <1>1, AlwaysIInv, PTL

(* The index and the entries stay two views of one relation.                 *)
THEOREM IndexAlwaysMatches == Spec => []IndexMatchesEntries
<1>1. IInv => IndexMatchesEntries  BY DEF IInv, CacheWellFormed
<1>2. QED  BY <1>1, AlwaysIInv, PTL

(* No entry of an older policy revision survives a newer one.                *)
THEOREM AlwaysOneRevision == Spec => []OneRevision
<1>1. IInv => OneRevision  BY DEF IInv, CacheWellFormed
<1>2. QED  BY <1>1, AlwaysIInv, PTL

(* The cache stays within its limit.                                         *)
THEOREM AlwaysBounded == Spec => []Bounded
<1>1. IInv => Bounded  BY DEF IInv, CacheWellFormed
<1>2. QED  BY <1>1, AlwaysIInv, PTL

(* A denial is served from the cache for MaximumTTL after the Agent gave it, *)
(* and Patience, however late the readings of the put and of the lookup are. *)
THEOREM StaleDenyBounded == Spec => StaleDenyBound
<1> DEFINE Fresh == \A c \in Callers : served[c] = NoEntry /\ served'[c] # NoEntry =>
                      clock < served'[c].answeredAt + MaximumTTL + Patience
<1>1. ASSUME IInv, Next PROVE Fresh
  <2>1. GoroutinesWellFormed /\ CacheWellFormed  BY <1>1 DEF IInv
  <2>2. ASSUME NEW c \in Callers, NEW r \in Requests, NEW now \in Times, Hit(c, r, now)
        PROVE  Fresh
    <3>1. EntryWellFormed(requestIndex[KeyOf[r]], found(r)) /\ ~expired(now, found(r))
      BY <2>1, <2>2, HitFindsEntry DEF Hit
    <3>2. /\ found(r).expiresAt \in Nat /\ found(r).createdAt \in Nat
          /\ found(r).answeredAt \in Nat
          /\ now < found(r).expiresAt
          /\ found(r).expiresAt <= found(r).createdAt + MaximumTTL
          /\ found(r).createdAt <= found(r).answeredAt
      BY <3>1 DEF EntryWellFormed, Entry, expired, Times
    <3>3. now \in Nat /\ clock \in Nat /\ clock <= now + Patience
      BY <2>1, <2>2 DEF Hit, Holds, Times, GoroutinesWellFormed
    <3>4. clock < found(r).answeredAt + MaximumTTL + Patience
      BY <3>2, <3>3, BoundsTyped
    <3>5. served' = [served EXCEPT ![c] = found(r)]  BY <2>2 DEF Hit
    <3>6. QED  BY <2>1, <3>4, <3>5 DEF GoroutinesWellFormed
  <2>3. ASSUME NEW c \in Callers, Return(c) PROVE Fresh
    BY <2>1, <2>3 DEF Return, GoroutinesWellFormed
  <2>4. ASSUME served' = served PROVE Fresh  BY <2>4
  <2>5. QED  BY <1>1, <2>2, <2>3, <2>4 DEF Next, Miss, Store, Abandon, Tick
<1>2. UNCHANGED vars => Fresh  BY DEF vars
<1>3. IInv /\ [Next]_vars => [Fresh]_vars  BY <1>1, <1>2
<1>4. QED  BY <1>3, AlwaysIInv, PTL DEF Spec, StaleDenyBound, Fresh

(* Whatever the order in which answers come back, the revision of the cache  *)
(* only rises, and nothing granted under an older one is served.             *)
THEOREM NeverOlderPolicy == Spec => NoOlderPolicy
<1> DEFINE Current ==
      /\ latestRevision' >= latestRevision
      /\ \A c \in Callers : served[c] = NoEntry /\ served'[c] # NoEntry =>
           served'[c].answer.revision = latestRevision
<1>1. ASSUME IInv, Next PROVE Current
  <2>1. GoroutinesWellFormed /\ CacheWellFormed  BY <1>1 DEF IInv
  <2>2. ASSUME latestRevision' = latestRevision PROVE latestRevision' >= latestRevision
    BY <2>1, <2>2 DEF GoroutinesWellFormed
  <2>3. ASSUME NEW c \in Callers, NEW r \in Requests, NEW now \in Times, Hit(c, r, now)
        PROVE  Current
    <3>1. found(r).answer.revision = latestRevision
      BY <2>1, <2>3, HitFindsEntry DEF Hit
    <3>2. QED  BY <2>1, <2>2, <2>3, <3>1 DEF Hit, GoroutinesWellFormed
  <2>4. ASSUME NEW c \in Callers, NEW a \in Answers, Store(c, a) PROVE Current
    <3>1. latestRevision' >= latestRevision
      BY <2>1, <2>4, PutKeepsCache DEF GoroutinesWellFormed, Store
    <3>2. QED  BY <2>4, <3>1 DEF Store
  <2>5. ASSUME NEW c \in Callers, Return(c) PROVE Current
    BY <2>1, <2>2, <2>5 DEF Return, GoroutinesWellFormed
  <2>6. ASSUME served' = served, latestRevision' = latestRevision PROVE Current
    BY <2>2, <2>6
  <2>7. QED
    BY <1>1, <2>3, <2>4, <2>5, <2>6 DEF Next, Miss, get_miss, Abandon, Tick
<1>2. IInv /\ UNCHANGED vars => Current
  BY DEF vars, IInv, GoroutinesWellFormed
<1>3. IInv /\ [Next]_vars => [Current]_vars  BY <1>1, <1>2
<1>4. QED  BY <1>3, AlwaysIInv, PTL DEF Spec, NoOlderPolicy, Current

(* If no two requests share a key, a goroutine is served only what the Agent *)
(* said of the very request it carries: nothing in the cache itself, neither *)
(* replacement nor eviction nor a late put, can mix requests up.             *)
THEOREM ExactlyBound ==
  ASSUME \A r, s \in Requests : KeyOf[r] = KeyOf[s] => r = s
  PROVE  Spec => []ExactBinding
<1>1. Init => ExactBinding  BY DEF Init, ExactBinding
<1>2. IInv /\ ExactBinding /\ [Next]_vars => ExactBinding'
  <2> SUFFICES ASSUME IInv, ExactBinding, [Next]_vars PROVE ExactBinding'
    OBVIOUS
  <2>1. GoroutinesWellFormed /\ CacheWellFormed  BY DEF IInv
  <2>2. ASSUME NEW c \in Callers, NEW r \in Requests, NEW now \in Times, Hit(c, r, now)
        PROVE  ExactBinding'
    <3>1. /\ EntryWellFormed(requestIndex[KeyOf[r]], found(r))
          /\ found(r).requestFingerprint = KeyOf[r]
      BY <2>1, <2>2, HitFindsEntry DEF Hit
    <3>2. found(r).request \in Requests  BY <3>1 DEF EntryWellFormed, Entry
    <3>3. found(r).request = r  BY <3>1, <3>2 DEF EntryWellFormed
    <3>4. QED  BY <2>1, <2>2, <3>3 DEF Hit, ExactBinding, GoroutinesWellFormed
  <2>3. ASSUME NEW c \in Callers, served[c] = NoEntry, served' = served,
               NEW x, wanted' = [wanted EXCEPT ![c] = x]
        PROVE  ExactBinding'
    BY <2>1, <2>3 DEF ExactBinding, GoroutinesWellFormed
  <2>4. ASSUME NEW c \in Callers, NEW r \in Requests, NEW now \in Times, Miss(c, r, now)
        PROVE  ExactBinding'
    <3>1. served[c] = NoEntry
      BY <2>1, <2>4, NoRequestIsNone DEF GoroutinesWellFormed, Miss, Holds
    <3>2. QED  BY <2>3, <2>4, <3>1 DEF Miss
  <2>5. ASSUME NEW c \in Callers, NEW a \in Answers, Store(c, a) PROVE ExactBinding'
    <3>1. served[c] = NoEntry  BY <2>1, <2>5 DEF GoroutinesWellFormed, Store
    <3>2. QED  BY <2>3, <2>5, <3>1 DEF Store
  <2>6. ASSUME NEW c \in Callers, Abandon(c) PROVE ExactBinding'
    <3>1. served[c] = NoEntry  BY <2>1, <2>6 DEF GoroutinesWellFormed, Abandon
    <3>2. QED  BY <2>3, <2>6, <3>1 DEF Abandon
  <2>7. ASSUME NEW c \in Callers, Return(c) PROVE ExactBinding'
    BY <2>1, <2>7 DEF Return, ExactBinding, GoroutinesWellFormed
  <2>8. ASSUME served' = served, wanted' = wanted PROVE ExactBinding'
    BY <2>8 DEF ExactBinding
  <2>9. QED
    BY <2>2, <2>4, <2>5, <2>6, <2>7, <2>8 DEF Next, Tick, vars
<1>3. QED  BY <1>1, <1>2, AlwaysIInv, PTL DEF Spec

(* What an insertion into entries evicts, if anything, is the oldest entry,  *)
(* and then nothing was swept or replaced: the cache was full of others.     *)
LEMMA InsertLoses ==
  ASSUME CacheWellFormed, clock \in Nat, NEW r \in Requests, NEW a \in Answers,
         NEW now \in Nat, now <= clock, MaximumEntries # 0,
         insert(r, a, now, entries, requestIndex), Lost # {}
  PROVE  /\ Cardinality(Lost) = 1
         /\ Cardinality(DOMAIN entries') = MaximumEntries
         /\ \A k \in Lost, l \in DOMAIN entries \cap DOMAIN entries' :
              entries[k].createdAt <= entries[l].createdAt
<1> DEFINE composite == cacheCompositeKey(r, a)
           swept     == {k \in DOMAIN entries : expired(now, entries[k])}
           liveIndex == keptIndex(entries, requestIndex, swept)
           replaced  == IF KeyOf[r] \in DOMAIN liveIndex
                        THEN {liveIndex[KeyOf[r]]} \ {composite} ELSE {}
           dead      == swept \cup (replaced \cap DOMAIN entries)
           keptEs    == keptEntries(entries, dead)
           full      == /\ composite \notin DOMAIN keptEs
                        /\ Cardinality(DOMAIN keptEs) >= MaximumEntries
<1>1. PICK evicted \in (IF full THEN {{k} : k \in oldest(keptEs)} ELSE {{}}) :
        /\ entries' = with(keptEntries(entries, dead \cup evicted),
                           composite, newEntry(r, a, now))
        /\ requestIndex' = with(keptIndex(entries, requestIndex, dead \cup evicted),
                                KeyOf[r], composite)
  BY DEF insert
<1>2. \A k \in swept : entries[k].expiresAt <= clock
  <2> SUFFICES ASSUME NEW k \in swept PROVE entries[k].expiresAt <= clock  OBVIOUS
  <2>1. entries[k].expiresAt \in Nat
    BY DEF CacheWellFormed, EntriesWellFormed, WellFormed, EntryWellFormed, Entry
  <2>2. now >= entries[k].expiresAt  BY DEF expired
  <2>3. QED  BY <2>1, <2>2
<1>3. \A k \in replaced \cap DOMAIN entries : entries[k].requestFingerprint = KeyOf[r]
  <2> SUFFICES ASSUME NEW k \in replaced \cap DOMAIN entries
               PROVE  entries[k].requestFingerprint = KeyOf[r]
    OBVIOUS
  <2>1. KeyOf[r] \in DOMAIN liveIndex /\ k = liveIndex[KeyOf[r]]  OBVIOUS
  <2>2. KeyOf[r] \in DOMAIN requestIndex /\ liveIndex[KeyOf[r]] = requestIndex[KeyOf[r]]
    BY <2>1 DEF keptIndex, Restrict
  <2>3. QED  BY <2>1, <2>2 DEF CacheWellFormed, IndexMatchesEntries, Matches
<1>4. DOMAIN keptEs = DOMAIN entries \ dead /\ \A k \in DOMAIN keptEs : keptEs[k] = entries[k]
  BY DEF keptEntries, Restrict
<1> HIDE DEF composite, swept, liveIndex, replaced, keptEs, full
<1>5. /\ DOMAIN entries' = (DOMAIN entries \ (dead \cup evicted)) \cup {composite}
      /\ KeyOf[r] \in DOMAIN requestIndex'
  BY <1>1 DEF with, keptEntries, Restrict
<1>6. Lost \subseteq evicted
  <2> SUFFICES ASSUME NEW k \in Lost PROVE k \in evicted  OBVIOUS
  <2>1. /\ k \in DOMAIN entries /\ k \notin DOMAIN entries'
        /\ entries[k].expiresAt > clock
        /\ entries[k].requestFingerprint \notin DOMAIN requestIndex'
    BY DEF Lost
  <2>2. entries[k].expiresAt \in Nat
    BY <2>1 DEF CacheWellFormed, EntriesWellFormed, WellFormed, EntryWellFormed, Entry
  <2>3. k \notin swept  BY <1>2, <2>1, <2>2
  <2>4. k \notin replaced  BY <1>3, <1>5, <2>1
  <2>5. QED  BY <1>5, <2>1, <2>3, <2>4
<1>7. full  BY <1>1, <1>6
<1>8. PICK e \in oldest(keptEs) : evicted = {e}  BY <1>1, <1>7
<1>9. Lost = {e}  BY <1>6, <1>8
<1>10. /\ IsFiniteSet(DOMAIN entries) /\ Cardinality(DOMAIN entries) <= MaximumEntries
       /\ Cardinality(DOMAIN entries) \in Nat /\ MaximumEntries \in Nat
  BY BoundsTyped, FS_CardinalityType DEF CacheWellFormed, EntriesWellFormed, Bounded
<1>11. dead = {}
  <2>1. dead \subseteq DOMAIN entries  BY DEF swept
  <2>2. SUFFICES ASSUME NEW k \in dead PROVE FALSE  OBVIOUS
  <2>3. /\ IsFiniteSet(DOMAIN entries \ {k})
        /\ Cardinality(DOMAIN entries \ {k}) = Cardinality(DOMAIN entries) - 1
    BY <1>10, <2>1, FS_RemoveElement
  <2>4. DOMAIN keptEs \in SUBSET (DOMAIN entries \ {k})  BY <1>4
  <2>5. IsFiniteSet(DOMAIN keptEs)
        /\ Cardinality(DOMAIN keptEs) <= Cardinality(DOMAIN entries \ {k})
    BY <2>3, <2>4, FS_Subset
  <2>6. Cardinality(DOMAIN keptEs) \in Nat  BY <2>5, FS_CardinalityType
  <2>7. QED  BY <1>7, <1>10, <2>3, <2>5, <2>6 DEF full
<1>12. /\ DOMAIN keptEs = DOMAIN entries /\ composite \notin DOMAIN entries
       /\ Cardinality(DOMAIN entries) = MaximumEntries
  BY <1>4, <1>7, <1>10, <1>11 DEF full
<1>13. e \in DOMAIN entries /\ \A l \in DOMAIN entries : entries[e].createdAt <= entries[l].createdAt
  BY <1>4, <1>8, <1>12 DEF oldest
<1>14. Cardinality(DOMAIN entries') = MaximumEntries
  <2>1. DOMAIN entries' = (DOMAIN entries \ {e}) \cup {composite}
    BY <1>5, <1>8, <1>11
  <2>2. /\ IsFiniteSet(DOMAIN entries \ {e})
        /\ Cardinality(DOMAIN entries \ {e}) = MaximumEntries - 1
    BY <1>10, <1>12, <1>13, FS_RemoveElement
  <2>3. Cardinality((DOMAIN entries \ {e}) \cup {composite}) = (MaximumEntries - 1) + 1
    BY <1>12, <2>2, FS_AddElement
  <2>4. QED  BY <1>10, <2>1, <2>3
<1>15. QED  BY <1>9, <1>13, <1>14, FS_Singleton

(* A put costs the others at most one denial that is still live, the oldest, *)
(* and only when the cache is full; a lookup costs none, whatever order the  *)
(* readings come in (cache.go:55-64, 93-118).                                *)
THEOREM OnlyTheOldestLost == Spec => LosesOnlyTheOldest
<1> DEFINE Fair == latestRevision' = latestRevision /\ Lost # {} =>
       /\ Cardinality(Lost) = 1
       /\ Cardinality(DOMAIN entries') = MaximumEntries
       /\ \A k \in Lost, l \in DOMAIN entries \cap DOMAIN entries' :
            entries[k].createdAt <= entries[l].createdAt
<1>1. ASSUME entries' = entries PROVE Fair  BY <1>1 DEF Lost
<1>2. ASSUME IInv, NEW c \in Callers, NEW r \in Requests, NEW now \in Times, Miss(c, r, now)
      PROVE  Fair
  <2> SUFFICES ASSUME NEW k \in Lost PROVE FALSE  OBVIOUS
  <2>1. CacheWellFormed /\ GoroutinesWellFormed  BY <1>2 DEF IInv
  <2>2. k \in DOMAIN entries /\ k \notin DOMAIN entries' /\ entries[k].expiresAt > clock
    BY DEF Lost
  <2>3. ~hit(r, now) /\ now <= clock /\ now \in Nat /\ clock \in Nat
    BY <1>2, <2>1 DEF Miss, Holds, get_miss, Times, GoroutinesWellFormed
  <2>4. /\ enabled /\ KeyOf[r] \in DOMAIN requestIndex
        /\ entries' = keptEntries(entries, {requestIndex[KeyOf[r]]} \cap DOMAIN entries)
    BY <1>2, <2>2 DEF Miss, get_miss
  <2>5. k = requestIndex[KeyOf[r]]  BY <2>2, <2>4 DEF keptEntries, Restrict
  <2>6. /\ entries[k].requestFingerprint = KeyOf[r]
        /\ entries[k].answer.revision = latestRevision
    BY <2>1, <2>2, <2>4, <2>5
       DEF CacheWellFormed, IndexMatchesEntries, Matches, OneRevision
  <2>7. entries[k].expiresAt \in Nat
    BY <2>1, <2>2 DEF CacheWellFormed, EntriesWellFormed, WellFormed, EntryWellFormed, Entry
  <2>8. ~expired(now, entries[k])  BY <2>2, <2>3, <2>7 DEF expired
  <2>9. QED  BY <2>2, <2>3, <2>4, <2>5, <2>6, <2>8 DEF hit
<1>3. ASSUME IInv, NEW c \in Callers, NEW a \in Answers, Store(c, a) PROVE Fair
  <2> SUFFICES ASSUME latestRevision' = latestRevision, Lost # {} PROVE Fair  OBVIOUS
  <2>1. CacheWellFormed /\ GoroutinesWellFormed  BY <1>3 DEF IInv
  <2>2. /\ wanted[c] \in Requests /\ asked[c] \in Nat /\ asked[c] <= clock
        /\ clock \in Nat /\ latestRevision \in Nat
    BY <1>3, <2>1 DEF Store, GoroutinesWellFormed
  <2>3. a.revision \in Nat  BY AnswersTyped
  <2>4. CASE UNCHANGED cacheVars  BY <1>1, <2>4 DEF cacheVars
  <2>5. CASE ~UNCHANGED cacheVars
    <3>1. /\ storable(a) /\ ~(a.revision > latestRevision)
          /\ insert(wanted[c], a, asked[c], entries, requestIndex)
      BY <1>3, <2>2, <2>3, <2>5 DEF Store, put
    <3>2. MaximumEntries # 0  BY <3>1 DEF storable, enabled
    <3>3. QED  BY <2>1, <2>2, <3>1, <3>2, InsertLoses
  <2>6. QED  BY <2>4, <2>5
<1>4. IInv /\ [Next]_vars => [Fair]_vars
  BY <1>1, <1>2, <1>3 DEF Next, Hit, Abandon, Return, Tick, vars
<1>5. QED  BY <1>4, AlwaysIInv, PTL DEF Spec, LosesOnlyTheOldest, Fair

(* A lookup that misses has overlooked nothing: whatever was swept, replaced *)
(* or evicted before, no entry of the request is live at its reading. This   *)
(* is LiveDenialIsEnforced of Middleware for the cache alone                 *)
(* (cache.go:39-67).                                                         *)
THEOREM MissesNothingLive ==
  ASSUME enabled
  PROVE  Spec => [][\A c \in Callers, r \in Requests, now \in Times :
                      Miss(c, r, now) =>
                        \A k \in DOMAIN entries :
                          entries[k].request = r => expired(now, entries[k])]_vars
<1> DEFINE Current ==
      \A c \in Callers, r \in Requests, now \in Times :
        Miss(c, r, now) =>
          \A k \in DOMAIN entries : entries[k].request = r => expired(now, entries[k])
<1>1. IInv => Current
  <2> SUFFICES ASSUME IInv, NEW c \in Callers, NEW r \in Requests, NEW now \in Times,
                      Miss(c, r, now), NEW k \in DOMAIN entries, entries[k].request = r
               PROVE  expired(now, entries[k])
    OBVIOUS
  <2>1. CacheWellFormed /\ ~hit(r, now)  BY DEF IInv, Miss, get_miss
  <2>2. entries[k].requestFingerprint = KeyOf[r]
    BY <2>1 DEF CacheWellFormed, EntriesWellFormed, WellFormed, EntryWellFormed
  <2>3. KeyOf[r] \in DOMAIN requestIndex /\ requestIndex[KeyOf[r]] = k
    BY <2>1, <2>2 DEF CacheWellFormed, IndexMatchesEntries, Matches
  <2>4. entries[k].answer.revision = latestRevision
    BY <2>1 DEF CacheWellFormed, OneRevision
  <2>5. QED  BY <2>1, <2>2, <2>3, <2>4 DEF hit
<1>2. IInv /\ [Next]_vars => [Current]_vars  BY <1>1
<1>3. QED  BY <1>2, AlwaysIInv, PTL DEF Spec

=============================================================================
