------------------------ MODULE ProviderRangesProofs ------------------------
(***************************************************************************)
(* Theorems about ProviderRanges, for any addresses, sources, lists and    *)
(* durations.  The invariant has two halves.  ListsSeen ties what the      *)
(* store holds to what was published: stamps are never later than the      *)
(* fetch.  Punctual and Overdue tie the ticker to the stamps: how far the  *)
(* next tick can be from the last good fetch of a source that has missed   *)
(* so many refreshes since.                                                *)
(***************************************************************************)
EXTENDS ProviderRanges, WellFoundedInduction, TLAPS

(* A set of numbers has a least one. *)
LEMMA LeastNumber ==
  ASSUME NEW T, T \subseteq Nat, T # {}
  PROVE  \E x \in T : \A y \in T : x <= y
<1>1. IsWellFoundedOn(OpToRel(<, Nat), Nat)  BY NatLessThanWellFounded
<1>2. PICK x \in T : \A y \in T : ~ (<<y, x>> \in OpToRel(<, Nat))  BY <1>1, WFMin
<1>3. \A y \in T : ~ (y < x)  BY <1>2 DEF OpToRel
<1>4. \A y \in T : x <= y  BY <1>3
<1> QED  BY <1>4

StampsPast ==
  /\ stamp <= clock
  /\ due # <<>> => stamp # Never
  /\ \A s \in Sources : sources[s].updatedAt <= stamp

ListsSeen ==
  \A s \in Sources, ip \in Addresses :
    /\ Covers(published[s], ip) => publishedAt[s][ip] = clock
    /\ Covers(sources[s].networks, ip) =>
         sources[s].updatedAt # Never /\ sources[s].updatedAt <= publishedAt[s][ip]

Punctual ==
  /\ due # <<>> => clock <= stamp + RefreshTime
  /\ due # <<>> /\ nextTick # Never => nextTick = stamp + Interval
  /\ due = <<>> /\ nextTick # Never => clock <= nextTick
  /\ nextTick # Never => stamp <= nextTick

InDue(s) == \E i \in DOMAIN due : due[i] = s

Allowed(s) == sources[s].updatedAt + (missed[s] + 1) * Interval + RefreshTime

Overdue ==
  \A s \in Sources : sources[s].updatedAt # Never =>
    /\ nextTick = Never => due # <<>> /\ sources[s].updatedAt = stamp
    /\ nextTick # Never /\ ~InDue(s) => nextTick <= Allowed(s)
    /\ nextTick # Never => nextTick <= Allowed(s) + Interval

Started == stamp = Never => nextTick = Never /\ due = <<>>

IInv == RangesTypeOK /\ StampsPast /\ ListsSeen /\ Punctual /\ Started /\ Overdue

-----------------------------------------------------------------------------
(* Each missed refresh allows for one Interval more. *)
LEMMA OneMoreInterval ==
  ASSUME NEW m \in Nat
  PROVE  /\ (m + 1) * Interval \in Nat
         /\ Interval <= (m + 1) * Interval
         /\ ((m + 1) + 1) * Interval = (m + 1) * Interval + Interval
<1> DEFINE I == Interval
<1>1. I \in Nat  BY DurationsOrdered
<1> HIDE DEF I
<1>2. m * I \in Nat  BY <1>1
<1>3. (m + 1) * I = m * I + I  BY <1>1
<1>4. ((m + 1) + 1) * I = (m + 1) * I + I  BY <1>1
<1>5. QED  BY <1>1, <1>2, <1>3, <1>4 DEF I

LEMMA AllowedNat ==
  ASSUME RangesTypeOK, NEW s \in Sources
  PROVE  Allowed(s) \in Nat
<1>1. sources[s].updatedAt \in Nat /\ missed[s] \in Nat  BY DEF RangesTypeOK
<1>2. (missed[s] + 1) * Interval \in Nat  BY <1>1, OneMoreInterval
<1> DEFINE due_ == (missed[s] + 1) * Interval
<1>3. due_ \in Nat  BY <1>2
<1>4. Allowed(s) = sources[s].updatedAt + due_ + RefreshTime  BY DEF Allowed
<1> HIDE DEF due_
<1>5. QED  BY <1>1, <1>3, <1>4, DurationsOrdered

LEMMA InitIInv == RangesInit => IInv
<1> SUFFICES ASSUME RangesInit PROVE IInv  OBVIOUS
<1> USE DEF RangesInit, Never
<1>1. published \in [Sources -> SUBSET SUBSET Addresses]
  BY NetworksNonempty
<1>2. publishedAt \in [Sources -> [Addresses -> Nat]]  OBVIOUS
<1>3. RangesTypeOK  BY <1>1, <1>2 DEF RangesTypeOK
<1>4. ListsSeen  BY DEF ListsSeen, Covers
<1>5. StampsPast /\ Punctual /\ Started /\ Overdue
  BY DEF StampsPast, Punctual, Started, Overdue
<1>6. QED  BY <1>3, <1>4, <1>5 DEF IInv

LEMMA StartIInv == ASSUME IInv, Start PROVE IInv'
<1> USE DEF Start, Never, updaterVars, worldVars
<1>1. RangesTypeOK'
  BY SourcesNamed DEF IInv, RangesTypeOK
<1>2. \A s \in Sources : sources[s].updatedAt = Never
  BY DEF IInv, RangesTypeOK, StampsPast
<1>3. StampsPast'  BY <1>2 DEF IInv, RangesTypeOK, StampsPast
<1>4. ListsSeen'  BY DEF IInv, ListsSeen, Covers
<1>5. Punctual' /\ Started'
  BY DurationsOrdered DEF IInv, RangesTypeOK, Punctual, Started
<1>6. Overdue'  BY <1>2 DEF Overdue
<1>7. QED  BY <1>1, <1>3, <1>4, <1>5, <1>6 DEF IInv

LEMMA RefreshIInv == ASSUME IInv, Refresh PROVE IInv'
<1> USE DEF Refresh, Never, updaterVars, worldVars
<1>1. /\ RangesTypeOK /\ Interval \in Nat /\ RefreshTime \in Nat
      /\ clock = nextTick
  BY DurationsOrdered DEF IInv, RangesTypeOK, Punctual
<1>2. RangesTypeOK'
  BY <1>1, SourcesNamed DEF RangesTypeOK
<1>3. StampsPast'
  BY <1>1 DEF IInv, RangesTypeOK, StampsPast, Punctual
<1>4. ListsSeen'  BY DEF IInv, ListsSeen, Covers
<1>5. Punctual' /\ Started'
  BY <1>1 DEF RangesTypeOK, Punctual, Started
<1>6. Overdue'
  <2> SUFFICES ASSUME NEW s \in Sources, sources[s].updatedAt # Never
               PROVE  InDue(s)' /\ nextTick' # Never
                      /\ nextTick' <= Allowed(s)' + Interval
    BY DEF Overdue
  <2>1. InDue(s)'  BY DEF InDue, Sources
  <2>2. ~InDue(s)  BY DEF InDue
  <2>3. nextTick <= Allowed(s)  BY <2>2 DEF IInv, Overdue
  <2>4. Allowed(s)' = Allowed(s)  BY DEF Allowed
  <2>5. Allowed(s) \in Nat  BY <1>1, AllowedNat
  <2>6. QED  BY <1>1, <2>1, <2>3, <2>4, <2>5 DEF RangesTypeOK
<1>7. QED  BY <1>2, <1>3, <1>4, <1>5, <1>6 DEF IInv

LEMMA PublishIInv ==
  ASSUME IInv, NEW s \in Sources, NEW list \in Lists[s], Publish(s, list)
  PROVE  IInv'
<1> USE DEF Publish, updaterVars
<1>1. /\ RangesTypeOK
      /\ published' = [published EXCEPT ![s] = list]
      /\ publishedAt' = [publishedAt EXCEPT ![s] = Seen(list, s, clock)]
      /\ UNCHANGED <<clock, sources, due, stamp, nextTick, missed>>
  BY DEF IInv
<1>2. list \in SUBSET SUBSET Addresses  BY NetworksNonempty
<1>3. Seen(list, s, clock) \in [Addresses -> Nat]
  BY <1>1 DEF Seen, RangesTypeOK
<1>4. RangesTypeOK'  BY <1>1, <1>2, <1>3 DEF RangesTypeOK
<1>5. ListsSeen'
  <2> SUFFICES ASSUME NEW q \in Sources, NEW ip \in Addresses
               PROVE  /\ Covers(published'[q], ip) => publishedAt'[q][ip] = clock
                      /\ Covers(sources[q].networks, ip) =>
                           /\ sources[q].updatedAt # Never
                           /\ sources[q].updatedAt <= publishedAt'[q][ip]
    BY <1>1 DEF ListsSeen, Covers
  <2>1. CASE q # s
    <3>1. published'[q] = published[q] /\ publishedAt'[q] = publishedAt[q]
      BY <1>1, <2>1 DEF RangesTypeOK
    <3>2. QED  BY <3>1 DEF IInv, ListsSeen
  <2>2. CASE q = s
    <3>1. /\ published'[q] = list
          /\ publishedAt'[q][ip] =
               IF Covers(list, ip) THEN clock ELSE publishedAt[q][ip]
      BY <1>1, <2>2 DEF RangesTypeOK, Seen
    <3>2. sources[q].updatedAt <= clock
      BY <1>1 DEF IInv, StampsPast, RangesTypeOK
    <3>3. QED  BY <3>1, <3>2 DEF IInv, ListsSeen
  <2>3. QED  BY <2>1, <2>2
<1>6. StampsPast' /\ Punctual' /\ Started'
  BY <1>1 DEF IInv, StampsPast, Punctual, Started
<1>7. Overdue'  BY <1>1 DEF IInv, Overdue, InDue, Allowed
<1>8. QED  BY <1>4, <1>5, <1>6, <1>7 DEF IInv

LEMMA TickIInv == ASSUME IInv, Tick PROVE IInv'
<1> USE DEF Tick, updaterVars
<1>1. /\ RangesTypeOK
      /\ clock' = clock + 1
      /\ publishedAt' = [s \in Sources |-> Seen(published[s], s, clock')]
      /\ UNCHANGED <<sources, due, stamp, nextTick, missed, published>>
  BY DEF IInv
<1>2. \A s \in Sources : Seen(published[s], s, clock') \in [Addresses -> Nat]
  BY <1>1 DEF Seen, RangesTypeOK
<1>3. RangesTypeOK'  BY <1>1, <1>2 DEF RangesTypeOK
<1>4. ListsSeen'
  <2> SUFFICES ASSUME NEW q \in Sources, NEW ip \in Addresses
               PROVE  /\ Covers(published[q], ip) => publishedAt'[q][ip] = clock'
                      /\ Covers(sources[q].networks, ip) =>
                           /\ sources[q].updatedAt # Never
                           /\ sources[q].updatedAt <= publishedAt'[q][ip]
    BY <1>1 DEF ListsSeen, Covers
  <2>1. publishedAt'[q][ip] =
          IF Covers(published[q], ip) THEN clock' ELSE publishedAt[q][ip]
    BY <1>1 DEF Seen
  <2>2. sources[q].updatedAt <= clock'
    BY <1>1 DEF IInv, StampsPast, RangesTypeOK
  <2>3. QED  BY <2>1, <2>2 DEF IInv, ListsSeen
<1>5. StampsPast' /\ Started'
  BY <1>1 DEF IInv, StampsPast, Started, RangesTypeOK
<1>6. Punctual'
  BY <1>1, DurationsOrdered DEF IInv, Punctual, RangesTypeOK
<1>7. Overdue'  BY <1>1 DEF IInv, Overdue, InDue, Allowed
<1>8. QED  BY <1>3, <1>4, <1>5, <1>6, <1>7 DEF IInv

(* What the end of a fetch does to the ticker, whether it succeeded or not. *)
LEMMA FinishIInv ==
  ASSUME IInv, Finish, NEW s \in Sources, s = Head(due)
  PROVE  /\ due' \in Seq(Sources) /\ nextTick' \in Nat
         /\ Punctual' /\ Started' /\ stamp # Never
         /\ nextTick' = Never => due' # <<>>
         /\ nextTick' # Never => nextTick' <= stamp + Interval + RefreshTime
         /\ nextTick # Never => nextTick' = nextTick
         /\ \A q \in Sources : q # s /\ InDue(q) => InDue(q)'
<1> USE DEF Finish, Never, worldVars
<1>1. /\ RangesTypeOK /\ due # <<>> /\ due \in Seq(Sources)
      /\ due' = Tail(due) /\ clock' = clock /\ stamp' = stamp
      /\ Interval \in Nat /\ RefreshTime \in Nat
  BY DurationsOrdered DEF IInv, RangesTypeOK
<1>2. nextTick' = IF due' = <<>> /\ nextTick = Never THEN clock + Interval ELSE nextTick
  OBVIOUS
<1>3. /\ clock \in Nat \ {0} /\ stamp \in Nat /\ nextTick \in Nat
  BY <1>1 DEF RangesTypeOK
<1>4. stamp <= clock /\ stamp # Never /\ clock <= stamp + RefreshTime
  BY <1>1 DEF IInv, StampsPast, Punctual
<1>5. nextTick # Never => nextTick = stamp + Interval /\ stamp <= nextTick
  BY <1>1 DEF IInv, Punctual
<1>6. due' \in Seq(Sources)  BY <1>1
<1>7. nextTick' \in Nat  BY <1>1, <1>2, <1>3
<1>8. Punctual'
  BY <1>1, <1>2, <1>3, <1>4, <1>5, DurationsOrdered DEF Punctual
<1>9. Started'  BY <1>1, <1>4 DEF Started
<1>10. nextTick' # Never => nextTick' <= stamp + Interval + RefreshTime
  BY <1>1, <1>2, <1>3, <1>4, <1>5
<1>11. nextTick' = Never => due' # <<>>
  BY <1>1, <1>2, <1>3
<1>12. ASSUME NEW q \in Sources, q # s, InDue(q) PROVE InDue(q)'
  <2>1. PICK i \in DOMAIN due : due[i] = q  BY <1>12 DEF InDue
  <2>2. i # 1 /\ i \in 2..Len(due)  BY <1>1, <1>12, <2>1
  <2>3. i - 1 \in DOMAIN due' /\ due'[i - 1] = q  BY <1>1, <2>1, <2>2
  <2>4. QED  BY <2>3 DEF InDue
<1>13. QED
  BY <1>2, <1>4, <1>6, <1>7, <1>8, <1>9, <1>10, <1>11, <1>12

(* A source that the fetch was not about keeps within what it is allowed.   *)
LEMMA OthersKeptIInv ==
  ASSUME IInv, Finish, NEW s \in Sources, s = Head(due), NEW q \in Sources, q # s,
         sources'[q] = sources[q], missed'[q] = missed[q], sources[q].updatedAt # Never
  PROVE  /\ nextTick' = Never => due' # <<>> /\ sources'[q].updatedAt = stamp'
         /\ nextTick' # Never /\ ~InDue(q)' => nextTick' <= Allowed(q)'
         /\ nextTick' # Never => nextTick' <= Allowed(q)' + Interval
<1> USE DEF Never
<1>1. /\ Allowed(q)' = Allowed(q) /\ Allowed(q) \in Nat /\ stamp' = stamp
      /\ RangesTypeOK /\ Interval \in Nat /\ RefreshTime \in Nat
  BY AllowedNat, DurationsOrdered DEF Allowed, IInv, Finish
<1>2. InDue(q) => InDue(q)'  BY FinishIInv
<1>3. CASE nextTick # Never
  BY <1>1, <1>2, <1>3, FinishIInv DEF IInv, Overdue
<1>4. CASE nextTick = Never
  <2>1. sources[q].updatedAt = stamp  BY <1>4 DEF IInv, Overdue
  <2> DEFINE late == (missed[q] + 1) * Interval
  <2>2. late \in Nat /\ Interval <= late
    BY <1>1, OneMoreInterval DEF RangesTypeOK
  <2>3. Allowed(q) = stamp + late + RefreshTime  BY <2>1 DEF Allowed
  <2> HIDE DEF late
  <2>4. nextTick' # Never => nextTick' <= stamp + Interval + RefreshTime
    BY FinishIInv
  <2>5. nextTick' # Never => nextTick' <= Allowed(q)
    BY <1>1, <2>2, <2>3, <2>4, FinishIInv DEF RangesTypeOK
  <2>6. QED  BY <1>1, <2>1, <2>5, FinishIInv DEF RangesTypeOK
<1>5. QED  BY <1>3, <1>4

LEMMA FetchedIInv == ASSUME IInv, Fetched PROVE IInv'
<1> USE DEF Never
<1> DEFINE s == Head(due)
<1>1. /\ Finish /\ due # <<>> /\ RangesTypeOK
      /\ sources' = [sources EXCEPT ![s] =
                       [networks |-> published[s], updatedAt |-> stamp]]
      /\ missed' = [missed EXCEPT ![s] = 0]
      /\ UNCHANGED <<clock, stamp, published, publishedAt>>
  BY DEF IInv, Fetched, Finish, worldVars
<1>2. s \in Sources  BY <1>1 DEF RangesTypeOK
<1> HIDE DEF s
<1>3. /\ due' \in Seq(Sources) /\ nextTick' \in Nat /\ Punctual' /\ Started'
      /\ stamp # Never
      /\ nextTick' = Never => due' # <<>>
      /\ nextTick' # Never => nextTick' <= stamp + Interval + RefreshTime
  BY <1>1, <1>2, FinishIInv DEF s
<1>4. RangesTypeOK'  BY <1>1, <1>2, <1>3 DEF RangesTypeOK
<1>5. /\ sources'[s] = [networks |-> published[s], updatedAt |-> stamp]
      /\ missed'[s] = 0
      /\ \A q \in Sources : q # s => sources'[q] = sources[q] /\ missed'[q] = missed[q]
  BY <1>1, <1>2 DEF RangesTypeOK
<1>6. StampsPast'
  BY <1>1, <1>3, <1>5 DEF IInv, StampsPast, RangesTypeOK
<1>7. ListsSeen'
  <2> SUFFICES ASSUME NEW q \in Sources, NEW ip \in Addresses
               PROVE  /\ Covers(published[q], ip) => publishedAt[q][ip] = clock
                      /\ Covers(sources'[q].networks, ip) =>
                           /\ sources'[q].updatedAt # Never
                           /\ sources'[q].updatedAt <= publishedAt[q][ip]
    BY <1>1 DEF ListsSeen, Covers
  <2>1. CASE q # s  BY <1>5, <2>1 DEF IInv, ListsSeen
  <2>2. CASE q = s
    <3>1. sources'[q].networks = published[q] /\ sources'[q].updatedAt = stamp
      BY <1>5, <2>2
    <3>2. stamp <= clock  BY DEF IInv, StampsPast
    <3>3. QED  BY <1>3, <3>1, <3>2 DEF IInv, ListsSeen
  <2>3. QED  BY <2>1, <2>2
<1>8. Overdue'
  <2> SUFFICES ASSUME NEW q \in Sources, sources'[q].updatedAt # Never
               PROVE  /\ nextTick' = Never => due' # <<>> /\ sources'[q].updatedAt = stamp'
                      /\ nextTick' # Never /\ ~InDue(q)' => nextTick' <= Allowed(q)'
                      /\ nextTick' # Never => nextTick' <= Allowed(q)' + Interval
    BY DEF Overdue
  <2>1. CASE q # s  BY <1>1, <1>2, <1>5, <2>1, OthersKeptIInv DEF s
  <2>2. CASE q = s
    <3>1. sources'[q].updatedAt = stamp' /\ missed'[q] = 0
      BY <1>1, <1>5, <2>2
    <3>2. Allowed(q)' = stamp + (0 + 1) * Interval + RefreshTime
      BY <1>1, <3>1 DEF Allowed
    <3>3. /\ Interval \in Nat /\ RefreshTime \in Nat /\ stamp \in Nat
      BY <1>1, DurationsOrdered DEF RangesTypeOK
    <3>4. Allowed(q)' = stamp + Interval + RefreshTime  BY <3>2, <3>3
    <3>5. QED  BY <1>3, <3>1, <3>3, <3>4
  <2>3. QED  BY <2>1, <2>2
<1>9. QED  BY <1>3, <1>4, <1>6, <1>7, <1>8 DEF IInv

LEMMA FetchFailedIInv == ASSUME IInv, FetchFailed PROVE IInv'
<1> USE DEF Never
<1> DEFINE s == Head(due)
<1>1. /\ Finish /\ due # <<>> /\ RangesTypeOK
      /\ missed' = [missed EXCEPT ![s] = @ + 1]
      /\ UNCHANGED <<clock, stamp, sources, published, publishedAt>>
  BY DEF IInv, FetchFailed, Finish, worldVars
<1>2. s \in Sources  BY <1>1 DEF RangesTypeOK
<1> HIDE DEF s
<1>3. /\ due' \in Seq(Sources) /\ nextTick' \in Nat /\ Punctual' /\ Started'
      /\ stamp # Never
      /\ nextTick' = Never => due' # <<>>
      /\ nextTick' # Never => nextTick' <= stamp + Interval + RefreshTime
      /\ nextTick # Never => nextTick' = nextTick
  BY <1>1, <1>2, FinishIInv DEF s
<1>4. RangesTypeOK'
  <2>1. missed' \in [Sources -> Nat]  BY <1>1, <1>2 DEF RangesTypeOK
  <2>2. /\ due' \in Seq(Sources) /\ nextTick' \in Nat
        /\ UNCHANGED <<clock, stamp, published, publishedAt, sources>>
    BY <1>1, <1>3
  <2> QED  BY <1>1, <2>1, <2>2 DEF RangesTypeOK
<1>5. /\ missed'[s] = missed[s] + 1 /\ missed[s] \in Nat
      /\ \A q \in Sources : q # s => missed'[q] = missed[q]
  BY <1>1, <1>2 DEF RangesTypeOK
<1>6. StampsPast'  BY <1>1, <1>3 DEF IInv, StampsPast
<1>7. ListsSeen'  BY <1>1 DEF IInv, ListsSeen, Covers
<1>8. Overdue'
  <2> SUFFICES ASSUME NEW q \in Sources, sources[q].updatedAt # Never
               PROVE  /\ nextTick' = Never => due' # <<>> /\ sources'[q].updatedAt = stamp'
                      /\ nextTick' # Never /\ ~InDue(q)' => nextTick' <= Allowed(q)'
                      /\ nextTick' # Never => nextTick' <= Allowed(q)' + Interval
    BY <1>1 DEF Overdue
  <2>1. CASE q # s  BY <1>1, <1>2, <1>5, <2>1, OthersKeptIInv DEF s
  <2>2. CASE q = s
    <3> DEFINE late == (missed[q] + 1) * Interval
    <3>1. /\ late \in Nat /\ Interval <= late
          /\ (missed[q] + 1 + 1) * Interval = late + Interval
      BY <1>5, <2>2, OneMoreInterval
    <3>2. /\ Allowed(q) = sources[q].updatedAt + late + RefreshTime
          /\ Allowed(q)' = sources[q].updatedAt + (late + Interval) + RefreshTime
      BY <1>1, <1>5, <2>2, <3>1 DEF Allowed
    <3> HIDE DEF late
    <3>3. /\ Interval \in Nat /\ RefreshTime \in Nat /\ stamp \in Nat
          /\ sources[q].updatedAt \in Nat
      BY <1>1, DurationsOrdered DEF RangesTypeOK
    <3>4. CASE nextTick # Never
      <4>1. nextTick <= Allowed(q) + Interval  BY <3>4 DEF IInv, Overdue
      <4>2. QED  BY <1>3, <3>1, <3>2, <3>3, <3>4, <4>1
    <3>5. CASE nextTick = Never
      <4>1. sources[q].updatedAt = stamp  BY <3>5 DEF IInv, Overdue
      <4>2. QED  BY <1>1, <1>3, <3>1, <3>2, <3>3, <4>1
    <3>6. QED  BY <3>4, <3>5
  <2>3. QED  BY <2>1, <2>2
<1>9. QED  BY <1>3, <1>4, <1>6, <1>7, <1>8 DEF IInv

-----------------------------------------------------------------------------
LEMMA StepIInv == IInv /\ [RangesNext]_rangeVars => IInv'
<1> SUFFICES ASSUME IInv, [RangesNext]_rangeVars PROVE IInv'  OBVIOUS
<1>1. CASE Start  BY <1>1, StartIInv
<1>2. CASE Refresh  BY <1>2, RefreshIInv
<1>3. CASE Fetched  BY <1>3, FetchedIInv
<1>4. CASE FetchFailed  BY <1>4, FetchFailedIInv
<1>5. CASE Tick  BY <1>5, TickIInv
<1>6. ASSUME NEW s \in Sources, NEW list \in Lists[s], Publish(s, list) PROVE IInv'
  BY <1>6, PublishIInv
<1>7. CASE UNCHANGED rangeVars
  <2>1. UNCHANGED <<clock, sources, due, stamp, nextTick, missed, published, publishedAt>>
    BY <1>7 DEF rangeVars, updaterVars, worldVars
  <2>2. RangesTypeOK' /\ StampsPast'
    BY <2>1 DEF IInv, RangesTypeOK, StampsPast
  <2>3. ListsSeen'  BY <2>1 DEF IInv, ListsSeen, Covers
  <2>4. Punctual' /\ Started'  BY <2>1 DEF IInv, Punctual, Started
  <2>5. Overdue'  BY <2>1 DEF IInv, Overdue, InDue, Allowed
  <2>6. QED  BY <2>2, <2>3, <2>4, <2>5 DEF IInv
<1>8. QED  BY <1>1, <1>2, <1>3, <1>4, <1>5, <1>6, <1>7 DEF RangesNext, Fetch

THEOREM AlwaysIInv == RangesSpec => []IInv
<1>1. RangesInit => IInv  BY InitIInv
<1>2. IInv /\ [RangesNext]_rangeVars => IInv'  BY StepIInv
<1>3. QED  BY <1>1, <1>2, PTL DEF RangesSpec

(* The store, the ticker and the histories keep their types. *)
THEOREM TypeCorrect == RangesSpec => []RangesTypeOK
<1>1. IInv => RangesTypeOK  BY DEF IInv
<1>2. QED  BY <1>1, AlwaysIInv, PTL

-----------------------------------------------------------------------------
(* A provider that providerFor names is that of a fresh source's list.      *)
LEMMA NamedByAFreshList ==
  ASSUME NEW ip, NEW now, NEW p \in Providers, providerFor(ip, now) = p
  PROVE  \E s \in Sources : /\ ProviderOf[s] = p /\ fresh(s, now)
                            /\ Covers(sources[s].networks, ip)
<1>1. p # "ambiguous" /\ p # "none"  BY DEF Providers
<1>2. /\ matches(ip, now) # {}
      /\ p = CHOOSE q \in Providers : q \in matches(ip, now)
  BY <1>1 DEF providerFor
<1>3. matches(ip, now) \subseteq Providers  BY ProvidersKnown DEF matches
<1>4. \E q \in Providers : q \in matches(ip, now)  BY <1>2, <1>3
<1>5. p \in matches(ip, now)  BY <1>2, <1>4
<1>6. QED  BY <1>5 DEF matches

(* A source that cannot be read stops being believed: whatever address the   *)
(* store takes for a provider's node was in a list that the provider         *)
(* published at most MaximumStaleAge ago (provider_ranges.go:102-136).       *)
THEOREM StaleListsAlwaysExpire == RangesSpec => []StaleListsExpire
<1>1. IInv => StaleListsExpire
  <2> SUFFICES ASSUME IInv, NEW ip \in Addresses, NEW p \in Providers,
                      providerFor(ip, clock) = p
               PROVE  \E s \in Sources :
                        /\ ProviderOf[s] = p
                        /\ publishedAt[s][ip] # Never
                        /\ clock <= publishedAt[s][ip] + MaximumStaleAge
    BY DEF StaleListsExpire
  <2>1. PICK s \in Sources : /\ ProviderOf[s] = p /\ fresh(s, clock)
                             /\ Covers(sources[s].networks, ip)
    BY NamedByAFreshList
  <2>2. /\ sources[s].updatedAt # Never
        /\ sources[s].updatedAt <= publishedAt[s][ip]
    BY <2>1 DEF IInv, ListsSeen
  <2>3. /\ clock \in Nat /\ MaximumStaleAge \in Nat
        /\ sources[s].updatedAt \in Nat /\ publishedAt[s][ip] \in Nat
    BY DurationsOrdered DEF IInv, RangesTypeOK
  <2>4. publishedAt[s][ip] # Never /\ clock <= publishedAt[s][ip] + MaximumStaleAge
    BY <2>1, <2>2, <2>3 DEF fresh, Never
  <2>5. QED  BY <2>1, <2>4
<1>2. QED  BY <1>1, AlwaysIInv, PTL

(* An outage that spans few enough refreshes never makes the store forget    *)
(* a list, wherever in its refresh the goroutine is (provider_ranges.go:     *)
(* 165-188, 111-113): the next tick is never so far from the last fetch that *)
(* succeeded that the list could expire before it.                           *)
THEOREM OutageAlwaysSurvived == RangesSpec => []OutageSurvived
<1>1. IInv => OutageSurvived
  <2> SUFFICES ASSUME IInv, NEW s \in Sources,
                      sources[s].updatedAt # Never, Outlived(s)
               PROVE  fresh(s, clock)
    BY DEF OutageSurvived
  <2> DEFINE late == (missed[s] + 1) * Interval
  <2>1. /\ late \in Nat /\ Interval <= late
        /\ late + 2 * RefreshTime <= MaximumStaleAge
        /\ Allowed(s) = sources[s].updatedAt + late + RefreshTime
    BY OneMoreInterval DEF IInv, RangesTypeOK, Outlived, Allowed
  <2> HIDE DEF late
  <2>2. /\ clock \in Nat /\ nextTick \in Nat /\ stamp \in Nat
        /\ sources[s].updatedAt \in Nat
        /\ MaximumStaleAge \in Nat /\ Interval \in Nat /\ RefreshTime \in Nat
    BY DurationsOrdered DEF IInv, RangesTypeOK
  <2>3. clock <= sources[s].updatedAt + late + 2 * RefreshTime
    <3>1. CASE nextTick = Never
      BY <2>1, <2>2, <3>1 DEF IInv, Overdue, Punctual
    <3>2. CASE nextTick # Never /\ due # <<>>
      <4>1. nextTick = stamp + Interval /\ clock <= stamp + RefreshTime
        BY <3>2 DEF IInv, Punctual
      <4>2. nextTick <= Allowed(s) + Interval
        BY <3>2 DEF IInv, Overdue
      <4>3. QED  BY <2>1, <2>2, <4>1, <4>2
    <3>3. CASE nextTick # Never /\ due = <<>>
      <4>1. clock <= nextTick  BY <3>3 DEF IInv, Punctual
      <4>2. ~InDue(s)  BY <3>3 DEF InDue
      <4>3. nextTick <= Allowed(s)  BY <3>3, <4>2 DEF IInv, Overdue
      <4>4. QED  BY <2>1, <2>2, <4>1, <4>3
    <3>4. QED  BY <3>1, <3>2, <3>3
  <2>4. QED  BY <2>1, <2>2, <2>3 DEF fresh
<1>2. QED  BY <1>1, AlwaysIInv, PTL

-----------------------------------------------------------------------------
(* What the store holds of a source is a list it published and that was      *)
(* usable, or nothing.                                                       *)
Held(s) == sources[s].networks

ListsHeld ==
  \A s \in Sources :
    /\ published[s] \in Lists[s]
    /\ Held(s) = {} \/ (Held(s) \in Lists[s] /\ usable(Held(s)))

LEMMA InitListsHeld == RangesInit => ListsHeld
BY DEF RangesInit, ListsHeld, Held

LEMMA StepListsHeld == IInv /\ ListsHeld /\ [RangesNext]_rangeVars => ListsHeld'
<1> SUFFICES ASSUME IInv, ListsHeld, [RangesNext]_rangeVars PROVE ListsHeld'  OBVIOUS
<1>1. CASE UNCHANGED <<sources, published>>
  BY <1>1 DEF ListsHeld, Held
<1>2. CASE Fetched
  <2> DEFINE s == Head(due)
  <2>1. /\ usable(published[s]) /\ UNCHANGED published
        /\ sources' = [sources EXCEPT ![s] =
                         [networks |-> published[s], updatedAt |-> stamp]]
    BY <1>2 DEF Fetched, Finish, worldVars
  <2> HIDE DEF s
  <2>2. \A q \in Sources : Held(q)' = IF q = s THEN published[s] ELSE Held(q)
    BY <2>1 DEF Held, IInv, RangesTypeOK
  <2> QED  BY <2>1, <2>2 DEF ListsHeld
<1>3. CASE FetchFailed
  BY <1>1, <1>3 DEF FetchFailed, Finish, worldVars
<1>4. ASSUME NEW s \in Sources, NEW list \in Lists[s], Publish(s, list) PROVE ListsHeld'
  <2>1. \A q \in Sources : published'[q] = IF q = s THEN list ELSE published[q]
    BY <1>4 DEF Publish, IInv, RangesTypeOK
  <2> QED  BY <1>4, <2>1 DEF Publish, updaterVars, ListsHeld, Held
<1>5. QED
  BY <1>1, <1>2, <1>3, <1>4
     DEF RangesNext, Start, Refresh, Fetch, Tick, rangeVars, updaterVars, worldVars

LEMMA AlwaysListsHeld == RangesSpec => []ListsHeld
<1>1. RangesInit => IInv /\ ListsHeld  BY InitIInv, InitListsHeld
<1>2. IInv /\ ListsHeld /\ [RangesNext]_rangeVars => (IInv /\ ListsHeld)'
  BY StepIInv, StepListsHeld
<1>3. QED  BY <1>1, <1>2, PTL DEF RangesSpec

(* The address that parseProviderNetworks looks at is one of the network's.  *)
LEMMA BaseWithin ==
  ASSUME NEW network \in (SUBSET Addresses) \ {{}}
  PROVE  base(network) \in network
<1>1. network \subseteq Nat /\ network # {}  BY AddressesNatural
<1>2. \E ip \in network : \A other \in network : ip <= other  BY <1>1, LeastNumber
<1> QED  BY <1>2 DEF base

(* A look at the first address of each network is enough exactly as long as  *)
(* no network reaches from public addresses to others: then no address that  *)
(* is not public is ever taken for a provider's node, whatever the providers *)
(* publish (provider_ranges.go:279-301).                                     *)
THEOREM OnlyWideNetworksSlip ==
  ASSUME \A s \in Sources : \A list \in Lists[s] : \A network \in list :
           network \subseteq NotPublic \/ network \cap NotPublic = {}
  PROVE  RangesSpec => []NonPublicRejected
<1>1. ListsHeld => NonPublicRejected
  <2> SUFFICES ASSUME ListsHeld, NEW ip \in NotPublic
               PROVE  providerFor(ip, clock) = "none"
    BY DEF NonPublicRejected
  <2>1. ASSUME NEW s \in Sources, Covers(Held(s), ip) PROVE FALSE
    <3>1. PICK network \in Held(s) : ip \in network  BY <2>1 DEF Covers
    <3>2. Held(s) \in Lists[s] /\ usable(Held(s))  BY <3>1 DEF ListsHeld
    <3>3. network \subseteq NotPublic  BY <3>1, <3>2
    <3>4. network \in (SUBSET Addresses) \ {{}}  BY <3>1, <3>2, NetworksNonempty
    <3>5. base(network) \in NotPublic  BY <3>3, <3>4, BaseWithin
    <3> QED  BY <3>1, <3>2, <3>5 DEF usable
  <2>2. matches(ip, clock) = {}  BY <2>1 DEF matches, Held
  <2> QED  BY <2>2 DEF providerFor, Providers
<1>2. QED  BY <1>1, AlwaysListsHeld, PTL
=============================================================================
