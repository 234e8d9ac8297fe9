--------------------------- MODULE DeliveryProofs ---------------------------
(***************************************************************************)
(* Theorems about Installer and Publisher, for any number of workflow      *)
(* runs, installers, versions and attempts, and for any faults.  What      *)
(* Gitea holds only grows (Grown), so what was once true of a package a    *)
(* script holds stays true; what a run may rely on is tied to its place    *)
(* in the script (RunsOK, CopiesOK).                                       *)
(***************************************************************************)
EXTENDS Installer, SequenceTheorems, TLAPS

Release == [commit : Publishers, archive : Packages \cup {None}, checksum : Packages \cup {None}]

ReleasesOK ==
  \A v \in 1..Len(releases) :
    /\ releases[v].archive \in {None, <<v, releases[v].commit>>}
    /\ releases[v].checksum \in {None, <<v, releases[v].commit>>}

(* A run has lost an attempt only to a release made since it began.          *)
RunOK(p) ==
  /\ begun[p] <= Len(releases)
  /\ pc[p] = "loop" => attempt[p] <= Len(releases) - begun[p] + 1
  /\ pc[p] = "create" => /\ version[p] \in 1..(Len(releases) + 1)
                         /\ attempt[p] <= version[p] - begun[p]
  /\ pc[p] \in {"archive", "checksum"} =>
       version[p] \in 1..Len(releases) /\ releases[version[p]].commit = p
  /\ pc[p] = "gaveup" => MaxAttempts <= Len(releases) - begun[p]

RunsOK == \A p \in Publishers : RunOK(p)

Released(package_, asset) ==
  package_ \in Packages =>
    /\ package_[1] \in 1..Len(releases)
    /\ package_ = <<package_[1], releases[package_[1]].commit>>
    /\ releases[package_[1]][asset] # None

CopyOK(i) ==
  /\ Released(inst[i].archive, "archive")
  /\ Released(inst[i].checksum, "checksum")
  /\ ReleasedPackage(inst[i].content)
  /\ ReleasedPackage(inst[i].previous.package)

CopiesOK == \A i \in Installers : CopyOK(i)

DestinationOK == ReleasedPackage(destination.package)

IInv == TypeOK /\ ReleasesOK /\ RunsOK /\ CopiesOK /\ DestinationOK

-----------------------------------------------------------------------------
(* What Gitea holds. *)
Grown ==
  /\ Len(releases) <= Len(releases')
  /\ \A v \in 1..Len(releases) :
       /\ releases'[v].commit = releases[v].commit
       /\ releases[v].archive # None => releases'[v].archive # None
       /\ releases[v].checksum # None => releases'[v].checksum # None

LEMMA ReleasesLength ==
  ASSUME PublisherTypeOK
  PROVE  Len(releases) \in Nat /\ DOMAIN releases = 1..Len(releases)
BY LenProperties DEF PublisherTypeOK

LEMMA UnchangedGrows ==
  ASSUME PublisherTypeOK, ReleasesOK, UNCHANGED releases
  PROVE  releases' \in Seq(Release) /\ Grown /\ ReleasesOK'
<1>1. Len(releases) \in Nat  BY ReleasesLength
<1>2. releases' \in Seq(Release)  BY DEF PublisherTypeOK, Release
<1>3. Grown  BY <1>1 DEF Grown
<1>4. ReleasesOK'  BY DEF ReleasesOK
<1> QED  BY <1>2, <1>3, <1>4

LEMMA NewReleaseGrows ==
  ASSUME PublisherTypeOK, ReleasesOK, NEW p \in Publishers, NewRelease(p)
  PROVE  /\ releases' \in Seq(Release) /\ Grown /\ ReleasesOK'
         /\ Len(releases') = Len(releases) + 1
         /\ releases'[Len(releases) + 1].commit = p
<1> DEFINE new == [commit |-> p, archive |-> None, checksum |-> None]
<1>1. new \in Release  BY DEF Release
<1>2. releases \in Seq(Release)  BY DEF PublisherTypeOK, Release
<1>3. releases' = Append(releases, new)  BY DEF NewRelease
<1>4. Len(releases) \in Nat  BY ReleasesLength
<1> HIDE DEF new
<1>5. /\ releases' \in Seq(Release)
      /\ Len(releases') = Len(releases) + 1
      /\ \A v \in 1..Len(releases) : releases'[v] = releases[v]
      /\ releases'[Len(releases) + 1] = new
  BY <1>1, <1>2, <1>3, AppendProperties
<1>6. Grown  BY <1>4, <1>5 DEF Grown
<1>7. ReleasesOK'
  <2> SUFFICES ASSUME NEW v \in 1..Len(releases')
               PROVE  /\ releases'[v].archive \in {None, <<v, releases'[v].commit>>}
                      /\ releases'[v].checksum \in {None, <<v, releases'[v].commit>>}
    BY DEF ReleasesOK
  <2>1. CASE v = Len(releases) + 1
    BY <1>5, <2>1 DEF new
  <2>2. CASE v # Len(releases) + 1
    <3>1. v \in 1..Len(releases)  BY <1>4, <1>5, <2>2
    <3> QED  BY <1>5, <3>1 DEF ReleasesOK
  <2> QED  BY <2>1, <2>2
<1> QED  BY <1>5, <1>6, <1>7 DEF new

LEMMA AttachedGrows ==
  ASSUME PublisherTypeOK, ReleasesOK, NEW p \in Publishers, NEW asset \in {"archive", "checksum"},
         version[p] \in 1..Len(releases), releases[version[p]].commit = p,
         Attached(p, asset)
  PROVE  releases' \in Seq(Release) /\ Grown /\ ReleasesOK'
<1> DEFINE v == version[p]
           attached == [releases[v] EXCEPT ![asset] = package(p)]
<1>1. package(p) \in Packages /\ package(p) = <<v, p>> /\ package(p) # None
  BY NoneIsNoPackage DEF package, Packages, PublisherTypeOK
<1>2. releases \in Seq(Release)  BY DEF PublisherTypeOK, Release
<1>3. releases[v] \in Release  BY <1>2, ElementOfSeq
<1>4. attached \in Release /\ attached.commit = p
      /\ attached.archive = (IF asset = "archive" THEN package(p) ELSE releases[v].archive)
      /\ attached.checksum = (IF asset = "checksum" THEN package(p) ELSE releases[v].checksum)
  BY <1>1, <1>3 DEF Release
<1>5. releases' = [releases EXCEPT ![v] = attached]  BY DEF Attached
<1>6. Len(releases) \in Nat  BY ReleasesLength
<1> HIDE DEF attached
<1>7. /\ releases' \in Seq(Release)
      /\ Len(releases') = Len(releases)
      /\ \A w \in 1..Len(releases) : releases'[w] = IF w = v THEN attached ELSE releases[w]
  BY <1>2, <1>4, <1>5, ExceptSeq
<1>8. Grown  BY <1>1, <1>4, <1>6, <1>7 DEF Grown
<1>9. ReleasesOK'  BY <1>1, <1>4, <1>7 DEF ReleasesOK
<1> QED  BY <1>7, <1>8, <1>9

(* What holds of a package in a grown Gitea. *)
LEMMA ReleasedStays ==
  ASSUME PublisherTypeOK, Grown, Len(releases') \in Nat, NEW package_
  PROVE  /\ Released(package_, "archive") => Released(package_, "archive")'
         /\ Released(package_, "checksum") => Released(package_, "checksum")'
<1>1. Len(releases) \in Nat  BY ReleasesLength
<1> QED  BY <1>1 DEF Grown, Released

LEMMA PackageIsReleased ==
  ASSUME PublisherTypeOK, NEW package_
  PROVE  ReleasedPackage(package_) <=>
           Released(package_, "archive") /\ Released(package_, "checksum")
BY ReleasesLength DEF ReleasedPackage, Released, Complete

-----------------------------------------------------------------------------
(* The steps of the workflow runs. *)
PublisherOK == PublisherTypeOK /\ ReleasesOK /\ RunsOK

LEMMA RunStays ==
  ASSUME PublisherTypeOK, Grown, Len(releases') \in Nat, NEW q \in Publishers, RunOK(q),
         pc'[q] = pc[q], version'[q] = version[q], attempt'[q] = attempt[q], begun'[q] = begun[q]
  PROVE  RunOK(q)'
<1>1. Len(releases) \in Nat  BY ReleasesLength
<1>2. version[q] \in Nat /\ attempt[q] \in Nat /\ begun[q] \in Nat /\ MaxAttempts \in Nat
  BY AttemptsPositive DEF PublisherTypeOK
<1> QED  BY <1>1, <1>2 DEF Grown, RunOK

LEMMA BeginOK ==
  ASSUME PublisherOK, NEW p \in Publishers, Begin(p)
  PROVE  PublisherOK' /\ Grown
<1> USE DEF PublisherOK, Begin
<1>1. Len(releases) \in Nat  BY ReleasesLength
<1>2. releases' \in Seq(Release) /\ Grown /\ ReleasesOK'  BY UnchangedGrows
<1>3. PublisherTypeOK'  BY <1>1 DEF PublisherTypeOK, Idle
<1>4. RunsOK'
  <2> SUFFICES ASSUME NEW q \in Publishers PROVE RunOK(q)'  BY DEF RunsOK
  <2>1. CASE q = p
    BY <1>1, <2>1 DEF RunOK, PublisherTypeOK
  <2>2. CASE q # p
    BY <1>1, <1>2, <2>2, RunStays DEF RunsOK, PublisherTypeOK
  <2> QED  BY <2>1, <2>2
<1> QED  BY <1>2, <1>3, <1>4

LEMMA PrepareOK ==
  ASSUME PublisherOK, NEW p \in Publishers, Prepare(p)
  PROVE  PublisherOK' /\ Grown
<1> USE DEF PublisherOK, Prepare, nextVersion
<1>1. Len(releases) \in Nat  BY ReleasesLength
<1>2. releases' \in Seq(Release) /\ Grown /\ ReleasesOK'  BY UnchangedGrows
<1>3. PublisherTypeOK'  BY <1>1 DEF PublisherTypeOK, Idle
<1>4. RunsOK'
  <2> SUFFICES ASSUME NEW q \in Publishers PROVE RunOK(q)'  BY DEF RunsOK
  <2>1. CASE q = p
    BY <1>1, <2>1 DEF RunsOK, RunOK, PublisherTypeOK
  <2>2. CASE q # p
    BY <1>1, <1>2, <2>2, RunStays DEF RunsOK, PublisherTypeOK
  <2> QED  BY <2>1, <2>2
<1> QED  BY <1>2, <1>3, <1>4

LEMMA ConflictOK ==
  ASSUME PublisherOK, NEW p \in Publishers, Conflict(p)
  PROVE  PublisherOK' /\ Grown
<1> USE DEF PublisherOK, Conflict
<1>1. Len(releases) \in Nat  BY ReleasesLength
<1>2. releases' \in Seq(Release) /\ Grown /\ ReleasesOK'  BY UnchangedGrows
<1>3. PublisherTypeOK'  BY <1>1 DEF PublisherTypeOK, Idle
<1>4. RunsOK'
  <2> SUFFICES ASSUME NEW q \in Publishers PROVE RunOK(q)'  BY DEF RunsOK
  <2>1. CASE q = p
    <3>1. RunOK(p) /\ version[p] \in Nat /\ attempt[p] \in Nat /\ begun[p] \in Nat
      BY DEF RunsOK, PublisherTypeOK
    <3>2. attempt[p] <= Len(releases) - begun[p]
      BY <1>1, <3>1 DEF RunOK
    <3>3. /\ attempt'[p] = attempt[p] + 1 /\ begun'[p] = begun[p] /\ releases' = releases
          /\ pc'[p] = IF attempt[p] + 1 <= MaxAttempts THEN "loop" ELSE "gaveup"
      BY DEF PublisherTypeOK
    <3>4. CASE attempt[p] + 1 <= MaxAttempts
      BY <1>1, <2>1, <3>1, <3>2, <3>3, <3>4 DEF RunOK
    <3>5. CASE ~(attempt[p] + 1 <= MaxAttempts)
      BY <1>1, <2>1, <3>1, <3>2, <3>3, <3>5, AttemptsPositive DEF RunOK
    <3> QED  BY <3>4, <3>5
  <2>2. CASE q # p
    BY <1>1, <1>2, <2>2, RunStays DEF RunsOK, PublisherTypeOK
  <2> QED  BY <2>1, <2>2
<1> QED  BY <1>2, <1>3, <1>4

LEMMA CreatedOK ==
  ASSUME PublisherOK, NEW p \in Publishers, Created(p)
  PROVE  PublisherOK' /\ Grown
<1> USE DEF PublisherOK, Created
<1>1. Len(releases) \in Nat  BY ReleasesLength
<1>2. /\ releases' \in Seq(Release) /\ Grown /\ ReleasesOK'
      /\ Len(releases') = Len(releases) + 1
      /\ releases'[Len(releases) + 1].commit = p
  BY NewReleaseGrows
<1>3. PublisherTypeOK'  BY <1>2 DEF PublisherTypeOK, Idle, Release
<1>4. RunsOK'
  <2> SUFFICES ASSUME NEW q \in Publishers PROVE RunOK(q)'  BY DEF RunsOK
  <2>1. CASE q = p
    <3>. /\ version[p] \in 1..(Len(releases) + 1) /\ version[p] > Len(releases)
         /\ begun[p] <= Len(releases)
      BY DEF RunsOK, RunOK
    <3>1. version[p] = Len(releases) + 1 /\ begun[p] <= Len(releases) /\ begun[p] \in Nat
      BY <1>1 DEF PublisherTypeOK
    <3>2. pc'[p] = "archive" /\ version'[p] = version[p] /\ begun'[p] = begun[p]
      BY DEF PublisherTypeOK
    <3> QED  BY <1>1, <1>2, <2>1, <3>1, <3>2 DEF RunOK
  <2>2. CASE q # p
    BY <1>1, <1>2, <2>2, RunStays DEF RunsOK, PublisherTypeOK
  <2> QED  BY <2>1, <2>2
<1> QED  BY <1>2, <1>3, <1>4

LEMMA FaultCounted ==
  ASSUME faults \in Nat, NEW kind, Fault(kind)
  PROVE  faults' \in Nat
BY DEF Fault

LEMMA CreateFailsOK ==
  ASSUME PublisherOK, NEW p \in Publishers, CreateFails(p)
  PROVE  PublisherOK' /\ Grown
<1> USE DEF PublisherOK, CreateFails
<1>1. Len(releases) \in Nat  BY ReleasesLength
<1>2. releases' \in Seq(Release) /\ Grown /\ ReleasesOK' /\ Len(releases') \in Nat
  <2>1. CASE UNCHANGED releases  BY <1>1, <2>1, UnchangedGrows
  <2>2. CASE NewRelease(p)  BY <1>1, <2>2, NewReleaseGrows
  <2> QED  BY <2>1, <2>2
<1>3. faults' \in Nat  BY FaultCounted DEF PublisherTypeOK
<1>4. PublisherTypeOK'  BY <1>2, <1>3 DEF PublisherTypeOK, Idle, Release
<1>5. RunsOK'
  <2> SUFFICES ASSUME NEW q \in Publishers PROVE RunOK(q)'  BY DEF RunsOK
  <2>1. CASE q = p
    <3>1. begun[p] <= Len(releases) /\ begun[p] \in Nat /\ Len(releases) <= Len(releases')
      BY <1>2 DEF RunsOK, RunOK, PublisherTypeOK, Grown
    <3>2. pc'[p] = "failed" /\ begun'[p] = begun[p]  BY DEF PublisherTypeOK
    <3> QED  BY <1>1, <1>2, <2>1, <3>1, <3>2 DEF RunOK
  <2>2. CASE q # p
    BY <1>2, <2>2, RunStays DEF RunsOK, PublisherTypeOK
  <2> QED  BY <2>1, <2>2
<1> QED  BY <1>2, <1>4, <1>5

LEMMA AttachingGrows ==
  ASSUME PublisherOK, NEW p \in Publishers, pc[p] \in {"archive", "checksum"},
         Attached(p, pc[p]) \/ UNCHANGED releases
  PROVE  releases' \in Seq(Release) /\ Grown /\ ReleasesOK' /\ Len(releases') \in Nat
<1> USE DEF PublisherOK
<1>1. version[p] \in 1..Len(releases) /\ releases[version[p]].commit = p
  BY DEF RunsOK, RunOK
<1>2. releases' \in Seq(Release) /\ Grown /\ ReleasesOK'
  BY <1>1, AttachedGrows, UnchangedGrows
<1> QED  BY <1>2, LenProperties

LEMMA AttachOK ==
  ASSUME PublisherOK, NEW p \in Publishers, Attach(p)
  PROVE  PublisherOK' /\ Grown
<1> USE DEF PublisherOK, Attach
<1>1. releases' \in Seq(Release) /\ Grown /\ ReleasesOK' /\ Len(releases') \in Nat
  BY AttachingGrows
<1>2. PublisherTypeOK'  BY <1>1 DEF PublisherTypeOK, Idle, Release
<1>3. RunsOK'
  <2> SUFFICES ASSUME NEW q \in Publishers PROVE RunOK(q)'  BY DEF RunsOK
  <2>1. CASE q = p
    <3>1. /\ begun[p] <= Len(releases) /\ begun[p] \in Nat /\ Len(releases) <= Len(releases')
          /\ Len(releases) \in Nat
          /\ version[p] \in 1..Len(releases) /\ releases[version[p]].commit = p
          /\ releases'[version[p]].commit = p
      BY <1>1, ReleasesLength DEF RunsOK, RunOK, PublisherTypeOK, Grown
    <3>2. pc'[p] \in {"checksum", "done"} /\ begun'[p] = begun[p] /\ version'[p] = version[p]
      BY DEF PublisherTypeOK
    <3> QED  BY <1>1, <2>1, <3>1, <3>2 DEF RunOK
  <2>2. CASE q # p
    BY <1>1, <2>2, RunStays DEF RunsOK, PublisherTypeOK
  <2> QED  BY <2>1, <2>2
<1> QED  BY <1>1, <1>2, <1>3

LEMMA AttachFailsOK ==
  ASSUME PublisherOK, NEW p \in Publishers, AttachFails(p)
  PROVE  PublisherOK' /\ Grown
<1> USE DEF PublisherOK, AttachFails
<1>1. releases' \in Seq(Release) /\ Grown /\ ReleasesOK' /\ Len(releases') \in Nat
  BY AttachingGrows
<1>2. faults' \in Nat  BY FaultCounted DEF PublisherTypeOK
<1>3. PublisherTypeOK'  BY <1>1, <1>2 DEF PublisherTypeOK, Idle, Release
<1>4. RunsOK'
  <2> SUFFICES ASSUME NEW q \in Publishers PROVE RunOK(q)'  BY DEF RunsOK
  <2>1. CASE q = p
    <3>1. /\ begun[p] <= Len(releases) /\ begun[p] \in Nat /\ Len(releases) \in Nat
          /\ Len(releases) <= Len(releases')
      BY ReleasesLength, <1>1 DEF RunsOK, RunOK, PublisherTypeOK, Grown
    <3>2. pc'[p] = "failed" /\ begun'[p] = begun[p]  BY DEF PublisherTypeOK
    <3> QED  BY <1>1, <2>1, <3>1, <3>2 DEF RunOK
  <2>2. CASE q # p
    BY <1>1, <2>2, RunStays DEF RunsOK, PublisherTypeOK
  <2> QED  BY <2>1, <2>2
<1> QED  BY <1>1, <1>3, <1>4
-----------------------------------------------------------------------------
(* The installers' part, where Gitea holds what it held, or more. *)
Copy == [step : Steps, want : Nat, gone : BOOLEAN, archive : Packages \cup {None, Damaged},
         checksum : Packages \cup {None, Damaged}, content : Packages \cup {None},
         previous : Directories]

LEMMA AtTyped ==
  ASSUME NEW step \in Steps, NEW want \in Nat, NEW gone \in BOOLEAN
  PROVE  At(step, want, gone) \in Copy
BY DEF At, Copy, Absent, Holding, Directories

LEMMA PackageStays ==
  ASSUME PublisherTypeOK, PublisherTypeOK', Grown, NEW package_, ReleasedPackage(package_)
  PROVE  ReleasedPackage(package_)'
<1>1. Len(releases') \in Nat /\ DOMAIN releases' = 1..Len(releases')
  BY LenProperties DEF PublisherTypeOK
<1>2. Len(releases) \in Nat /\ DOMAIN releases = 1..Len(releases)  BY ReleasesLength
<1> QED  BY <1>1, <1>2 DEF ReleasedPackage, Complete, Grown

LEMMA InstallersStay ==
  ASSUME TypeOK, CopiesOK, DestinationOK, PublisherTypeOK', Grown, UNCHANGED <<destination, inst>>
  PROVE  TypeOK' /\ CopiesOK' /\ DestinationOK'
<1>1. TypeOK'  BY DEF TypeOK
<1>2. DestinationOK'  BY PackageStays DEF DestinationOK, TypeOK
<1>3. CopiesOK'
  <2> SUFFICES ASSUME NEW i \in Installers PROVE CopyOK(i)'  BY DEF CopiesOK
  <2>1. PublisherTypeOK /\ CopyOK(i) /\ Len(releases') \in Nat
    BY LenProperties DEF TypeOK, CopiesOK, PublisherTypeOK
  <2>2. Released(inst[i].archive, "archive")' /\ Released(inst[i].checksum, "checksum")'
    BY <2>1, ReleasedStays DEF CopyOK
  <2>3. ReleasedPackage(inst[i].content)' /\ ReleasedPackage(inst[i].previous.package)'
    BY <2>1, PackageStays DEF CopyOK
  <2> QED  BY <2>2, <2>3 DEF CopyOK
<1> QED  BY <1>1, <1>2, <1>3

(* Steps of an installer leave Gitea alone, so that only the copy it changed *)
(* and the destination are of interest.                                      *)
LEMMA CopyWrites ==
  ASSUME NEW i \in Installers, NEW copy \in Copy,
         TypeOK, CopiesOK, UNCHANGED publisherVars, faults' \in Nat, inst' = [inst EXCEPT ![i] = copy],
         Released(copy.archive, "archive"), Released(copy.checksum, "checksum"),
         ReleasedPackage(copy.content), ReleasedPackage(copy.previous.package),
         destination' \in Directories, ReleasedPackage(destination'.package)
  PROVE  TypeOK' /\ CopiesOK' /\ DestinationOK'
<1>1. PublisherTypeOK'  BY DEF TypeOK, PublisherTypeOK, publisherVars
<1>2. inst \in [Installers -> Copy]  BY DEF TypeOK, Copy
<1>3. inst' \in [Installers -> Copy] /\ inst'[i] = copy
      /\ \A j \in Installers : j # i => inst'[j] = inst[j]
  BY <1>2
<1>4. TypeOK'  BY <1>1, <1>3 DEF TypeOK, Copy
<1>5. releases' = releases  BY DEF publisherVars
<1>6. DestinationOK'  BY <1>5 DEF DestinationOK, ReleasedPackage, Complete
<1>7. CopiesOK'
  <2> SUFFICES ASSUME NEW j \in Installers PROVE CopyOK(j)'  BY DEF CopiesOK
  <2>1. CASE j = i
    BY <1>3, <1>5, <2>1 DEF CopyOK, Released, ReleasedPackage, Complete
  <2>2. CASE j # i
    <3>1. CopyOK(j) /\ inst'[j] = inst[j]  BY <1>3, <2>2 DEF CopiesOK
    <3> QED  BY <1>5, <3>1 DEF CopyOK, Released, ReleasedPackage, Complete
  <2> QED  BY <2>1, <2>2
<1> QED  BY <1>4, <1>6, <1>7

LEMMA NoPackageIsReleased ==
  /\ ReleasedPackage(None) /\ Released(None, "archive") /\ Released(None, "checksum")
  /\ ReleasedPackage(Manual)
  /\ Released(Damaged, "archive") /\ Released(Damaged, "checksum")
BY NoneIsNoPackage, NotPackages DEF Released, ReleasedPackage, Packages

LEMMA Exits ==
  ASSUME TypeOK, CopiesOK, UNCHANGED publisherVars, faults' \in Nat,
         NEW i \in Installers, Exit(i),
         destination' \in Directories, ReleasedPackage(destination'.package)
  PROVE  TypeOK' /\ CopiesOK' /\ DestinationOK'
<1>1. Idling \in Copy  BY AtTyped DEF Idling, Steps
<1>2. /\ Idling.archive = None /\ Idling.checksum = None
      /\ Idling.content = None /\ Idling.previous.package = None
  BY DEF Idling, At, Absent, Holding
<1> QED  BY <1>1, <1>2, NoPackageIsReleased, CopyWrites DEF Exit

LEMMA GoesOn ==
  ASSUME TypeOK, CopiesOK, UNCHANGED publisherVars, faults' \in Nat,
         NEW i \in Installers, NEW step \in Steps, Goes(i, step),
         destination' \in Directories, ReleasedPackage(destination'.package)
  PROVE  TypeOK' /\ CopiesOK' /\ DestinationOK'
<1> DEFINE copy == [inst[i] EXCEPT !.step = step]
<1>1. inst[i] \in Copy /\ CopyOK(i)  BY DEF TypeOK, Copy, CopiesOK
<1>2. copy \in Copy  BY <1>1 DEF Copy
<1>3. /\ copy.archive = inst[i].archive /\ copy.checksum = inst[i].checksum
      /\ copy.content = inst[i].content /\ copy.previous = inst[i].previous
  BY <1>1 DEF Copy
<1>4. inst' = [inst EXCEPT ![i] = copy]  BY DEF Goes
<1> HIDE DEF copy
<1> QED  BY <1>1, <1>2, <1>3, <1>4, CopyWrites DEF CopyOK

(* mv. *)
LEMMA MovesTyped ==
  ASSUME TypeOK, DestinationOK, NEW directory \in Directories, ReleasedPackage(directory.package),
         NEW name \in {"content", "previous"}, Moved(directory, name)
  PROVE  destination' \in Directories /\ ReleasedPackage(destination'.package)
<1>1. destination \in Directories  BY DEF TypeOK
<1>2. CASE destination.kind = "absent"
  BY <1>2 DEF Moved
<1>3. CASE destination.kind # "absent"
  <2>1. destination' = [destination EXCEPT !.kind = "full", !.nested = @ \cup {name}]
    BY <1>3 DEF Moved
  <2>2. destination' \in Directories /\ destination'.package = destination.package
    BY <1>1, <2>1 DEF Directories
  <2> QED  BY <2>2 DEF DestinationOK
<1> QED  BY <1>2, <1>3

LEMMA Undisturbed ==
  ASSUME TypeOK, DestinationOK, UNCHANGED destination
  PROVE  destination' \in Directories /\ ReleasedPackage(destination'.package)
BY DEF TypeOK, DestinationOK

LEMMA AbsentIsReleased == Absent \in Directories /\ ReleasedPackage(Absent.package)
<1>1. Absent \in Directories /\ Absent.package = None  BY DEF Absent, Holding, Directories
<1> QED  BY <1>1, NoPackageIsReleased
-----------------------------------------------------------------------------
(* The steps of the installers. *)
InstallerOK == TypeOK /\ CopiesOK /\ DestinationOK

LEMMA Ready ==
  ASSUME InstallerOK, NEW i \in Installers
  PROVE  inst[i] \in Copy /\ CopyOK(i) /\ faults \in Nat
BY DEF InstallerOK, TypeOK, PublisherTypeOK, Copy, CopiesOK

LEMMA InvokeOK ==
  ASSUME InstallerOK, NEW i \in Installers, NEW v \in Wanted, NEW allow \in BOOLEAN,
         Invoke(i, v, allow)
  PROVE  InstallerOK'
<1> DEFINE copy == At("archive", v, FALSE)
<1>1. copy \in Copy  BY WantedVersions, AtTyped DEF Steps
<1>2. /\ copy.archive = None /\ copy.checksum = None
      /\ copy.content = None /\ copy.previous.package = None
  BY DEF At, Absent, Holding
<1> HIDE DEF copy
<1>3. inst' = [inst EXCEPT ![i] = copy] /\ UNCHANGED <<publisherVars, faults, destination>>
  BY DEF Invoke, copy
<1> QED  BY <1>1, <1>2, <1>3, NoPackageIsReleased, CopyWrites, Ready, Undisturbed DEF InstallerOK

LEMMA DownloadOK ==
  ASSUME InstallerOK, ReleasesOK, NEW i \in Installers, Download(i)
  PROVE  InstallerOK'
<1> DEFINE v == inst[i].want  asset == inst[i].step
           next_ == IF asset = "archive" THEN "checksum" ELSE "unpack"
<1>1. PICK file \in {releases[v][asset], Damaged} :
        /\ IF file = Damaged THEN Fault("network") ELSE UNCHANGED faults
        /\ inst' = [inst EXCEPT ![i][asset] = file, ![i].step = next_]
  BY DEF Download
<1>2. /\ asset \in {"archive", "checksum"} /\ Attaches(v, asset)
      /\ UNCHANGED <<publisherVars, destination>>
  BY DEF Download
<1>3. inst[i] \in Copy /\ CopyOK(i) /\ faults \in Nat  BY Ready
<1>4. faults' \in Nat  BY <1>1, <1>3, FaultCounted
<1>5. v \in 1..Len(releases) /\ releases[v] \in Release /\ releases[v][asset] # None
  <2>1. PublisherTypeOK  BY DEF InstallerOK, TypeOK
  <2>2. v \in 1..Len(releases)  BY <1>2, <2>1, ReleasesLength DEF Attaches
  <2>3. releases \in Seq(Release)  BY <2>1 DEF PublisherTypeOK, Release
  <2> QED  BY <1>2, <2>2, <2>3, ElementOfSeq DEF Attaches
<1>6. file \in Packages \cup {None, Damaged}  BY <1>1, <1>2, <1>5 DEF Release
<1>7. Released(file, asset)
  <2>1. CASE file = Damaged
    <3>1. asset = "archive" \/ asset = "checksum"  BY <1>2
    <3> QED  BY <2>1, <3>1, NoPackageIsReleased
  <2>2. CASE file = releases[v][asset]
    <3>1. file = <<v, releases[v].commit>>  BY <1>2, <1>5, <2>2 DEF ReleasesOK
    <3>2. file[1] = v  BY <3>1
    <3> HIDE DEF v, asset
    <3> QED  BY <1>5, <2>2, <3>1, <3>2 DEF Released
  <2> QED  BY <1>1, <2>1, <2>2
<1> DEFINE copy == [inst[i] EXCEPT ![asset] = file, !.step = next_]
<1>8. next_ \in Steps  BY DEF Steps
<1>9. copy \in Copy /\ copy.content = inst[i].content /\ copy.previous = inst[i].previous
      /\ copy.archive = (IF asset = "archive" THEN file ELSE inst[i].archive)
      /\ copy.checksum = (IF asset = "checksum" THEN file ELSE inst[i].checksum)
  <2> HIDE DEF next_
  <2>1. CASE asset = "archive"  BY <1>3, <1>6, <1>8, <2>1 DEF Copy
  <2>2. CASE asset = "checksum"  BY <1>3, <1>6, <1>8, <2>2 DEF Copy
  <2> QED  BY <1>2, <2>1, <2>2
<1>10. inst' = [inst EXCEPT ![i] = copy]
  BY <1>1, <1>2
<1>11. Released(copy.archive, "archive") /\ Released(copy.checksum, "checksum")
       /\ ReleasedPackage(copy.content) /\ ReleasedPackage(copy.previous.package)
  BY <1>2, <1>3, <1>7, <1>9 DEF CopyOK
<1>12. destination' \in Directories /\ ReleasedPackage(destination'.package)
  BY <1>2, Undisturbed DEF InstallerOK
<1> HIDE DEF copy
<1> QED  BY <1>2, <1>4, <1>9, <1>10, <1>11, <1>12, CopyWrites DEF InstallerOK

LEMMA DownloadFailsOK ==
  ASSUME InstallerOK, NEW i \in Installers, DownloadFails(i)
  PROVE  InstallerOK'
<1>1. faults' \in Nat  BY Ready, FaultCounted DEF DownloadFails
<1>2. Exit(i) /\ UNCHANGED <<publisherVars, destination>>  BY DEF DownloadFails
<1> QED  BY <1>1, <1>2, Exits, Undisturbed DEF InstallerOK

LEMMA UnpackOK ==
  ASSUME InstallerOK, NEW i \in Installers, Unpack(i)
  PROVE  InstallerOK'
<1>1. UNCHANGED <<publisherVars, faults, destination>>  BY DEF Unpack
<1>2. faults' \in Nat /\ inst[i] \in Copy /\ CopyOK(i)  BY <1>1, Ready
<1>3. CASE ~accepted(i)
  BY <1>1, <1>2, <1>3, Exits, Undisturbed DEF Unpack, InstallerOK
<1>4. CASE accepted(i)
  <2> DEFINE copy == [inst[i] EXCEPT !.content = inst[i].archive, !.step = "check"]
  <2>1. inst' = [inst EXCEPT ![i] = copy]  BY <1>4 DEF Unpack
  <2>2. copy \in Copy
        /\ copy.archive = inst[i].archive /\ copy.checksum = inst[i].checksum
        /\ copy.content = inst[i].archive /\ copy.previous = inst[i].previous
    BY <1>2, <1>4 DEF accepted, Copy, Steps
  <2>3. ReleasedPackage(inst[i].archive)
    <3>1. Released(inst[i].archive, "archive") /\ Released(inst[i].archive, "checksum")
      BY <1>2, <1>4 DEF accepted, CopyOK
    <3> QED  BY <3>1, PackageIsReleased DEF InstallerOK, TypeOK
  <2>4. destination' \in Directories /\ ReleasedPackage(destination'.package)
    BY <1>1, Undisturbed DEF InstallerOK
  <2> HIDE DEF copy
  <2> QED  BY <1>1, <1>2, <2>1, <2>2, <2>3, <2>4, CopyWrites DEF InstallerOK, CopyOK
<1> QED  BY <1>3, <1>4

LEMMA CheckOK ==
  ASSUME InstallerOK, NEW i \in Installers, Check(i)
  PROVE  InstallerOK'
<1>1. next(destination.kind) \in Steps  BY DEF next, Steps
<1>2. Goes(i, next(destination.kind)) /\ UNCHANGED <<publisherVars, faults, destination>>
  BY DEF Check
<1> QED  BY <1>1, <1>2, Ready, GoesOn, Undisturbed DEF InstallerOK

LEMMA ReplaceOK ==
  ASSUME InstallerOK, NEW i \in Installers, Replace(i)
  PROVE  InstallerOK'
<1>1. UNCHANGED <<publisherVars, faults>>  BY DEF Replace
<1>2. faults' \in Nat /\ inst[i] \in Copy /\ CopyOK(i)  BY <1>1, Ready
<1>3. CASE destination.kind # "absent" /\ ~inst[i].gone
  <2> DEFINE copy == [inst[i] EXCEPT !.previous = destination, !.step = "install"]
  <2>1. inst' = [inst EXCEPT ![i] = copy] /\ destination' = Absent  BY <1>3 DEF Replace
  <2>2. destination \in Directories /\ ReleasedPackage(destination.package)
    BY DEF InstallerOK, TypeOK, DestinationOK
  <2>3. copy \in Copy
        /\ copy.archive = inst[i].archive /\ copy.checksum = inst[i].checksum
        /\ copy.content = inst[i].content /\ copy.previous = destination
    BY <1>2, <2>2 DEF Copy, Steps
  <2>4. destination' \in Directories /\ ReleasedPackage(destination'.package)
    BY <2>1, AbsentIsReleased
  <2> HIDE DEF copy
  <2> QED  BY <1>1, <1>2, <2>1, <2>2, <2>3, <2>4, CopyWrites DEF InstallerOK, CopyOK
<1>4. CASE ~(destination.kind # "absent" /\ ~inst[i].gone)
  BY <1>1, <1>2, <1>4, Exits, Undisturbed DEF Replace, InstallerOK
<1> QED  BY <1>3, <1>4

LEMMA RemoveEmptyOK ==
  ASSUME InstallerOK, NEW i \in Installers, RemoveEmpty(i)
  PROVE  InstallerOK'
<1>1. UNCHANGED <<publisherVars, faults>> /\ faults' \in Nat  BY Ready DEF RemoveEmpty
<1>2. CASE destination.kind = "empty"
  <2>1. destination' = Absent /\ Goes(i, "place")  BY <1>2 DEF RemoveEmpty
  <2>2. "place" \in Steps  BY DEF Steps
  <2> QED  BY <1>1, <2>1, <2>2, AbsentIsReleased, GoesOn DEF InstallerOK
<1>3. CASE destination.kind # "empty"
  BY <1>1, <1>3, Exits, Undisturbed DEF RemoveEmpty, InstallerOK
<1> QED  BY <1>2, <1>3

LEMMA InstallOK ==
  ASSUME InstallerOK, NEW i \in Installers, Install(i)
  PROVE  InstallerOK'
<1> DEFINE directory == Holding("full", inst[i].content)
<1>1. UNCHANGED <<publisherVars, faults>> /\ faults' \in Nat  BY Ready DEF Install
<1>2. inst[i].content \in Packages \cup {None} /\ ReleasedPackage(inst[i].content)
  BY Ready DEF Copy, CopyOK
<1>3. directory \in Directories /\ directory.package = inst[i].content
  BY <1>2 DEF Holding, Directories, Plugins
<1>4. Moved(directory, "content") /\ Exit(i)  BY DEF Install
<1> HIDE DEF directory
<1>5. destination' \in Directories /\ ReleasedPackage(destination'.package)
  BY <1>2, <1>3, <1>4, MovesTyped DEF InstallerOK
<1> QED  BY <1>1, <1>4, <1>5, Exits DEF InstallerOK

LEMMA InstallFailsOK ==
  ASSUME InstallerOK, NEW i \in Installers, InstallFails(i)
  PROVE  InstallerOK'
<1>1. UNCHANGED <<publisherVars, destination>> /\ faults' \in Nat
  BY Ready, FaultCounted DEF InstallFails
<1>2. Goes(i, "restore") \/ Exit(i)  BY DEF InstallFails
<1>3. "restore" \in Steps  BY DEF Steps
<1> QED  BY <1>1, <1>2, <1>3, GoesOn, Exits, Undisturbed DEF InstallerOK

LEMMA RestoreOK ==
  ASSUME InstallerOK, NEW i \in Installers, Restore(i)
  PROVE  InstallerOK'
<1>1. UNCHANGED <<publisherVars, faults>> /\ Exit(i) /\ faults' \in Nat  BY Ready DEF Restore
<1>2. inst[i].previous \in Directories /\ ReleasedPackage(inst[i].previous.package)
  BY Ready DEF Copy, CopyOK
<1>3. Moved(inst[i].previous, "previous")  BY DEF Restore
<1>4. destination' \in Directories /\ ReleasedPackage(destination'.package)
  BY <1>2, <1>3, MovesTyped DEF InstallerOK
<1> QED  BY <1>1, <1>4, Exits DEF InstallerOK

LEMMA RestoreFailsOK ==
  ASSUME InstallerOK, NEW i \in Installers, RestoreFails(i)
  PROVE  InstallerOK'
<1>1. UNCHANGED <<publisherVars, destination>> /\ Exit(i) /\ faults' \in Nat
  BY Ready, FaultCounted DEF RestoreFails
<1> QED  BY <1>1, Exits, Undisturbed DEF InstallerOK

LEMMA CommandFailsOK ==
  ASSUME InstallerOK, NEW i \in Installers, CommandFails(i)
  PROVE  InstallerOK'
<1>1. UNCHANGED <<publisherVars, destination>> /\ Exit(i) /\ faults' \in Nat
  BY Ready, FaultCounted DEF CommandFails
<1> QED  BY <1>1, Exits, Undisturbed DEF InstallerOK

LEMMA InterruptOK ==
  ASSUME InstallerOK, NEW i \in Installers, Interrupt(i)
  PROVE  InstallerOK'
<1> DEFINE copy == At(inst[i].step, inst[i].want, TRUE)
<1>1. inst' = [inst EXCEPT ![i] = copy] /\ UNCHANGED <<publisherVars, destination>>
      /\ Fault("interrupt")
  BY DEF Interrupt
<1>2. copy \in Copy  BY Ready, AtTyped DEF Copy
<1>3. /\ copy.archive = None /\ copy.checksum = None
      /\ copy.content = None /\ copy.previous.package = None
  BY DEF At, Absent, Holding
<1>4. faults' \in Nat  BY <1>1, Ready, FaultCounted
<1> HIDE DEF copy
<1> QED  BY <1>1, <1>2, <1>3, <1>4, NoPackageIsReleased, CopyWrites, Undisturbed DEF InstallerOK

LEMMA KillOK ==
  ASSUME InstallerOK, NEW i \in Installers, Kill(i)
  PROVE  InstallerOK'
<1>1. UNCHANGED <<publisherVars, destination>> /\ Exit(i) /\ faults' \in Nat
  BY Ready, FaultCounted DEF Kill
<1> QED  BY <1>1, Exits, Undisturbed DEF InstallerOK

-----------------------------------------------------------------------------
LEMMA InitIInv == Init => IInv
<1> SUFFICES ASSUME Init PROVE IInv  OBVIOUS
<1> USE DEF Init, PublisherInit
<1>1. releases \in Seq(Release) /\ Len(releases) = 0  BY EmptySeq
<1>2. PublisherTypeOK  BY <1>1 DEF PublisherTypeOK, Release, Idle
<1>3. destination \in Directories /\ ReleasedPackage(destination.package)
  BY NoPackageIsReleased, AbsentIsReleased DEF Holding, Directories, Plugins
<1>4. Idling \in Copy  BY AtTyped DEF Idling, Steps
<1>5. /\ Idling.archive = None /\ Idling.checksum = None
      /\ Idling.content = None /\ Idling.previous.package = None
  BY DEF Idling, At, Absent, Holding
<1>6. TypeOK  BY <1>2, <1>3, <1>4 DEF TypeOK, Copy
<1>7. CopiesOK  BY <1>5, NoPackageIsReleased DEF CopiesOK, CopyOK
<1>8. ReleasesOK /\ RunsOK  BY <1>1 DEF ReleasesOK, RunsOK, RunOK
<1> QED  BY <1>3, <1>6, <1>7, <1>8 DEF IInv, DestinationOK

LEMMA StepIInv == IInv /\ [Next]_vars => IInv'
<1> SUFFICES ASSUME IInv, [Next]_vars PROVE IInv'  OBVIOUS
<1>1. PublisherOK /\ InstallerOK  BY DEF IInv, PublisherOK, InstallerOK, TypeOK
<1>2. ASSUME NEW p \in Publishers, Publishing(p) PROVE IInv'
  <2>1. PublisherOK' /\ Grown
    BY <1>1, <1>2, BeginOK, PrepareOK, CreatedOK, ConflictOK, AttachOK, CreateFailsOK, AttachFailsOK
    DEF Publishing, Publish, PublishFails
  <2>2. InstallerOK'
    BY <1>1, <1>2, <2>1, InstallersStay DEF Publishing, InstallerOK, PublisherOK
  <2> QED  BY <2>1, <2>2 DEF IInv, PublisherOK, InstallerOK
<1>3. ASSUME InstallerOK', UNCHANGED publisherVars PROVE IInv'
  <2>1. ReleasesOK' /\ RunsOK'
    BY <1>3 DEF IInv, publisherVars, ReleasesOK, RunsOK, RunOK
  <2> QED  BY <1>3, <2>1 DEF IInv, InstallerOK
<1>4. ASSUME NEW i \in Installers, Runs(i) \/ Interrupt(i) \/ Kill(i) PROVE IInv'
  <2>1. InstallerOK'
    BY <1>1, <1>4, DownloadOK, DownloadFailsOK, UnpackOK, CheckOK, ReplaceOK, RemoveEmptyOK,
       InstallOK, InstallFailsOK, RestoreOK, RestoreFailsOK, CommandFailsOK, InterruptOK,
       KillOK DEF Runs, PublisherOK
  <2>2. UNCHANGED publisherVars
    BY <1>4 DEF Runs, Download, DownloadFails, Unpack, Check, Replace, RemoveEmpty, Install,
       InstallFails, Restore, RestoreFails, CommandFails, Interrupt, Kill
  <2> QED  BY <1>3, <2>1, <2>2
<1>5. ASSUME NEW i \in Installers, NEW v \in Wanted, NEW allow \in BOOLEAN, Invoke(i, v, allow)
      PROVE IInv'
  BY <1>1, <1>3, <1>5, InvokeOK DEF Invoke
<1>6. CASE UNCHANGED vars
  <2>1. InstallerOK'
    BY <1>1, <1>6 DEF vars, publisherVars, InstallerOK, TypeOK, PublisherTypeOK, CopiesOK, CopyOK,
       Released, ReleasedPackage, Complete, DestinationOK
  <2> QED  BY <1>3, <1>6, <2>1 DEF vars
<1> QED  BY <1>2, <1>4, <1>5, <1>6 DEF Next

LEMMA AlwaysIInv == Spec => []IInv
BY InitIInv, StepIInv, PTL DEF Spec

(* Type correctness of both scripts' state. *)
THEOREM TypeCorrect == Spec => []TypeOK
<1>1. IInv => TypeOK  BY DEF IInv
<1> QED  BY <1>1, AlwaysIInv, PTL

(* Whatever is damaged, lost, signalled or overtaken on the way, a plugin    *)
(* the installer put in place is a complete release of its version, packaged *)
(* from its commit (install-from-gitea.sh:67-119,                            *)
(* publish-gitea-release.sh:23-100).                                         *)
THEOREM AlwaysARelease == Spec => []PluginIsARelease
<1>1. IInv => PluginIsARelease
  <2> SUFFICES ASSUME IInv PROVE PluginIsARelease  OBVIOUS
  <2>1. destination.package \in Plugins \cup {None}  BY DEF IInv, TypeOK, Directories
  <2>2. destination.package # Damaged  BY <2>1, NotPackages DEF Plugins
  <2> QED  BY <2>2 DEF IInv, DestinationOK, PluginIsARelease
<1> QED  BY <1>1, AlwaysIInv, PTL

(* A workflow run that gives up was overtaken by as many other releases as   *)
(* it made attempts (publish-gitea-release.sh:22-81).                        *)
THEOREM GivesUpWhenOvertaken == Spec => []GivesUpOnlyWhenOvertaken
<1>1. IInv => GivesUpOnlyWhenOvertaken
  <2> SUFFICES ASSUME IInv, NEW p \in Publishers, pc[p] = "gaveup"
               PROVE  Len(releases) - begun[p] >= MaxAttempts
    BY DEF GivesUpOnlyWhenOvertaken
  <2>1. /\ MaxAttempts <= Len(releases) - begun[p]
        /\ Len(releases) \in Nat /\ begun[p] \in Nat /\ MaxAttempts \in Nat
    BY ReleasesLength, AttemptsPositive DEF IInv, RunsOK, RunOK, TypeOK, PublisherTypeOK
  <2> QED  BY <2>1
<1> QED  BY <1>1, AlwaysIInv, PTL
-----------------------------------------------------------------------------
(* Without signals no workspace is lost, so an installer that has moved the  *)
(* old plugin away still holds it, and one that unpacked has something to    *)
(* install.  A directory that was once not empty never becomes so: what is   *)
(* moved onto it ends up beside a plugin.                                    *)
Unpacked == {"check", "replace", "install", "restore", "rmdir", "place"}

WorkspaceOK(i) ==
  /\ ~inst[i].gone
  /\ inst[i].step \in Unpacked => inst[i].content # None
  /\ inst[i].step \in {"install", "restore"} =>
       inst[i].previous.kind = "full" /\ inst[i].previous.package # None
  /\ inst[i].step \in {"replace", "install", "restore", "place"} => destination.kind # "empty"

DirectoryOK ==
  IF destination.kind = "full" THEN destination.package # None ELSE destination.nested = {}

NothingLost == DirectoryOK /\ \A i \in Installers : WorkspaceOK(i)

(* Another installer's step leaves i's workspace alone.                      *)
LEMMA OthersWorkspace ==
  ASSUME NothingLost, NEW i \in Installers, NEW j \in Installers, j # i,
         inst'[j] = inst[j], destination'.kind = "empty" => destination.kind = "empty"
  PROVE  WorkspaceOK(j)'
BY DEF NothingLost, WorkspaceOK

(* The move back fails although the name is free.                            *)
RestoreFailsOnDisk(i) == RestoreFails(i) /\ Fault("disk")

(* What mv leaves is a plugin, if both directories were in order.            *)
LEMMA MovesAPlugin ==
  ASSUME TypeOK, DirectoryOK, destination.kind # "empty",
         NEW directory, directory.kind = "full", directory.package # None,
         NEW name, Moved(directory, name)
  PROVE  DirectoryOK' /\ HasPlugin'
<1>1. /\ destination \in Directories
      /\ destination.kind \in {"absent", "full"}
  BY DEF TypeOK, Directories
<1>2. CASE destination.kind = "absent"
  BY <1>2 DEF Moved, DirectoryOK, HasPlugin
<1>3. CASE destination.kind = "full"
  <2>1. destination.package # None  BY <1>3 DEF DirectoryOK
  <2>2. destination' = [destination EXCEPT !.kind = "full", !.nested = @ \cup {name}]
    BY <1>3 DEF Moved
  <2>3. destination'.kind = "full" /\ destination'.package = destination.package
    BY <1>1, <2>2 DEF Directories
  <2> QED  BY <2>1, <2>3 DEF DirectoryOK, HasPlugin
<1> QED  BY <1>1, <1>2, <1>3

LEMMA RunsUndisturbed ==
  ASSUME TypeOK, NothingLost, NEW i \in Installers, Runs(i)
  PROVE  /\ NothingLost'
         /\ inst[i].step \in {"install", "restore"} /\ inst'[i].step = "idle" =>
              HasPlugin' \/ RestoreFailsOnDisk(i)
         /\ \A j \in Installers : j # i => inst'[j] = inst[j]
<1> DEFINE copy == inst[i]
<1>1. /\ copy \in Copy /\ destination \in Directories
      /\ inst \in [Installers -> Copy]
      /\ WorkspaceOK(i) /\ DirectoryOK
  BY DEF TypeOK, Copy, NothingLost
<1>2. \A j \in Installers : j # i => inst'[j] = inst[j]
  BY <1>1 DEF Runs, Download, DownloadFails, Unpack, Check, Replace, RemoveEmpty, Install,
              InstallFails, Restore, RestoreFails, CommandFails, Goes, Exit
<1>3. ASSUME DirectoryOK', WorkspaceOK(i)',
             destination'.kind = "empty" => destination.kind = "empty"
      PROVE  NothingLost'
  BY <1>2, <1>3, OthersWorkspace DEF NothingLost
<1>4. ASSUME Exit(i) PROVE WorkspaceOK(i)' /\ inst'[i].step = "idle"
  BY <1>1, <1>4 DEF Exit, Idling, At, WorkspaceOK, Unpacked
<1>5. ASSUME NEW step \in Steps, Goes(i, step), UNCHANGED destination,
             copy.content # None \/ step \notin Unpacked,
             step \in {"install", "restore"} => copy.step \in {"install", "restore"},
             step \in {"replace", "place"} => destination.kind # "empty"
      PROVE  WorkspaceOK(i)' /\ DirectoryOK' /\ inst'[i].step = step
  BY <1>1, <1>5 DEF Goes, WorkspaceOK, DirectoryOK, Copy
<1>6. ASSUME UNCHANGED destination, Exit(i) PROVE NothingLost'
  BY <1>1, <1>3, <1>4, <1>6 DEF DirectoryOK
<1>7. CASE Download(i)
  <2>1. UNCHANGED destination /\ copy.step \in {"archive", "checksum"}
    BY <1>7 DEF Download
  <2>2. inst'[i].step \in {"checksum", "unpack"} /\ inst'[i].gone = copy.gone
    BY <1>1, <1>7 DEF Download, Copy
  <2>3. WorkspaceOK(i)'  BY <1>1, <2>2 DEF WorkspaceOK, Unpacked
  <2> QED  BY <1>1, <1>2, <1>3, <2>1, <2>3 DEF DirectoryOK
<1>8. CASE DownloadFails(i)
  BY <1>2, <1>6, <1>8 DEF DownloadFails
<1>9. CASE Unpack(i)
  <2>1. UNCHANGED destination /\ copy.step = "unpack"  BY <1>9 DEF Unpack
  <2>2. CASE accepted(i)
    <3>1. copy.archive \in Packages /\ copy.archive # None
      BY <2>2, NoneIsNoPackage DEF accepted, Packages
    <3>2. /\ inst'[i].step = "check" /\ inst'[i].content = copy.archive
          /\ inst'[i].gone = copy.gone
      BY <1>1, <1>9, <2>2 DEF Unpack, Copy
    <3>3. WorkspaceOK(i)'  BY <1>1, <3>1, <3>2 DEF WorkspaceOK
    <3> QED  BY <1>1, <1>2, <1>3, <2>1, <3>3 DEF DirectoryOK
  <2>3. CASE ~accepted(i)
    BY <1>2, <1>6, <1>9, <2>1, <2>3 DEF Unpack
  <2> QED  BY <2>2, <2>3
<1>10. CASE Check(i)
  <2>1. /\ next(destination.kind) \in {"replace", "rmdir", "place"}
        /\ next(destination.kind) \in {"replace", "place"} => destination.kind # "empty"
    BY <1>1 DEF next, Directories
  <2>2. copy.step = "check" /\ copy.content # None
    BY <1>1, <1>10 DEF Check, WorkspaceOK, Unpacked
  <2> QED  BY <1>2, <1>3, <1>5, <1>10, <2>1, <2>2 DEF Check, Steps
<1>11. CASE Replace(i)
  <2>1. copy.step = "replace" /\ copy.content # None /\ destination.kind # "empty"
    BY <1>1, <1>11 DEF Replace, WorkspaceOK, Unpacked
  <2>2. CASE destination.kind # "absent" /\ ~copy.gone
    <3>1. destination.kind = "full" /\ destination.package # None
      BY <1>1, <2>1, <2>2 DEF DirectoryOK, Directories
    <3>2. /\ inst'[i].step = "install" /\ inst'[i].previous = destination
          /\ inst'[i].content = copy.content /\ inst'[i].gone = copy.gone
          /\ destination' = Absent
      BY <1>1, <1>11, <2>2 DEF Replace, Copy
    <3>3. WorkspaceOK(i)' /\ DirectoryOK'
      BY <1>1, <2>1, <3>1, <3>2 DEF WorkspaceOK, DirectoryOK, Absent, Holding
    <3> QED  BY <1>2, <1>3, <2>1, <3>2, <3>3 DEF Absent, Holding
  <2>3. CASE ~(destination.kind # "absent" /\ ~copy.gone)
    BY <1>2, <1>6, <1>11, <2>1, <2>3 DEF Replace
  <2> QED  BY <2>2, <2>3
<1>12. CASE RemoveEmpty(i)
  <2>1. copy.step = "rmdir" /\ copy.content # None
    BY <1>1, <1>12 DEF RemoveEmpty, WorkspaceOK, Unpacked
  <2>2. CASE destination.kind = "empty"
    <3>1. destination' = Absent /\ Goes(i, "place")  BY <1>12, <2>2 DEF RemoveEmpty
    <3>2. /\ inst'[i].step = "place" /\ inst'[i].content = copy.content
          /\ inst'[i].gone = copy.gone
      BY <1>1, <3>1 DEF Goes, Copy
    <3>3. WorkspaceOK(i)' /\ DirectoryOK'
      BY <1>1, <2>1, <3>1, <3>2 DEF WorkspaceOK, DirectoryOK, Absent, Holding
    <3> QED  BY <1>2, <1>3, <2>1, <2>2, <3>3
  <2>3. CASE destination.kind # "empty"
    BY <1>2, <1>6, <1>12, <2>1, <2>3 DEF RemoveEmpty
  <2> QED  BY <2>2, <2>3
<1>13. CASE Install(i)
  <2>1. copy.content # None /\ destination.kind # "empty"
        /\ Moved(Holding("full", copy.content), "content") /\ Exit(i)
    BY <1>1, <1>13 DEF Install, CanInstall, WorkspaceOK
  <2>2. DirectoryOK' /\ HasPlugin'
    BY <1>1, <2>1, MovesAPlugin DEF Holding
  <2> QED  BY <1>2, <1>3, <1>4, <2>1, <2>2 DEF HasPlugin
<1>14. CASE InstallFails(i)
  <2>1. UNCHANGED destination  BY <1>14 DEF InstallFails
  <2>2. CASE copy.step = "install"
    <3>1. Goes(i, "restore") /\ copy.content # None
      BY <1>1, <1>14, <2>2 DEF InstallFails, WorkspaceOK, Unpacked
    <3>2. WorkspaceOK(i)' /\ DirectoryOK' /\ inst'[i].step = "restore"
      BY <1>5, <2>1, <2>2, <3>1 DEF Steps
    <3> QED  BY <1>2, <1>3, <2>1, <3>2
  <2>3. CASE copy.step = "place"
    BY <1>2, <1>6, <1>14, <2>1, <2>3 DEF InstallFails
  <2> QED  BY <1>14, <2>2, <2>3 DEF InstallFails
<1>15. CASE Restore(i)
  <2>1. /\ copy.previous.kind = "full" /\ copy.previous.package # None
        /\ destination.kind # "empty" /\ Exit(i) /\ Moved(copy.previous, "previous")
    BY <1>1, <1>15 DEF Restore, WorkspaceOK
  <2>2. DirectoryOK' /\ HasPlugin'  BY <1>1, <2>1, MovesAPlugin
  <2> QED  BY <1>2, <1>3, <1>4, <2>1, <2>2 DEF HasPlugin
<1>16. CASE RestoreFails(i)
  <2>1. UNCHANGED destination /\ Exit(i)  BY <1>16 DEF RestoreFails
  <2>2. CASE CanRestore(i)
    <3>1. RestoreFailsOnDisk(i)  BY <1>16, <2>2 DEF RestoreFails, RestoreFailsOnDisk
    <3> QED  BY <1>2, <1>6, <2>1, <3>1
  <2>3. CASE ~CanRestore(i)
    <3>1. ~CanMove("previous")
      BY <1>1, <1>16, <2>3 DEF CanRestore, RestoreFails, WorkspaceOK
    <3>2. HasPlugin  BY <1>1, <3>1 DEF CanMove, DirectoryOK, HasPlugin
    <3> QED  BY <1>2, <1>6, <2>1, <3>2 DEF HasPlugin
  <2> QED  BY <2>2, <2>3
<1>17. CASE CommandFails(i)
  BY <1>2, <1>6, <1>17 DEF CommandFails
<1> QED
  BY <1>7, <1>8, <1>9, <1>10, <1>11, <1>12, <1>13, <1>14, <1>15, <1>16, <1>17 DEF Runs

(* Without signals, whatever else fails, an installer that moved the old     *)
(* plugin away ends without a plugin in its place in one case only: the move *)
(* back of line 111, which a failed installation calls for, fails as well,   *)
(* and the exit trap then removes the workspace with both plugins            *)
(* (install-from-gitea.sh:42-45, 107-119).                                   *)
THEOREM OnlyFailedRestoresLoseThePlugin ==
  ASSUME FaultKinds \cap {"interrupt", "kill"} = {}
  PROVE  Spec => [][\A i \in Installers :
                      inst[i].step \in {"install", "restore"} /\ inst'[i].step = "idle" =>
                        HasPlugin' \/ RestoreFailsOnDisk(i)]_vars
<1> DEFINE Atomic ==
      \A i \in Installers :
        inst[i].step \in {"install", "restore"} /\ inst'[i].step = "idle" =>
          HasPlugin' \/ RestoreFailsOnDisk(i)
<1>1. Init => NothingLost
  <2> SUFFICES ASSUME Init PROVE NothingLost  OBVIOUS
  <2>1. Manual # None  BY NotPackages
  <2>2. DirectoryOK  BY <2>1 DEF Init, DirectoryOK, Absent, Holding
  <2>3. \A i \in Installers : WorkspaceOK(i)
    BY DEF Init, WorkspaceOK, Idling, At, Unpacked
  <2> QED  BY <2>2, <2>3 DEF NothingLost
<1>2. ASSUME UNCHANGED <<destination, inst>>, NothingLost PROVE NothingLost' /\ Atomic
  BY <1>2 DEF NothingLost, DirectoryOK, WorkspaceOK
<1>3. ASSUME NEW i \in Installers PROVE ~Interrupt(i) /\ ~Kill(i)
  BY DEF Interrupt, Kill, Fault
<1>4. ASSUME IInv, NothingLost, NEW i \in Installers, Runs(i) PROVE NothingLost' /\ Atomic
  BY <1>4, RunsUndisturbed DEF IInv
<1>5. ASSUME IInv, NothingLost, NEW i \in Installers, NEW v \in Wanted, NEW allow \in BOOLEAN,
             Invoke(i, v, allow)
      PROVE  NothingLost' /\ Atomic
  <2>1. inst \in [Installers -> Copy]  BY <1>5 DEF IInv, TypeOK, Copy
  <2>2. /\ inst'[i] = At("archive", v, FALSE) /\ UNCHANGED destination
        /\ \A j \in Installers : j # i => inst'[j] = inst[j]
    BY <1>5, <2>1 DEF Invoke
  <2>3. WorkspaceOK(i)'  BY <2>2 DEF WorkspaceOK, At, Unpacked
  <2>4. \A j \in Installers : j # i => WorkspaceOK(j)'  BY <1>5, <2>2, OthersWorkspace
  <2>5. DirectoryOK'  BY <1>5, <2>2 DEF NothingLost, DirectoryOK
  <2>6. inst'[i].step # "idle"  BY <2>2 DEF At
  <2> QED  BY <2>2, <2>3, <2>4, <2>5, <2>6 DEF NothingLost
<1>6. IInv /\ NothingLost /\ [Next]_vars => NothingLost' /\ [Atomic]_vars
  BY <1>2, <1>3, <1>4, <1>5 DEF Next, Publishing, vars
<1>7. QED
  BY <1>1, <1>6, AlwaysIInv, PTL DEF Spec, Atomic

(* With neither signals nor a disk that fails the replacement is atomic, for *)
(* any number of installers and whatever the network does.                   *)
THEOREM AtomicWithoutSignalsAndDiskFaults ==
  ASSUME FaultKinds \cap {"interrupt", "kill", "disk"} = {}
  PROVE  Spec => ReplacementIsAtomic
<1>1. \A i \in Installers : ~RestoreFailsOnDisk(i)  BY DEF RestoreFailsOnDisk, Fault
<1>2. FaultKinds \cap {"interrupt", "kill"} = {}  OBVIOUS
<1> DEFINE Step(i) == inst[i].step \in {"install", "restore"} /\ inst'[i].step = "idle"
<1>3. [\A i \in Installers : Step(i) => HasPlugin' \/ RestoreFailsOnDisk(i)]_vars
        => [\A i \in Installers : Step(i) => HasPlugin']_vars
  BY <1>1
<1> QED  BY <1>2, <1>3, OnlyFailedRestoresLoseThePlugin, PTL DEF ReplacementIsAtomic

=============================================================================
