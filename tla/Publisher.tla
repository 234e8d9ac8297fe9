------------------------------ MODULE Publisher ------------------------------
(***************************************************************************)
(* The release publisher (scripts/publish-gitea-release.sh with            *)
(* next-version.sh and package-release.sh): one run per push to main, any  *)
(* number of them at once.  Each takes the version after the latest tag,   *)
(* packages its commit under it, and asks Gitea to create the release; if  *)
(* another run was faster it starts over.  Then it attaches the archive    *)
(* and its checksum, one after the other.                                  *)
(*                                                                         *)
(* releases is what Gitea holds, in the order of the versions: the version *)
(* is the index, since only this script makes releases.                    *)
(***************************************************************************)
EXTENDS Integers, Sequences

CONSTANTS
  Publishers,        \* the runs; a run is also the commit it was started for
  MaxAttempts,       \* 10 in the script
  MaxReleases,       \* bound: no run is started, or goes on, beyond it
  FaultKinds,        \* what may go wrong: "network", "disk", "interrupt", "kill"
  MaxFaults,         \* bound: how often
  None

ASSUME AttemptsPositive == MaxAttempts \in Nat \ {0}
ASSUME BoundsNatural    == MaxReleases \in Nat /\ MaxFaults \in Nat
ASSUME NoneIsNoPackage  == None \notin Nat \X Publishers

VARIABLES
  releases,
  pc, version, attempt,     \* of each run
  begun,                    \* history: how many releases there were when it started
  faults

publisherVars == <<releases, pc, version, attempt, begun>>

Packages == Nat \X Publishers
Idle     == {"pushed", "done", "failed", "gaveup"}

PublisherTypeOK ==
  /\ releases \in Seq([commit : Publishers, archive : Packages \cup {None},
                       checksum : Packages \cup {None}])
  /\ pc \in [Publishers -> Idle \cup {"loop", "create", "archive", "checksum"}]
  /\ version \in [Publishers -> Nat]
  /\ attempt \in [Publishers -> Nat]
  /\ begun \in [Publishers -> Nat]
  /\ faults \in Nat

PublisherInit ==
  /\ releases = <<>>
  /\ pc = [p \in Publishers |-> "pushed"]
  /\ version = [p \in Publishers |-> 0]
  /\ attempt = [p \in Publishers |-> 0]
  /\ begun = [p \in Publishers |-> 0]
  /\ faults = 0

Fault(kind) ==
  /\ kind \in FaultKinds
  /\ faults < MaxFaults
  /\ faults' = faults + 1

-----------------------------------------------------------------------------
(* The workflow starts, or a failed run of it is started again.              *)
Begin(p) ==
  /\ pc[p] \in {"pushed", "failed", "gaveup"}
  /\ Len(releases) < MaxReleases
  /\ pc' = [pc EXCEPT ![p] = "loop"]
  /\ attempt' = [attempt EXCEPT ![p] = 1]
  /\ begun' = [begun EXCEPT ![p] = Len(releases)]
  /\ UNCHANGED <<releases, version, faults>>

(* A slip that the runs show a property notices: the tags are fetched once.  *)
nextVersion_once(p) ==
  IF attempt[p] = 1 THEN Len(releases) + 1 ELSE version[p]

nextVersion(p) == Len(releases) + 1

Prepare(p) ==
  /\ pc[p] = "loop"
  /\ version' = [version EXCEPT ![p] = nextVersion(p)]
  /\ pc' = [pc EXCEPT ![p] = "create"]
  /\ UNCHANGED <<releases, attempt, begun, faults>>

(* package-release.sh: the archive is determined by version and commit.      *)
package(p) == <<version[p], p>>

NewRelease(p) ==
  releases' = Append(releases, [commit |-> p, archive |-> None, checksum |-> None])

Created(p) ==
  /\ pc[p] = "create" /\ version[p] > Len(releases)
  /\ NewRelease(p)
  /\ pc' = [pc EXCEPT ![p] = "archive"]
  /\ UNCHANGED <<version, attempt, begun, faults>>

Conflict(p) ==
  /\ pc[p] = "create" /\ version[p] <= Len(releases)
  /\ attempt' = [attempt EXCEPT ![p] = @ + 1]
  /\ pc' = [pc EXCEPT ![p] = IF attempt[p] + 1 <= MaxAttempts THEN "loop" ELSE "gaveup"]
  /\ UNCHANGED <<releases, version, begun, faults>>

(* Any other answer, or none: the release may have been created.             *)
CreateFails(p) ==
  /\ pc[p] = "create"
  /\ Fault("network")
  /\ \/ UNCHANGED releases
     \/ version[p] > Len(releases) /\ NewRelease(p)
  /\ pc' = [pc EXCEPT ![p] = "failed"]
  /\ UNCHANGED <<version, attempt, begun>>

Attached(p, asset) ==
  releases' = [releases EXCEPT ![version[p]][asset] = package(p)]

Attach(p) ==
  /\ pc[p] \in {"archive", "checksum"}
  /\ Attached(p, pc[p])
  /\ pc' = [pc EXCEPT ![p] = IF pc[p] = "archive" THEN "checksum" ELSE "done"]
  /\ UNCHANGED <<version, attempt, begun, faults>>

AttachFails(p) ==
  /\ pc[p] \in {"archive", "checksum"}
  /\ Fault("network")
  /\ Attached(p, pc[p]) \/ UNCHANGED releases
  /\ pc' = [pc EXCEPT ![p] = "failed"]
  /\ UNCHANGED <<version, attempt, begun>>

Publish(p) == Prepare(p) \/ Created(p) \/ Conflict(p) \/ Attach(p)
PublishFails(p) == CreateFails(p) \/ AttachFails(p)

Complete(v) ==
  /\ v \in DOMAIN releases
  /\ releases[v].archive # None
  /\ releases[v].checksum # None

-----------------------------------------------------------------------------
(* A run gives up only if others made as many releases while it ran as it    *)
(* may make attempts: no attempt is lost to the same release twice           *)
(* (publish-gitea-release.sh:23-79; README.md:215-216).                      *)
GivesUpOnlyWhenOvertaken ==
  \A p \in Publishers :
    pc[p] = "gaveup" => Len(releases) - begun[p] >= MaxAttempts

=============================================================================
