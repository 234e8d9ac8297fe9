------------------------------ MODULE Installer ------------------------------
(***************************************************************************)
(* The installer (scripts/install-from-gitea.sh): it downloads a release,  *)
(* checks it, and replaces the plugin directory.  Every command that       *)
(* touches the directory or the network is a step; several installers may  *)
(* run, a command may fail, the script may be signalled or killed.  Its    *)
(* signal trap deletes the workspace and lets the script go on.            *)
(***************************************************************************)
EXTENDS Publisher

CONSTANTS
  Installers,
  Wanted,            \* the versions an installer may be asked for
  Manual,            \* a plugin that was put there by hand
  Damaged            \* a download that is not what was attached

ASSUME NotPackages == Manual \notin Packages /\ Damaged \notin Packages
                        /\ Manual # None /\ Damaged # None /\ Manual # Damaged
ASSUME WantedVersions == Wanted \subseteq Nat

VARIABLES
  destination,       \* the plugin directory: absent, empty, or full of a package,
                     \* with what mv has put into it under its own name
  inst               \* of each installer: its step, its version, its workspace

vars == <<publisherVars, faults, destination, inst>>

Holding(kind, plugin) == [kind |-> kind, package |-> plugin, nested |-> {}]
Absent  == Holding("absent", None)

Plugins == Packages \cup {Manual}
Directories == [kind : {"absent", "empty", "full"}, package : Plugins \cup {None},
                nested : SUBSET {"content", "previous"}]

Steps == {"idle", "archive", "checksum", "unpack", "check", "replace", "install",
          "restore", "rmdir", "place"}

TypeOK ==
  /\ PublisherTypeOK
  /\ destination \in Directories
  /\ inst \in [Installers ->
       [step : Steps, want : Nat, gone : BOOLEAN, archive : Packages \cup {None, Damaged},
        checksum : Packages \cup {None, Damaged}, content : Packages \cup {None},
        previous : Directories]]

At(step, want, gone) ==
  [step |-> step, want |-> want, gone |-> gone, archive |-> None, checksum |-> None,
   content |-> None, previous |-> Absent]

Idling == At("idle", 0, FALSE)

Init ==
  /\ PublisherInit
  /\ destination \in {Absent, Holding("empty", None), Holding("full", Manual)}
  /\ inst = [i \in Installers |-> Idling]

-----------------------------------------------------------------------------
(* What is installed has its version in a file; a checkout does not.         *)
Installed(v) == destination.package \in Packages /\ destination.package[1] = v

HasPlugin == destination.kind = "full" /\ destination.package # None

Goes(i, step) == inst' = [inst EXCEPT ![i].step = step]

(* The script ends, and its exit trap removes the workspace.                 *)
Exit(i) == inst' = [inst EXCEPT ![i] = Idling]

(* mv: onto a directory that exists it puts what it moves inside, under its  *)
(* own name, and fails if that name is taken.                                *)
CanMove(name) == name \notin destination.nested

Moved(directory, name) ==
  destination' = IF destination.kind = "absent" THEN directory
                 ELSE [destination EXCEPT !.kind = "full", !.nested = @ \cup {name}]

-----------------------------------------------------------------------------
(* Without what follows the script ends: the version is installed, or the    *)
(* destination populated and replacement not allowed.                        *)
Invoke(i, v, allowReplace) ==
  /\ inst[i].step = "idle"
  /\ destination.kind = "full" => ~Installed(v) /\ allowReplace
  /\ inst' = [inst EXCEPT ![i] = At("archive", v, FALSE)]
  /\ UNCHANGED <<publisherVars, faults, destination>>

Attaches(v, asset) == v \in DOMAIN releases /\ releases[v][asset] # None

Download(i) ==
  LET v == inst[i].want  asset == inst[i].step
  IN /\ asset \in {"archive", "checksum"}
     /\ ~inst[i].gone
     /\ Attaches(v, asset)
     /\ \E file \in {releases[v][asset], Damaged} :
          /\ IF file = Damaged THEN Fault("network") ELSE UNCHANGED faults
          /\ inst' = [inst EXCEPT ![i][asset] = file,
                                  ![i].step = IF asset = "archive" THEN "checksum" ELSE "unpack"]
     /\ UNCHANGED <<publisherVars, destination>>

DownloadFails(i) ==
  /\ inst[i].step \in {"archive", "checksum"}
  /\ IF inst[i].gone \/ ~Attaches(inst[i].want, inst[i].step)
     THEN UNCHANGED faults ELSE Fault("network")
  /\ Exit(i)
  /\ UNCHANGED <<publisherVars, destination>>

(* The checks: the checksum is that of the archive, the archive of the       *)
(* version that was asked for.                                               *)
accepted_unchecked(i) == inst[i].archive # None

accepted(i) ==
  /\ inst[i].archive \in Packages
  /\ inst[i].checksum = inst[i].archive
  /\ inst[i].archive[1] = inst[i].want

Unpack(i) ==
  /\ inst[i].step = "unpack"
  /\ IF accepted(i)
     THEN inst' = [inst EXCEPT ![i].content = inst[i].archive, ![i].step = "check"]
     ELSE Exit(i)
  /\ UNCHANGED <<publisherVars, faults, destination>>

next_ignoresEmpty(kind) == IF kind = "full" THEN "replace" ELSE "place"

next(kind) ==
  CASE kind = "full" -> "replace" [] kind = "empty" -> "rmdir" [] OTHER -> "place"

Check(i) ==
  /\ inst[i].step = "check"
  /\ Goes(i, next(destination.kind))
  /\ UNCHANGED <<publisherVars, faults, destination>>

(* The old directory goes into the workspace, if both are still there.       *)
Replace(i) ==
  /\ inst[i].step = "replace"
  /\ IF destination.kind # "absent" /\ ~inst[i].gone
     THEN /\ inst' = [inst EXCEPT ![i].previous = destination, ![i].step = "install"]
          /\ destination' = Absent
     ELSE Exit(i) /\ UNCHANGED destination
  /\ UNCHANGED <<publisherVars, faults>>

RemoveEmpty(i) ==
  /\ inst[i].step = "rmdir"
  /\ IF destination.kind = "empty"
     THEN destination' = Absent /\ Goes(i, "place")
     ELSE Exit(i) /\ UNCHANGED destination
  /\ UNCHANGED <<publisherVars, faults>>

CanInstall(i) == inst[i].content # None /\ CanMove("content")

Install(i) ==
  /\ inst[i].step \in {"install", "place"}
  /\ CanInstall(i)
  /\ Moved(Holding("full", inst[i].content), "content")
  /\ Exit(i)
  /\ UNCHANGED <<publisherVars, faults>>

InstallFails(i) ==
  /\ inst[i].step \in {"install", "place"}
  /\ IF CanInstall(i) THEN Fault("disk") ELSE UNCHANGED faults
  /\ IF inst[i].step = "install" THEN Goes(i, "restore") ELSE Exit(i)
  /\ UNCHANGED <<publisherVars, destination>>

CanRestore(i) == inst[i].previous.kind # "absent" /\ CanMove("previous")

Restore(i) ==
  /\ inst[i].step = "restore"
  /\ CanRestore(i)
  /\ Moved(inst[i].previous, "previous")
  /\ Exit(i)
  /\ UNCHANGED <<publisherVars, faults>>

(* The move back fails as well: the script ends all the same, and its exit   *)
(* trap removes the workspace with the previous plugin.                      *)
RestoreFails(i) ==
  /\ inst[i].step = "restore"
  /\ IF CanRestore(i) THEN Fault("disk") ELSE UNCHANGED faults
  /\ Exit(i)
  /\ UNCHANGED <<publisherVars, destination>>

(* tar, the move away or rmdir fails: the script ends before it has changed  *)
(* the directory.                                                            *)
CommandFails(i) ==
  /\ inst[i].step \in {"unpack", "replace", "rmdir"}
  /\ Fault("disk")
  /\ Exit(i)
  /\ UNCHANGED <<publisherVars, destination>>

(* The signal trap: the workspace goes with all it holds, the script goes on. *)
Interrupt(i) ==
  /\ inst[i].step # "idle"
  /\ Fault("interrupt")
  /\ inst' = [inst EXCEPT ![i] = At(inst[i].step, inst[i].want, TRUE)]
  /\ UNCHANGED <<publisherVars, destination>>

(* SIGKILL, or the container is gone: no trap runs, nobody looks into the    *)
(* workspace again.                                                          *)
Kill(i) ==
  /\ inst[i].step # "idle"
  /\ Fault("kill")
  /\ Exit(i)
  /\ UNCHANGED <<publisherVars, destination>>

-----------------------------------------------------------------------------
Runs(i) == Download(i) \/ DownloadFails(i) \/ Unpack(i) \/ Check(i) \/ Replace(i)
             \/ RemoveEmpty(i) \/ Install(i) \/ InstallFails(i) \/ Restore(i)
             \/ RestoreFails(i) \/ CommandFails(i)

Publishing(p) == (Begin(p) \/ Publish(p) \/ PublishFails(p)) /\ UNCHANGED <<destination, inst>>

Next ==
  \/ \E p \in Publishers : Publishing(p)
  \/ \E i \in Installers : Runs(i) \/ Interrupt(i) \/ Kill(i)
  \/ \E i \in Installers, v \in Wanted, allow \in BOOLEAN : Invoke(i, v, allow)

Spec == Init /\ [][Next]_vars

(* Scripts that run go on.  Failed workflows are started again, and the      *)
(* installer is, with a release that has its assets and without permission   *)
(* to replace anything; the failures stop.                                   *)
FairSpec ==
  /\ Spec
  /\ \A p \in Publishers : WF_vars(Publishing(p))
  /\ \A i \in Installers :
       /\ WF_vars(Runs(i))
       /\ SF_vars(\E v \in Wanted : Complete(v) /\ Invoke(i, v, FALSE))

-----------------------------------------------------------------------------
(* End to end: a plugin that the installer put in place is what was packaged *)
(* for its version, from the commit that version was released for, and the   *)
(* release is complete, whatever was damaged, interrupted or overtaken on    *)
(* the way (install-from-gitea.sh:67-105, publish-gitea-release.sh:23-100;   *)
(* README.md:13-16, 27-30).                                                  *)
ReleasedPackage(package_) ==
  package_ \in Packages =>
    /\ package_[1] \in DOMAIN releases
    /\ package_ = <<package_[1], releases[package_[1]].commit>>
    /\ Complete(package_[1])

PluginIsARelease == destination.package # Damaged /\ ReleasedPackage(destination.package)

(* However runs of both scripts fail, are killed or get into each other's    *)
(* way, once failures stop and both are run again there is a plugin, and     *)
(* there is one again and again: nothing an installer leaves behind makes    *)
(* the next one refuse (install-from-gitea.sh:25-37, 107-119).               *)
Heals == []<>HasPlugin

(* An installer that has moved the old plugin away does not end before there *)
(* is a plugin in its place (README.md:27-30, 48-51).                        *)
ReplacementIsAtomic ==
  [][\A i \in Installers :
       inst[i].step \in {"install", "restore"} /\ inst'[i].step = "idle" => HasPlugin']_vars

=============================================================================
