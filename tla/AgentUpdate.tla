---------------------------- MODULE AgentUpdate ----------------------------
(***************************************************************************)
(* The confirmed update of an installed agent (agent-setup.py update): the *)
(* files of the package are replaced one by one while the service is       *)
(* stopped, and put back if the new package does not report.               *)
(*                                                                         *)
(* Every step may raise an error or be interrupted from the keyboard, and  *)
(* the updater may be killed or the machine restarted anywhere.  The       *)
(* recovery marker in the workspace, written before the first change, is   *)
(* what decides then whether the workspace is deleted or kept; while one is *)
(* kept no update starts.  A file lock admits one updater at a time.       *)
(*                                                                         *)
(* A restart is an orderly one: what was written stays.  A loss of power   *)
(* is outside this module: the copies, the marker and the directories are  *)
(* not synced, so that it may take any of them, and the update does not    *)
(* promise anything then (docs/AGENT-INSTALLER.md:27).                     *)
(***************************************************************************)
EXTENDS Naturals

CONSTANTS
  Version,  \* packages
  None,     \* a file that is not there
  Files     \* files of a package (4)

ASSUME PackageAssumption ==
  /\ Files \in Nat \ {0}
  /\ None \notin Version

VARIABLES
  installed,  \* the version of each installed file
  service,    \* the agent's service: "active", "failed" or "stopped"
  workspace,  \* the .update-* directory: "absent", "plain", or "marked"
  previous,   \* the copies in it
  rollback,   \* the retained package, all None if there is none
  updater,    \* what the updater is doing
  told,       \* what the last one ended with
  before      \* history: the package the last update began with

vars == <<installed, service, workspace, previous, rollback, updater, told, before>>

-----------------------------------------------------------------------------
Name == 1..Files
Package(v) == [n \in Name |-> v]
NoPackage == Package(None)
Whole(files) == \E v \in Version : files = Package(v)

Idle == [pc |-> "idle"]
Updater ==
  [pc: {"prepare", "keep", "mark", "stop", "replace", "start", "verify", "undo", "putBack",
        "restart", "recheck", "unmark", "forget", "retain", "finish"},
   target: Version, next: Name]

TypeOK ==
  /\ installed \in [Name -> Version]
  /\ service \in {"active", "failed", "stopped"}
  /\ workspace \in {"absent", "plain", "marked"}
  /\ previous \in [Name -> Version \union {None}]
  /\ rollback \in [Name -> Version \union {None}]
  /\ updater \in Updater \union {Idle}
  /\ told \in {"nothing", "refused", "cancelled", "failed", "restored", "updated"}
  /\ before \in Version

Init ==
  /\ \E v \in Version : installed = Package(v) /\ before = v
  /\ service = "active"
  /\ workspace = "absent"
  /\ previous = NoPackage /\ rollback = NoPackage
  /\ updater = Idle /\ told = "nothing"

At(pc) == updater.pc = pc
GoTo(pc) == updater' = [updater EXCEPT !.pc = pc, !.next = 1]

\* One more of the files is done, and after the last one the step pc follows.
Advance(pc) ==
  updater' = IF updater.next = Files THEN [updater EXCEPT !.pc = pc, !.next = 1]
             ELSE [updater EXCEPT !.next = @ + 1]

\* (Faulty variant: the workspace always goes.)
EndClean(outcome) ==
  /\ updater' = Idle /\ told' = outcome
  /\ workspace' = "absent" /\ previous' = NoPackage

\* update_workspace on the way out: a marked workspace is kept.
End(outcome) ==
  /\ updater' = Idle /\ told' = outcome
  /\ IF workspace = "marked" THEN UNCHANGED <<workspace, previous>>
     ELSE workspace' = "absent" /\ previous' = NoPackage

-----------------------------------------------------------------------------
(***************************************************************************)
(* Preparation: nothing of the installation is touched.                    *)
(***************************************************************************)
\* The two programs are checked against the release file beside them; the last
\* file, the tool itself, is not.
Accepts(target) ==
  /\ workspace = "absent" /\ service = "active"
  /\ rollback = NoPackage \/ Whole(rollback)
  /\ \A n \in Name \ {Files} : installed[n] = installed[1]
  /\ installed[1] # target

Begin(target) ==
  /\ updater = Idle
  /\ IF Accepts(target)
     THEN /\ updater' = [pc |-> "prepare", target |-> target, next |-> 1]
          /\ workspace' = "plain" /\ before' = installed[1] /\ told' = "nothing"
     ELSE /\ told' = "refused"
          /\ UNCHANGED <<updater, workspace, before>>
  /\ UNCHANGED <<installed, service, previous, rollback>>

\* The candidate is fetched and checked; the administrator types "update".
Confirm ==
  /\ At("prepare")
  /\ GoTo("keep")
  /\ UNCHANGED <<installed, service, workspace, previous, rollback, told, before>>

Cancel ==
  /\ At("prepare")
  /\ End("cancelled")
  /\ UNCHANGED <<installed, service, rollback, before>>

KeepPrevious ==
  /\ At("keep")
  /\ previous' = [previous EXCEPT ![updater.next] = installed[updater.next]]
  /\ Advance("mark")
  /\ UNCHANGED <<installed, service, workspace, rollback, told, before>>

Mark ==
  /\ At("mark")
  /\ workspace' = "marked"
  /\ GoTo("stop")
  /\ UNCHANGED <<installed, service, previous, rollback, told, before>>

-----------------------------------------------------------------------------
(***************************************************************************)
(* Replacement.                                                            *)
(***************************************************************************)
Stop ==
  /\ At("stop")
  /\ service' = "stopped"
  /\ GoTo("replace")
  /\ UNCHANGED <<installed, workspace, previous, rollback, told, before>>

Replace ==
  /\ At("replace")
  /\ installed' = [installed EXCEPT ![updater.next] = updater.target]
  /\ Advance("start")
  /\ UNCHANGED <<service, workspace, previous, rollback, told, before>>

Start ==
  /\ At("start")
  /\ service' \in {"active", "failed"}
  /\ GoTo("verify")
  /\ UNCHANGED <<installed, workspace, previous, rollback, told, before>>

\* (Faulty variant: the marker goes when the heartbeat is accepted.)
VerifyUnmarks ==
  /\ At("verify") /\ service = "active"
  /\ workspace' = "plain"
  /\ GoTo("forget")
  /\ UNCHANGED <<installed, service, previous, rollback, told, before>>

\* verify_running: a real heartbeat, and the service still active after it.
Verify ==
  /\ At("verify") /\ service = "active"
  /\ GoTo("forget")
  /\ UNCHANGED <<installed, service, workspace, previous, rollback, told, before>>

\* (Faulty variant: the service is just started again.)
ExceptRestarts ==
  /\ At("replace") \/ At("start") \/ At("verify")
  /\ GoTo("restart")
  /\ UNCHANGED <<installed, service, workspace, previous, rollback, told, before>>

\* Whatever goes wrong from the first replacement to the verification.
Except ==
  /\ At("replace") \/ At("start") \/ At("verify")
  /\ GoTo("undo")
  /\ UNCHANGED <<installed, service, workspace, previous, rollback, told, before>>

Undo ==
  /\ At("undo")
  /\ service' = "stopped"
  /\ GoTo("putBack")
  /\ UNCHANGED <<installed, workspace, previous, rollback, told, before>>

\* (Faulty variant: the last file is forgotten.)
PutBackButLast ==
  /\ At("putBack")
  /\ installed' = IF updater.next = Files THEN installed
                  ELSE [installed EXCEPT ![updater.next] = previous[updater.next]]
  /\ Advance("restart")
  /\ UNCHANGED <<service, workspace, previous, rollback, told, before>>

PutBack ==
  /\ At("putBack")
  /\ installed' = [installed EXCEPT ![updater.next] = previous[updater.next]]
  /\ Advance("restart")
  /\ UNCHANGED <<service, workspace, previous, rollback, told, before>>

Restart ==
  /\ At("restart")
  /\ service' \in {"active", "failed"}
  /\ GoTo("recheck")
  /\ UNCHANGED <<installed, workspace, previous, rollback, told, before>>

Recheck ==
  /\ At("recheck") /\ service = "active"
  /\ GoTo("unmark")
  /\ UNCHANGED <<installed, service, workspace, previous, rollback, told, before>>

\* The old package is back and has reported: the marker and the workspace go.
Restored ==
  /\ At("unmark")
  /\ \/ workspace = "marked" /\ workspace' = "plain"
        /\ UNCHANGED <<previous, updater, told>>
     \/ workspace = "plain" /\ End("restored")
  /\ UNCHANGED <<installed, service, rollback, before>>

-----------------------------------------------------------------------------
(***************************************************************************)
(* The previous package becomes the one that is retained.                  *)
(***************************************************************************)
\* validate_rollback, then rmtree of the package that was retained so far.
Forget ==
  /\ At("forget") /\ (rollback = NoPackage \/ Whole(rollback) \/ updater.next > 1)
  /\ rollback' = [rollback EXCEPT ![updater.next] = None]
  /\ Advance("retain")
  /\ UNCHANGED <<installed, service, workspace, previous, told, before>>

\* (Faulty variant: the marker goes first.)
RetainUnmarked ==
  /\ At("retain")
  /\ \/ workspace = "marked" /\ workspace' = "plain"
        /\ UNCHANGED <<previous, rollback, updater>>
     \/ workspace = "plain" /\ rollback' = previous /\ previous' = NoPackage
        /\ GoTo("finish") /\ UNCHANGED workspace
  /\ UNCHANGED <<installed, service, told, before>>

Retain ==
  /\ At("retain")
  /\ rollback' = previous /\ previous' = NoPackage
  /\ GoTo("finish")
  /\ UNCHANGED <<installed, service, workspace, told, before>>

Finish ==
  /\ At("finish")
  /\ \/ workspace = "marked" /\ workspace' = "plain"
        /\ UNCHANGED <<previous, updater, told>>
     \/ workspace = "plain" /\ End("updated")
  /\ UNCHANGED <<installed, service, rollback, before>>

-----------------------------------------------------------------------------
(***************************************************************************)
(* Errors outside the try block, among them a systemctl that fails or      *)
(* takes too long - what it was asked may still have happened - and what   *)
(* the process cannot handle at all.                                       *)
(***************************************************************************)
Raise ==
  /\ updater # Idle
  /\ ~At("replace") /\ ~At("start") /\ ~At("verify")
  /\ End("failed")
  /\ service' \in IF At("stop") \/ At("undo") THEN {service, "stopped"}
                  ELSE IF At("restart") THEN {service, "active", "failed"} ELSE {service}
  /\ UNCHANGED <<installed, rollback, before>>

Kill ==
  /\ updater # Idle
  /\ updater' = Idle /\ told' = "failed"
  /\ UNCHANGED <<installed, service, workspace, previous, rollback, before>>

\* An orderly restart of the machine ends the updater like a kill; the enabled
\* service starts with what is installed.
Reboot ==
  /\ updater' = Idle
  /\ told' = IF updater = Idle THEN told ELSE "failed"
  /\ service' \in {"active", "failed"}
  /\ UNCHANGED <<installed, workspace, previous, rollback, before>>

Next ==
  \/ \E target \in Version : Begin(target)
  \/ Confirm \/ Cancel \/ KeepPrevious \/ Mark
  \/ Stop \/ Replace \/ Start \/ Verify
  \/ Except \/ Undo \/ PutBack \/ Restart \/ Recheck \/ Restored
  \/ Forget \/ Retain \/ Finish
  \/ Raise \/ Kill \/ Reboot

Spec == Init /\ [][Next]_vars

-----------------------------------------------------------------------------
(***************************************************************************)
(* Properties.                                                             *)
(***************************************************************************)

\* Through errors, interrupts, kills and orderly restarts the package the update
\* began with is complete in one place: installed, in the workspace, or retained.
OldPackageKept ==
  \E files \in {installed, previous, rollback} : files = Package(before)

\* With no updater running and no workspace to inspect, the installed files
\* are of one version and the service was not left stopped.
QuietIsWhole ==
  updater = Idle /\ workspace = "absent" => Whole(installed) /\ service # "stopped"

\* "Update passed" and "old package restored" mean what they say.
ReportsAreTrue ==
  /\ told = "updated" => Whole(installed) /\ installed # Package(before)
                         /\ rollback = Package(before)
  /\ told = "restored" => installed = Package(before)

\* The updater never starts the service on files of two versions, whichever
\* replacement failed and wherever it was interrupted.
MixtureNotStarted ==
  [][service # "active" /\ service' = "active" /\ (Reboot => At("restart")) => Whole(installed)]_vars

\* A half-deleted rollback is never left without a workspace that stops the
\* next update, which would refuse it for good.
RollbackWhole ==
  workspace = "absent" => rollback = NoPackage \/ Whole(rollback)

-----------------------------------------------------------------------------
(***************************************************************************)
(* What the administrator sees of it: AtomicUpdate.                        *)
(***************************************************************************)
\* The versions of some files, None for one that is missing.
Versions(files) == {files[n] : n \in Name}

\* During an update, and until what one left is inspected, what was before it.
SeenPackage == IF workspace = "absent" THEN Versions(installed) ELSE {before}

Target == IF updater = Idle THEN None ELSE updater.target

Place ==
  IF workspace = "absent" THEN "quiet"
  ELSE IF updater = Idle THEN "left"
  ELSE IF updater.pc \in {"forget", "retain", "finish"} THEN "switching"
  ELSE "trying"

Atomic == INSTANCE AtomicUpdate WITH
  package <- SeenPackage, retained <- Versions(rollback), target <- Target, place <- Place

\* File by file, with errors, interrupts, kills and orderly restarts anywhere, an
\* update still goes from one whole package to another with the old one retained,
\* or not at all, or is left to be inspected and no other begins.  (For a loss of
\* power docs/AGENT-INSTALLER.md:27 denies as much.)
ImplementsUpdate == Atomic!Spec
=============================================================================
