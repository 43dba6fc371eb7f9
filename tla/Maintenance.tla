----------------------------- MODULE Maintenance -----------------------------
(***************************************************************************)
(* Rollback points and the scripts that make, use and remove them:         *)
(* upgrade-prepare.py saves the current programs in a directory of its own *)
(* and registers it, deploy-chart-hub.py prepares such a point, replaces   *)
(* the hub and goes back if the new one does not work, and                 *)
(* storage-maintenance.py keeps the newest registered points.              *)
(*                                                                         *)
(* All take the same file lock, but the deployment takes it only after the *)
(* preparation it started has given it back.  Every step may fail, be      *)
(* interrupted from the keyboard or be killed; the lock goes with the      *)
(* process.  Creation times are taken to grow; they are counted here.      *)
(* The deployment's label and build, fixed in its text, are any here: the  *)
(* script is edited for the next release.  Left out: temporary artifacts,  *)
(* the timers a deployment stops and starts, free space.                   *)
(***************************************************************************)
EXTENDS Naturals, FiniteSets

CONSTANTS
  Release,  \* release labels
  None,     \* no release
  Version,  \* builds of the hub
  Keep      \* rollback points to keep (3)

ASSUME DistinctValues ==
  /\ None \notin Release
  /\ Keep \in Nat \ {0}
  /\ Version # {}

VARIABLES
  manifest,   \* maintenance-artifacts.json: created_at of a registered point, else 0
  dirs,       \* the directory of a release: "none", "partial" or "whole"
  saved,      \* the hub in it
  live,       \* the installed hub
  service,    \* the hub's service: "active", "stopped", "failed"
  lock,       \* who holds .maintenance.lock
  prepare,    \* the preparations, by hand and by the deployment
  maintain,   \* the maintenance run
  deploy,     \* the deployment
  committed   \* history: points whose preparation succeeded

vars == <<manifest, dirs, saved, live, service, lock, prepare, maintain, deploy,
          committed>>

hub == <<live, service>>
points == <<manifest, dirs, saved, committed>>

-----------------------------------------------------------------------------
By == {"hand", "deployment"}
Preparation == [pc: {"idle", "lock", "fill", "register", "commit", "undo", "done", "failed"},
                release: Release \union {None}]
Idle == [pc |-> "idle", release |-> None]

Upgrade == [pc: {"idle", "prepare", "lock", "stop", "replace", "start", "check",
                 "putBack", "restart"},
            release: Release \union {None}, candidate: Version, before: Version]

Registered == {r \in Release : manifest[r] # 0}
Present == {r \in Registered : dirs[r] # "none"}
WholePoints == {r \in Registered : dirs[r] = "whole"}

TypeOK ==
  /\ manifest \in [Release -> Nat]
  /\ dirs \in [Release -> {"none", "partial", "whole"}]
  /\ saved \in [Release -> Version]
  /\ live \in Version /\ service \in {"active", "stopped", "failed"}
  /\ lock \in By \union {"nobody", "maintenance", "activation"}
  /\ prepare \in [By -> Preparation]
  /\ maintain \in [pc: {"idle", "remove"}, targets: SUBSET Registered]
  /\ deploy \in Upgrade /\ committed \subseteq Registered
  /\ \A by \in By : prepare[by].pc \in {"fill", "register", "commit", "undo"} <=> lock = by
  /\ maintain.pc = "remove" <=> lock = "maintenance"
  /\ deploy.pc \in {"stop", "replace", "start", "check", "putBack", "restart"}
       <=> lock = "activation"

Init ==
  /\ manifest = [r \in Release |-> 0] /\ dirs = [r \in Release |-> "none"]
  /\ live \in Version /\ saved = [r \in Release |-> live]
  /\ service = "active" /\ lock = "nobody"
  /\ prepare = [by \in By |-> Idle]
  /\ maintain = [pc |-> "idle", targets |-> {}]
  /\ deploy = [pc |-> "idle", release |-> None, candidate |-> live, before |-> live]
  /\ committed = {}

-----------------------------------------------------------------------------
(***************************************************************************)
(* upgrade-prepare.py                                                      *)
(***************************************************************************)
At(by, pc) == prepare[by].pc = pc
GoTo(by, pc) == prepare' = [prepare EXCEPT ![by].pc = pc]

Deploying(pc) == deploy.pc = pc

Free(r) == dirs[r] = "none" /\ r \notin Registered

\* The arguments are checked before there is a lock.
Prepare(by, r) ==
  /\ At(by, "idle") /\ Free(r)
  /\ by = "deployment" => Deploying("prepare") /\ deploy.release = r
  /\ prepare' = [prepare EXCEPT ![by] = [pc |-> "lock", release |-> r]]
  /\ UNCHANGED <<points, hub, lock, maintain, deploy>>

\* With the lock the manifest is read again and the directory made.
Lock(by) ==
  LET r == prepare[by].release IN
  /\ At(by, "lock")
  /\ IF lock = "nobody" /\ Free(r)
     THEN lock' = by /\ dirs' = [dirs EXCEPT ![r] = "partial"] /\ GoTo(by, "fill")
     ELSE GoTo(by, "failed") /\ UNCHANGED <<lock, dirs>>
  /\ UNCHANGED <<manifest, saved, committed, hub, maintain, deploy>>

\* The old programs, the candidates, the units and a database snapshot.
Fill(by) ==
  LET r == prepare[by].release IN
  /\ At(by, "fill")
  /\ dirs' = [dirs EXCEPT ![r] = "whole"] /\ saved' = [saved EXCEPT ![r] = live]
  /\ GoTo(by, "register")
  /\ UNCHANGED <<manifest, committed, hub, lock, maintain, deploy>>

Register(by) ==
  /\ At(by, "register")
  /\ manifest' = [manifest EXCEPT ![prepare[by].release] = Cardinality(Registered) + 1]
  /\ GoTo(by, "commit")
  /\ UNCHANGED <<dirs, saved, committed, hub, lock, maintain, deploy>>

Commit(by) ==
  /\ At(by, "commit")
  /\ committed' = committed \union {prepare[by].release}
  /\ lock' = "nobody" /\ GoTo(by, "done")
  /\ UNCHANGED <<manifest, dirs, saved, hub, maintain, deploy>>

\* A step fails or is interrupted, the last of all between the manifest and the
\* flag that would have kept the directory.
Undo(by) ==
  /\ At(by, "fill") \/ At(by, "register") \/ At(by, "commit")
  /\ GoTo(by, "undo")
  /\ UNCHANGED <<points, hub, lock, maintain, deploy>>

\* rmtree, to the end or not.
Discard(by) ==
  /\ At(by, "undo")
  /\ \E state \in {"none", "partial"} :
       dirs' = [dirs EXCEPT ![prepare[by].release] = state]
  /\ lock' = "nobody" /\ GoTo(by, "failed")
  /\ UNCHANGED <<manifest, saved, committed, hub, maintain, deploy>>

Kill(by) ==
  /\ prepare[by].pc \notin {"idle", "done", "failed"}
  /\ lock' = (IF lock = by THEN "nobody" ELSE lock) /\ GoTo(by, "failed")
  /\ UNCHANGED <<points, hub, maintain, deploy>>

\* Its end is known, to the deployment (see Prepared) if that still waits.
Ended(by) ==
  /\ At(by, "done") \/ At(by, "failed")
  /\ by = "deployment" => ~Deploying("prepare")
  /\ prepare' = [prepare EXCEPT ![by] = Idle]
  /\ UNCHANGED <<points, hub, lock, maintain, deploy>>

-----------------------------------------------------------------------------
(***************************************************************************)
(* storage-maintenance.py --apply                                          *)
(***************************************************************************)
Newer(r, among) == {s \in among : manifest[s] > manifest[r]}

\* What is left without the newest.
Oldest(among) == {r \in among : Cardinality(Newer(r, among)) >= Keep}

\* (Faulty variant: the points whose directories are gone are counted too.)
SurplusOfAll == Oldest(Registered) \intersect Present

\* (Faulty variant: the oldest are kept.)
SurplusNewest ==
  {r \in Present : Cardinality({s \in Present : manifest[s] < manifest[r]}) >= Keep}

\* All but the newest of the points that are there.
Surplus == Oldest(Present)

\* Under the lock: read, plan, and see that no backup or restore is running.
Maintain ==
  /\ maintain.pc = "idle" /\ lock = "nobody"
  /\ lock' = "maintenance"
  /\ maintain' = [pc |-> "remove", targets |-> Surplus]
  /\ UNCHANGED <<points, hub, prepare, deploy>>

\* The directories go, in the order of their names, each at first in part.
Delete(r) ==
  /\ maintain.pc = "remove" /\ r \in maintain.targets
  /\ \/ dirs' = [dirs EXCEPT ![r] = "partial"] /\ UNCHANGED maintain
     \/ dirs' = [dirs EXCEPT ![r] = "none"]
        /\ maintain' = [maintain EXCEPT !.targets = @ \ {r}]
  /\ UNCHANGED <<manifest, saved, committed, hub, lock, prepare, deploy>>

\* The report is written, or the run fails or is killed (after two minutes at
\* the latest).
EndMaintenance ==
  /\ maintain.pc = "remove"
  /\ lock' = "nobody"
  /\ maintain' = [pc |-> "idle", targets |-> {}]
  /\ UNCHANGED <<points, hub, prepare, deploy>>

-----------------------------------------------------------------------------
(***************************************************************************)
(* deploy-chart-hub.py                                                     *)
(***************************************************************************)
Proceed(pc) == deploy' = [deploy EXCEPT !.pc = pc]

Begin(r, v) ==
  /\ Deploying("idle") /\ service = "active"
  /\ prepare["deployment"] = Idle
  /\ deploy' = [pc |-> "prepare", release |-> r, candidate |-> v, before |-> live]
  /\ UNCHANGED <<points, hub, lock, prepare, maintain>>

\* The preparation is run and its exit status looked at.
Prepared ==
  /\ Deploying("prepare") /\ At("deployment", "done")
  /\ Proceed("lock")
  /\ prepare' = [prepare EXCEPT !["deployment"] = Idle]
  /\ UNCHANGED <<points, hub, lock, maintain>>

Activate ==
  /\ Deploying("lock") /\ lock = "nobody"
  /\ lock' = "activation" /\ Proceed("stop")
  /\ UNCHANGED <<points, hub, prepare, maintain>>

Stop ==
  /\ Deploying("stop") /\ service' = "stopped" /\ Proceed("replace")
  /\ UNCHANGED <<points, live, lock, prepare, maintain>>

Replace ==
  /\ Deploying("replace") /\ live' = deploy.candidate /\ Proceed("start")
  /\ UNCHANGED <<points, service, lock, prepare, maintain>>

Start ==
  /\ Deploying("start") /\ service' \in {"active", "failed"} /\ Proceed("check")
  /\ UNCHANGED <<points, live, lock, prepare, maintain>>

\* The new hub works: two probes, heartbeats that go on, nothing else changed.
Passed ==
  /\ Deploying("check") /\ service = "active"
  /\ Proceed("idle") /\ lock' = "nobody"
  /\ UNCHANGED <<points, hub, prepare, maintain>>

\* Whatever goes wrong once the hub was stopped.
Except ==
  /\ Deploying("replace") \/ Deploying("start") \/ Deploying("check")
  /\ service' = "stopped" /\ Proceed("putBack")
  /\ UNCHANGED <<points, live, lock, prepare, maintain>>

\* From the point, as long as the hub is still in it: one that is half removed may
\* have it or not, and without it the deployment fails (EndDeployment).
PutBack ==
  /\ Deploying("putBack") /\ dirs[deploy.release] # "none"
  /\ live' = saved[deploy.release] /\ Proceed("restart")
  /\ UNCHANGED <<points, service, lock, prepare, maintain>>

Restart ==
  /\ Deploying("restart") /\ service' \in {"active", "failed"}
  /\ Proceed("idle") /\ lock' = "nobody"
  /\ UNCHANGED <<points, live, prepare, maintain>>

\* It fails before the hub was stopped or while it is put back, or is killed.  The
\* stop itself may fail, or be interrupted, after the hub went down.
EndDeployment ==
  /\ ~Deploying("idle")
  /\ Proceed("idle")
  /\ lock' = IF lock = "activation" THEN "nobody" ELSE lock
  /\ service' \in {service} \union (IF Deploying("stop") THEN {"stopped"} ELSE {})
  /\ UNCHANGED <<points, live, prepare, maintain>>

\* The administrator brings the hub up again.
Repair ==
  /\ Deploying("idle") /\ service # "active"
  /\ service' = "active"
  /\ UNCHANGED <<points, live, lock, prepare, maintain, deploy>>

Next ==
  \/ \E by \in By :
       \/ \E r \in Release : Prepare(by, r)
       \/ Lock(by) \/ Fill(by) \/ Register(by) \/ Commit(by)
       \/ Undo(by) \/ Discard(by) \/ Kill(by) \/ Ended(by)
  \/ Maintain \/ (\E r \in Release : Delete(r)) \/ EndMaintenance
  \/ \E r \in Release, v \in Version : Begin(r, v)
  \/ Prepared \/ Activate \/ Stop \/ Replace \/ Start \/ Passed
  \/ Except \/ PutBack \/ Restart \/ EndDeployment
  \/ Repair

Spec == Init /\ [][Next]_vars

-----------------------------------------------------------------------------
(***************************************************************************)
(* Properties.                                                             *)
(***************************************************************************)

\* While the deployment may have to go back, its rollback point is whole and has
\* the hub it replaced, and once it went back that hub is installed, although the
\* lock was free after the preparation: only as many newer points as are kept could
\* have pushed it out.
RollbackReady ==
  /\ deploy.pc \in {"stop", "replace", "start", "check", "putBack"} =>
       \/ dirs[deploy.release] = "whole" /\ saved[deploy.release] = deploy.before
       \/ deploy.release \in Oldest(Registered)
  /\ Deploying("restart") => live = deploy.before

\* Of the registered points that are there, as many as are to be kept (or as were
\* prepared, if fewer) are whole, or are what a failed preparation left of its own
\* registered point, whatever was interrupted or cleaned up.  Such a leftover counts
\* among the newest like any other (docs/STORAGE-LIFECYCLE.md:9 speaks of registered
\* points), so that fewer whole ones may stand; but no removal that was cut short,
\* and no other failure, costs one.
PointsKept ==
  LET kept == WholePoints \union (Present \ committed)
      prepared == Cardinality(committed)
  IN Cardinality(kept) >= IF prepared < Keep THEN prepared ELSE Keep
=============================================================================
