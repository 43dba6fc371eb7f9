-------------------------- MODULE Maintenance_proofs --------------------------
(***************************************************************************)
(* What Maintenance guarantees for any releases and builds and any number  *)
(* of rollback points to keep.                                             *)
(*                                                                         *)
(* A point is removed only when as many newer ones stand as are kept; what *)
(* removals cut short and preparations that fail have left behind must not *)
(* be counted among these.                                                 *)
(***************************************************************************)
EXTENDS Maintenance, FiniteSetTheorems, WellFoundedInduction, NaturalsInduction, TLAPS

\* The preparation is between its lock and its end.
Working(by) == prepare[by].pc \in {"fill", "register", "commit", "undo"}

\* No two points were registered at the same time.
PointInv ==
  /\ IsFiniteSet(Registered)
  /\ \A r \in Registered : manifest[r] <= Cardinality(Registered)
  /\ \A r, s \in Registered : manifest[r] = manifest[s] => r = s

\* A preparation under way has a release of its own.
PrepareInv ==
  \A by \in By :
    /\ ~At(by, "idle") => prepare[by].release \in Release
    /\ Working(by) => prepare[by].release \notin committed
    /\ At(by, "fill") \/ At(by, "register") => prepare[by].release \notin Registered
    /\ At(by, "register") \/ At(by, "commit") => dirs[prepare[by].release] = "whole"
    /\ At(by, "commit") => prepare[by].release \in Registered

\* What is removed, or may be, is old.
MaintainInv ==
  /\ maintain.pc = "idle" => maintain.targets = {}
  /\ maintain.targets \subseteq Oldest(Registered)

\* The rollback point of the deployment was made.
Made ==
  /\ deploy.release \in committed /\ saved[deploy.release] = deploy.before
  /\ dirs[deploy.release] = "whole" \/ deploy.release \in Oldest(Registered)

DeployInv ==
  /\ ~Deploying("idle") => deploy.release \in Release
  /\ Deploying("prepare") /\ ~At("deployment", "idle") =>
       prepare["deployment"].release = deploy.release
  /\ Deploying("prepare") /\ (At("deployment", "register") \/ At("deployment", "commit")) =>
       saved[deploy.release] = deploy.before
  /\ Deploying("prepare") /\ At("deployment", "done") => Made
  /\ deploy.pc \in {"lock", "stop", "replace", "start", "check", "putBack"} => Made
  /\ deploy.pc \in {"prepare", "lock", "stop", "replace", "restart"} => live = deploy.before

\* Points that nothing is about to remove: whole, or left by a failed preparation.
Standing ==
  (WholePoints \union (Present \ committed))
    \ (maintain.targets \union {prepare[by].release : by \in {b \in By : Working(b)}})

\* A point goes only if as many newer ones as are kept stand.
CountInv ==
  \A r \in committed :
    dirs[r] # "whole" \/ r \in maintain.targets => Cardinality(Newer(r, Standing)) >= Keep

UpgradeInv ==
  TypeOK /\ PointInv /\ PrepareInv /\ MaintainInv /\ DeployInv /\ CountInv

-----------------------------------------------------------------------------
\* At first nothing is registered and nobody is at work.
LEMMA InitUpgrade == Init => UpgradeInv
<1> SUFFICES ASSUME Init PROVE UpgradeInv
  OBVIOUS
<1> USE DistinctValues DEF Init, Idle
<1>1. Registered = {}
  BY DEF Registered
<1>2. TypeOK
  BY <1>1 DEF TypeOK, Preparation, Upgrade, By
<1>3. PointInv
  BY <1>1, FS_EmptySet DEF PointInv
<1>4. PrepareInv /\ DeployInv /\ MaintainInv
  BY DEF PrepareInv, DeployInv, MaintainInv, At, Deploying, Working, By, Made
<1>5. CountInv
  BY DEF CountInv
<1> QED BY <1>2, <1>3, <1>4, <1>5 DEF UpgradeInv

\* Steps of the deployment after its preparation, and of the administrator.
Deployment ==
  \/ Prepared \/ Activate \/ Stop \/ Replace \/ Start \/ Passed \/ Except \/ PutBack
  \/ Restart \/ EndDeployment \/ Repair

\* The types are kept.
LEMMA TypeStep == TypeOK /\ PointInv /\ PrepareInv /\ DeployInv /\ [Next]_vars => TypeOK'
<1> SUFFICES ASSUME TypeOK, PointInv, PrepareInv, DeployInv, [Next]_vars PROVE TypeOK'
  OBVIOUS
<1> USE DistinctValues DEF TypeOK, Preparation, Upgrade, At, GoTo, Deploying, Proceed, Idle,
      hub, points
<1>1. ASSUME NEW by \in By, NEW r \in Release, Prepare(by, r) PROVE TypeOK'
  BY <1>1 DEF Prepare, By, Registered
<1>2. ASSUME NEW by \in By, Lock(by) PROVE TypeOK'
  BY <1>2 DEF Lock, By, Registered
<1>3. ASSUME NEW by \in By, Fill(by) PROVE TypeOK'
  BY <1>3 DEF Fill, By, Registered
<1>4. ASSUME NEW by \in By, Register(by) PROVE TypeOK'
  <2>1. Cardinality(Registered) + 1 \in Nat \ {0}
    BY FS_CardinalityType DEF PointInv
  <2>2. prepare[by].release \in Release
    BY <1>4 DEF Register, PrepareInv
  <2>3. manifest' \in [Release -> Nat] /\ Registered \subseteq Registered'
    BY <1>4, <2>1, <2>2 DEF Register, Registered
  <2> QED BY <1>4, <2>3 DEF Register, By
<1>5. ASSUME NEW by \in By, Commit(by) PROVE TypeOK'
  BY <1>5 DEF Commit, By, Registered, PrepareInv
<1>6. ASSUME NEW by \in By, Undo(by) \/ Discard(by) \/ Kill(by) \/ Ended(by) PROVE TypeOK'
  BY <1>6 DEF Undo, Discard, Kill, Ended, By, Registered
<1>7. CASE Maintain \/ EndMaintenance \/ \E r \in Release : Delete(r)
  <2> USE DEF By
  <2>1. CASE Maintain
    <3>1. Surplus \subseteq Registered
      BY DEF Surplus, Oldest, Present
    <3> QED BY <2>1, <3>1 DEF Maintain, Registered
  <2>2. CASE EndMaintenance
    BY <2>2 DEF EndMaintenance, Registered
  <2>3. ASSUME NEW r \in Release, Delete(r) PROVE TypeOK'
    BY <2>3 DEF Delete, Registered
  <2> QED BY <1>7, <2>1, <2>2, <2>3
<1>8. ASSUME NEW r \in Release, NEW v \in Version, Begin(r, v) PROVE TypeOK'
  BY <1>8 DEF Begin, By, Registered
<1>9. CASE Deployment
  <2> USE DEF By, Registered
  <2>1. CASE Prepared \/ Activate \/ Stop
    BY <2>1 DEF Prepared, Activate, Stop
  <2>2. CASE Replace \/ Start \/ Passed
    BY <2>2 DEF Replace, Start, Passed
  <2>3. CASE Except \/ Restart
    BY <2>3 DEF Except, Restart
  <2>4. CASE PutBack
    <3>1. live' \in Version
      BY <2>4, DistinctValues DEF PutBack, DeployInv
    <3> QED BY <2>4, <3>1 DEF PutBack
  <2>5. CASE EndDeployment
    BY <2>5 DEF EndDeployment
  <2>6. CASE Repair
    BY <2>6 DEF Repair
  <2> QED BY <1>9, <2>1, <2>2, <2>3, <2>4, <2>5, <2>6 DEF Deployment
<1>10. CASE UNCHANGED vars
  BY <1>10 DEF vars, By, Registered
<1> QED
  BY <1>1, <1>2, <1>3, <1>4, <1>5, <1>6, <1>7, <1>8, <1>9, <1>10 DEF Next, Deployment

-----------------------------------------------------------------------------
\* A finite set that has a part of so many members has so many.
LEMMA CountMore ==
  ASSUME NEW U, IsFiniteSet(U), NEW T \in SUBSET U, NEW S \in SUBSET T, Cardinality(S) >= Keep
  PROVE  Cardinality(T) >= Keep
<1>0. IsFiniteSet(T)
  BY FS_Subset
<1>1. IsFiniteSet(S) /\ Cardinality(S) <= Cardinality(T)
  BY <1>0, FS_Subset
<1>2. Cardinality(S) \in Nat /\ Cardinality(T) \in Nat /\ Keep \in Nat
  BY <1>0, <1>1, FS_CardinalityType, DistinctValues
<1> QED BY <1>1, <1>2

\* Which steps change what.
LEMMA OthersMaintain ==
  ASSUME [Next]_vars
  PROVE  maintain' = maintain \/ Maintain \/ EndMaintenance \/ \E r \in Release : Delete(r)
<1>1. ASSUME NEW by \in By, NEW r \in Release, Prepare(by, r) PROVE maintain' = maintain
  BY <1>1 DEF Prepare
<1>2. ASSUME NEW by \in By,
             \/ Lock(by) \/ Fill(by) \/ Register(by) \/ Commit(by)
             \/ Undo(by) \/ Discard(by) \/ Kill(by) \/ Ended(by)
      PROVE  maintain' = maintain
  BY <1>2 DEF Lock, Fill, Register, Commit, Undo, Discard, Kill, Ended
<1>3. ASSUME NEW r \in Release, NEW v \in Version, Begin(r, v) PROVE maintain' = maintain
  BY <1>3 DEF Begin
<1>4. CASE Deployment
  BY <1>4 DEF Deployment, Prepared, Activate, Stop, Replace, Start,
     Passed, Except, PutBack, Restart, EndDeployment, Repair
<1>5. CASE UNCHANGED vars
  BY <1>5 DEF vars
<1> QED BY <1>1, <1>2, <1>3, <1>4, <1>5 DEF Next, Deployment

LEMMA OthersPoints ==
  ASSUME [Next]_vars
  PROVE  \/ UNCHANGED <<dirs, saved, committed>>
         \/ \E by \in By : Lock(by) \/ Fill(by) \/ Discard(by) \/ Commit(by)
         \/ \E r \in Release : Delete(r)
<1> USE DEF points
<1>1. ASSUME NEW by \in By, NEW r \in Release, Prepare(by, r)
      PROVE  UNCHANGED <<dirs, saved, committed>>
  BY <1>1 DEF Prepare
<1>2. ASSUME NEW by \in By, Register(by) \/ Undo(by) \/ Kill(by) \/ Ended(by)
      PROVE  UNCHANGED <<dirs, saved, committed>>
  BY <1>2 DEF Register, Undo, Kill, Ended
<1>3. ASSUME NEW r \in Release, NEW v \in Version, Begin(r, v)
      PROVE  UNCHANGED <<dirs, saved, committed>>
  BY <1>3 DEF Begin
<1>4. CASE Maintain \/ EndMaintenance \/ Deployment
  BY <1>4 DEF Maintain, EndMaintenance, Deployment, Prepared, Activate, Stop, Replace, Start,
     Passed, Except, PutBack, Restart, EndDeployment, Repair
<1>5. CASE UNCHANGED vars
  BY <1>5 DEF vars
<1> QED BY <1>1, <1>2, <1>3, <1>4, <1>5 DEF Next, Deployment

-----------------------------------------------------------------------------
\* Only Register changes the manifest, and it adds a point later than the others.
LEMMA ManifestStep ==
  ASSUME TypeOK, PointInv, PrepareInv, [Next]_vars
  PROVE  /\ PointInv' /\ Registered \subseteq Registered'
         /\ \A r \in Registered : manifest'[r] = manifest[r]
<1>1. CASE manifest' = manifest
  BY <1>1 DEF PointInv, Registered
<1>2. ASSUME NEW by \in By, Register(by)
      PROVE  /\ PointInv' /\ Registered \subseteq Registered'
             /\ \A r \in Registered : manifest'[r] = manifest[r]
  <2> DEFINE new == prepare[by].release
             n == Cardinality(Registered)
  <2>1. new \in Release \ Registered
    BY <1>2 DEF Register, PrepareInv, At
  <2>2. n \in Nat
    BY FS_CardinalityType DEF PointInv
  <2>3. manifest' = [manifest EXCEPT ![new] = n + 1] /\ manifest \in [Release -> Nat]
    BY <1>2 DEF Register, TypeOK
  <2> HIDE DEF new, n
  <2>4. Registered' = Registered \union {new}
    BY <2>1, <2>2, <2>3 DEF Registered
  <2>5. IsFiniteSet(Registered') /\ Cardinality(Registered') = n + 1
    BY <2>1, <2>4, FS_AddElement DEF PointInv, n
  <2>6. manifest'[new] = n + 1 /\ \A r \in Registered : manifest'[r] = manifest[r]
    BY <2>1, <2>3 DEF Registered
  <2>7. \A r \in Registered : manifest[r] \in Nat /\ manifest[r] <= n
    BY <2>3 DEF PointInv, n, Registered
  <2>8. PointInv'
    <3>1. \A r \in Registered' : manifest'[r] <= n + 1
      BY <2>2, <2>4, <2>6, <2>7
    <3>2. \A r \in Registered : manifest'[r] # manifest'[new]
      BY <2>2, <2>6, <2>7
    <3>3. \A r, s \in Registered' : manifest'[r] = manifest'[s] => r = s
      BY <2>4, <2>6, <3>2 DEF PointInv
    <3> QED BY <2>5, <3>1, <3>3 DEF PointInv
  <2> QED BY <2>4, <2>6, <2>8
<1>3. manifest' = manifest \/ \E by \in By : Register(by)
  <2> USE DEF points
  <2>1. ASSUME NEW by \in By, NEW r \in Release,
               \/ Prepare(by, r) \/ Lock(by) \/ Fill(by) \/ Commit(by)
               \/ Undo(by) \/ Discard(by) \/ Kill(by) \/ Ended(by)
        PROVE  manifest' = manifest
    BY <2>1 DEF Prepare, Lock, Fill, Commit, Undo, Discard, Kill, Ended
  <2>2. ASSUME NEW by \in By,
               \/ Lock(by) \/ Fill(by) \/ Commit(by)
               \/ Undo(by) \/ Discard(by) \/ Kill(by) \/ Ended(by)
        PROVE  manifest' = manifest
    BY <2>2 DEF Lock, Fill, Commit, Undo, Discard, Kill, Ended
  <2>3. ASSUME NEW r \in Release, NEW v \in Version, Delete(r) \/ Begin(r, v)
        PROVE  manifest' = manifest
    BY <2>3 DEF Delete, Begin
  <2>4. ASSUME NEW r \in Release, Delete(r) PROVE manifest' = manifest
    BY <2>4 DEF Delete
  <2>5. CASE Maintain \/ EndMaintenance \/ Deployment
    BY <2>5 DEF Maintain, EndMaintenance, Deployment, Prepared, Activate, Stop, Replace, Start,
       Passed, Except, PutBack, Restart, EndDeployment, Repair
  <2>6. CASE UNCHANGED vars
    BY <2>6 DEF vars
  <2> QED BY <2>1, <2>2, <2>3, <2>4, <2>5, <2>6 DEF Next, Deployment
<1> QED BY <1>1, <1>2, <1>3

\* More points make no point younger.
LEMMA OldestGrows ==
  ASSUME TypeOK, PointInv, PointInv', Registered \subseteq Registered',
         \A r \in Registered : manifest'[r] = manifest[r]
  PROVE  Oldest(Registered) \subseteq Oldest(Registered)'
<1> SUFFICES ASSUME NEW r \in Oldest(Registered) PROVE r \in Oldest(Registered)'
  OBVIOUS
<1> DEFINE newer == Newer(r, Registered)
           later == Newer(r, Registered)'
<1>1. r \in Registered /\ Cardinality(newer) >= Keep
  BY DEF Oldest
<1>2. newer \subseteq later /\ later \subseteq Registered'
  BY <1>1 DEF Newer
<1> HIDE DEF newer, later
<1>3. Cardinality(later) >= Keep
  BY <1>1, <1>2, CountMore DEF PointInv
<1> QED BY <1>1, <1>3 DEF Oldest, later

\* Whoever holds the lock has it alone.
LEMMA Apart ==
  ASSUME TypeOK
  PROVE  /\ \A a, b \in By : Working(a) /\ Working(b) => a = b
         /\ \A a \in By : Working(a) => maintain.pc = "idle"
         /\ \A a \in By : Working(a) =>
              deploy.pc \notin {"stop", "replace", "start", "check", "putBack", "restart"}
         /\ \A a \in By : Working(a) => lock = a
<1>1. \A a \in By : Working(a) <=> lock = a
  BY DEF TypeOK, Working
<1> QED BY <1>1 DEF TypeOK, By

\* Each step keeps the facts about preparations.
LEMMA PrepareStep ==
  TypeOK /\ PointInv /\ PrepareInv /\ MaintainInv /\ [Next]_vars => PrepareInv'
<1> SUFFICES ASSUME TypeOK, PointInv, PrepareInv, MaintainInv, [Next]_vars PROVE PrepareInv'
  OBVIOUS
<1> USE DistinctValues DEF PrepareInv, Working, At, GoTo, Free
<1>1. ASSUME NEW by \in By, NEW r \in Release, Prepare(by, r) PROVE PrepareInv'
  BY <1>1 DEF Prepare, points, Registered, TypeOK
<1>2. ASSUME NEW by \in By, Lock(by) PROVE PrepareInv'
  <2>1. CASE lock = "nobody" /\ Free(prepare[by].release)
    <3>1. /\ prepare' = [prepare EXCEPT ![by].pc = "fill"] /\ prepare \in [By -> Preparation]
          /\ UNCHANGED <<manifest, committed>> /\ Registered' = Registered
      BY <1>2, <2>1 DEF Lock, TypeOK, Registered
    <3>2. \A a \in By : ~Working(a)
      BY <2>1, Apart DEF By
    <3>3. prepare[by].release \notin committed
      BY <2>1 DEF TypeOK
    <3> QED BY <1>2, <2>1, <3>1, <3>2, <3>3 DEF Lock
  <2>2. CASE ~(lock = "nobody" /\ Free(prepare[by].release))
    <3>1. /\ prepare' = [prepare EXCEPT ![by].pc = "failed"] /\ prepare \in [By -> Preparation]
          /\ UNCHANGED <<manifest, dirs, committed>> /\ Registered' = Registered
      BY <1>2, <2>2 DEF Lock, TypeOK, Registered
    <3> QED BY <1>2, <2>2, <3>1 DEF Lock
  <2> QED BY <2>1, <2>2
<1>3. ASSUME NEW by \in By, Fill(by) PROVE PrepareInv'
  BY <1>3, Apart DEF Fill, Registered, TypeOK
<1>4. ASSUME NEW by \in By, Register(by) PROVE PrepareInv'
  <2>1. /\ prepare' = [prepare EXCEPT ![by].pc = "commit"] /\ prepare \in [By -> Preparation]
        /\ UNCHANGED <<dirs, committed>>
    BY <1>4 DEF Register, TypeOK
  <2>2. \A a \in By : Working(a) => a = by
    BY <1>4, Apart DEF Register
  <2>3. prepare[by].release \in Registered'
    <3>1. prepare[by].release \in Release /\ Cardinality(Registered) + 1 # 0
      BY <1>4, FS_CardinalityType DEF Register, PointInv
    <3> QED BY <1>4, <3>1 DEF Register, Registered, TypeOK
  <2> QED BY <1>4, <2>1, <2>2, <2>3 DEF Register
<1>5. ASSUME NEW by \in By, Commit(by) PROVE PrepareInv'
  BY <1>5, Apart DEF Commit, Registered, TypeOK
<1>6. ASSUME NEW by \in By, Undo(by) \/ Discard(by) \/ Kill(by) \/ Ended(by) PROVE PrepareInv'
  <2>1. CASE Undo(by)
    BY <1>6, <2>1, Apart DEF Undo, points, Registered, TypeOK
  <2>2. CASE Discard(by)
    <3>1. \A a \in By : Working(a) => a = by
      BY <2>2, Apart DEF Discard
    <3>2. /\ prepare' = [prepare EXCEPT ![by].pc = "failed"] /\ prepare \in [By -> Preparation]
          /\ UNCHANGED <<manifest, committed>>
      BY <2>2 DEF Discard, TypeOK
    <3> QED BY <2>2, <3>1, <3>2 DEF Discard
  <2>3. CASE Kill(by)
    BY <1>6, <2>3, Apart DEF Kill, points, Registered, TypeOK
  <2>4. CASE Ended(by)
    BY <1>6, <2>4, Apart DEF Ended, Idle, points, Registered, TypeOK
  <2> QED BY <1>6, <2>1, <2>2, <2>3, <2>4
<1>7. ASSUME NEW r \in Release, Delete(r) PROVE PrepareInv'
  BY <1>7, Apart DEF Delete, Registered, TypeOK
<1>8. CASE Maintain \/ EndMaintenance \/ \E r \in Release, v \in Version : Begin(r, v)
  BY <1>8 DEF Maintain, EndMaintenance, Begin, points, Registered
<1>9. CASE Deployment
  <2>1. CASE Prepared
    BY <2>1 DEF Prepared, Idle, points, Registered, TypeOK
  <2>2. CASE ~Prepared
    BY <1>9, <2>2 DEF Deployment, Activate, Stop, Replace, Start, Passed, Except, PutBack,
       Restart, EndDeployment, Repair, points, Registered
  <2> QED BY <2>1, <2>2
<1>10. CASE UNCHANGED vars
  BY <1>10 DEF vars, Registered
<1> QED
  BY <1>1, <1>2, <1>3, <1>4, <1>5, <1>6, <1>7, <1>8, <1>9, <1>10 DEF Next, Deployment

\* Each step keeps the facts about what is removed.
LEMMA MaintainStep == UpgradeInv /\ [Next]_vars => MaintainInv'
<1> SUFFICES ASSUME UpgradeInv, [Next]_vars PROVE MaintainInv'
  OBVIOUS
<1> USE DEF UpgradeInv, MaintainInv
<1>1. Oldest(Registered) \subseteq Oldest(Registered)'
  BY ManifestStep, OldestGrows
<1>2. CASE maintain' = maintain
  BY <1>1, <1>2
<1>3. CASE Maintain
  <2>1. Surplus \subseteq Oldest(Registered)
    <3> SUFFICES ASSUME NEW r \in Surplus PROVE r \in Oldest(Registered)
      OBVIOUS
    <3>1. r \in Registered /\ Cardinality(Newer(r, Present)) >= Keep /\ Keep \in Nat
      BY DistinctValues DEF Surplus, Oldest, Present
    <3>2. /\ Newer(r, Present) \subseteq Newer(r, Registered)
          /\ Newer(r, Registered) \subseteq Registered
      BY DEF Newer, Present
    <3>3. Cardinality(Newer(r, Registered)) >= Keep
      BY <3>1, <3>2, CountMore DEF PointInv
    <3> QED BY <3>1, <3>3 DEF Oldest
  <2> QED BY <1>1, <1>3, <2>1 DEF Maintain
<1>4. ASSUME NEW r \in Release, Delete(r) PROVE MaintainInv'
  BY <1>1, <1>4 DEF Delete, TypeOK
<1>5. CASE EndMaintenance
  BY <1>5 DEF EndMaintenance
<1>6. maintain' = maintain \/ Maintain \/ EndMaintenance \/ \E r \in Release : Delete(r)
  BY OthersMaintain
<1> QED BY <1>2, <1>3, <1>4, <1>5, <1>6

\* A committed point is changed only by a maintenance run that has it on its list.
LEMMA CommittedStays ==
  ASSUME UpgradeInv, [Next]_vars, NEW r \in committed
  PROVE  /\ r \in committed' /\ saved'[r] = saved[r]
         /\ dirs'[r] = dirs[r] \/ r \in maintain.targets
<1> USE DEF UpgradeInv
<1>1. r \in Release /\ r \in Registered
  BY DEF TypeOK, Registered
<1>2. CASE UNCHANGED <<dirs, saved, committed>>
  BY <1>2
<1>3. ASSUME NEW by \in By, Lock(by) \/ Fill(by) \/ Discard(by)
      PROVE  UNCHANGED committed /\ dirs'[r] = dirs[r] /\ saved'[r] = saved[r]
  <2>1. CASE UNCHANGED <<dirs, saved, committed>>
    BY <2>1
  <2>2. CASE ~UNCHANGED <<dirs, saved, committed>>
    <3>1. prepare[by].release # r
      BY <1>1, <1>3, <2>2 DEF Lock, Free, Fill, Discard, PrepareInv, Working, At
    <3> QED BY <1>1, <1>3, <3>1 DEF Lock, Fill, Discard, TypeOK
  <2> QED BY <2>1, <2>2
<1>4. ASSUME NEW by \in By, Commit(by)
      PROVE  UNCHANGED <<dirs, saved>> /\ r \in committed'
  BY <1>4 DEF Commit
<1>5. ASSUME NEW s \in Release, Delete(s)
      PROVE  UNCHANGED <<saved, committed>> /\ (dirs'[r] = dirs[r] \/ r \in maintain.targets)
  BY <1>1, <1>5 DEF Delete, TypeOK
<1>6. \/ UNCHANGED <<dirs, saved, committed>>
      \/ \E by \in By : Lock(by) \/ Fill(by) \/ Discard(by) \/ Commit(by)
      \/ \E s \in Release : Delete(s)
  BY OthersPoints
<1> QED BY <1>2, <1>3, <1>4, <1>5, <1>6

\* Once it is made, the rollback point stays whole until it is old.
LEMMA MadeStays ==
  ASSUME UpgradeInv, [Next]_vars, Made,
         deploy'.release = deploy.release, deploy'.before = deploy.before
  PROVE  Made'
<1> USE DEF UpgradeInv, Made
<1>1. Oldest(Registered) \subseteq Oldest(Registered)'
  BY ManifestStep, OldestGrows
<1>2. CASE dirs'[deploy.release] = dirs[deploy.release]
  BY <1>1, <1>2, CommittedStays
<1>3. CASE deploy.release \in maintain.targets
  BY <1>1, <1>3, CommittedStays DEF MaintainInv
<1> QED BY <1>2, <1>3, CommittedStays

\* Each step keeps the facts about the deployment.
LEMMA DeployStep == UpgradeInv /\ [Next]_vars => DeployInv'
<1> SUFFICES ASSUME UpgradeInv, [Next]_vars PROVE DeployInv'
  OBVIOUS
<1> USE DistinctValues DEF DeployInv, At, GoTo, Deploying, Proceed, hub, points
<1>0. /\ TypeOK /\ DeployInv /\ PrepareInv
      /\ (deploy'.release = deploy.release /\ deploy'.before = deploy.before /\ Made => Made')
  BY MadeStays DEF UpgradeInv
<1>1. ASSUME NEW by \in By, NEW r \in Release, Prepare(by, r) PROVE DeployInv'
  BY <1>0, <1>1 DEF Prepare, TypeOK, By
<1>2. ASSUME NEW by \in By, Lock(by) PROVE DeployInv'
  <2>1. PICK pc \in {"fill", "failed"} : prepare' = [prepare EXCEPT ![by].pc = pc]
    BY <1>2 DEF Lock
  <2> QED BY <1>0, <1>2, <2>1 DEF Lock, TypeOK, By
<1>3. ASSUME NEW by \in By, Fill(by) PROVE DeployInv'
  BY <1>0, <1>3, Apart DEF Fill, TypeOK, By, Working, PrepareInv
<1>4. ASSUME NEW by \in By, Register(by) PROVE DeployInv'
  BY <1>0, <1>4 DEF Register, TypeOK, By
<1>5. ASSUME NEW by \in By, Commit(by) PROVE DeployInv'
  <2>1. CASE by = "deployment" /\ Deploying("prepare")
    <3>1. Made'
      BY <1>0, <1>5, <2>1 DEF Commit, Made, PrepareInv, By
    <3> QED BY <1>0, <1>5, <2>1, <3>1 DEF Commit, TypeOK, By
  <2>2. CASE ~(by = "deployment" /\ Deploying("prepare"))
    BY <1>0, <1>5, <2>2 DEF Commit, TypeOK, By
  <2> QED BY <2>1, <2>2
<1>6. ASSUME NEW by \in By, Undo(by) \/ Discard(by) \/ Kill(by) \/ Ended(by) PROVE DeployInv'
  <2> USE DEF TypeOK, By
  <2>1. CASE Undo(by)
    BY <1>0, <2>1 DEF Undo
  <2>4. CASE Kill(by)
    BY <1>0, <2>4 DEF Kill
  <2>2. CASE Discard(by)
    BY <1>0, <2>2 DEF Discard
  <2>3. CASE Ended(by)
    BY <1>0, <2>3 DEF Ended, Idle
  <2> QED BY <1>6, <2>1, <2>2, <2>3, <2>4
<1>7. CASE Maintain \/ EndMaintenance \/ \E r \in Release : Delete(r)
  BY <1>0, <1>7 DEF Maintain, EndMaintenance, Delete
<1>8. ASSUME NEW r \in Release, NEW v \in Version, Begin(r, v) PROVE DeployInv'
  BY <1>0, <1>8 DEF Begin, Idle
<1>9. CASE Deployment
  <2>1. CASE Prepared
    BY <1>0, <2>1 DEF Prepared, Idle, TypeOK, Upgrade
  <2>2. CASE Activate \/ Stop
    BY <1>0, <2>2 DEF Activate, Stop, TypeOK, Upgrade
  <2>3. CASE Replace \/ Start \/ Except
    BY <1>0, <2>3 DEF Replace, Start, Except, TypeOK, Upgrade
  <2>4. CASE PutBack
    BY <1>0, <2>4 DEF PutBack, Made, TypeOK, Upgrade
  <2>5. CASE Passed \/ Restart \/ EndDeployment
    BY <1>0, <2>5 DEF Passed, Restart, EndDeployment, TypeOK, Upgrade
  <2>6. CASE Repair
    BY <1>0, <2>6 DEF Repair
  <2> QED BY <1>9, <2>1, <2>2, <2>3, <2>4, <2>5, <2>6 DEF Deployment
<1>10. CASE UNCHANGED vars
  BY <1>0, <1>10 DEF vars
<1> QED
  BY <1>1, <1>2, <1>3, <1>4, <1>5, <1>6, <1>7, <1>8, <1>9, <1>10 DEF Next, Deployment

-----------------------------------------------------------------------------
(***************************************************************************)
(* Enough points are kept.                                                 *)
(***************************************************************************)

\* Among points of different times one is the newest.
LEMMA NewestIs ==
  ASSUME TypeOK, PointInv, NEW among \in SUBSET Registered, among # {}
  PROVE  \E m \in among : \A r \in among : r # m => manifest[r] < manifest[m]
<1> DEFINE Less == {p \in Nat \X Nat : p[1] < p[2]}
           Age(r) == Cardinality(Registered) - manifest[r]
           ages == {Age(r) : r \in among}
<1>1. Cardinality(Registered) \in Nat
  BY FS_CardinalityType DEF PointInv
<1>2. \A r \in among : manifest[r] \in Nat /\ manifest[r] <= Cardinality(Registered)
  BY DEF PointInv, TypeOK, Registered
<1>3. ages \subseteq Nat /\ ages # {}
  BY <1>1, <1>2
<1>4. PICK least \in ages : \A n \in ages : <<n, least>> \notin Less
  <2>1. IsWellFoundedOn(Less, Nat)
    BY NatLessThanWellFounded DEF OpToRel
  <2> HIDE DEF Less, ages
  <2> QED BY <1>3, <2>1, WFMin
<1>5. ASSUME NEW a \in Nat, NEW b \in Nat, a < b PROVE <<a, b>> \in Less
  BY <1>5, Zenon
<1>6. PICK m \in among : least = Age(m)
  OBVIOUS
<1> HIDE DEF Less
<1>7. \A r \in among : ~(Age(r) < Age(m))
  <2> SUFFICES ASSUME NEW r \in among, Age(r) < Age(m) PROVE FALSE
    OBVIOUS
  <2>1. Age(r) \in ages /\ Age(r) \in Nat /\ least \in Nat
    BY <1>3
  <2>2. <<Age(r), least>> \in Less
    BY <1>5, <1>6, <2>1
  <2> QED BY <1>4, <2>1, <2>2
<1>8. \A r \in among : r # m => manifest[r] # manifest[m]
  BY DEF PointInv
<1>9. ASSUME NEW r \in among, r # m PROVE manifest[r] < manifest[m]
  <2>1. manifest[r] \in Nat /\ manifest[m] \in Nat /\ manifest[r] # manifest[m]
    BY <1>2, <1>8, <1>9
  <2>2. ~(Cardinality(Registered) - manifest[r] < Cardinality(Registered) - manifest[m])
    BY <1>7
  <2> QED BY <1>1, <2>1, <2>2
<1> QED BY <1>9

\* Of many points at least Keep have fewer than Keep newer ones.
LEMMA ManyNewest ==
  ASSUME TypeOK, PointInv, NEW among \in SUBSET Registered, Cardinality(among) >= Keep
  PROVE  Cardinality(among \ Oldest(among)) >= Keep
<1> DEFINE newest == among \ Oldest(among)
<1>1. IsFiniteSet(among) /\ IsFiniteSet(newest)
  BY FS_Subset DEF PointInv
<1>2. Cardinality(newest) \in Nat /\ Keep \in Nat
  BY <1>1, FS_CardinalityType, DistinctValues
<1>3. CASE Oldest(among) = {}
  BY <1>3
<1>4. CASE Oldest(among) # {}
  <2>1. Oldest(among) \subseteq among
    BY DEF Oldest
  <2>2. PICK m \in Oldest(among) : \A r \in Oldest(among) : r # m => manifest[r] < manifest[m]
    BY <1>4, <2>1, NewestIs
  <2>3. \A r \in among : manifest[r] \in Nat
    BY DEF TypeOK, Registered
  <2>4. Newer(m, among) \subseteq newest
    BY <2>1, <2>2, <2>3 DEF Newer
  <2>5. Cardinality(Newer(m, among)) >= Keep
    BY DEF Oldest
  <2>6. newest \subseteq among
    OBVIOUS
  <2> HIDE DEF newest
  <2>7. Cardinality(newest) >= Keep
    BY <1>1, <2>4, <2>5, <2>6, CountMore
  <2> QED BY <2>7 DEF newest
<1> QED BY <1>3, <1>4

\* A point with Keep newer ones has Keep newer ones that a maintenance run spares.
LEMMA SparedNewer ==
  ASSUME TypeOK, PointInv, NEW r \in Registered, Cardinality(Newer(r, Present)) >= Keep
  PROVE  Cardinality(Newer(r, Present \ Surplus)) >= Keep
<1> DEFINE newer == Newer(r, Present)
           spared == Newer(r, Present \ Surplus)
<1>1. newer \subseteq Registered /\ spared \subseteq Registered
  BY DEF Newer, Present
<1>2. Cardinality(newer \ Oldest(newer)) >= Keep
  BY <1>1, ManyNewest
<1>3. newer \ Oldest(newer) \subseteq spared
  <2> SUFFICES ASSUME NEW s \in newer, s \notin Oldest(newer) PROVE s \in spared
    OBVIOUS
  <2>1. \A q \in Registered : manifest[q] \in Nat
    BY DEF TypeOK, Registered
  <2>2. s \in Present /\ Present \subseteq Registered /\ manifest[s] > manifest[r]
    BY DEF Newer, Present
  <2>3. Newer(s, newer) = Newer(s, Present)
    BY <2>1, <2>2 DEF Newer
  <2>4. ~(Cardinality(Newer(s, newer)) >= Keep)
    BY DEF Oldest
  <2>5. s \notin Surplus
    BY <2>3, <2>4 DEF Surplus, Oldest
  <2> QED BY <2>2, <2>5 DEF Newer
<1> HIDE DEF newer, spared
<1>4. Cardinality(spared) >= Keep
  BY <1>1, <1>2, <1>3, CountMore DEF PointInv
<1> QED BY <1>4 DEF spared

LEMMA StandingIs ==
  ASSUME TypeOK
  PROVE  Standing \subseteq Present /\ Standing \subseteq Registered
BY DEF Standing, Present, WholePoints

\* More that stands does no harm.
LEMMA CountStays ==
  ASSUME UpgradeInv, [Next]_vars, TypeOK', Standing \subseteq Standing',
         NEW r \in committed, Cardinality(Newer(r, Standing)) >= Keep
  PROVE  Cardinality(Newer(r, Standing)') >= Keep
<1>1. /\ PointInv' /\ Registered \subseteq Registered'
      /\ \A s \in Registered : manifest'[s] = manifest[s]
  BY ManifestStep DEF UpgradeInv
<1>2. Standing \subseteq Registered /\ Standing' \subseteq Registered' /\ r \in Registered
  <2>1. Standing' \subseteq Registered'
    BY DEF Standing, Present, WholePoints
  <2> QED BY <2>1, StandingIs DEF UpgradeInv, TypeOK
<1>3. /\ Newer(r, Standing) \subseteq Newer(r, Standing)'
      /\ Newer(r, Standing)' \subseteq Registered'
  BY <1>1, <1>2 DEF Newer
<1> QED BY <1>1, <1>3, CountMore DEF PointInv

\* When a maintenance run makes its list, the list and all that has gone before have
\* enough newer points that are not on it.
LEMMA PlanSpares ==
  ASSUME UpgradeInv, lock = "nobody",
         NEW r \in committed, dirs[r] # "whole" \/ r \in Surplus
  PROVE  Cardinality(Newer(r, Standing \ Surplus)) >= Keep
<1> USE DEF UpgradeInv
<1>1. maintain.targets = {} /\ \A by \in By : ~Working(by)
  BY Apart DEF TypeOK, MaintainInv, By
<1>2. r \in Registered /\ Present \subseteq Registered /\ Standing \subseteq Present
  BY StandingIs DEF TypeOK, Present
<1>3. Cardinality(Newer(r, Present)) >= Keep
  <2>1. CASE r \in Surplus
    BY <2>1 DEF Surplus, Oldest
  <2>2. CASE dirs[r] # "whole"
    <3>1. Cardinality(Newer(r, Standing)) >= Keep
      BY <2>2 DEF CountInv
    <3>2. /\ Newer(r, Standing) \subseteq Newer(r, Present)
          /\ Newer(r, Present) \subseteq Registered
      BY <1>2 DEF Newer
    <3> QED BY <3>1, <3>2, CountMore DEF PointInv
  <2> QED BY <2>1, <2>2
<1>4. Present \ Surplus \subseteq Standing
  <2> SUFFICES ASSUME NEW s \in Present, s \notin Surplus, s \notin Standing PROVE FALSE
    OBVIOUS
  <2>1. s \in committed /\ dirs[s] # "whole"
    BY <1>1 DEF Standing, WholePoints, Present
  <2>2. Cardinality(Newer(s, Standing)) >= Keep
    BY <2>1 DEF CountInv
  <2>3. Newer(s, Standing) \subseteq Newer(s, Present) /\ Newer(s, Present) \subseteq Registered
    BY <1>2 DEF Newer
  <2>4. Cardinality(Newer(s, Present)) >= Keep
    BY <2>2, <2>3, CountMore DEF PointInv
  <2> QED BY <2>4 DEF Surplus, Oldest
<1>5. Cardinality(Newer(r, Present \ Surplus)) >= Keep
  BY <1>2, <1>3, SparedNewer
<1>6. Present \ Surplus = Standing \ Surplus
  BY <1>2, <1>4
<1> QED BY <1>5, <1>6

\* Who is at work was before, or has just taken the lock for a new release.
LEMMA WorkingStep ==
  ASSUME TypeOK, [Next]_vars, NEW a \in By, Working(a)'
  PROVE  /\ prepare'[a].release = prepare[a].release
         /\ Working(a) \/ prepare[a].release \notin Registered
<1> DEFINE Goal == /\ prepare'[a].release = prepare[a].release
                   /\ Working(a) \/ prepare[a].release \notin Registered
<1> USE DEF Working, At, GoTo, Idle
<1>0. prepare \in [By -> Preparation]
  BY DEF TypeOK
<1>1. CASE prepare' = prepare
  BY <1>1
<1>2. ASSUME NEW by \in By, NEW r \in Release, Prepare(by, r) PROVE Goal
  BY <1>0, <1>2 DEF Prepare
<1>3. ASSUME NEW by \in By, Lock(by) PROVE Goal
  <2>1. CASE lock = "nobody" /\ Free(prepare[by].release)
    <3>1. prepare' = [prepare EXCEPT ![by].pc = "fill"]
      BY <1>3, <2>1 DEF Lock
    <3> QED BY <1>0, <2>1, <3>1 DEF Free
  <2>2. CASE ~(lock = "nobody" /\ Free(prepare[by].release))
    <3>1. prepare' = [prepare EXCEPT ![by].pc = "failed"]
      BY <1>3, <2>2 DEF Lock
    <3> QED BY <1>0, <3>1
  <2> QED BY <2>1, <2>2
<1>4. ASSUME NEW by \in By, Fill(by) \/ Register(by) \/ Undo(by) PROVE Goal
  <2>1. PICK pc \in {"register", "commit", "undo"} : prepare' = [prepare EXCEPT ![by].pc = pc]
    BY <1>4 DEF Fill, Register, Undo
  <2> QED BY <1>0, <1>4, <2>1 DEF Fill, Register, Undo
<1>5. ASSUME NEW by \in By, Commit(by) \/ Discard(by) \/ Kill(by) PROVE Goal
  <2>1. PICK pc \in {"done", "failed"} : prepare' = [prepare EXCEPT ![by].pc = pc]
    BY <1>5 DEF Commit, Discard, Kill
  <2> QED BY <1>0, <2>1
<1>6. ASSUME NEW by \in By, Ended(by) PROVE Goal
  BY <1>0, <1>6 DEF Ended
<1>7. CASE Maintain \/ EndMaintenance \/ \E r \in Release : Delete(r)
  BY <1>1, <1>7 DEF Maintain, EndMaintenance, Delete
<1>8. CASE \E r \in Release, v \in Version : Begin(r, v)
  BY <1>1, <1>8 DEF Begin
<1>9. CASE Deployment
  <2>1. CASE Prepared
    BY <1>0, <2>1 DEF Prepared
  <2> QED
    BY <1>1, <1>9, <2>1 DEF Deployment, Activate, Stop, Replace, Start, Passed, Except, PutBack,
       Restart, EndDeployment, Repair
<1>10. CASE UNCHANGED vars
  BY <1>1, <1>10 DEF vars
<1> QED
  BY <1>2, <1>3, <1>4, <1>5, <1>6, <1>7, <1>8, <1>9, <1>10 DEF Next, Deployment

\* Only a new maintenance run threatens points that stand.
LEMMA StandingGrows ==
  ASSUME UpgradeInv, [Next]_vars, ~Maintain
  PROVE  /\ Standing \subseteq Standing'
         /\ maintain.targets' \subseteq maintain.targets
<1> USE DEF UpgradeInv
<1>1. maintain.targets' \subseteq maintain.targets
  <2>1. CASE EndMaintenance
    BY <2>1 DEF EndMaintenance
  <2>2. ASSUME NEW r \in Release, Delete(r) PROVE maintain.targets' \subseteq maintain.targets
    BY <2>2 DEF Delete, TypeOK
  <2> QED BY <2>1, <2>2, OthersMaintain
<1>2. ASSUME NEW s \in Standing PROVE s \in Standing'
  <2>1. /\ s \in Registered /\ s \in Release /\ dirs[s] # "none" /\ s \notin maintain.targets
        /\ dirs[s] = "whole" \/ s \notin committed
        /\ \A by \in By : Working(by) => prepare[by].release # s
    BY DEF Standing, WholePoints, Present, Registered
  <2>2. dirs'[s] = dirs[s] /\ (s \in committed' => s \in committed)
    <3>1. ASSUME NEW by \in By, Lock(by) \/ Fill(by) \/ Discard(by)
          PROVE  UNCHANGED committed /\ dirs'[s] = dirs[s]
      <4>1. CASE prepare[by].release = s
        BY <2>1, <3>1, <4>1 DEF Lock, Free, Fill, Discard, Working, At
      <4>2. CASE prepare[by].release # s
        BY <2>1, <3>1, <4>2 DEF Lock, Fill, Discard, TypeOK
      <4> QED BY <4>1, <4>2
    <3>2. ASSUME NEW by \in By, Commit(by)
          PROVE  UNCHANGED dirs /\ (s \in committed' => s \in committed)
      BY <2>1, <3>2 DEF Commit, Working, At
    <3>3. ASSUME NEW r \in Release, Delete(r)
          PROVE  UNCHANGED committed /\ dirs'[s] = dirs[s]
      BY <2>1, <3>3 DEF Delete, TypeOK
    <3> QED BY <3>1, <3>2, <3>3, OthersPoints
  <2>3. s \in Registered'
    BY <2>1, ManifestStep
  <2>4. \A by \in By : Working(by)' => prepare'[by].release # s
    BY <2>1, WorkingStep
  <2> QED BY <1>1, <2>1, <2>2, <2>3, <2>4 DEF Standing, WholePoints, Present
<1> QED BY <1>1, <1>2

\* Each step keeps the facts about the points.
LEMMA CountStep == UpgradeInv /\ TypeOK' /\ [Next]_vars => CountInv'
<1> SUFFICES ASSUME UpgradeInv, TypeOK', [Next]_vars, NEW r \in committed',
                    (dirs[r] # "whole" \/ r \in maintain.targets)'
             PROVE  Cardinality(Newer(r, Standing)') >= Keep
  BY DEF CountInv
<1> USE DEF UpgradeInv
<1>1. CASE Maintain
  <2>1. /\ lock = "nobody" /\ maintain'.targets = Surplus
        /\ UNCHANGED <<manifest, dirs, committed, prepare>>
    BY <1>1 DEF Maintain, points
  <2>2. maintain.targets = {}
    BY <2>1 DEF TypeOK, MaintainInv
  <2>3. Standing' = Standing \ Surplus
    BY <2>1, <2>2 DEF Standing, WholePoints, Present, Registered, Working
  <2>4. Cardinality(Newer(r, Standing \ Surplus)) >= Keep
    BY <2>1, PlanSpares
  <2>5. Newer(r, Standing)' = Newer(r, Standing \ Surplus)
    BY <2>1, <2>3 DEF Newer
  <2> QED BY <2>4, <2>5
<1>2. CASE ~Maintain
  <2>1. Standing \subseteq Standing' /\ maintain.targets' \subseteq maintain.targets
    BY <1>2, StandingGrows
  <2>2. r \in committed
    <3>1. ASSUME NEW by \in By, Commit(by) PROVE r \in committed
      <4>1. /\ dirs[prepare[by].release] = "whole" /\ dirs' = dirs
            /\ maintain.targets' = {} /\ committed' = committed \union {prepare[by].release}
        BY <3>1, Apart DEF Commit, PrepareInv, MaintainInv, Working, At
      <4> QED BY <4>1
    <3>2. ASSUME NEW by \in By, Lock(by) \/ Fill(by) \/ Discard(by) PROVE committed' = committed
      BY <3>2 DEF Lock, Fill, Discard
    <3>3. ASSUME NEW s \in Release, Delete(s) PROVE committed' = committed
      BY <3>3 DEF Delete
    <3> QED BY <3>1, <3>2, <3>3, OthersPoints
  <2>3. dirs[r] # "whole" \/ r \in maintain.targets
    BY <2>1, <2>2, CommittedStays
  <2>4. Cardinality(Newer(r, Standing)) >= Keep
    BY <2>2, <2>3 DEF CountInv
  <2> QED BY <2>1, <2>2, <2>4, CountStays
<1> QED BY <1>1, <1>2

-----------------------------------------------------------------------------
(***************************************************************************)
(* The theorems.                                                           *)
(***************************************************************************)

\* Points are removed only when they are old, and Keep newer ones stand: the
\* inductive invariant.
THEOREM UpgradeInvariant == Spec => []UpgradeInv
<1>1. UpgradeInv /\ [Next]_vars => UpgradeInv'
  <2> SUFFICES ASSUME UpgradeInv, [Next]_vars PROVE UpgradeInv'
    OBVIOUS
  <2>1. TypeOK /\ PointInv /\ PrepareInv /\ MaintainInv /\ DeployInv
    BY DEF UpgradeInv
  <2>2. TypeOK' /\ PointInv' /\ PrepareInv'
    BY <2>1, TypeStep, ManifestStep, PrepareStep
  <2>3. MaintainInv' /\ DeployInv' /\ CountInv'
    BY <2>2, MaintainStep, DeployStep, CountStep
  <2> QED BY <2>2, <2>3 DEF UpgradeInv
<1> QED BY <1>1, InitUpgrade, PTL DEF Spec

\* The types, and who holds the lock.
THEOREM TypeCorrect == Spec => []TypeOK
<1>1. UpgradeInv => TypeOK
  BY DEF UpgradeInv
<1> QED BY <1>1, UpgradeInvariant, PTL

\* The deployment can go back as long as it may have to (RollbackReady).
THEOREM ReadyToGoBack == Spec => []RollbackReady
<1>1. UpgradeInv => RollbackReady
  <2> SUFFICES ASSUME UpgradeInv PROVE RollbackReady
    OBVIOUS
  <2>1. DeployInv
    BY DEF UpgradeInv
  <2> QED BY <2>1 DEF DeployInv, Made, Deploying, RollbackReady
<1> QED BY <1>1, UpgradeInvariant, PTL

\* As many points as are to be kept are there, whole or leftovers of preparations that
\* failed after they had registered (PointsKept).
THEOREM EnoughPoints == Spec => []PointsKept
<1>1. UpgradeInv => PointsKept
  <2> SUFFICES ASSUME UpgradeInv PROVE PointsKept
    OBVIOUS
  <2> USE DEF UpgradeInv
  <2> DEFINE kept == WholePoints \union (Present \ committed)
  <2>1. kept \subseteq Registered /\ committed \subseteq Registered
    BY DEF WholePoints, Present, TypeOK
  <2>2. CASE committed \subseteq WholePoints
    <3>1. committed \subseteq kept
      BY <2>2
    <3> HIDE DEF kept
    <3>2. IsFiniteSet(kept) /\ IsFiniteSet(committed)
      BY <2>1, FS_Subset DEF PointInv
    <3>3. Cardinality(committed) <= Cardinality(kept)
      BY <3>1, <3>2, FS_Subset
    <3>4. Cardinality(kept) \in Nat /\ Cardinality(committed) \in Nat /\ Keep \in Nat
      BY <3>2, FS_CardinalityType, DistinctValues
    <3> QED BY <3>3, <3>4 DEF PointsKept, kept
  <2>3. CASE ~(committed \subseteq WholePoints)
    <3>1. PICK r \in committed : dirs[r] # "whole"
      BY <2>1, <2>3 DEF WholePoints
    <3>2. Cardinality(Newer(r, Standing)) >= Keep
      BY <3>1 DEF CountInv
    <3>3. Newer(r, Standing) \subseteq kept
      BY DEF Newer, Standing
    <3> HIDE DEF kept
    <3>4. Cardinality(kept) >= Keep
      BY <2>1, <3>2, <3>3, CountMore DEF PointInv
    <3>5. IsFiniteSet(kept) /\ IsFiniteSet(committed)
      BY <2>1, FS_Subset DEF PointInv
    <3>6. Cardinality(kept) \in Nat /\ Cardinality(committed) \in Nat /\ Keep \in Nat
      BY <3>5, FS_CardinalityType, DistinctValues
    <3> QED BY <3>4, <3>6 DEF PointsKept, kept
  <2> QED BY <2>2, <2>3
<1> QED BY <1>1, UpgradeInvariant, PTL

\* Unless a preparation that had registered its point failed and left it behind, as
\* many whole points stand as are to be kept, or as were prepared if fewer, whatever
\* deployments, removals and the other preparations went through.
EnoughWhole ==
  Present \subseteq committed =>
    Cardinality(WholePoints) >=
      IF Cardinality(committed) < Keep THEN Cardinality(committed) ELSE Keep

\* Without such leftovers the count is one of whole points (PointsKept, EnoughWhole).
THEOREM WholePointsKept == Spec => []EnoughWhole
<1>1. PointsKept => EnoughWhole
  <2> SUFFICES ASSUME PointsKept, Present \subseteq committed PROVE EnoughWhole
    BY DEF EnoughWhole
  <2>1. WholePoints \union (Present \ committed) = WholePoints
    OBVIOUS
  <2> QED BY <2>1 DEF PointsKept, EnoughWhole
<1> QED BY <1>1, EnoughPoints, PTL
=============================================================================
