--------------------------- MODULE Installer_proofs ---------------------------
(***************************************************************************)
(* What the installer guarantees, in both of its parts.                    *)
(*                                                                         *)
(* Install, for any number of releases, programs and attempts: what is     *)
(* fetched fits the step, and the installation goes from nothing to whole. *)
(*                                                                         *)
(* AgentUpdate, for any package size and any versions: each step of the    *)
(* updater knows where the old package is, how far the files are replaced  *)
(* or put back, and whether the marker is there; a run that is cut short   *)
(* leaves just that, and nothing begins over it (a loss of power, which    *)
(* may lose what was written, is not among its steps).  Seen from outside that   *)
(* is an update in one step: AgentUpdate implements AtomicUpdate.          *)
(***************************************************************************)
EXTENDS Install, AgentUpdate, TLAPS


\* What is fetched fits the step, and an attempt is left while a retry waits.
Order ==
  /\ pc \in {"look", "stage"} \union Saving => resource \in Component
  /\ pc \in Saving \union {"look"} => ~offline
  /\ pc = "read" => offline /\ resource # "health"
  /\ pc = "pause" => attempt < Attempts

\* From the questions on, what is installed is staged and verified.
Staged ==
  pc \in {"ask"} \union Changing \/ (pc \in Fetching \union {"got"} /\ resource = "health") =>
    command = "install" /\ \A c \in Component : staged[c] = release

\* An installation begins with nothing, and describes the programs after them.
Installing ==
  /\ command = "install" /\ pc \notin {"idle", "copy", "describe", "connection", "tool"} => Untouched
  /\ pc \in {"copy", "describe"} => described = Nothing /\ ~connected
  /\ pc = "copy" => \A c \in Component : programs[c] \in {Nothing, release}
  /\ pc \in {"describe", "connection", "tool"} => \A c \in Component : programs[c] = release
  /\ pc \in {"connection", "tool"} => described = release

\* Since the cache was looked at, nothing made a .partial file.
NoPartial ==
  pc \in Fetching \union {"got", "open"} /\ resource \in Component /\ ~offline =>
    partial = Nothing

InstallInv ==
  /\ InstallTypeOK /\ Order /\ Staged /\ Installing /\ NoPartial
  /\ StagedIsVerified /\ DescribedIsWhole

-----------------------------------------------------------------------------
\* Members of the sets that InstallTypeOK names.
LEMMA Values ==
  /\ Nothing \in Slot /\ Broken \in Slot /\ Content \subseteq Slot /\ Release \subseteq Slot
  /\ 0 \in 0..Attempts /\ 1 \in 0..Attempts
  BY DistinctValues DEF Slot, Content

\* Nothing is installed at first, and nothing runs.
LEMMA InitInstall == InstallInit => InstallInv
<1> SUFFICES ASSUME InstallInit PROVE InstallInv
  OBVIOUS
<1> USE DistinctValues DEF InstallInit, Empty, Fetching, Saving, Changing
<1>1. InstallTypeOK
  BY Values DEF InstallTypeOK, Command
<1>2. Order /\ Staged /\ Installing /\ NoPartial /\ StagedIsVerified /\ DescribedIsWhole
  BY DEF Order, Staged, Installing, NoPartial, StagedIsVerified, DescribedIsWhole
<1> QED BY <1>1, <1>2 DEF InstallInv

\* What is left of the cache is a cache.
LEMMA Left ==
  ASSUME cache \in [Component -> Slot], NEW kept \in SUBSET Component
  PROVE  [c \in Component |-> IF c \in kept THEN cache[c] ELSE Nothing] \in [Component -> Slot]
  BY DEF Slot

\* A step that ends a run keeps everything.
LEMMA Ends ==
  ASSUME InstallInv, pc' = "idle", HalfDone, partial' \in {partial, Nothing},
         alarm' = FALSE, UNCHANGED <<request, resource, attempt, body, staged, cache>>
  PROVE  InstallInv'
<1> USE DistinctValues DEF InstallInv, HalfDone, request
<1>1. InstallTypeOK'
  BY DEF InstallTypeOK, system, Slot, Content
<1>2. (Order /\ Staged /\ Installing /\ NoPartial /\ StagedIsVerified)'
  BY DEF Order, Staged, Installing, NoPartial, StagedIsVerified, Saving, Changing, Fetching
<1>3. DescribedIsWhole'
  BY DEF DescribedIsWhole, Installing, Untouched, system, InstallTypeOK, Changing
<1> QED BY <1>1, <1>2, <1>3

\* What is fetched next, and with what the run goes on.
LEMMA Onwards ==
  ASSUME InstallInv, NEW done \in SUBSET Component, Onward(done),
         UNCHANGED <<request, caching, system>>,
         pc \in {"got", "stage"}, pc = "got" => resource = "metadata",
         staged' \in [Component -> Slot],
         \A c \in Component : staged'[c] \in {release, Nothing},
         \A c \in done : staged'[c] # Nothing
  PROVE  InstallInv'
<1> USE DistinctValues DEF InstallInv, Onward, Compared, Read, request, caching, system, fetching
<1>1. InstallTypeOK'
  BY DEF InstallTypeOK, Fetching, Saving, Changing
<1>2. pc' \in {"idle", "ask", "read", "look"}
  OBVIOUS
<1>3. (Order /\ NoPartial)'
  BY <1>2 DEF Order, NoPartial, Saving, Fetching
<1>4. Staged'
  BY <1>2 DEF Staged, Changing, Fetching, InstallTypeOK, Command
<1>5. Installing'
  BY <1>2 DEF Installing, Untouched
<1>6. (StagedIsVerified /\ DescribedIsWhole)'
  BY DEF StagedIsVerified, DescribedIsWhole
<1> QED BY <1>1, <1>3, <1>4, <1>5, <1>6

\* Each step keeps the invariant.
LEMMA InstallStep == InstallInv /\ [InstallNext]_installVars => InstallInv'
<1> SUFFICES ASSUME InstallInv, [InstallNext]_installVars PROVE InstallInv'
  OBVIOUS
<1> USE DistinctValues DEF request, caching, system, fetching, Fetching, Saving, Changing
<1> DEFINE Rest == Order /\ Staged /\ Installing /\ NoPartial /\ StagedIsVerified /\ DescribedIsWhole
<1>0. InstallTypeOK /\ Rest
  BY DEF InstallInv
<1>1. ASSUME NEW c \in Command, NEW local \in BOOLEAN, NEW r \in Release, Invoke(c, local, r)
      PROVE  InstallInv'
  <2>1. InstallTypeOK'
    BY <1>0, <1>1, Values DEF Invoke, Read, Fetch, InstallTypeOK, Empty
  <2>2. Rest'
    BY <1>0, <1>1 DEF Invoke, Read, Fetch, Empty, Untouched, Order, Staged, Installing, NoPartial,
       StagedIsVerified, DescribedIsWhole
  <2> QED BY <2>1, <2>2 DEF InstallInv
<1>2. CASE ReadBundle \/ Connect \/ Delivered \/ Disrupted \/ Retry
  <2>1. InstallTypeOK'
    <3>1. CASE Retry
      <4>1. attempt' \in 0..Attempts
        BY <1>0, <3>1 DEF Retry, InstallTypeOK, Order
      <4> QED BY <1>0, <3>1, <4>1 DEF Retry, InstallTypeOK
    <3>2. CASE ~Retry
      BY <1>0, <1>2, <3>2, Values DEF ReadBundle, Connect, Delivered, Disrupted, InstallTypeOK
    <3> QED BY <3>1, <3>2
  <2>2. (Order /\ Staged /\ NoPartial)'
    BY <1>0, <1>2 DEF ReadBundle, Connect, Delivered, Disrupted, Retry, Order, Staged, NoPartial
  <2>3. (Installing /\ StagedIsVerified /\ DescribedIsWhole)'
    BY <1>0, <1>2 DEF ReadBundle, Connect, Delivered, Disrupted, Retry, Installing, Untouched,
       StagedIsVerified, DescribedIsWhole
  <2> QED BY <2>1, <2>2, <2>3 DEF InstallInv
<1>3. CASE Expire
  BY <1>3, Ends DEF Expire, Raised, HalfDone
<1>4. CASE Fail
  BY <1>4, Ends DEF Fail, Raised
<1>5. CASE Killed
  BY <1>5, Ends DEF Killed
<1>6. CASE Metadata
  BY <1>0, <1>6, Onwards DEF Metadata, InstallTypeOK, StagedIsVerified
<1>7. CASE LookInCache
  <2>1. PICK kept \in SUBSET Component :
          LET left == [c \in Component |-> IF c \in kept THEN cache[c] ELSE Nothing] IN
          IF Valid(left[resource])
          THEN /\ body' = left[resource] /\ pc' = "stage" /\ cache' = left
               /\ UNCHANGED <<resource, attempt, alarm>>
          ELSE Fetch(resource) /\ cache' = [left EXCEPT ![resource] = Nothing]
    BY <1>7 DEF LookInCache
  <2>2. resource \in Component /\ partial' = Nothing
    BY <1>0, <1>7 DEF LookInCache, Order
  <2>3. InstallTypeOK'
    <3> DEFINE left == [c \in Component |-> IF c \in kept THEN cache[c] ELSE Nothing]
    <3>1. left \in [Component -> Slot] /\ left[resource] \in Slot
      BY <1>0, <2>2, Left DEF InstallTypeOK
    <3> HIDE DEF left
    <3>2. cache' \in [Component -> Slot] /\ body' \in Slot /\ attempt' \in 0..Attempts
      BY <1>0, <2>1, <3>1, Values DEF Fetch, InstallTypeOK, left
    <3> QED BY <1>0, <1>7, <2>1, <2>2, <3>2, Values DEF LookInCache, Fetch, InstallTypeOK
  <2>4. pc' \in {"stage", "connect"} /\ resource' = resource
    BY <2>1 DEF Fetch
  <2>5. Rest'
    BY <1>0, <1>7, <2>2, <2>4 DEF LookInCache, Order, Staged, Installing, Untouched, NoPartial,
       StagedIsVerified, DescribedIsWhole
  <2> QED BY <2>3, <2>5 DEF InstallInv
<1>8. CASE Program \/ Open \/ Write \/ Rename
  <2>1. InstallTypeOK'
    BY <1>0, <1>8 DEF Program, Open, Write, Rename, InstallTypeOK, Slot, Content
  <2>2. Rest'
    BY <1>0, <1>8 DEF Program, Open, Write, Rename, Order, Staged, Installing, Untouched,
       NoPartial, StagedIsVerified, DescribedIsWhole
  <2> QED BY <2>1, <2>2 DEF InstallInv
<1>9. CASE Stage
  <2>1. /\ staged' \in [Component -> Slot]
        /\ \A c \in Component : staged'[c] \in {release, Nothing}
    BY <1>0, <1>9 DEF Stage, Valid, InstallTypeOK, StagedIsVerified
  <2> QED BY <1>0, <1>9, <2>1, Onwards DEF Stage
<1>10. CASE Ask \/ Healthy \/ Account
  <2>1. InstallTypeOK'
    BY <1>0, <1>10, Values DEF Ask, Healthy, Account, Fetch, InstallTypeOK
  <2>2. Rest'
    BY <1>0, <1>10 DEF Ask, Healthy, Account, Fetch, Order, Staged, Installing, Untouched, Empty,
       NoPartial, StagedIsVerified, DescribedIsWhole
  <2> QED BY <2>1, <2>2 DEF InstallInv
<1>11. ASSUME NEW c \in Component, Copy(c)
       PROVE  InstallInv'
  <2>1. InstallTypeOK'
    BY <1>0, <1>11 DEF Copy, InstallTypeOK
  <2>2. programs' = [programs EXCEPT ![c] = release]
    BY <1>0, <1>11 DEF Copy, Staged
  <2>3. Installing'
    BY <1>0, <1>11, <2>2 DEF Copy, Installing, InstallTypeOK
  <2>4. (Order /\ Staged /\ NoPartial /\ StagedIsVerified /\ DescribedIsWhole)'
    BY <1>0, <1>11 DEF Copy, Order, Staged, NoPartial, StagedIsVerified, DescribedIsWhole, Installing
  <2> QED BY <2>1, <2>3, <2>4 DEF InstallInv
<1>12. CASE Describe \/ Connection \/ CopyTool
  <2>1. InstallTypeOK'
    BY <1>0, <1>12 DEF Describe, Connection, CopyTool, InstallTypeOK
  <2>2. Rest'
    BY <1>0, <1>12 DEF Describe, Connection, CopyTool, Order, Staged, Installing, NoPartial,
       StagedIsVerified, DescribedIsWhole, InstallTypeOK
  <2> QED BY <2>1, <2>2 DEF InstallInv
<1>13. ASSUME NEW c \in Component, Damage(c)
       PROVE  InstallInv'
  <2>1. InstallTypeOK'
    BY <1>0, <1>13 DEF Damage, InstallTypeOK, Slot, Content
  <2>2. Rest'
    BY <1>0, <1>13 DEF Damage, Order, Staged, Installing, Untouched, NoPartial,
       StagedIsVerified, DescribedIsWhole
  <2> QED BY <2>1, <2>2 DEF InstallInv
<1>14. CASE UNCHANGED installVars
  BY <1>14 DEF installVars, InstallInv, InstallTypeOK, Order, Staged, Installing, Untouched, NoPartial,
     StagedIsVerified, DescribedIsWhole
<1> QED
  BY <1>1, <1>2, <1>3, <1>4, <1>5, <1>6, <1>7, <1>8, <1>9, <1>10, <1>11, <1>12, <1>13, <1>14
  DEF InstallNext

-----------------------------------------------------------------------------
(***************************************************************************)
(* The theorems.                                                           *)
(***************************************************************************)

\* The steps of fetch, cache and install stay in order: the inductive invariant.
THEOREM InstallInvariant == InstallSpec => []InstallInv
<1> QED BY InitInstall, InstallStep, PTL DEF InstallSpec

\* The types; no fetch makes more attempts than it may.
THEOREM InstallTypes == InstallSpec => []InstallTypeOK
<1>1. InstallInv => InstallTypeOK
  BY DEF InstallInv
<1> QED BY <1>1, InstallInvariant, PTL

\* A run goes on only with what its metadata promises (StagedIsVerified).
THEOREM VerifiedOnly == InstallSpec => []StagedIsVerified
<1>1. InstallInv => StagedIsVerified
  BY DEF InstallInv
<1> QED BY <1>1, InstallInvariant, PTL

\* A description is there only beside what it describes (DescribedIsWhole).
THEOREM WholeDescribed == InstallSpec => []DescribedIsWhole
<1>1. InstallInv => DescribedIsWhole
  BY DEF InstallInv
<1> QED BY <1>1, InstallInvariant, PTL

\* No left-over file keeps a run from saving a program (PartialNeverBlocks); a bundle,
\* which is not saved, never gets there.
THEOREM NeverBlocked == InstallSpec => []PartialNeverBlocks
<1>1. InstallInv => PartialNeverBlocks
  BY DEF InstallInv, NoPartial, Order, PartialNeverBlocks, Fetching, Saving
<1> QED BY <1>1, InstallInvariant, PTL

-----------------------------------------------------------------------------
(***************************************************************************)
(* What FetchEnds rests on but for the fairness of the timer: it runs from *)
(* the first connection to the end of the fetch, whatever the retries do.  *)
(***************************************************************************)
\* The interval timer runs exactly while a fetch goes on.
LimitIsOn == alarm <=> pc \in Fetching

\* While it runs it is not set anew: the fetch is the same, one attempt later at most.
OneLimit ==
  [][alarm /\ alarm' => resource' = resource /\ attempt' \in {attempt, attempt + 1}]_installVars

LEMMA LimitStep == InstallInv /\ LimitIsOn /\ [InstallNext]_installVars => LimitIsOn'
<1> SUFFICES ASSUME InstallInv, LimitIsOn, [InstallNext]_installVars PROVE LimitIsOn'
  OBVIOUS
<1> USE DEF LimitIsOn, Fetching, fetching
<1>1. ASSUME NEW c \in Command, NEW local \in BOOLEAN, NEW r \in Release, Invoke(c, local, r)
      PROVE  LimitIsOn'
  BY <1>1 DEF Invoke, Read, Fetch
<1>2. CASE ReadBundle \/ Connect \/ Delivered \/ Disrupted \/ Retry
  BY <1>2 DEF ReadBundle, Connect, Delivered, Disrupted, Retry
<1>3. CASE Expire \/ Fail \/ Killed
  BY <1>3 DEF Expire, Fail, Killed, Raised
<1>4. CASE Metadata \/ Stage
  <2>1. pc \in {"got", "stage"} /\ \E done : Onward(done)
    BY <1>4 DEF Metadata, Stage
  <2> QED BY <2>1 DEF Onward, Compared, Read
<1>5. CASE LookInCache
  BY <1>5 DEF LookInCache, Fetch
<1>6. CASE \/ Program \/ Open \/ Write \/ Rename
          \/ Ask \/ Healthy \/ Account \/ Describe \/ Connection \/ CopyTool
  BY <1>6 DEF Program, Open, Write, Rename, Ask, Healthy, Account, Describe, Connection, CopyTool, Fetch
<1>7. ASSUME NEW c \in Component, Copy(c) \/ Damage(c) PROVE LimitIsOn'
  BY <1>7 DEF Copy, Damage
<1>8. CASE UNCHANGED installVars
  BY <1>8 DEF installVars
<1> QED BY <1>1, <1>2, <1>3, <1>4, <1>5, <1>6, <1>7, <1>8 DEF InstallNext

\* No fetch is without its time limit, and no other step has it (LimitIsOn).
THEOREM TimeLimited == InstallSpec => []LimitIsOn
<1>1. InstallInit => LimitIsOn
  BY DEF InstallInit, LimitIsOn, Fetching
<1> QED BY <1>1, LimitStep, InstallInvariant, PTL DEF InstallSpec

\* All attempts of a fetch share one limit: a retry does not set it anew (OneLimit).
THEOREM SharedLimit == InstallSpec => OneLimit
<1> DEFINE Same == alarm /\ alarm' => resource' = resource /\ attempt' \in {attempt, attempt + 1}
<1>1. LimitIsOn /\ LimitIsOn' /\ [InstallNext]_installVars => [Same]_installVars
  <2> SUFFICES ASSUME LimitIsOn, LimitIsOn', InstallNext, alarm, alarm'
               PROVE  resource' = resource /\ attempt' \in {attempt, attempt + 1}
    OBVIOUS
  <2>1. pc \in Fetching /\ pc' \in Fetching
    BY DEF LimitIsOn
  <2>2. \/ Connect \/ Disrupted \/ Retry
        \/ \E c \in Component : Damage(c)
    BY <2>1 DEF Fetching, InstallNext, Invoke, ReadBundle, Delivered, Expire, Fail, Killed, Raised, Metadata,
       LookInCache, Program, Open, Write, Rename, Stage, Ask, Healthy, Account, Copy, Describe,
       Connection, CopyTool
  <2> QED BY <2>2 DEF Connect, Disrupted, Retry, Damage, fetching
<1> QED BY <1>1, TimeLimited, PTL DEF InstallSpec, OneLimit

-----------------------------------------------------------------------------
(***************************************************************************)
(* AgentUpdate.                                                            *)
(***************************************************************************)
RollbackFits == rollback = NoPackage \/ Whole(rollback)

\* While it runs an updater has a workspace and reports nothing.
Busy == updater # Idle => told = "nothing" /\ updater.target # before /\ workspace # "absent"

\* Where the old package is, and with it the marker.
Kept ==
  /\ updater.pc \in {"prepare", "keep", "mark"} =>
       workspace = "plain" /\ installed = Package(before) /\ service = "active"
  /\ updater.pc = "keep" => \A n \in Name : n < updater.next => previous[n] = before
  /\ updater.pc \in {"stop", "replace", "start", "verify", "undo", "putBack", "restart", "recheck",
                     "forget", "retain"} => workspace = "marked"
  /\ updater.pc \in {"mark", "stop", "replace", "start", "verify", "undo", "putBack", "restart",
                     "recheck", "unmark", "forget", "retain"} => previous = Package(before)
  /\ updater.pc = "finish" => rollback = Package(before)
  /\ updater.pc \notin {"idle", "forget", "retain", "finish"} => RollbackFits

\* What is installed, and whether it runs.
Placed ==
  /\ updater.pc = "stop" => installed = Package(before)
  /\ updater.pc = "replace" => \A n \in Name : n < updater.next => installed[n] = updater.target
  /\ updater.pc \in {"start", "verify", "forget", "retain", "finish"} =>
       installed = Package(updater.target)
  /\ updater.pc = "putBack" => \A n \in Name : n < updater.next => installed[n] = before
  /\ updater.pc \in {"restart", "recheck", "unmark"} => installed = Package(before)
  /\ updater.pc \in {"unmark", "forget", "retain", "finish"} => service = "active"

\* Without a workspace everything is as an update leaves it.
Quiet ==
  workspace = "absent" =>
    /\ updater = Idle /\ Whole(installed) /\ service # "stopped"
    /\ previous = NoPackage /\ RollbackFits

UpdateInv ==
  /\ TypeOK /\ Busy /\ Kept /\ Placed /\ Quiet
  /\ OldPackageKept /\ ReportsAreTrue

-----------------------------------------------------------------------------
\* An updater that runs is one of Updater, and the other is Idle.
LEMMA Shape ==
  ASSUME TypeOK
  PROVE  /\ updater = Idle <=> updater.pc = "idle"
         /\ updater # Idle => updater \in Updater
  BY DEF TypeOK, Updater, Idle

LEMMA Packages ==
  /\ \A v \in Version : Package(v) \in [Name -> Version]
  /\ \A v \in Version : Package(v) \in [Name -> Version \union {None}]
  /\ NoPackage \in [Name -> Version \union {None}]
  /\ 1 \in Name /\ Files \in Name
  BY PackageAssumption DEF Package, NoPackage, Name

\* The next step is typed, and knows how far the last one came.
LEMMA Going ==
  ASSUME updater \in Updater, NEW next, GoTo(next),
         next \in {"prepare", "keep", "mark", "stop", "replace", "start", "verify", "undo", "putBack",
                   "restart", "recheck", "unmark", "forget", "retain", "finish"}
  PROVE  /\ updater' \in Updater /\ updater'.target = updater.target
         /\ updater'.pc = next /\ updater'.next = 1
  BY Packages DEF GoTo, Updater

LEMMA Advancing ==
  ASSUME updater \in Updater, NEW next, Advance(next),
         next \in {"mark", "start", "restart", "retain"}
  PROVE  /\ updater' \in Updater /\ updater'.target = updater.target
         /\ IF updater.next = Files THEN updater'.pc = next /\ updater'.next = 1
            ELSE updater'.pc = updater.pc /\ updater'.next = updater.next + 1
<1>1. CASE updater.next = Files
  BY <1>1, Packages DEF Advance, Updater
<1>2. CASE updater.next # Files
  <2>1. updater.next + 1 \in Name
    BY <1>2, PackageAssumption DEF Updater, Name
  <2> QED BY <1>2, <2>1 DEF Advance, Updater
<1> QED BY <1>1, <1>2

LEMMA InitUpdate == Init => UpdateInv
<1> SUFFICES ASSUME Init PROVE UpdateInv
  OBVIOUS
<1>1. TypeOK
  BY Packages DEF Init, TypeOK
<1>2. Busy /\ Kept /\ Placed /\ ReportsAreTrue
  BY DEF Init, Idle, Busy, Kept, Placed, ReportsAreTrue
<1>3. Quiet /\ OldPackageKept
  BY DEF Init, Quiet, OldPackageKept, Whole, RollbackFits
<1> QED BY <1>1, <1>2, <1>3 DEF UpdateInv

\* The types are kept.
LEMMA TypeStep == UpdateInv /\ [Next]_vars => TypeOK'
<1> SUFFICES ASSUME TypeOK, Kept, [Next]_vars PROVE TypeOK'
  BY DEF UpdateInv
<1> USE PackageAssumption, Shape, Packages
<1>1. ASSUME NEW target \in Version, Begin(target) PROVE TypeOK'
  BY <1>1 DEF Begin, TypeOK, Updater
<1>2. CASE Cancel \/ Restored \/ Finish
  BY <1>2 DEF Cancel, Restored, Finish, End, TypeOK
<1>3. CASE Confirm \/ Mark \/ Stop \/ Start \/ Verify \/ Except \/ Undo \/ Restart \/ Recheck \/ Retain
  <2>1. updater \in Updater
    BY <1>3 DEF Confirm, Mark, Stop, Start, Verify, Except, Undo, Restart, Recheck, Retain, At, Idle
  <2>2. updater' \in Updater
    BY <1>3, <2>1, Going DEF Confirm, Mark, Stop, Start, Verify, Except, Undo, Restart, Recheck, Retain
  <2> QED BY <1>3, <2>2 DEF Confirm, Mark, Stop, Start, Verify, Except, Undo, Restart, Recheck, Retain,
        TypeOK
<1>4. CASE KeepPrevious \/ Replace \/ PutBack \/ Forget
  <2>0. updater \in Updater
    BY <1>4 DEF KeepPrevious, Replace, PutBack, Forget, At, Idle
  <2>1. updater' \in Updater
    BY <1>4, <2>0, Advancing DEF KeepPrevious, Replace, PutBack, Forget
  <2>2. updater.next \in Name /\ updater.target \in Version
    BY <2>0 DEF Updater
  <2>3. CASE KeepPrevious
    BY <2>1, <2>2, <2>3 DEF KeepPrevious, TypeOK
  <2>4. CASE Replace
    BY <2>1, <2>2, <2>4 DEF Replace, TypeOK
  <2>5. CASE PutBack
    BY <2>1, <2>2, <2>5 DEF PutBack, TypeOK, Kept, At, Package
  <2>6. CASE Forget
    BY <2>1, <2>2, <2>6 DEF Forget, TypeOK
  <2> QED BY <1>4, <2>3, <2>4, <2>5, <2>6
<1>5. CASE Raise \/ Kill \/ Reboot
  BY <1>5 DEF Raise, Kill, Reboot, End, TypeOK
<1>6. CASE UNCHANGED vars
  BY <1>6 DEF vars, TypeOK
<1> QED BY <1>1, <1>2, <1>3, <1>4, <1>5, <1>6 DEF Next

\* How a run that ends leaves things.
LEMMA Ended ==
  ASSUME UpdateInv, NEW outcome, End(outcome),
         installed' = installed, rollback' = rollback, before' = before,
         updater # Idle,
         service' \in {"active", "failed", "stopped"},
         workspace # "marked" => service' # "stopped",
         \/ outcome \in {"cancelled", "failed"}
         \/ workspace = "plain" /\ outcome = "updated" /\ updater.pc = "finish"
         \/ workspace = "plain" /\ outcome = "restored" /\ updater.pc = "unmark"
  PROVE  (Busy /\ Kept /\ Placed /\ Quiet /\ OldPackageKept /\ ReportsAreTrue)'
<1> USE Shape, Packages DEF UpdateInv
<1>1. updater' = Idle /\ updater'.pc = "idle"
  BY DEF End, Idle
<1>2. (Busy /\ Kept /\ Placed)'
  BY <1>1 DEF Busy, Kept, Placed
<1>3. workspace # "marked" => updater.pc \in {"prepare", "keep", "mark", "unmark", "finish"}
  BY DEF TypeOK, Updater, Kept
<1>4. workspace # "marked" => /\ installed = Package(before) \/ updater.pc = "finish"
                             /\ Whole(installed) /\ RollbackFits
  <2>1. CASE updater.pc = "finish"
    BY <2>1 DEF Kept, Placed, Whole, RollbackFits, TypeOK, Updater
  <2>2. CASE updater.pc \in {"prepare", "keep", "mark", "unmark"}
    BY <2>2 DEF Kept, Placed, Whole, TypeOK
  <2> QED BY <1>3, <2>1, <2>2
<1>5. Quiet'
  BY <1>1, <1>4 DEF End, Quiet, Whole, RollbackFits
<1>6. OldPackageKept'
  <2>1. CASE workspace = "marked"
    BY <2>1 DEF End, OldPackageKept
  <2>2. CASE workspace # "marked"
    BY <2>2, <1>4 DEF OldPackageKept, Kept
  <2> QED BY <2>1, <2>2
<1>7. ReportsAreTrue'
  <2>1. CASE outcome = "updated"
    <3>1. installed = Package(updater.target) /\ rollback = Package(before)
      BY <2>1 DEF Kept, Placed
    <3>2. Package(updater.target) # Package(before)
      BY DEF Busy, Package
    <3>3. Whole(installed)
      BY <3>1 DEF Whole, TypeOK, Updater
    <3> QED BY <2>1, <3>1, <3>2, <3>3 DEF End, ReportsAreTrue
  <2>2. CASE outcome = "restored"
    BY <2>2 DEF End, ReportsAreTrue, Placed
  <2>3. CASE outcome \in {"cancelled", "failed"}
    BY <2>3 DEF End, ReportsAreTrue
  <2> QED BY <2>1, <2>2, <2>3
<1> QED BY <1>2, <1>5, <1>6, <1>7

\* An update begins over a whole installation.
LEMMA Begun ==
  ASSUME UpdateInv, NEW target \in Version, Begin(target)
  PROVE  (Busy /\ Kept /\ Placed /\ Quiet /\ OldPackageKept /\ ReportsAreTrue)'
<1> USE Packages DEF UpdateInv, Begin
<1>1. CASE Accepts(target)
  <2>1. installed = Package(installed[1]) /\ installed[1] # target /\ RollbackFits
    BY <1>1 DEF Accepts, Quiet, Whole, Package
  <2>2. /\ updater' = [pc |-> "prepare", target |-> target, next |-> 1]
        /\ workspace' = "plain" /\ before' = installed[1] /\ told' = "nothing"
        /\ service = "active"
    BY <1>1 DEF Accepts
  <2>3. (Busy /\ Placed /\ ReportsAreTrue /\ Quiet)'
    BY <2>1, <2>2 DEF Busy, Placed, ReportsAreTrue, Quiet
  <2>4. (Kept /\ OldPackageKept)'
    BY <2>1, <2>2 DEF Kept, OldPackageKept, RollbackFits, Whole
  <2> QED BY <2>3, <2>4
<1>2. CASE ~Accepts(target)
  BY <1>2 DEF Busy, Kept, Placed, Quiet, OldPackageKept, ReportsAreTrue, Whole, RollbackFits
<1> QED BY <1>1, <1>2

\* The steps of an updater that goes on.
LEMMA RunStep ==
  ASSUME UpdateInv,
         Confirm \/ Mark \/ Stop \/ Start \/ Verify \/ Except \/ Undo \/ Restart \/ Recheck \/ Retain
  PROVE  (Busy /\ Kept /\ Placed /\ Quiet /\ OldPackageKept /\ ReportsAreTrue)'
<1> USE DEF UpdateInv
<1>1. updater \in Updater /\ updater # Idle
  BY Shape DEF Confirm, Mark, Stop, Start, Verify, Except, Undo, Restart, Recheck, Retain, At, Idle
<1>2. updater' # Idle /\ updater'.target = updater.target /\ updater'.next = 1
  BY <1>1, Going DEF Confirm, Mark, Stop, Start, Verify, Except, Undo, Restart, Recheck, Retain, Updater,
     Idle
<1>3. (Busy /\ Quiet)'
  BY <1>1, <1>2 DEF Confirm, Mark, Stop, Start, Verify, Except, Undo, Restart, Recheck, Retain, Busy,
     Quiet
<1>4. Kept' /\ Placed'
  <2>1. CASE Confirm
    BY <1>1, <1>2, <2>1, Going DEF Confirm, At, Kept, Placed, RollbackFits, Whole, Name
  <2>2. CASE Mark
    BY <1>1, <1>2, <2>2, Going DEF Mark, At, Kept, Placed, RollbackFits, Whole
  <2>3. CASE Stop
    BY <1>1, <1>2, <2>3, Going DEF Stop, At, Kept, Placed, RollbackFits, Whole, Name
  <2>4. CASE Start
    BY <1>1, <1>2, <2>4, Going DEF Start, At, Kept, Placed, RollbackFits, Whole
  <2>5. CASE Verify
    BY <1>1, <1>2, <2>5, Going DEF Verify, At, Kept, Placed, RollbackFits, Whole
  <2>6. CASE Except
    BY <1>1, <1>2, <2>6, Going DEF Except, At, Kept, Placed, RollbackFits, Whole
  <2>7. CASE Undo
    BY <1>1, <1>2, <2>7, Going DEF Undo, At, Kept, Placed, RollbackFits, Whole, Name
  <2>8. CASE Restart
    BY <1>1, <1>2, <2>8, Going DEF Restart, At, Kept, Placed, RollbackFits, Whole
  <2>9. CASE Recheck
    BY <1>1, <1>2, <2>9, Going DEF Recheck, At, Kept, Placed, RollbackFits, Whole
  <2>10. CASE Retain
    BY <1>1, <1>2, <2>10, Going DEF Retain, At, Kept, Placed
  <2> QED BY <2>1, <2>2, <2>3, <2>4, <2>5, <2>6, <2>7, <2>8, <2>9, <2>10
<1>5. OldPackageKept'
  BY DEF Confirm, Mark, Stop, Start, Verify, Except, Undo, Restart, Recheck, Retain, OldPackageKept,
     Kept, At
<1>6. ReportsAreTrue'
  BY <1>1 DEF Confirm, Mark, Stop, Start, Verify, Except, Undo, Restart, Recheck, Retain,
     ReportsAreTrue, Busy
<1> QED BY <1>3, <1>4, <1>5, <1>6

\* A loop over the files that is done has done them all.
LEMMA Filled ==
  ASSUME NEW files, files \in [Name -> Version \union {None}] \/ files \in [Name -> Version],
         NEW last \in Name, NEW v, \A n \in Name : n < last => files[n] = v,
         NEW next, next = [files EXCEPT ![last] = v]
  PROVE  /\ last = Files => next = Package(v)
         /\ \A n \in Name : n < last + 1 => next[n] = v
<1>1. \A n \in Name : n < last + 1 => n < last \/ n = last
  BY PackageAssumption DEF Name
<1>2. \A n \in Name : n < last + 1 => next[n] = v
  BY <1>1
<1>3. last = Files => \A n \in Name : n < last + 1
  BY PackageAssumption DEF Name
<1>4. next = [n \in Name |-> next[n]]
  OBVIOUS
<1> QED BY <1>2, <1>3, <1>4 DEF Package

\* The steps that take one file after the other.
LEMMA FileStep ==
  ASSUME UpdateInv, KeepPrevious \/ Replace \/ PutBack \/ Forget
  PROVE  (Busy /\ Kept /\ Placed /\ Quiet /\ OldPackageKept /\ ReportsAreTrue)'
<1> USE DEF UpdateInv
<1>1. updater \in Updater /\ updater # Idle /\ updater.next \in Name
  BY Shape DEF KeepPrevious, Replace, PutBack, Forget, At, Idle, Updater
<1>2. updater' # Idle /\ updater'.target = updater.target
  BY <1>1, Advancing DEF KeepPrevious, Replace, PutBack, Forget, Updater, Idle
<1>3. (Busy /\ Quiet)'
  BY <1>1, <1>2 DEF KeepPrevious, Replace, PutBack, Forget, Busy, Quiet
<1>4. ReportsAreTrue'
  BY <1>1 DEF KeepPrevious, Replace, PutBack, Forget, ReportsAreTrue, Busy
<1>5. CASE KeepPrevious
  <2>1. /\ previous' = [previous EXCEPT ![updater.next] = before]
        /\ previous \in [Name -> Version \union {None}]
        /\ \A n \in Name : n < updater.next => previous[n] = before
    BY <1>1, <1>5 DEF KeepPrevious, At, Kept, Package, TypeOK
  <2>2. /\ updater.next = Files => previous' = Package(before)
        /\ \A n \in Name : n < updater.next + 1 => previous'[n] = before
    <3> HIDE DEF UpdateInv
    <3> QED BY ONLY <1>1, <2>1, Filled
  <2>3. (Kept /\ Placed)'
    BY <1>1, <1>2, <1>5, <2>2, Advancing DEF KeepPrevious, At, Kept, Placed, RollbackFits, Whole
  <2>4. OldPackageKept'
    BY <1>5 DEF KeepPrevious, At, Kept, OldPackageKept
  <2> QED BY <1>3, <1>4, <2>3, <2>4
<1>6. CASE Replace
  <2>1. /\ installed' = [installed EXCEPT ![updater.next] = updater.target]
        /\ installed \in [Name -> Version]
        /\ \A n \in Name : n < updater.next => installed[n] = updater.target
    BY <1>1, <1>6 DEF Replace, At, Placed, TypeOK
  <2>2. /\ updater.next = Files => installed' = Package(updater.target)
        /\ \A n \in Name : n < updater.next + 1 => installed'[n] = updater.target
    <3> DEFINE target == updater.target
    <3>1. /\ installed' = [installed EXCEPT ![updater.next] = target]
          /\ \A n \in Name : n < updater.next => installed[n] = target
      BY ONLY <2>1
    <3> HIDE DEF UpdateInv, target
    <3>2. /\ updater.next = Files => installed' = Package(target)
          /\ \A n \in Name : n < updater.next + 1 => installed'[n] = target
      BY ONLY <1>1, <2>1, <3>1, Filled
    <3> QED BY <3>2 DEF target
  <2>3. (Kept /\ Placed)'
    BY <1>1, <1>2, <1>6, <2>2, Advancing DEF Replace, At, Kept, Placed, RollbackFits, Whole
  <2>4. OldPackageKept'
    BY <1>6 DEF Replace, At, Kept, OldPackageKept
  <2> QED BY <1>3, <1>4, <2>3, <2>4
<1>7. CASE PutBack
  <2>1. /\ installed' = [installed EXCEPT ![updater.next] = before]
        /\ installed \in [Name -> Version]
        /\ \A n \in Name : n < updater.next => installed[n] = before
    BY <1>1, <1>7 DEF PutBack, At, Kept, Placed, Package, TypeOK
  <2>2. /\ updater.next = Files => installed' = Package(before)
        /\ \A n \in Name : n < updater.next + 1 => installed'[n] = before
    <3> HIDE DEF UpdateInv
    <3> QED BY ONLY <1>1, <2>1, Filled
  <2>3. (Kept /\ Placed)'
    BY <1>1, <1>2, <1>7, <2>2, Advancing DEF PutBack, At, Kept, Placed, RollbackFits, Whole
  <2>4. OldPackageKept'
    BY <1>7 DEF PutBack, At, Kept, OldPackageKept
  <2> QED BY <1>3, <1>4, <2>3, <2>4
<1>8. CASE Forget
  <2>1. updater'.pc \in {"forget", "retain"}
    BY <1>1, <1>8, Advancing DEF Forget, At
  <2>2. (Kept /\ Placed)'
    BY <1>2, <1>8, <2>1 DEF Forget, At, Kept, Placed
  <2>3. OldPackageKept'
    BY <1>8 DEF Forget, At, Kept, OldPackageKept
  <2> QED BY <1>3, <1>4, <2>2, <2>3
<1> QED BY <1>5, <1>6, <1>7, <1>8

\* Each step keeps the invariant.
LEMMA InvStep == UpdateInv /\ [Next]_vars => UpdateInv'
<1> DEFINE Rest == Busy /\ Kept /\ Placed /\ Quiet /\ OldPackageKept /\ ReportsAreTrue
<1> SUFFICES ASSUME UpdateInv, [Next]_vars PROVE Rest'
  BY TypeStep DEF UpdateInv
<1>1. ASSUME NEW target \in Version, Begin(target) PROVE Rest'
  BY <1>1, Begun
<1>2. CASE Cancel
  <2>1. updater # Idle /\ service = "active"
    BY <1>2 DEF Cancel, At, Idle, UpdateInv, Kept
  <2>2. End("cancelled") /\ installed' = installed /\ rollback' = rollback /\ before' = before
        /\ service' = "active"
    BY <1>2, <2>1 DEF Cancel
  <2> QED BY <2>1, <2>2, Ended
<1>3. CASE Confirm \/ Mark \/ Stop \/ Start \/ Verify \/ Except \/ Undo \/ Restart \/ Recheck \/ Retain
  BY <1>3, RunStep
<1>4. CASE KeepPrevious \/ Replace \/ PutBack \/ Forget
  BY <1>4, FileStep
<1>5. CASE Restored \/ Finish
  <2>1. updater # Idle /\ service = "active"
    BY <1>5 DEF Restored, Finish, At, Idle, UpdateInv, Placed
  <2>2. CASE workspace = "marked"
    <3>1. workspace' = "plain" /\ UNCHANGED <<previous, updater, told, installed, service, rollback, before>>
      BY <1>5, <2>2 DEF Restored, Finish
    <3>2. updater.pc \in {"unmark", "finish"}
      BY <1>5 DEF Restored, Finish, At
    <3> QED BY <3>1, <3>2, <2>1 DEF UpdateInv, Busy, Kept, Placed, Quiet, OldPackageKept, ReportsAreTrue,
          RollbackFits, Whole
  <2>3. installed' = installed /\ rollback' = rollback /\ before' = before /\ service' = "active"
    BY <1>5, <2>1 DEF Restored, Finish
  <2>4. CASE updater.pc = "unmark" /\ workspace = "plain" /\ End("restored")
    BY <2>1, <2>3, <2>4, Ended
  <2>5. CASE updater.pc = "finish" /\ workspace = "plain" /\ End("updated")
    BY <2>1, <2>3, <2>5, Ended
  <2> QED BY <1>5, <2>2, <2>4, <2>5 DEF Restored, Finish, At
<1>6. CASE Raise
  <2>1. service' \in {"active", "failed", "stopped"}
    BY <1>6 DEF Raise, UpdateInv, TypeOK
  <2>2. workspace # "marked" => updater.pc \in {"prepare", "keep", "mark", "unmark", "finish"}
    BY <1>6, Shape DEF Raise, UpdateInv, TypeOK, Updater, Kept
  <2>3. workspace # "marked" => service' = "active"
    BY <1>6, <2>2 DEF Raise, At, UpdateInv, Kept, Placed
  <2>4. updater # Idle /\ End("failed") /\ installed' = installed /\ rollback' = rollback
        /\ before' = before
    BY <1>6 DEF Raise
  <2> QED BY <2>1, <2>3, <2>4, Ended
<1>7. CASE Kill \/ Reboot
  <2>1. updater' = Idle /\ updater'.pc = "idle"
    BY <1>7 DEF Kill, Reboot, Idle
  <2>2. (Busy /\ Kept /\ Placed)'
    BY <2>1 DEF Busy, Kept, Placed
  <2>3. Quiet' /\ OldPackageKept'
    BY <1>7, <2>1 DEF Kill, Reboot, UpdateInv, Quiet, OldPackageKept, Whole, RollbackFits
  <2>4. ReportsAreTrue'
    BY <1>7 DEF Kill, Reboot, UpdateInv, ReportsAreTrue, Whole
  <2> QED BY <2>2, <2>3, <2>4
<1>8. CASE UNCHANGED vars
  BY <1>8 DEF vars, UpdateInv, Busy, Kept, Placed, Quiet, OldPackageKept, ReportsAreTrue, RollbackFits,
     Whole
<1> QED BY <1>1, <1>2, <1>3, <1>4, <1>5, <1>6, <1>7, <1>8 DEF Next

-----------------------------------------------------------------------------
(***************************************************************************)
(* The theorems.                                                           *)
(***************************************************************************)

\* Steps, files, marker and package stay in step: the inductive invariant.
THEOREM UpdateInvariant == Spec => []UpdateInv
<1> QED BY InitUpdate, InvStep, PTL DEF Spec

\* The types; a file that is put back is one of a package.
THEOREM TypeCorrect == Spec => []TypeOK
<1>1. UpdateInv => TypeOK
  BY DEF UpdateInv
<1> QED BY <1>1, UpdateInvariant, PTL

\* Through errors, interrupts, kills and orderly restarts the old package is complete
\* in one place (OldPackageKept).
THEOREM OldKept == Spec => []OldPackageKept
<1>1. UpdateInv => OldPackageKept
  BY DEF UpdateInv
<1> QED BY <1>1, UpdateInvariant, PTL

\* Where nothing is left to inspect nothing is mixed or stopped (QuietIsWhole).
THEOREM QuietWhole == Spec => []QuietIsWhole
<1>1. UpdateInv => QuietIsWhole
  BY DEF UpdateInv, Quiet, QuietIsWhole
<1> QED BY <1>1, UpdateInvariant, PTL

\* What an update reports is so (ReportsAreTrue).
THEOREM TrueReports == Spec => []ReportsAreTrue
<1>1. UpdateInv => ReportsAreTrue
  BY DEF UpdateInv
<1> QED BY <1>1, UpdateInvariant, PTL

\* No half-deleted package refuses the next update for good (RollbackWhole).
THEOREM WholeRollback == Spec => []RollbackWhole
<1>1. UpdateInv => RollbackWhole
  BY DEF UpdateInv, Quiet, RollbackFits, RollbackWhole
<1> QED BY <1>1, UpdateInvariant, PTL

\* The updater starts the service on whole packages only (MixtureNotStarted).
THEOREM NoMixture == Spec => MixtureNotStarted
<1> DEFINE Started ==
      service # "active" /\ service' = "active" /\ (Reboot => At("restart")) => Whole(installed)
<1>1. UpdateInv /\ [Next]_vars => [Started]_vars
  <2> SUFFICES ASSUME UpdateInv, Next, service # "active", service' = "active", Reboot => At("restart")
               PROVE  Whole(installed)
    BY DEF vars
  <2>1. At("start") \/ At("restart")
    BY DEF Next, Begin, Confirm, Cancel, KeepPrevious, Mark, Stop, Replace, Start, Verify, Except, Undo,
       PutBack, Restart, Recheck, Restored, Forget, Retain, Finish, Raise, Kill, At
  <2> QED BY <2>1, Shape DEF At, UpdateInv, TypeOK, Updater, Placed, Whole, Idle
<1> QED BY <1>1, UpdateInvariant, PTL DEF Spec, MixtureNotStarted

-----------------------------------------------------------------------------
(***************************************************************************)
(* AgentUpdate implements AtomicUpdate.  What is seen from outside depends *)
(* on the workspace, on whether an updater runs, and on how far it is.     *)
(***************************************************************************)
LEMMA Uniform == \A v : Versions(Package(v)) = {v}
  BY Packages DEF Versions, Package

\* An updater that goes on shows the package it began with and its target.
LEMMA SeenAlong ==
  ASSUME UpdateInv, updater # Idle, updater' # Idle, workspace' # "absent",
         updater'.target = updater.target, before' = before
  PROVE  /\ SeenPackage = {before} /\ SeenPackage' = SeenPackage /\ Target' = Target
         /\ Place = IF updater.pc \in {"forget", "retain", "finish"} THEN "switching" ELSE "trying"
         /\ Place' = IF updater'.pc \in {"forget", "retain", "finish"} THEN "switching" ELSE "trying"
  BY DEF UpdateInv, Busy, SeenPackage, Target, Place

\* An update that begins, over a whole installation, or is refused.
LEMMA BeginSeen ==
  ASSUME UpdateInv, NEW v \in Version, Begin(v)
  PROVE  Atomic!Begin(v) \/ Atomic!Refuse
<1>1. CASE Accepts(v)
  <2>1. /\ workspace = "absent" /\ installed = Package(installed[1]) /\ installed[1] # v
        /\ updater' = [pc |-> "prepare", target |-> v, next |-> 1] /\ updater' # Idle
        /\ workspace' = "plain" /\ before' = installed[1] /\ told' = "nothing"
        /\ rollback' = rollback
    BY <1>1, Packages DEF UpdateInv, Begin, Accepts, Quiet, Whole, Package, Idle
  <2>2. SeenPackage = {installed[1]} /\ SeenPackage' = SeenPackage
    BY <2>1, Uniform DEF SeenPackage
  <2>3. Place = "quiet" /\ Place' = "trying" /\ Target' = v
    BY <2>1 DEF Place, Target
  <2> QED BY <2>1, <2>2, <2>3 DEF Atomic!Begin
<1>2. CASE ~Accepts(v)
  <2>1. /\ updater = Idle /\ told' = "refused"
        /\ UNCHANGED <<updater, workspace, before, installed, rollback>>
    BY <1>2 DEF Begin
  <2>2. Place \in {"quiet", "left"} /\ Place' = Place /\ Target' = Target /\ SeenPackage' = SeenPackage
    BY <2>1 DEF Place, Target, SeenPackage
  <2> QED BY <2>1, <2>2 DEF Atomic!Refuse
<1> QED BY <1>1, <1>2

\* An updater that ends itself: with its workspace gone nothing was done or all of it.
LEMMA EndSeen ==
  ASSUME UpdateInv, updater # Idle, NEW outcome, End(outcome),
         outcome \in {"cancelled", "failed", "restored", "updated"},
         updater.pc = "finish" => outcome \in {"failed", "updated"},
         updater.pc # "finish" => outcome # "updated",
         workspace = "marked" => outcome = "failed",
         UNCHANGED <<installed, rollback, before>>
  PROVE  Atomic!GoBack \/ Atomic!Switch \/ Atomic!Leave
<1> USE DEF UpdateInv
<1>1. /\ workspace \in {"plain", "marked"} /\ SeenPackage = {before} /\ Target' = None
      /\ Target = updater.target /\ told' = outcome
      /\ Place = IF updater.pc \in {"forget", "retain", "finish"} THEN "switching" ELSE "trying"
  BY DEF TypeOK, Busy, End, SeenPackage, Target, Place
<1>2. CASE workspace = "marked"
  <2>1. Place' = "left" /\ SeenPackage' = SeenPackage
    BY <1>1, <1>2 DEF End, Place, SeenPackage
  <2> QED BY <1>1, <1>2, <2>1 DEF Atomic!Leave
<1>3. CASE workspace = "plain" /\ updater.pc = "finish"
  <2>1. installed = Package(updater.target) /\ rollback = Package(before)
    BY <1>3 DEF Kept, Placed
  <2>2. Place' = "quiet" /\ SeenPackage' = {updater.target}
    BY <1>3, <2>1, Uniform DEF End, Place, SeenPackage
  <2> QED BY <1>1, <1>3, <2>1, <2>2, Uniform DEF Atomic!Switch
<1>4. CASE workspace = "plain" /\ updater.pc # "finish"
  <2>1. updater.pc \in {"prepare", "keep", "mark", "unmark"}
    BY <1>4, Shape DEF TypeOK, Updater, Kept
  <2>2. installed = Package(before)
    BY <2>1 DEF Kept, Placed
  <2>3. Place' = "quiet" /\ SeenPackage' = {before}
    BY <1>4, <2>2, Uniform DEF End, Place, SeenPackage
  <2> QED BY <1>1, <1>4, <2>1, <2>3 DEF Atomic!GoBack
<1> QED BY <1>1, <1>2, <1>3, <1>4

\* The steps of an updater that goes on: the old package is accepted as the one to
\* retain, or exchanged with it, or nothing of it is seen.
LEMMA AlongSeen ==
  ASSUME UpdateInv,
         \/ Confirm \/ Mark \/ Stop \/ Start \/ Verify \/ Except \/ Undo \/ Restart \/ Recheck \/ Retain
         \/ KeepPrevious \/ Replace \/ PutBack \/ Forget
  PROVE  Atomic!Accept \/ Atomic!Exchange \/ UNCHANGED Atomic!vars
<1> USE DEF UpdateInv
<1>1. updater \in Updater /\ updater # Idle /\ updater.next \in Name
  BY Shape DEF Confirm, Mark, Stop, Start, Verify, Except, Undo, Restart, Recheck, Retain, KeepPrevious,
     Replace, PutBack, Forget, At, Idle, Updater
<1>2. updater' # Idle /\ updater'.target = updater.target
  <2>1. CASE KeepPrevious \/ Replace \/ PutBack \/ Forget
    BY <1>1, <2>1, Advancing DEF KeepPrevious, Replace, PutBack, Forget, Updater, Idle
  <2>2. CASE Confirm \/ Mark \/ Stop \/ Start \/ Verify \/ Except \/ Undo \/ Restart \/ Recheck \/ Retain
    BY <1>1, <2>2, Going DEF Confirm, Mark, Stop, Start, Verify, Except, Undo, Restart, Recheck, Retain,
       Updater, Idle
  <2> QED BY <2>1, <2>2
<1>3. before' = before /\ workspace' # "absent" /\ told' = told
  BY <1>1 DEF Confirm, Mark, Stop, Start, Verify, Except, Undo, Restart, Recheck, Retain, KeepPrevious,
     Replace, PutBack, Forget, Busy
<1>4. /\ SeenPackage = {before} /\ SeenPackage' = SeenPackage /\ Target' = Target
      /\ Place = IF updater.pc \in {"forget", "retain", "finish"} THEN "switching" ELSE "trying"
      /\ Place' = IF updater'.pc \in {"forget", "retain", "finish"} THEN "switching" ELSE "trying"
  BY <1>1, <1>2, <1>3, SeenAlong
<1>5. CASE Verify
  <2>1. Place = "trying" /\ Place' = "switching" /\ rollback' = rollback
    BY <1>1, <1>4, <1>5, Going DEF Verify, At
  <2> QED BY <1>3, <1>4, <2>1 DEF Atomic!Accept
<1>6. CASE Forget
  <2>1. Place = "switching" /\ Place' = "switching"
    BY <1>1, <1>4, <1>6, Advancing DEF Forget, At
  <2>2. Versions(rollback') \subseteq Versions(rollback) \union {None}
    BY <1>1, <1>6 DEF Forget, TypeOK, Versions
  <2> QED BY <1>3, <1>4, <2>1, <2>2 DEF Atomic!Exchange
<1>7. CASE Retain
  <2>1. Place = "switching" /\ Place' = "switching"
    BY <1>1, <1>4, <1>7, Going DEF Retain, At
  <2>2. Versions(rollback') = {before}
    BY <1>7, Uniform DEF Retain, At, Kept
  <2> QED BY <1>3, <1>4, <2>1, <2>2 DEF Atomic!Exchange
<1>8. CASE KeepPrevious \/ Replace \/ PutBack
  <2>1. Place' = Place /\ rollback' = rollback
    BY <1>1, <1>4, <1>8, Advancing DEF KeepPrevious, Replace, PutBack, At
  <2> QED BY <1>3, <1>4, <2>1 DEF Atomic!vars
<1>9. CASE Confirm \/ Mark \/ Stop \/ Start \/ Except \/ Undo \/ Restart \/ Recheck
  <2>1. Place' = Place /\ rollback' = rollback
    BY <1>1, <1>4, <1>9, Going DEF Confirm, Mark, Stop, Start, Except, Undo, Restart, Recheck, At
  <2> QED BY <1>3, <1>4, <2>1 DEF Atomic!vars
<1> QED BY <1>5, <1>6, <1>7, <1>8, <1>9

\* Every step is one of AtomicUpdate's, or none that is seen.
LEMMA StepSeen == UpdateInv /\ [Next]_vars => [Atomic!Next]_(Atomic!vars)
<1> SUFFICES ASSUME UpdateInv, [Next]_vars PROVE Atomic!Next \/ UNCHANGED Atomic!vars
  OBVIOUS
<1>1. ASSUME NEW v \in Version, Begin(v) PROVE Atomic!Next
  BY <1>1, BeginSeen DEF Atomic!Next
<1>2. CASE \/ Confirm \/ Mark \/ Stop \/ Start \/ Verify \/ Except \/ Undo \/ Restart \/ Recheck \/ Retain
           \/ KeepPrevious \/ Replace \/ PutBack \/ Forget
  BY <1>2, AlongSeen DEF Atomic!Next
<1>3. CASE Cancel
  <2>1. /\ updater # Idle /\ updater.pc # "finish" /\ workspace # "marked"
        /\ End("cancelled") /\ UNCHANGED <<installed, rollback, before>>
    BY <1>3 DEF Cancel, At, Idle, UpdateInv, Kept
  <2> QED BY <2>1, EndSeen DEF Atomic!Next
<1>4. CASE Restored \/ Finish
  <2>1. updater # Idle /\ UNCHANGED <<installed, rollback, before>>
    BY <1>4 DEF Restored, Finish, At, Idle
  <2>2. CASE workspace = "marked" /\ workspace' = "plain" /\ UNCHANGED <<updater, told>>
    <3>1. SeenPackage' = SeenPackage /\ Target' = Target /\ Place' = Place
      BY <2>1, <2>2 DEF SeenPackage, Target, Place
    <3> QED BY <2>1, <2>2, <3>1 DEF Atomic!vars
  <2>3. CASE workspace = "plain" /\ updater.pc = "unmark" /\ End("restored")
    BY <2>1, <2>3, EndSeen DEF Atomic!Next
  <2>4. CASE workspace = "plain" /\ updater.pc = "finish" /\ End("updated")
    BY <2>1, <2>4, EndSeen DEF Atomic!Next
  <2> QED BY <1>4, <2>2, <2>3, <2>4 DEF Restored, Finish, At
<1>5. CASE Raise
  <2>1. updater # Idle /\ End("failed") /\ UNCHANGED <<installed, rollback, before>>
    BY <1>5 DEF Raise
  <2> QED BY <2>1, EndSeen DEF Atomic!Next
<1>6. CASE (Kill \/ Reboot) /\ updater # Idle
  <2>1. /\ updater' = Idle /\ told' = "failed" /\ workspace # "absent"
        /\ UNCHANGED <<workspace, rollback, before>>
    BY <1>6 DEF Kill, Reboot, UpdateInv, Busy
  <2>2. Place \in {"trying", "switching"} /\ Place' = "left" /\ Target' = None
        /\ SeenPackage' = SeenPackage
    BY <1>6, <2>1 DEF Place, Target, SeenPackage
  <2> QED BY <2>1, <2>2 DEF Atomic!Leave, Atomic!Next
<1>7. CASE Reboot /\ updater = Idle
  <2>1. SeenPackage' = SeenPackage /\ Target' = Target /\ Place' = Place
    BY <1>7 DEF Reboot, SeenPackage, Target, Place
  <2> QED BY <1>7, <2>1 DEF Reboot, Atomic!vars
<1>8. CASE UNCHANGED vars
  BY <1>8 DEF vars, Atomic!vars, SeenPackage, Target, Place
<1> QED BY <1>1, <1>2, <1>3, <1>4, <1>5, <1>6, <1>7, <1>8 DEF Next, Kill

\* Cut short anywhere by an error, a signal or an orderly restart, an update is one
\* step, none, or left to be inspected (ImplementsUpdate).
THEOREM UpdateImplemented == Spec => ImplementsUpdate
<1>1. Init => Atomic!Init
  <2> SUFFICES ASSUME Init PROVE Atomic!Init
    OBVIOUS
  <2>1. PICK v \in Version : installed = Package(v)
    BY DEF Init
  <2>2. SeenPackage = {v} /\ Target = None /\ Place = "quiet"
    BY <2>1, Uniform DEF Init, SeenPackage, Target, Place
  <2>3. Versions(rollback) = {None} /\ told = "nothing"
    BY Uniform DEF Init, NoPackage
  <2> QED BY <2>2, <2>3 DEF Atomic!Init
<1>2. ImplementsUpdate <=> Atomic!Init /\ [][Atomic!Next]_(Atomic!vars)
  BY DEF ImplementsUpdate, Atomic!Spec
<1> QED BY <1>1, <1>2, StepSeen, UpdateInvariant, PTL DEF Spec
=============================================================================
