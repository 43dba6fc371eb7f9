------------------------------- MODULE Backup -------------------------------
(***************************************************************************)
(* The backup program: a copy of the database is written beside the old    *)
(* ones, verified, published under the time it was begun, and then the     *)
(* oldest are removed.  status.json tells what the latest attempt did.     *)
(*                                                                         *)
(* Any call to the file system may fail and the process may be killed      *)
(* between any two of them.  The manual asks for one process at a time;    *)
(* the model has several, because a timer and an administrator both start  *)
(* it, and says which guarantees need the process to be alone.             *)
(***************************************************************************)
EXTENDS Naturals, Sequences, FiniteSets, FiniteSetsExt

CONSTANTS
  Writer,       \* processes that can run at the same time
  Keep,         \* backups to keep
  SourceStamp,  \* the database's own name if it lies in the directory, or 0
  ClockStepsBack, \* may the wall clock be set back
  MaxTime,      \* the clock stops here
  MaxFiles      \* backups that are published at most

ASSUME BoundsAssumption ==
  /\ {Keep, MaxTime, MaxFiles} \subseteq Nat \ {0}
  /\ SourceStamp \in 0..1
  /\ ClockStepsBack \in BOOLEAN

VARIABLES
  now,        \* the wall clock
  sound,      \* does the database pass the integrity check
  dir,        \* the published files
  status,     \* status.json
  run,        \* what each process is doing
  published   \* history: every file ever published, in order

vars == <<now, sound, dir, status, run, published>>

-----------------------------------------------------------------------------
Time == 1..MaxTime

\* A file is named after the time its run began.
File == [stamp: Time, sound: BOOLEAN]

Idle == [pc |-> "idle"]

\* target: the name drawn, 0 before that; partial: is the copy sound; names:
\* what is left of the listing; alone: no other process ran meanwhile (history).
Run == [pc: {"create", "vacuum", "verify", "publish", "list", "rotate", "finish"},
        target: Time \union {0}, partial: BOOLEAN, names: SUBSET Time,
        error: BOOLEAN, alone: BOOLEAN]

Status == [state: {"none", "running", "failed", "success"},
           file: Time \union {0}, alone: BOOLEAN]

Stamps(files) == {f.stamp : f \in files}

Running == {w \in Writer : run[w] # Idle}

TypeOK ==
  /\ now \in Time /\ sound \in BOOLEAN
  /\ dir \subseteq File /\ \A f, g \in dir : f.stamp = g.stamp => f = g
  /\ status \in Status
  /\ run \in [Writer -> Run \union {Idle}]
  /\ published \in Seq(File) /\ Len(published) <= MaxFiles

Init ==
  /\ now = 1 /\ sound = TRUE
  /\ dir = IF SourceStamp = 0 THEN {} ELSE {[stamp |-> SourceStamp, sound |-> TRUE]}
  /\ status = [state |-> "none", file |-> 0, alone |-> TRUE]
  /\ run = [w \in Writer |-> Idle]
  /\ published = <<>>

-----------------------------------------------------------------------------
(***************************************************************************)
(* The surroundings.                                                       *)
(***************************************************************************)
SetClock ==
  /\ now' \in Time
  /\ now' = now + 1 \/ (ClockStepsBack /\ now' < now)
  /\ UNCHANGED <<sound, dir, status, run, published>>

Damage ==
  /\ sound /\ sound' = FALSE
  /\ UNCHANGED <<now, dir, status, run, published>>

-----------------------------------------------------------------------------
(***************************************************************************)
(* CreateObserved, Create and Copy.                                        *)
(***************************************************************************)
Enter(w, pc) == run' = [run EXCEPT ![w].pc = pc]

\* Create returns an error, and the name of the copy only if it is published.
Fail(w) ==
  run' = [run EXCEPT ![w].pc = "finish", ![w].error = TRUE,
                     ![w].target = IF run[w].pc \in {"list", "rotate"} THEN @ ELSE 0]

\* "running" is recorded first; a process that cannot do that does nothing.
Start(w) ==
  /\ run[w] = Idle
  /\ status' = [state |-> "running", file |-> 0, alone |-> Running = {}]
  /\ run' = [v \in Writer |->
       IF v = w THEN [pc |-> "create", target |-> 0, partial |-> FALSE, names |-> {},
                      error |-> FALSE, alone |-> Running = {}]
       ELSE IF v \in Running THEN [run[v] EXCEPT !.alone = FALSE] ELSE Idle]
  /\ UNCHANGED <<now, sound, dir, published>>

\* The name is drawn and refused if it is taken.
Create(w) ==
  /\ run[w].pc = "create"
  /\ IF now \in Stamps(dir)
     THEN Fail(w)
     ELSE run' = [run EXCEPT ![w].pc = "vacuum", ![w].target = now]
  /\ UNCHANGED <<now, sound, dir, status, published>>

\* VACUUM INTO a .partial file: one read of the database, whose faults are
\* copied; the copy may have faults of its own.
Vacuum(w) ==
  /\ run[w].pc = "vacuum"
  /\ \E good \in {sound, FALSE} :
       run' = [run EXCEPT ![w].pc = "verify", ![w].partial = good]
  /\ UNCHANGED <<now, sound, dir, status, published>>

\* (Faulty variant: the database is verified, not the copy.)
VerifySource(w) ==
  /\ run[w].pc = "verify"
  /\ IF sound THEN Enter(w, "publish") ELSE Fail(w)
  /\ UNCHANGED <<now, sound, dir, status, published>>

Verify(w) ==
  /\ run[w].pc = "verify"
  /\ IF run[w].partial THEN Enter(w, "publish") ELSE Fail(w)
  /\ UNCHANGED <<now, sound, dir, status, published>>

\* (Faulty variant: a rename, which replaces what has the name.)
PublishRenaming(w) ==
  /\ run[w].pc = "publish" /\ Len(published) < MaxFiles
  /\ LET file == [stamp |-> run[w].target, sound |-> run[w].partial] IN
     /\ dir' = {f \in dir : f.stamp # file.stamp} \union {file}
     /\ published' = Append(published, file)
     /\ Enter(w, "list")
  /\ UNCHANGED <<now, sound, status>>

\* A hard link, which fails where the name is taken.
Publish(w) ==
  /\ run[w].pc = "publish" /\ Len(published) < MaxFiles
  /\ LET file == [stamp |-> run[w].target, sound |-> run[w].partial] IN
     IF file.stamp \in Stamps(dir)
     THEN Fail(w) /\ UNCHANGED <<dir, published>>
     ELSE /\ dir' = dir \union {file}
          /\ published' = Append(published, file)
          /\ Enter(w, "list")
  /\ UNCHANGED <<now, sound, status>>

\* Only now, with the copy published, is the directory read.
List(w) ==
  /\ run[w].pc = "list"
  /\ run' = [run EXCEPT ![w].pc = "rotate", ![w].names = Stamps(dir)]
  /\ UNCHANGED <<now, sound, dir, status, published>>

\* (Faulty variants: one too few is kept, or one too many.)
SurplusAtKeep(names) == Cardinality(names) >= Keep
SurplusAboveKeep(names) == Cardinality(names) > Keep + 1

Surplus(names) == Cardinality(names) > Keep

\* The first of the sorted names.
Oldest(names) == Min(names)

Spared(name) == name = SourceStamp

\* One turn of the loop.  The oldest name of the list goes, unless it is the
\* database; a name that has disappeared ends the run with an error.
Rotate(w) ==
  /\ run[w].pc = "rotate"
  /\ LET name == Oldest(run[w].names) IN
     \/ /\ ~Surplus(run[w].names)
        /\ Enter(w, "finish") /\ dir' = dir
     \/ /\ Surplus(run[w].names) /\ name \notin Stamps(dir)
        /\ Fail(w) /\ dir' = dir
     \/ /\ Surplus(run[w].names) /\ name \in Stamps(dir)
        /\ dir' = IF Spared(name) THEN dir ELSE {f \in dir : f.stamp # name}
        /\ run' = [run EXCEPT ![w].names = @ \ {name}]
  /\ UNCHANGED <<now, sound, status, published>>

\* A call fails, the five minutes are over or the process is asked to stop.
Break(w) ==
  /\ w \in Running /\ run[w].pc # "finish"
  /\ Fail(w)
  /\ UNCHANGED <<now, sound, dir, status, published>>

\* (Faulty variant: the error of Create is not looked at.)
OutcomeOfAll(w) == "success"

Outcome(w) == IF run[w].error THEN "failed" ELSE "success"

\* The result replaces status.json, unless that fails too.
Finish(w) ==
  /\ run[w].pc = "finish"
  /\ \/ status' = [state |-> Outcome(w), file |-> run[w].target, alone |-> run[w].alone]
     \/ status' = status
  /\ run' = [run EXCEPT ![w] = Idle]
  /\ UNCHANGED <<now, sound, dir, published>>

\* Killed: a .partial file may stay, which nothing reads.
Kill(w) ==
  /\ w \in Running
  /\ run' = [run EXCEPT ![w] = Idle]
  /\ UNCHANGED <<now, sound, dir, status, published>>

Next ==
  \/ SetClock \/ Damage
  \/ \E w \in Writer :
       \/ Start(w) \/ Create(w) \/ Vacuum(w) \/ Verify(w) \/ Publish(w) \/ List(w)
       \/ Rotate(w) \/ Finish(w) \/ Break(w) \/ Kill(w)

Spec == Init /\ [][Next]_vars

-----------------------------------------------------------------------------
(***************************************************************************)
(* Properties.                                                             *)
(***************************************************************************)

\* What is published passed the integrity check, however badly the database
\* fares in the meantime ("The target becomes visible only after
\* verification").
PublishedAreSound ==
  \A f \in dir : f.stamp # SourceStamp => f.sound

\* "Existing files are never replaced": no backup takes the name of one that is
\* there, even if two processes drew the same name or the clock was set back.  (A
\* name that rotation has removed may come back.)
NeverReplaced ==
  [][\A i \in DOMAIN published' \ DOMAIN published :
       published'[i].stamp \notin Stamps(dir)]_vars

\* A backup is gone only if Keep newer ones are there: a failure or a crash at
\* any point, or a second process, never leaves fewer.
NewestKept ==
  \A i \in DOMAIN published :
    published[i] \notin dir =>
      Cardinality({f \in dir : f.stamp > published[i].stamp}) >= Keep

\* While status.json says "success", the file it names is there, if the
\* process that wrote it was alone.
RecordedFileExists ==
  status.state = "success" /\ status.alone => status.file \in Stamps(dir)

\* A success also means that nothing was left over: crashes and failures may
\* pile up backups, but only until a run succeeds.
SurplusTrimmed ==
  status.state = "success" /\ status.alone =>
    Cardinality({f \in dir : f.stamp # SourceStamp}) <= Keep

\* What rotation removes is older than what it keeps (docs/BACKUP.md: the
\* latest Keep backups are kept).  It is, as long as the clock is not set back.
OlderGoFirst ==
  \A i, j \in DOMAIN published :
    i < j /\ published[i] \in dir => published[j] \in dir
=============================================================================
